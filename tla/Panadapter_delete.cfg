SPECIFICATION Spec
CONSTANTS
  Receiver = 0
  Slots = 2
  Bands = {"b20", "b40"}
  Tunings = {20, 30}
  Passbands <- NarrowLower
  Drags = {1}
  SquelchOn = FALSE
  Remote = FALSE
  Wide = FALSE
  MaxAdds = 2
  MaxFo = 21
PROPERTIES
  DeletesSelected
CHECK_DEADLOCK FALSE
