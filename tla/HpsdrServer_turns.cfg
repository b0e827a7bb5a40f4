\* One client after the other uses the whole radio and leaves in order.
SPECIFICATION FairSpec
CONSTANTS
  a = a
  b = b
  r1 = r1
  r2 = r2
  t1 = t1
  m1 = m1
  m2 = m2
  Clients = {a}
  RxUnits = {r1, r2}
  TxUnits = {t1}
  Uses <- OneClient
  Overlap = FALSE
  AudioThreads = {m1, m2}
  TxThreads = {m1, m2}
  MaxVisits = 2
  MaxItems = 3
  Nobody = Nobody
INVARIANTS
  PathsMatch
  OneSpeaker
PROPERTIES
  CommandsAnswered
CHECK_DEADLOCK FALSE
