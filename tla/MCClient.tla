------------------------------ MODULE MCClient ------------------------------
(***************************************************************************)
(* The parts of QtRadio side by side: the audio queue, the readers of the  *)
(* connections, and, in the thread of the window, the panadapter, tuning   *)
(* and the settings, one of them per behaviour, chosen at its start.       *)
(***************************************************************************)
EXTENDS AudioQueue, BandTable, ClientParts, TLC

VARIABLE which

\* Two bands with limits and the two without, as loaded at the first start.
Used == {"b80", "b40", "GEN", "WWV"}
OfUsed(table) == [b \in Used \cap DOMAIN table |-> table[b]]
UsedLimits == OfUsed(Edge)
UsedMemories == OfUsed(LastMemory)
UsedStacks == OfUsed(Stacks)

\* Lines that key, and one that does not.
SomeLines == {[cmd |-> "T", on |-> TRUE], [cmd |-> "T", on |-> FALSE], [cmd |-> "t"]}

\* A setting for every kind of slot.
OneOfEach == {"anf", "nrVals", "preAgc", "agcDecay", "levelerDecay", "cessb",
              "rxFilterWindow", "window", "rxEq", "gain"}

LowerSideband == {<<-3, -1>>}
TwoReceivers == <<1, 2>>

otherVars == <<streamVars, scopeVars, tuneVars, widgetVars, rigVars>>
allVars == <<which, vars, otherVars>>

ClientInit ==
  /\ which \in {"queue", "streams", "scope", "tune", "widgets", "rig"}
  /\ Init
  /\ Streams!Init
  /\ which = "streams" \/ sKind = "audio"
  /\ Scope!Init
  /\ which = "scope" \/ pBand = "b20"
  /\ Tune!Init
  /\ which = "tune" \/ tRx = Tune!Started(7050000, "LSB")
  /\ Widgets!Init
  /\ which = "widgets" \/ wSquelch = [on |-> FALSE, value |-> 0, ticked |-> FALSE]
  /\ Rig!Init
  /\ which = "rig" \/ rAllowed = TRUE

QueueDoes(A) == which = "queue" /\ A /\ UNCHANGED <<which, otherVars>>
StreamsStep ==
  /\ which = "streams" /\ Streams!Next
  /\ UNCHANGED <<which, vars, scopeVars, tuneVars, widgetVars, rigVars>>
ScopeStep ==
  /\ which = "scope" /\ Scope!Next
  /\ UNCHANGED <<which, vars, streamVars, tuneVars, widgetVars, rigVars>>
TuneStep ==
  /\ which = "tune" /\ Tune!Next
  /\ UNCHANGED <<which, vars, streamVars, scopeVars, widgetVars, rigVars>>
WidgetsStep ==
  /\ which = "widgets" /\ Widgets!Next
  /\ UNCHANGED <<which, vars, streamVars, scopeVars, tuneVars, rigVars>>
RigStep ==
  /\ which = "rig" /\ Rig!Next
  /\ UNCHANGED <<which, vars, streamVars, scopeVars, tuneVars, widgetVars>>

ClientNext ==
  \/ QueueDoes(Next) \/ StreamsStep \/ ScopeStep \/ TuneStep \/ WidgetsStep
  \/ RigStep

ClientFairness ==
  WF_allVars(QueueDoes(Decoder)) /\ WF_allVars(QueueDoes(Player)) /\ WF_allVars(QueueDoes(Clear))
ClientSpec == ClientInit /\ [][ClientNext]_allVars /\ ClientFairness

ASSUME Tune!BandPlan
=============================================================================
