--------------------------- MODULE ChannelHolding ---------------------------
(***************************************************************************)
(* What dspserver promises about its channels, whatever threads and        *)
(* semaphores it is made of: members come and go, hold channels and give   *)
(* them back; a member that leaves holds nothing; the streams are halted   *)
(* only while nobody holds a channel and resumed only for somebody who     *)
(* does.                                                                   *)
(***************************************************************************)
CONSTANTS Clients, Uses

VARIABLES members, holds, running

vars == <<members, holds, running>>

Init == members = {} /\ holds = {} /\ running = TRUE

Join(c) ==
  /\ c \notin members
  /\ members' = members \cup {c}
  /\ UNCHANGED <<holds, running>>

Acquire(u) ==
  /\ u[1] \in members /\ u \notin holds
  /\ holds' = holds \cup {u}
  /\ UNCHANGED <<members, running>>

Release(u) ==
  /\ u \in holds
  /\ holds' = holds \ {u}
  /\ UNCHANGED <<members, running>>

Leave(c) ==
  /\ c \in members
  /\ \A u \in holds : u[1] # c
  /\ members' = members \ {c}
  /\ UNCHANGED <<holds, running>>

Halt ==
  /\ holds = {}
  /\ running' = FALSE
  /\ UNCHANGED <<members, holds>>

Resume ==
  /\ holds # {}
  /\ running' = TRUE
  /\ UNCHANGED <<members, holds>>

Next ==
  \/ \E c \in Clients : Join(c) \/ Leave(c)
  \/ \E u \in Uses : Acquire(u) \/ Release(u)
  \/ Halt
  \/ Resume

Spec == Init /\ [][Next]_vars
=============================================================================
