----------------------------- MODULE LossyFifo -----------------------------
(***************************************************************************)
(* What the usage events of app/retention.py may rely on: an accepted      *)
(* event waits, and then it is stored, in the order of acceptance and      *)
(* once, or it is lost together with everything that is next to it.        *)
(***************************************************************************)
EXTENDS Naturals, Sequences

VARIABLES accepted, \* how many events were accepted; they are numbered
          pending,  \* accepted, neither stored nor lost
          stored    \* rows of event_log in the order of their ids

fifo == <<accepted, pending, stored>>

Init == accepted = 0 /\ pending = <<>> /\ stored = <<>>

Accept ==
  /\ accepted' = accepted + 1
  /\ pending' = Append(pending, accepted + 1)
  /\ UNCHANGED stored

\* The oldest n events leave.
Leave(n) ==
  /\ pending' = SubSeq(pending, n + 1, Len(pending))
  /\ UNCHANGED accepted

Store == \E n \in 1..Len(pending) :
           Leave(n) /\ stored' = stored \o SubSeq(pending, 1, n)
Lose  == \E n \in 1..Len(pending) : Leave(n) /\ UNCHANGED stored

Spec == Init /\ [][Accept \/ Store \/ Lose]_fifo
=============================================================================
