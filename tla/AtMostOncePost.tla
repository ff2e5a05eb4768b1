--------------------------- MODULE AtMostOncePost ---------------------------
(***************************************************************************)
(* What the program promises whenever it asks an outside system to create  *)
(* something that cannot be taken back (an SOS shipment, a KSP order, a    *)
(* Terminal49 tracking request): the local intent is committed before the  *)
(* request leaves, at most one effect ever exists, no effect hides behind  *)
(* an intent that looks unsent or refused, and an intent that was held for *)
(* review is never sent again by the program.                              *)
(***************************************************************************)
CONSTANTS
  Job,        \* the things to be created, one intent each
  Releasable  \* a request that was certainly refused may be sent again

VARIABLES
  intent,   \* the committed local status of each job
  effects   \* what the outside system has created for each job

vars == <<intent, effects>>

Intent == {"waiting", "posting", "sent", "failed", "held"}

Init ==
  /\ intent = [j \in Job |-> "waiting"]
  /\ effects = [j \in Job |-> {}]

Move(j, from, to) ==
  /\ intent[j] \in from
  /\ intent' = [intent EXCEPT ![j] = to]
  /\ UNCHANGED effects

\* The intent to post is committed; only a waiting job can be started.
Start(j) == Move(j, {"waiting"}, "posting")

\* The outside system creates the effect, perhaps after the caller gave up.
Create(j) ==
  /\ intent[j] \in {"posting", "held"}
  /\ effects[j] = {}
  /\ \E e \in effects'[j] : effects' = [effects EXCEPT ![j] = {e}]
  /\ UNCHANGED intent

\* Success is recorded only for an effect that exists.
Complete(j) == effects[j] # {} /\ Move(j, {"posting"}, "sent")

\* Failure is recorded only where no effect exists; Create is then disabled.
Fail(j) == effects[j] = {} /\ Move(j, {"posting"}, "failed")

\* A request that had no effect, and cannot have one, goes back in the line.
Release(j) == Releasable /\ effects[j] = {} /\ Move(j, {"posting"}, "waiting")

\* The outcome is uncertain, or the source changed: a person must decide.
Hold(j) == Move(j, {"posting", "sent"}, "held")

Next == \E j \in Job :
  \/ Start(j) \/ Create(j) \/ Complete(j)
  \/ Fail(j) \/ Release(j) \/ Hold(j)

Spec == Init /\ [][Next]_vars
=============================================================================
