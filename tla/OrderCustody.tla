--------------------------- MODULE OrderCustody ---------------------------
(***************************************************************************)
(* What the executor promises about an intent, without saying how: from    *)
(* the moment it may reach the broker until its end is on record, somebody *)
(* answers for it.  (deadman/executor.py, module docstring, and README     *)
(* "an order stayed alive with no owner".)                                 *)
(*                                                                         *)
(* custody[c] is what the record says of intent c: nothing yet, pending,   *)
(* final, unknown (a human or the halt policy answers for it), or retried: *)
(* sent a second time after its first end.  The promise stops there.       *)
(* alive[c] says that an order of c rests at the broker.                   *)
(***************************************************************************)
CONSTANT Intents
VARIABLES custody, alive

Init == /\ custody = [c \in Intents |-> "none"]
        /\ alive = [c \in Intents |-> FALSE]

\* Custody comes first ...
Take(c) == /\ custody[c] = "none"
           /\ custody' = [custody EXCEPT ![c] = "pending"]
           /\ UNCHANGED alive

\* ... then exposure.
Expose(c) == /\ custody[c] \in {"pending", "retried"}
             /\ alive' = [alive EXCEPT ![c] = TRUE]
             /\ UNCHANGED custody

Die(c) == /\ alive' = [alive EXCEPT ![c] = FALSE]
          /\ UNCHANGED custody

\* A final record is written only of what is dead.
Finish(c) == /\ custody[c] = "pending"
             /\ ~alive[c]
             /\ custody' = [custody EXCEPT ![c] = "final"]
             /\ UNCHANGED alive

GiveUp(c) == /\ custody[c] = "pending"
             /\ custody' = [custody EXCEPT ![c] = "unknown"]
             /\ UNCHANGED alive

\* A second attempt is possible only once the first has an end on record.
Retake(c) == /\ custody[c] \in {"final", "unknown"}
             /\ custody' = [custody EXCEPT ![c] = "retried"]
             /\ UNCHANGED alive

Next == \E c \in Intents : Take(c) \/ Expose(c) \/ Die(c) \/ Finish(c) \/ GiveUp(c) \/ Retake(c)

Spec == Init /\ [][Next]_<<custody, alive>>

=============================================================================
