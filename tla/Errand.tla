------------------------------- MODULE Errand -------------------------------
(***************************************************************************)
(* What a delegation promises the agent that asks for it: the task begins  *)
(* at most once; "done" is said when it has run to an end, or, where       *)
(* somebody stopped it, has been told to stop; after "cancelled" it never  *)
(* begins, and if it had begun it has been told to stop.  To be told is    *)
(* not to have stopped: the turn winds down in its own time.  Any other    *)
(* answer ("unknown": refused, failed, timed out) promises nothing of the  *)
(* task.                                                                   *)
(***************************************************************************)

VARIABLES
    task,   \* none, running, stopping, over
    answer  \* none, done, cancelled, unknown

vars == <<task, answer>>

Init == task = "none" /\ answer = "none"

Start == task = "none" /\ answer # "cancelled" /\ task' = "running" /\ UNCHANGED answer
Stop == task = "running" /\ task' = "stopping" /\ UNCHANGED answer
End == task \in {"running", "stopping"} /\ task' = "over" /\ UNCHANGED answer

Answers(a) == answer = "none" /\ answer' = a /\ UNCHANGED task
Done == task \in {"stopping", "over"} /\ Answers("done")
Cancelled == task # "running" /\ Answers("cancelled")
Unknown == Answers("unknown")

Next == Start \/ Stop \/ End \/ Done \/ Cancelled \/ Unknown

Spec == Init /\ [][Next]_vars
=============================================================================
