--------------------------- MODULE TaskerContract ---------------------------
(***************************************************************************)
(* What dttasker promises the thread that owns a tasker and keeps to       *)
(* start, join, then start again or dispose: one thread at a time, a start *)
(* that does not return before the task is up (or has failed), a join that *)
(* does not succeed before the thread is gone, and a disposal that finds   *)
(* no thread.  A timeout of a join, a stop or a poll is a stuttering step. *)
(***************************************************************************)

VARIABLES
    owner, \* "free", "starting", "holding" a started task, or "disposed"
    task   \* "none", "launched", "up" (it signalled), "finished"

contractVars == <<owner, task>>

ContractInit == owner = "free" /\ task = "none"

Begin == owner = "free" /\ owner' = "starting" /\ UNCHANGED task

\* The start fails for lack of memory.
Abandon == owner = "starting" /\ task = "none" /\ owner' = "free" /\ UNCHANGED task

Launch == owner = "starting" /\ task = "none" /\ task' = "launched" /\ UNCHANGED owner

Signal == task = "launched" /\ task' = "up" /\ UNCHANGED owner

Finish == task = "up" /\ task' = "finished" /\ UNCHANGED owner

Started ==
    /\ owner = "starting" /\ task \in {"up", "finished"}
    /\ owner' = "holding" /\ UNCHANGED task

Join == owner = "holding" /\ task = "finished" /\ owner' = "free" /\ task' = "none"

Discard == owner = "free" /\ task = "none" /\ owner' = "disposed" /\ UNCHANGED task

ContractNext ==
    \/ Begin \/ Abandon \/ Launch \/ Signal \/ Finish \/ Started \/ Join \/ Discard

ContractSpec == ContractInit /\ [][ContractNext]_contractVars

=============================================================================
