----------------------------- MODULE TaskLedger -----------------------------
(***************************************************************************)
(* What the background task queue promises the code that enqueues work,    *)
(* without workers, hosts, locks or transactions: the BackgroundTasks      *)
(* table as its callers may rely on it.                                    *)
(*                                                                         *)
(* A task is submitted once, claimed at most once, its Execute is entered  *)
(* at most once, and its final status is written at most once, in the same *)
(* commit as the changes its Execute left unsaved.  A claimed task may stay *)
(* claimed for ever: the queue makes no promise of a retry.                *)
(***************************************************************************)
EXTENDS Naturals

CONSTANT Task      \* the rows of the BackgroundTasks table

VARIABLES
  status,          \* the Status column, or "absent" before the INSERT
  executions,      \* how many times a task's Execute has been entered
  effects          \* tasks whose leftover changes have been committed

vars == <<status, executions, effects>>

Final == {"complete", "error"}

Init ==
  /\ status = [t \in Task |-> "absent"]
  /\ executions = [t \in Task |-> 0]
  /\ effects = {}

Submit(t) ==
  /\ status[t] = "absent"
  /\ status' = [status EXCEPT ![t] = "enqueued"]
  /\ UNCHANGED <<executions, effects>>

Claim(t) ==
  /\ status[t] = "enqueued"
  /\ status' = [status EXCEPT ![t] = "processing"]
  /\ UNCHANGED <<executions, effects>>

Execute(t) ==
  /\ status[t] = "processing"
  /\ executions[t] = 0
  /\ executions' = [executions EXCEPT ![t] = 1]
  /\ UNCHANGED <<status, effects>>

\* A task that never ran (its service could not be resolved) can only fail.
Finish(t, result) ==
  /\ status[t] = "processing"
  /\ result = "complete" => executions[t] = 1
  /\ status' = [status EXCEPT ![t] = result]
  /\ effects' \in {effects, effects \union {t}}
  /\ UNCHANGED executions

Next ==
  \E t \in Task :
    \/ Submit(t)
    \/ Claim(t)
    \/ Execute(t)
    \/ \E result \in Final : Finish(t, result)

Spec == Init /\ [][Next]_vars
=============================================================================
