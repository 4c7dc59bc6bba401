--------------------------- MODULE BackgroundTasks ---------------------------
(***************************************************************************)
(* The background task queue of RaythaZero.Infrastructure/BackgroundTasks: *)
(* the BackgroundTasks table, the hosts (processes) that share it, and the *)
(* QueuedHostedService workers every host runs.                            *)
(*                                                                         *)
(* A worker loops: look at the stopping token, sleep a second, dequeue     *)
(* under the lock of its process, read the row again, execute it, write    *)
(* its final status.  The dequeue is one transaction:                      *)
(*   SELECT .. WHERE Status = enqueued ORDER BY CreationTime               *)
(*   FOR UPDATE SKIP LOCKED;  UPDATE .. SET Status = processing;  COMMIT   *)
(* The statement has no LIMIT, so it locks, row by row in creation order,  *)
(* every waiting row that no other transaction has locked, and returns the *)
(* first of them.                                                          *)
(*                                                                         *)
(* External, modelled from how the code uses it: the task's own Execute    *)
(* (any IExecuteBackgroundTask), PostgreSQL's row locks, and the .NET host *)
(* (an exception that leaves ExecuteAsync stops the host).                 *)
(***************************************************************************)
EXTENDS Naturals

CONSTANTS
  Task,      \* rows of the table, numbered in the order of their CreationTime
  Worker,    \* the QueuedHostedService instances of all hosts
  Host,      \* operating-system processes running the application
  HostOf,    \* the host each worker lives in
  Faults,    \* the kinds of failure a run admits
  NoTask,    \* null
  NoWorker   \* the owner of a lock nobody holds

\* "dequeue": the claim's transaction, or its commit's reply, throws
\* "read":    reading the claimed row again throws
\* "save":    writing the final status throws (the database fails, or it
\*            refuses a change the task left in the shared DbContext)
\* "stop":    the host is asked to shut down
\* "crash":   the process disappears
FaultKind == {"dequeue", "read", "save", "stop", "crash"}

ASSUME QueueAssumption ==
  /\ Task \subseteq Nat
  /\ HostOf \in [Worker -> Host]
  /\ Faults \subseteq FaultKind
  /\ NoTask \notin Task
  /\ NoWorker \notin Worker

VARIABLES
  \* the database
  status,      \* the Status column; "absent" before the INSERT commits
  rowLock,     \* the worker whose open transaction holds the row's lock
  effects,     \* tasks whose leftover changes have been committed
  \* the processes
  host,        \* "up", "stopping" (the stopping token is cancelled) or "down"
  monitor,     \* the holder of a process's BackgroundTaskQueue._lockObject
  \* the workers
  pc,          \* where a worker is in BackgroundProcessing
  snap,        \* the waiting rows its SELECT's snapshot saw
  skipped,     \* those of them the SELECT has passed over
  task,        \* the row its SELECT returned, then the task it works on
  outcome,     \* the final status it is about to write
  unsaved,     \* tasks with changes in its DbContext that are not saved
  \* history
  executions   \* how many times a task's Execute has been entered

dbVars == <<status, rowLock, effects>>
hostVars == <<host, monitor>>
selectVars == <<snap, skipped>>
workVars == <<task, outcome, unsaved>>
vars == <<dbVars, hostVars, pc, selectVars, workVars, executions>>

Status == {"absent", "enqueued", "processing", "complete", "error"}
Final == {"complete", "error"}

-----------------------------------------------------------------------------
Init ==
  /\ status = [t \in Task |-> "absent"]
  /\ rowLock = [t \in Task |-> NoWorker]
  /\ effects = {}
  /\ host = [h \in Host |-> "up"]
  /\ monitor = [h \in Host |-> NoWorker]
  /\ pc = [w \in Worker |-> "loop"]
  /\ snap = [w \in Worker |-> {}]
  /\ skipped = [w \in Worker |-> {}]
  /\ task = [w \in Worker |-> NoTask]
  /\ outcome = [w \in Worker |-> "none"]
  /\ unsaved = [w \in Worker |-> {}]
  /\ executions = [t \in Task |-> 0]

\* A request or a running task calls EnqueueAsync.  CreationTime is taken when
\* the entity is made and the row appears when its INSERT commits, so rows may
\* appear in another order than their numbers.
Enqueue(t) ==
  /\ \E h \in Host : host[h] # "down"
  /\ status[t] = "absent"
  /\ status' = [status EXCEPT ![t] = "enqueued"]
  /\ UNCHANGED <<rowLock, effects, hostVars, pc, selectVars, workVars, executions>>

-----------------------------------------------------------------------------
(* The head of the worker's loop.                                          *)

CheckToken(w) ==
  /\ pc[w] = "loop"
  /\ pc' = [pc EXCEPT ![w] = IF host[HostOf[w]] = "up" THEN "sleeping" ELSE "ended"]
  /\ UNCHANGED <<dbVars, hostVars, selectVars, workVars, executions>>

-----------------------------------------------------------------------------
(* DequeueAsync and DequeueBackgroundTask.                                 *)

Held(w) == {t \in Task : rowLock[t] = w}
ToVisit(w) == snap[w] \ (skipped[w] \union Held(w))
RowsReleased(ws) == [t \in Task |-> IF rowLock[t] \in ws THEN NoWorker ELSE rowLock[t]]

\* (mutant of BeginDequeue: the lock statement is missing)
BeginDequeueUnlocked(w) ==
  /\ pc[w] = "sleeping"
  /\ snap' = [snap EXCEPT ![w] = {t \in Task : status[t] = "enqueued"}]
  /\ pc' = [pc EXCEPT ![w] = "selecting"]
  /\ UNCHANGED <<dbVars, hostVars, skipped, workVars, executions>>

\* The worker enters the lock of its process, opens the transaction and its
\* SELECT takes its snapshot.  The token is not looked at again after the sleep.
BeginDequeue(w) ==
  /\ pc[w] = "sleeping"
  /\ monitor[HostOf[w]] = NoWorker
  /\ monitor' = [monitor EXCEPT ![HostOf[w]] = w]
  /\ snap' = [snap EXCEPT ![w] = {t \in Task : status[t] = "enqueued"}]
  /\ pc' = [pc EXCEPT ![w] = "selecting"]
  /\ UNCHANGED <<dbVars, host, skipped, workVars, executions>>

\* (mutant of NextRow: no ORDER BY)
NextRowAnyOrder(w, t) == t \in ToVisit(w)

\* ORDER BY CreationTime: the oldest row not visited yet comes next.
NextRow(w, t) == t \in ToVisit(w) /\ \A u \in ToVisit(w) : t <= u

\* (mutants of Lockable: no FOR UPDATE; the WHERE clause of the snapshot only)
LockableWithoutForUpdate(t) == status[t] = "enqueued"
LockableWithoutRecheck(t) == rowLock[t] = NoWorker

\* A row another transaction has locked is passed over, and so is one that has
\* meanwhile left the queue (READ COMMITTED evaluates the WHERE clause again).
Lockable(t) == status[t] = "enqueued" /\ rowLock[t] = NoWorker

LockRow(w, t) ==
  /\ pc[w] = "selecting"
  /\ NextRow(w, t)
  /\ Lockable(t)
  /\ rowLock' = [rowLock EXCEPT ![t] = w]
  /\ task' = [task EXCEPT ![w] = IF @ = NoTask THEN t ELSE @]
  /\ UNCHANGED <<status, effects, hostVars, pc, selectVars, outcome, unsaved, executions>>

SkipRow(w, t) ==
  /\ pc[w] = "selecting"
  /\ NextRow(w, t)
  /\ ~Lockable(t)
  /\ skipped' = [skipped EXCEPT ![w] = @ \union {t}]
  /\ UNCHANGED <<dbVars, hostVars, pc, snap, workVars, executions>>

\* UPDATE and COMMIT; the commit gives back every row lock, also those of the
\* rows that were locked and not taken.
CommitDequeue(w) ==
  /\ pc[w] = "selecting"
  /\ ToVisit(w) = {}
  /\ status' = IF task[w] = NoTask THEN status
               ELSE [status EXCEPT ![task[w]] = "processing"]
  /\ rowLock' = RowsReleased({w})
  /\ pc' = [pc EXCEPT ![w] = "returning"]
  /\ snap' = [snap EXCEPT ![w] = {}]
  /\ skipped' = [skipped EXCEPT ![w] = {}]
  /\ UNCHANGED <<effects, hostVars, workVars, executions>>

\* (mutant of ReturnFromDequeue: the lock is never left)
ReturnKeepsLock(w) ==
  /\ pc[w] = "returning"
  /\ pc' = [pc EXCEPT ![w] = IF task[w] = NoTask THEN "loop" ELSE "claimed"]
  /\ UNCHANGED <<dbVars, hostVars, selectVars, workVars, executions>>

\* The lock is left; with no row (null) the worker starts over.
ReturnFromDequeue(w) ==
  /\ pc[w] = "returning"
  /\ monitor' = [monitor EXCEPT ![HostOf[w]] = NoWorker]
  /\ pc' = [pc EXCEPT ![w] = IF task[w] = NoTask THEN "loop" ELSE "claimed"]
  /\ UNCHANGED <<dbVars, host, selectVars, workVars, executions>>

\* Any exception becomes a null result.  Before the commit the transaction is
\* rolled back; after it the row is already "processing" and nobody has it.
DequeueThrows(w) ==
  /\ "dequeue" \in Faults
  /\ pc[w] \in {"selecting", "returning"}
  /\ rowLock' = RowsReleased({w})
  /\ monitor' = [monitor EXCEPT ![HostOf[w]] = NoWorker]
  /\ pc' = [pc EXCEPT ![w] = "loop"]
  /\ snap' = [snap EXCEPT ![w] = {}]
  /\ skipped' = [skipped EXCEPT ![w] = {}]
  /\ task' = [task EXCEPT ![w] = NoTask]
  /\ UNCHANGED <<status, effects, host, outcome, unsaved, executions>>

-----------------------------------------------------------------------------
(* Executing the claimed task and writing its final status.                *)

\* The row is read again, the service found by the task's Name is resolved and
\* its Execute is entered.
StartExecute(w) ==
  /\ pc[w] = "claimed"
  /\ executions' = [executions EXCEPT ![task[w]] = @ + 1]
  /\ pc' = [pc EXCEPT ![w] = "running"]
  /\ UNCHANGED <<dbVars, hostVars, selectVars, workVars>>

\* (mutants of ResolveFails: reported as a success; not reported at all)
ResolveFailsAsComplete(w) ==
  /\ pc[w] = "claimed"
  /\ outcome' = [outcome EXCEPT ![w] = "complete"]
  /\ pc' = [pc EXCEPT ![w] = "saving"]
  /\ UNCHANGED <<dbVars, hostVars, selectVars, task, unsaved, executions>>

ResolveFailsUnreported(w) ==
  /\ pc[w] = "claimed"
  /\ task' = [task EXCEPT ![w] = NoTask]
  /\ pc' = [pc EXCEPT ![w] = "loop"]
  /\ UNCHANGED <<dbVars, hostVars, selectVars, outcome, unsaved, executions>>

\* No service is registered for the Name, or Args is not JSON: the catch block
\* runs without Execute having been entered.
ResolveFails(w) ==
  /\ pc[w] = "claimed"
  /\ outcome' = [outcome EXCEPT ![w] = "error"]
  /\ pc' = [pc EXCEPT ![w] = "saving"]
  /\ UNCHANGED <<dbVars, hostVars, selectVars, task, unsaved, executions>>

\* (mutant of ExecuteEnds: no Status is assigned)
ExecuteEndsNoStatus(w, result) ==
  /\ pc[w] = "running"
  /\ unsaved' \in {unsaved, [unsaved EXCEPT ![w] = @ \union {task[w]}]}
  /\ pc' = [pc EXCEPT ![w] = "saving"]
  /\ UNCHANGED <<dbVars, hostVars, selectVars, task, outcome, executions>>

\* Execute returns or throws.  The service comes from the worker's own scope, so
\* what it left unsaved stays tracked by the DbContext the worker saves next.
ExecuteEnds(w, result) ==
  /\ pc[w] = "running"
  /\ outcome' = [outcome EXCEPT ![w] = result]
  /\ unsaved' \in {unsaved, [unsaved EXCEPT ![w] = @ \union {task[w]}]}
  /\ pc' = [pc EXCEPT ![w] = "saving"]
  /\ UNCHANGED <<dbVars, hostVars, selectVars, task, executions>>

\* SaveChangesAsync commits the final status and everything else the context
\* tracks in one transaction; a cancelled token makes it throw before that.
SaveCommits(w) ==
  /\ pc[w] = "saving"
  /\ host[HostOf[w]] = "up"
  /\ status' = [status EXCEPT ![task[w]] = outcome[w]]
  /\ effects' = effects \union unsaved[w]

\* (mutant of LetGo: the context keeps what was not saved)
LetGoKeepsChanges(w, l) ==
  /\ task' = [task EXCEPT ![w] = NoTask]
  /\ outcome' = [outcome EXCEPT ![w] = "none"]
  /\ pc' = [pc EXCEPT ![w] = l]
  /\ UNCHANGED unsaved

\* The worker has nothing in hand any more and goes on at the label l.
LetGo(w, l) ==
  /\ unsaved' = [unsaved EXCEPT ![w] = {}]
  /\ task' = [task EXCEPT ![w] = NoTask]
  /\ outcome' = [outcome EXCEPT ![w] = "none"]
  /\ pc' = [pc EXCEPT ![w] = l]

SaveOutcome(w) ==
  /\ SaveCommits(w)
  /\ LetGo(w, "loop")
  /\ UNCHANGED <<rowLock, hostVars, selectVars, executions>>

\* An exception outside the try block ends the worker.  Its scope is disposed
\* with what it tracked, and the .NET host begins to stop.
WorkerEnds(w) ==
  /\ LetGo(w, "ended")
  /\ host' = [host EXCEPT ![HostOf[w]] = "stopping"]
  /\ UNCHANGED <<rowLock, monitor, selectVars, executions>>

WorkerThrows(w) ==
  /\ \/ pc[w] = "claimed" /\ "read" \in Faults
     \/ pc[w] = "saving" /\ ("save" \in Faults \/ host[HostOf[w]] # "up")
  /\ WorkerEnds(w)
  /\ UNCHANGED <<status, effects>>

\* The commit succeeds, its reply is lost, and so are the replies to the retries.
SaveReplyLost(w) ==
  /\ "save" \in Faults
  /\ SaveCommits(w)
  /\ WorkerEnds(w)

-----------------------------------------------------------------------------
(* The processes.                                                          *)

WorkersOf(h) == {w \in Worker : HostOf[w] = h}

\* f with the value v at every worker of host h
Reset(f, h, v) == [w \in Worker |-> IF HostOf[w] = h THEN v ELSE f[w]]

\* The process is gone: its memory is lost and the server rolls back the
\* transactions its connections had open.
Disappear(h) ==
  /\ host' = [host EXCEPT ![h] = "down"]
  /\ monitor' = [monitor EXCEPT ![h] = NoWorker]
  /\ rowLock' = RowsReleased(WorkersOf(h))
  /\ pc' = Reset(pc, h, "ended")
  /\ snap' = Reset(snap, h, {})
  /\ skipped' = Reset(skipped, h, {})
  /\ task' = Reset(task, h, NoTask)
  /\ outcome' = Reset(outcome, h, "none")
  /\ unsaved' = Reset(unsaved, h, {})
  /\ UNCHANGED <<status, effects, executions>>

\* Shutdown is requested: the stopping token is cancelled.
Stop(h) ==
  /\ "stop" \in Faults
  /\ host[h] = "up"
  /\ host' = [host EXCEPT ![h] = "stopping"]
  /\ UNCHANGED <<dbVars, monitor, pc, selectVars, workVars, executions>>

\* The workers have ended, or the shutdown timeout has passed.
Exit(h) == host[h] = "stopping" /\ Disappear(h)

Crash(h) == "crash" \in Faults /\ host[h] = "up" /\ Disappear(h)

\* (mutant of Start: rows left "processing" go back to the queue)
StartRequeues(h) ==
  /\ host[h] = "down"
  /\ host' = [host EXCEPT ![h] = "up"]
  /\ pc' = Reset(pc, h, "loop")
  /\ status' = [t \in Task |-> IF status[t] = "processing" THEN "enqueued" ELSE status[t]]
  /\ UNCHANGED <<rowLock, effects, monitor, selectVars, workVars, executions>>

\* The application starts again.  Nothing looks at the rows left "processing".
Start(h) ==
  /\ host[h] = "down"
  /\ host' = [host EXCEPT ![h] = "up"]
  /\ pc' = Reset(pc, h, "loop")
  /\ UNCHANGED <<dbVars, monitor, selectVars, workVars, executions>>

-----------------------------------------------------------------------------
\* What a worker does when nothing fails.
WorkerStep(w) ==
  \/ CheckToken(w)
  \/ BeginDequeue(w)
  \/ \E t \in Task : LockRow(w, t)
  \/ \E t \in Task : SkipRow(w, t)
  \/ CommitDequeue(w)
  \/ ReturnFromDequeue(w)
  \/ StartExecute(w)
  \/ ResolveFails(w)
  \/ \E result \in Final : ExecuteEnds(w, result)
  \/ SaveOutcome(w)

Next ==
  \/ \E t \in Task : Enqueue(t)
  \/ \E w \in Worker : WorkerStep(w)
  \/ \E w \in Worker : DequeueThrows(w)
  \/ \E w \in Worker : WorkerThrows(w)
  \/ \E w \in Worker : SaveReplyLost(w)
  \/ \E h \in Host : Stop(h)
  \/ \E h \in Host : Exit(h)
  \/ \E h \in Host : Crash(h)
  \/ \E h \in Host : Start(h)

Spec == Init /\ [][Next]_vars

\* The scheduler runs every worker that can take a step (a task's Execute is
\* assumed to end), and an operator starts a host that is down.
Fairness ==
  /\ \A w \in Worker : WF_vars(WorkerStep(w))
  /\ \A h \in Host : WF_vars(Start(h))

FairSpec == Spec /\ Fairness

-----------------------------------------------------------------------------
(* Properties.                                                             *)

Owns(w, t) ==
  /\ task[w] = t
  /\ pc[w] \in {"returning", "claimed", "running", "saving"}

\* Every variable has its type.
TypeOK ==
  /\ status \in [Task -> Status]
  /\ rowLock \in [Task -> Worker \union {NoWorker}]
  /\ effects \subseteq Task
  /\ host \in [Host -> {"up", "stopping", "down"}]
  /\ monitor \in [Host -> Worker \union {NoWorker}]
  /\ pc \in [Worker -> {"loop", "sleeping", "selecting", "returning", "claimed",
                        "running", "saving", "ended"}]
  /\ snap \in [Worker -> SUBSET Task]
  /\ skipped \in [Worker -> SUBSET Task]
  /\ task \in [Worker -> Task \union {NoTask}]
  /\ outcome \in [Worker -> Final \union {"none"}]
  /\ unsaved \in [Worker -> SUBSET Task]
  /\ executions \in [Task -> Nat]

\* A task's Execute is entered at most once, whatever number of hosts share the
\* table and however they fail: the dequeue's row locks are what stops two
\* hosts (whose _lockObject differ) from taking the same row.
AtMostOnce == \A t \in Task : executions[t] <= 1

\* A task is in the hands of one worker at a time, and as long as it is, its row
\* reads "processing": no other worker can select it.
SingleOwner ==
  \A w \in Worker, t \in Task :
    Owns(w, t) =>
      /\ status[t] = "processing"
      /\ \A v \in Worker : Owns(v, t) => v = w

\* A worker starts a task with a clean DbContext: although the context lives as
\* long as the worker, no change of an earlier task can be saved, or fail to be
\* saved, with the next one.
CleanContext ==
  \A w \in Worker : pc[w] \in {"claimed", "running"} => unsaved[w] = {}

\* The row locks of a host's dequeues are covered by its process-wide lock: only
\* the worker inside _lockObject can hold any.
LocksUnderMonitor ==
  \A w \in Worker : Held(w) # {} => monitor[HostOf[w]] = w

\* A final status is final: the unguarded save of a worker, a restarted host or
\* a second host never changes a row that is complete or failed.
FinalIsFinal ==
  [][\A t \in Task : status[t] \in Final => status'[t] = status[t]]_vars

\* What becomes of a task whose worker lost it (the reply to the commit was
\* lost, the save threw, the token was cancelled, the process died): it stays
\* "processing" for ever.  No start, stop or dequeue picks it up again.
Lost(t) == status[t] = "processing" /\ \A w \in Worker : ~Owns(w, t)

LostStaysLost == [][\A t \in Task : Lost(t) => Lost(t)']_vars

\* Tasks are taken oldest first.  A worker takes a row only if every older row
\* its SELECT saw and that still waits was passed over, and a waiting row is
\* passed over only while a worker of another host has it locked.
OldestFirst ==
  [][\A w \in Worker, u \in Task :
       /\ (u \in skipped'[w] \ skipped[w] /\ status[u] = "enqueued")
            => \E v \in Worker : rowLock[u] = v /\ HostOf[v] # HostOf[w]
       /\ (/\ u \in snap[w] /\ task[w] # NoTask
           /\ status[u] = "enqueued" /\ status'[u] = "enqueued"
           /\ status[task[w]] # status'[task[w]])
            => u > task[w] \/ u \in skipped[w]]_vars

\* The queue implements the ledger its callers rely on.
Ledger == INSTANCE TaskLedger
          WITH Task <- Task,
               status <- status,
               executions <- executions,
               effects <- effects
ImplementsLedger == Ledger!Spec

AllUp == \A h \in Host : host[h] = "up"

\* Once the hosts stay up, every waiting task is taken, whatever crashes and
\* shutdowns came before: no row stays locked or passed over for ever.
WaitingTasksAreTaken ==
  <>[]AllUp => \A t \in Task : (status[t] = "enqueued") ~> (status[t] # "enqueued")

\* If no host ever goes down, every enqueued task ends with a final status.
TasksFinish ==
  []AllUp => \A t \in Task : (status[t] = "enqueued") ~> (status[t] \in Final)
=============================================================================
