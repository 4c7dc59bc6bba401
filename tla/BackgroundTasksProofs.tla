------------------------ MODULE BackgroundTasksProofs ------------------------
(***************************************************************************)
(* Proofs about BackgroundTasks, for any set of tasks, workers, hosts and  *)
(* failures: type correctness, an inductive invariant, the safety          *)
(* properties that follow from it, and that the queue implements           *)
(* TaskLedger.                                                             *)
(***************************************************************************)
EXTENDS BackgroundTasks, TLAPS

\* The inductive invariant, in parts.  Every step is analysed once, in IInvStep;
\* the theorems at the end only unfold what it gives.

\* A worker outside the dequeue and outside a task has no row in hand, and one
\* that executes or saves has.
HandsInv ==
  \A w \in Worker :
    /\ pc[w] \in {"loop", "sleeping", "ended"} => task[w] = NoTask
    /\ pc[w] \in {"claimed", "running", "saving"} => task[w] \in Task

\* A locked row is waiting and its owner is inside the SELECT; the row such a
\* worker will take is one it has locked.
RowsInv ==
  /\ \A w \in Worker, t \in Task :
       rowLock[t] = w => pc[w] = "selecting" /\ status[t] = "enqueued"
  /\ \A w \in Worker :
       pc[w] = "selecting" /\ task[w] # NoTask => rowLock[task[w]] = w

\* A worker inside DequeueAsync holds its process's lock.
MonitorInv ==
  \A w \in Worker : pc[w] \in {"selecting", "returning"} => monitor[HostOf[w]] = w

\* Execute has not been entered before the task is claimed and started.
RunsInv ==
  /\ \A t \in Task : status[t] \in {"absent", "enqueued"} => executions[t] = 0
  /\ \A w \in Worker, t \in Task : task[w] = t =>
       /\ pc[w] \in {"returning", "claimed"} => executions[t] = 0
       /\ pc[w] = "running" => executions[t] = 1
       /\ pc[w] = "saving" /\ outcome[w] = "complete" => executions[t] = 1

\* A worker that saves has a final status to write, and what its context tracks
\* unsaved comes from the task it is saving.
ContextInv ==
  \A w \in Worker :
    /\ pc[w] = "saving" => outcome[w] \in Final
    /\ \A t \in unsaved[w] : pc[w] = "saving" /\ t = task[w]

\* The workers of a host that is down have ended.
DownInv == \A w \in Worker : host[HostOf[w]] = "down" => pc[w] = "ended"

IInv ==
  /\ TypeOK /\ HandsInv /\ RowsInv /\ MonitorInv /\ SingleOwner
  /\ RunsInv /\ AtMostOnce /\ ContextInv /\ DownInv

-----------------------------------------------------------------------------
\* The initial state has every variable in its type and satisfies the invariant.
LEMMA InitIInv == Init => IInv
  BY QueueAssumption
  DEF Init, IInv, TypeOK, Status, Final, HandsInv, RowsInv, MonitorInv, SingleOwner,
      Owns, RunsInv, AtMostOnce, ContextInv, DownInv

\* Counting one entry of a function of naturals keeps it one (executions).
LEMMA CountUp ==
  ASSUME NEW S, NEW f \in [S -> Nat], NEW x \in S
  PROVE  [f EXCEPT ![x] = @ + 1] \in [S -> Nat]
  OBVIOUS

\* Every step keeps every variable in its type (the invariant tells that the row
\* a worker commits or saves is a row).
LEMMA TypeStep == IInv /\ [Next]_vars => TypeOK'
  <1> SUFFICES ASSUME IInv, [Next]_vars PROVE TypeOK'
    OBVIOUS
  <1> USE QueueAssumption DEF IInv, TypeOK, Status, Final, HandsInv, ContextInv,
        dbVars, hostVars, selectVars, workVars
  <1>1. ASSUME NEW t \in Task, Enqueue(t) PROVE TypeOK'
    BY <1>1 DEF Enqueue
  <1>2. ASSUME NEW w \in Worker, WorkerStep(w) PROVE TypeOK'
    <2>1. CASE CheckToken(w)
      BY <2>1 DEF CheckToken
    <2>2. CASE BeginDequeue(w)
      BY <2>2 DEF BeginDequeue
    <2>3. ASSUME NEW t \in Task, LockRow(w, t) PROVE TypeOK'
      BY <2>3 DEF LockRow
    <2>4. ASSUME NEW t \in Task, SkipRow(w, t) PROVE TypeOK'
      BY <2>4 DEF SkipRow
    <2>5. CASE CommitDequeue(w)
      BY <2>5 DEF CommitDequeue, RowsReleased
    <2>6. CASE ReturnFromDequeue(w)
      BY <2>6 DEF ReturnFromDequeue
    <2>7. CASE StartExecute(w)
      <3>1. task[w] \in Task
        BY <2>7 DEF StartExecute
      <3>2. executions' \in [Task -> Nat]
        BY <2>7, <3>1, CountUp DEF StartExecute
      <3>3. UNCHANGED <<dbVars, hostVars, selectVars, workVars>>
        BY <2>7 DEF StartExecute
      <3>4. pc' = [pc EXCEPT ![w] = "running"]
        BY <2>7 DEF StartExecute
      <3>5. QED
        BY <3>2, <3>3, <3>4
    <2>8. CASE ResolveFails(w)
      BY <2>8 DEF ResolveFails
    <2>9. ASSUME NEW result \in Final, ExecuteEnds(w, result) PROVE TypeOK'
      BY <2>9 DEF ExecuteEnds
    <2>10. CASE SaveOutcome(w)
      BY <2>10 DEF SaveOutcome, SaveCommits, LetGo
    <2>11. QED
      BY <1>2, <2>1, <2>2, <2>3, <2>4, <2>5, <2>6, <2>7, <2>8, <2>9, <2>10 DEF WorkerStep
  <1>3. ASSUME NEW w \in Worker, DequeueThrows(w) PROVE TypeOK'
    BY <1>3 DEF DequeueThrows, RowsReleased
  <1>4. ASSUME NEW w \in Worker, WorkerThrows(w) PROVE TypeOK'
    BY <1>4 DEF WorkerThrows, WorkerEnds, LetGo
  <1>5. ASSUME NEW w \in Worker, SaveReplyLost(w) PROVE TypeOK'
    BY <1>5 DEF SaveReplyLost, SaveCommits, WorkerEnds, LetGo
  <1>6. ASSUME NEW h \in Host, Stop(h) PROVE TypeOK'
    BY <1>6 DEF Stop
  <1>7. ASSUME NEW h \in Host, Exit(h) \/ Crash(h) PROVE TypeOK'
    <2>1. Disappear(h)
      BY <1>7 DEF Exit, Crash
    <2>2. (status \in [Task -> Status] /\ effects \subseteq Task /\ executions \in [Task -> Nat])'
      BY <2>1 DEF Disappear
    <2>3. (rowLock \in [Task -> Worker \union {NoWorker}])'
      BY <2>1 DEF Disappear, RowsReleased
    <2>4. (/\ host \in [Host -> {"up", "stopping", "down"}]
           /\ monitor \in [Host -> Worker \union {NoWorker}])'
      BY <2>1 DEF Disappear
    <2>5. (/\ pc \in [Worker -> {"loop", "sleeping", "selecting", "returning", "claimed",
                                 "running", "saving", "ended"}]
           /\ outcome \in [Worker -> Final \union {"none"}])'
      BY <2>1 DEF Disappear, Reset
    <2>6. (snap \in [Worker -> SUBSET Task] /\ skipped \in [Worker -> SUBSET Task])'
      BY <2>1 DEF Disappear, Reset
    <2>7. (task \in [Worker -> Task \union {NoTask}] /\ unsaved \in [Worker -> SUBSET Task])'
      BY <2>1 DEF Disappear, Reset
    <2>8. QED
      BY <2>2, <2>3, <2>4, <2>5, <2>6, <2>7
  <1>8. ASSUME NEW h \in Host, Start(h) PROVE TypeOK'
    BY <1>8 DEF Start, Reset
  <1>9. CASE UNCHANGED vars
    BY <1>9 DEF vars
  <1>10. QED
    BY <1>1, <1>2, <1>3, <1>4, <1>5, <1>6, <1>7, <1>8, <1>9 DEF Next

-----------------------------------------------------------------------------
\* Only workers inside the dequeue hold row locks, and entering it takes the
\* process's lock: two workers of one host never select at the same time.
LEMMA OneSelectPerHost ==
  ASSUME IInv, NEW w \in Worker, NEW v \in Worker,
         pc[w] = "selecting", pc[v] = "selecting", HostOf[v] = HostOf[w]
  PROVE  v = w
  BY DEF IInv, MonitorInv

\* The row a worker is about to commit as claimed is waiting, has never been
\* executed, and is in no other worker's hands.
LEMMA ClaimedRowIsFree ==
  ASSUME IInv, NEW w \in Worker, pc[w] = "selecting", task[w] # NoTask
  PROVE  /\ task[w] \in Task
         /\ status[task[w]] = "enqueued"
         /\ executions[task[w]] = 0
         /\ \A v \in Worker : ~Owns(v, task[w])
         /\ \A v \in Worker \ {w} : pc[v] = "selecting" => task[v] # task[w]
  <1>1. task[w] \in Task
    BY DEF IInv, TypeOK
  <1>2. rowLock[task[w]] = w /\ status[task[w]] = "enqueued"
    BY <1>1 DEF IInv, RowsInv
  <1>3. executions[task[w]] = 0
    BY <1>1, <1>2 DEF IInv, RunsInv
  <1>4. \A v \in Worker : ~Owns(v, task[w])
    BY <1>1, <1>2 DEF IInv, SingleOwner
  <1>5. \A v \in Worker \ {w} : pc[v] = "selecting" => task[v] # task[w]
    BY <1>2 DEF IInv, RowsInv
  <1>6. QED
    BY <1>1, <1>2, <1>3, <1>4, <1>5

\* The commit of a claim preserves the invariant: the row becomes the worker's.
LEMMA CommitStep ==
  ASSUME IInv, TypeOK', NEW w \in Worker, CommitDequeue(w)
  PROVE  IInv'
  <1> USE QueueAssumption DEF IInv, TypeOK, CommitDequeue, RowsReleased,
        hostVars, workVars
  <1>1. CASE task[w] = NoTask
    BY <1>1 DEF HandsInv, RowsInv, MonitorInv, SingleOwner, Owns, RunsInv, AtMostOnce,
                ContextInv, DownInv
  <1>2. CASE task[w] # NoTask
    <2>1. /\ task[w] \in Task
          /\ status[task[w]] = "enqueued"
          /\ executions[task[w]] = 0
          /\ \A v \in Worker : ~Owns(v, task[w])
          /\ \A v \in Worker \ {w} : pc[v] = "selecting" => task[v] # task[w]
      BY <1>2, ClaimedRowIsFree
    <2>2. /\ status' = [status EXCEPT ![task[w]] = "processing"]
          /\ pc' = [pc EXCEPT ![w] = "returning"]
      BY <1>2
    <2>3. HandsInv' /\ MonitorInv' /\ ContextInv' /\ DownInv' /\ AtMostOnce'
      BY <2>2 DEF HandsInv, MonitorInv, ContextInv, DownInv, AtMostOnce
    <2>4. RowsInv'
      BY <2>1, <2>2 DEF RowsInv
    <2>5. SingleOwner'
      BY <2>1, <2>2 DEF SingleOwner, Owns
    <2>6. RunsInv'
      BY <2>1, <2>2 DEF RunsInv
    <2>7. QED
      BY <2>3, <2>4, <2>5, <2>6
  <1>3. QED
    BY <1>1, <1>2

\* The commit of a final status preserves the invariant, whatever label the
\* worker goes on at: its row was its own and leaves "processing".
LEMMA SaveStep ==
  ASSUME IInv, TypeOK', NEW w \in Worker, NEW l \in {"loop", "ended"},
         SaveCommits(w), LetGo(w, l),
         host'[HostOf[w]] # "down" \/ l = "ended",
         \A v \in Worker : host'[HostOf[v]] = "down" => host[HostOf[v]] = "down",
         UNCHANGED <<rowLock, monitor, selectVars, executions>>
  PROVE  IInv'
  <1> USE QueueAssumption DEF IInv, TypeOK, SaveCommits, LetGo, Final
  <1>1. /\ task[w] \in Task
        /\ status[task[w]] = "processing"
        /\ outcome[w] \in Final
        /\ \A v \in Worker \ {w} : ~Owns(v, task[w])
    <2>1. task[w] \in Task /\ outcome[w] \in Final
      BY DEF HandsInv, ContextInv
    <2>2. Owns(w, task[w])
      BY <2>1 DEF Owns
    <2>3. QED
      BY <2>1, <2>2 DEF SingleOwner
  <1>2. HandsInv' /\ MonitorInv' /\ ContextInv' /\ DownInv' /\ AtMostOnce'
    BY <1>1 DEF HandsInv, MonitorInv, ContextInv, DownInv, AtMostOnce
  <1>3. RowsInv'
    BY <1>1 DEF RowsInv
  <1>4. SingleOwner'
    BY <1>1 DEF SingleOwner, Owns
  <1>5. RunsInv'
    BY <1>1 DEF RunsInv
  <1>6. QED
    BY <1>2, <1>3, <1>4, <1>5

\* Every step preserves the invariant.
LEMMA IInvStep == IInv /\ [Next]_vars => IInv'
  <1> SUFFICES ASSUME IInv, [Next]_vars PROVE IInv'
    OBVIOUS
  <1>0. TypeOK'
    BY TypeStep
  <1> USE <1>0, QueueAssumption DEF IInv, TypeOK, HandsInv, RowsInv, MonitorInv,
        SingleOwner, Owns, RunsInv, AtMostOnce, ContextInv, DownInv, Final,
        dbVars, hostVars, selectVars, workVars
  <1>1. ASSUME NEW t \in Task, Enqueue(t) PROVE IInv'
    BY <1>1 DEF Enqueue
  <1>2. ASSUME NEW w \in Worker, WorkerStep(w) PROVE IInv'
    <2>1. CASE CheckToken(w)
      BY <2>1 DEF CheckToken
    <2>2. CASE BeginDequeue(w)
      BY <2>2 DEF BeginDequeue
    <2>3. ASSUME NEW t \in Task, LockRow(w, t) PROVE IInv'
      BY <2>3 DEF LockRow, Lockable
    <2>4. ASSUME NEW t \in Task, SkipRow(w, t) PROVE IInv'
      BY <2>4 DEF SkipRow
    <2>5. CASE CommitDequeue(w)
      BY <2>5, CommitStep
    <2>6. CASE ReturnFromDequeue(w)
      BY <2>6 DEF ReturnFromDequeue
    <2>7. CASE StartExecute(w)
      BY <2>7 DEF StartExecute
    <2>8. CASE ResolveFails(w)
      BY <2>8 DEF ResolveFails
    <2>9. ASSUME NEW result \in Final, ExecuteEnds(w, result) PROVE IInv'
      BY <2>9 DEF ExecuteEnds
    <2>10. CASE SaveOutcome(w)
      BY <2>10, SaveStep DEF SaveOutcome, SaveCommits
    <2>11. QED
      BY <1>2, <2>1, <2>2, <2>3, <2>4, <2>5, <2>6, <2>7, <2>8, <2>9, <2>10 DEF WorkerStep
  <1>3. ASSUME NEW w \in Worker, DequeueThrows(w) PROVE IInv'
    BY <1>3 DEF DequeueThrows, RowsReleased
  <1>4. ASSUME NEW w \in Worker, WorkerThrows(w) PROVE IInv'
    BY <1>4 DEF WorkerThrows, WorkerEnds, LetGo
  <1>5. ASSUME NEW w \in Worker, SaveReplyLost(w) PROVE IInv'
    BY <1>5, SaveStep DEF SaveReplyLost, WorkerEnds
  <1>6. ASSUME NEW h \in Host, Stop(h) PROVE IInv'
    BY <1>6 DEF Stop
  <1>7. ASSUME NEW h \in Host, Disappear(h) PROVE IInv'
    BY <1>7 DEF Disappear, Reset, RowsReleased, WorkersOf
  <1>8. ASSUME NEW h \in Host, Start(h) PROVE IInv'
    <2>1. \A w \in Worker : HostOf[w] = h => pc[w] = "ended" /\ pc'[w] = "loop"
      BY <1>8 DEF Start, Reset
    <2>2. \A w \in Worker : HostOf[w] # h => pc'[w] = pc[w]
      BY <1>8 DEF Start, Reset
    <2>3. HandsInv' /\ RowsInv' /\ MonitorInv'
      BY <1>8, <2>1, <2>2 DEF Start
    <2>4. SingleOwner' /\ RunsInv' /\ AtMostOnce'
      BY <1>8, <2>1, <2>2 DEF Start
    <2>5. ContextInv' /\ DownInv'
      BY <1>8, <2>1, <2>2 DEF Start
    <2>6. QED
      BY <2>3, <2>4, <2>5
  <1>9. CASE UNCHANGED vars
    BY <1>9 DEF vars
  <1>10. QED
    BY <1>1, <1>2, <1>3, <1>4, <1>5, <1>6, <1>7, <1>8, <1>9 DEF Next, Exit, Crash

\* The invariant holds in every reachable state.
THEOREM Invariant == Spec => []IInv
  BY InitIInv, IInvStep, PTL DEF Spec

-----------------------------------------------------------------------------
(* Safety: what the inductive invariant says.                              *)

\* Every variable has its type in every reachable state.
THEOREM TypeCorrect == Spec => []TypeOK
  BY Invariant, PTL DEF IInv

\* No task's Execute is ever entered twice, whatever fails.
THEOREM ExecutedAtMostOnce == Spec => []AtMostOnce
  BY Invariant, PTL DEF IInv

\* No two workers ever have the same task, and its row reads "processing" while
\* one has it.
THEOREM OwnedBySingleWorker == Spec => []SingleOwner
  BY Invariant, PTL DEF IInv

\* A worker starts every task with nothing unsaved in its DbContext.
THEOREM ContextIsClean == Spec => []CleanContext
  <1>1. IInv => CleanContext
    BY DEF IInv, TypeOK, ContextInv, CleanContext
  <1>2. QED
    BY <1>1, Invariant, PTL

\* Row locks are only held by the worker inside its process's lock.
THEOREM RowLocksUnderMonitor == Spec => []LocksUnderMonitor
  <1>1. IInv => LocksUnderMonitor
    BY DEF IInv, RowsInv, MonitorInv, LocksUnderMonitor, Held
  <1>2. QED
    BY <1>1, Invariant, PTL

-----------------------------------------------------------------------------
(* What a step may never do.                                               *)

\* The rows whose status a step may change: those waiting or processing.
\* A row that leaves "processing" does so through the worker that owns it.
LEMMA StatusStep ==
  ASSUME IInv, [Next]_vars, NEW t \in Task, status'[t] # status[t]
  PROVE  \/ status[t] \in {"absent", "enqueued"}
         \/ \E w \in Worker : Owns(w, t)
  <1> USE QueueAssumption DEF IInv, TypeOK, dbVars
  <1>1. ASSUME NEW u \in Task, Enqueue(u) PROVE status[t] \in {"absent", "enqueued"}
    BY <1>1 DEF Enqueue
  <1>2. ASSUME NEW w \in Worker, CommitDequeue(w) PROVE status[t] \in {"absent", "enqueued"}
    <2>1. task[w] # NoTask /\ task[w] = t
      BY <1>2 DEF CommitDequeue
    <2>2. QED
      BY <1>2, <2>1, ClaimedRowIsFree DEF CommitDequeue
  <1>3. ASSUME NEW w \in Worker, SaveCommits(w) PROVE Owns(w, t)
    BY <1>3 DEF SaveCommits, Owns, HandsInv
  <1>4. ASSUME NEW w \in Worker, WorkerStep(w), ~CommitDequeue(w), ~SaveCommits(w)
        PROVE  FALSE
    BY <1>4 DEF WorkerStep, CheckToken, BeginDequeue, LockRow, SkipRow, ReturnFromDequeue,
                StartExecute, ResolveFails, ExecuteEnds, SaveOutcome
  <1>5. CASE \/ \E w \in Worker : DequeueThrows(w) \/ WorkerThrows(w)
             \/ \E h \in Host : Stop(h) \/ Disappear(h) \/ Start(h)
             \/ UNCHANGED vars
    BY <1>5 DEF DequeueThrows, WorkerThrows, Stop, Disappear, Start, vars
  <1>6. QED
    BY <1>1, <1>2, <1>3, <1>4, <1>5 DEF Next, SaveReplyLost, Exit, Crash

\* A complete or failed row never changes again.
THEOREM FinalStaysFinal == Spec => FinalIsFinal
  <1>1. IInv /\ [Next]_vars => [\A t \in Task : status[t] \in Final => status'[t] = status[t]]_vars
    <2> SUFFICES ASSUME IInv, [Next]_vars, NEW t \in Task, status[t] \in Final,
                        status'[t] # status[t]
                 PROVE  FALSE
      OBVIOUS
    <2>1. \E w \in Worker : Owns(w, t)
      BY StatusStep DEF Final
    <2>2. QED
      BY <2>1 DEF IInv, SingleOwner, Final
  <1>2. QED
    BY <1>1, Invariant, PTL DEF Spec, FinalIsFinal

\* A task whose worker lost it is never taken again by anyone.
THEOREM LostForEver == Spec => LostStaysLost
  <1>1. IInv /\ IInv' /\ [Next]_vars => [\A t \in Task : Lost(t) => Lost(t)']_vars
    <2> SUFFICES ASSUME IInv, IInv', [Next]_vars, NEW t \in Task, Lost(t)
                 PROVE  Lost(t)'
      OBVIOUS
    <2>1. status'[t] = "processing"
      BY StatusStep DEF Lost
    <2>2. ASSUME NEW w \in Worker, Owns(w, t)' PROVE FALSE
      <3>1. ~Owns(w, t) /\ status[t] = "processing"
        BY DEF Lost
      <3>2. ~(pc[w] = "selecting" /\ task[w] = t)
        BY <3>1, QueueAssumption DEF IInv, RowsInv
      <3> USE QueueAssumption DEF IInv, TypeOK, Owns, HandsInv, workVars
      <3>3. ASSUME WorkerStep(w) PROVE FALSE
        BY <2>2, <3>1, <3>2, <3>3
        DEF WorkerStep, CheckToken, BeginDequeue, LockRow, SkipRow, CommitDequeue,
            ReturnFromDequeue, StartExecute, ResolveFails, ExecuteEnds, SaveOutcome, LetGo
      <3>4. ASSUME NEW v \in Worker \ {w}, WorkerStep(v) PROVE FALSE
        BY <2>2, <3>1, <3>4
        DEF WorkerStep, CheckToken, BeginDequeue, LockRow, SkipRow, CommitDequeue,
            ReturnFromDequeue, StartExecute, ResolveFails, ExecuteEnds, SaveOutcome, LetGo
      <3>5. ASSUME NEW v \in Worker, DequeueThrows(v) \/ WorkerThrows(v) \/ SaveReplyLost(v)
            PROVE  FALSE
        BY <2>2, <3>1, <3>5 DEF DequeueThrows, WorkerThrows, SaveReplyLost, WorkerEnds, LetGo
      <3>6. ASSUME NEW h \in Host, Stop(h) \/ Disappear(h) \/ Start(h) PROVE FALSE
        BY <2>2, <3>1, <3>6 DEF Stop, Disappear, Start, Reset
      <3>7. CASE UNCHANGED vars
        BY <2>2, <3>1, <3>7 DEF vars
      <3>8. CASE \E u \in Task : Enqueue(u)
        BY <2>2, <3>1, <3>8 DEF Enqueue
      <3>9. QED
        BY <3>3, <3>4, <3>5, <3>6, <3>7, <3>8 DEF Next, Exit, Crash
    <2>3. QED
      BY <2>1, <2>2 DEF Lost
  <1>2. QED
    BY <1>1, Invariant, PTL DEF Spec, LostStaysLost

-----------------------------------------------------------------------------
(* Oldest first.                                                           *)

\* The row a SELECT returns is the oldest of those it has locked, and older than
\* those it has still to visit.
OrderInv ==
  \A w \in Worker, t \in Task :
    /\ rowLock[t] = w => task[w] # NoTask /\ task[w] <= t
    /\ t \in snap[w] /\ t \notin skipped[w] /\ task[w] # NoTask => task[w] <= t

\* The order survives every step: rows are visited oldest first.
LEMMA OrderStep == IInv /\ IInv' /\ OrderInv /\ [Next]_vars => OrderInv'
  <1> SUFFICES ASSUME IInv, IInv', OrderInv, [Next]_vars PROVE OrderInv'
    OBVIOUS
  <1> USE QueueAssumption
      DEF OrderInv, IInv, TypeOK, dbVars, hostVars, selectVars, workVars
  <1>1. ASSUME NEW t \in Task, Enqueue(t) PROVE OrderInv'
    BY <1>1 DEF Enqueue
  <1>2. ASSUME NEW w \in Worker, WorkerStep(w) PROVE OrderInv'
    <2>1. CASE CheckToken(w) \/ ReturnFromDequeue(w) \/ StartExecute(w) \/ ResolveFails(w)
      BY <2>1 DEF CheckToken, ReturnFromDequeue, StartExecute, ResolveFails
    <2>2. CASE BeginDequeue(w)
      BY <2>2 DEF BeginDequeue, HandsInv
    <2>3. ASSUME NEW t \in Task, LockRow(w, t) PROVE OrderInv'
      BY <2>3 DEF LockRow, Lockable, NextRow, ToVisit, Held
    <2>4. ASSUME NEW t \in Task, SkipRow(w, t) PROVE OrderInv'
      BY <2>4 DEF SkipRow
    <2>5. CASE CommitDequeue(w)
      BY <2>5 DEF CommitDequeue, RowsReleased
    <2>6. ASSUME NEW result \in Final, ExecuteEnds(w, result) PROVE OrderInv'
      BY <2>6 DEF ExecuteEnds
    <2>7. CASE SaveOutcome(w)
      BY <2>7 DEF SaveOutcome, SaveCommits, LetGo, RowsInv
    <2>8. QED
      BY <1>2, <2>1, <2>2, <2>3, <2>4, <2>5, <2>6, <2>7 DEF WorkerStep
  <1>3. ASSUME NEW w \in Worker, DequeueThrows(w) PROVE OrderInv'
    BY <1>3 DEF DequeueThrows, RowsReleased
  <1>4. ASSUME NEW w \in Worker, WorkerThrows(w) \/ SaveReplyLost(w) PROVE OrderInv'
    BY <1>4 DEF WorkerThrows, SaveReplyLost, SaveCommits, WorkerEnds, LetGo, RowsInv
  <1>5. ASSUME NEW h \in Host, Stop(h) PROVE OrderInv'
    BY <1>5 DEF Stop
  <1>6. ASSUME NEW h \in Host, Disappear(h) PROVE OrderInv'
    BY <1>6 DEF Disappear, Reset, RowsReleased, WorkersOf
  <1>7. ASSUME NEW h \in Host, Start(h) PROVE OrderInv'
    BY <1>7 DEF Start
  <1>8. CASE UNCHANGED vars
    BY <1>8 DEF vars
  <1>9. QED
    BY <1>1, <1>2, <1>3, <1>4, <1>5, <1>6, <1>7, <1>8 DEF Next, Exit, Crash

\* A row a SELECT passes over although it waits is locked by another host.
LEMMA SkippedForAnotherHost ==
  ASSUME IInv, [Next]_vars, NEW w \in Worker, NEW u \in Task,
         u \in skipped'[w] \ skipped[w], status[u] = "enqueued"
  PROVE  \E v \in Worker : rowLock[u] = v /\ HostOf[v] # HostOf[w]
  <1> USE QueueAssumption DEF IInv, TypeOK, selectVars
  <1>1. CASE SkipRow(w, u)
    <2>1. PICK v \in Worker : rowLock[u] = v
      BY <1>1 DEF SkipRow, Lockable
    <2>2. pc[v] = "selecting" /\ pc[w] = "selecting" /\ v # w
      BY <1>1, <2>1 DEF SkipRow, NextRow, ToVisit, Held, RowsInv
    <2>3. QED
      BY <2>1, <2>2, OneSelectPerHost
  <1>2. ASSUME NEW v \in Worker, WorkerStep(v), ~SkipRow(w, u) PROVE FALSE
    BY <1>2 DEF WorkerStep, CheckToken, BeginDequeue, LockRow, SkipRow, CommitDequeue,
                ReturnFromDequeue, StartExecute, ResolveFails, ExecuteEnds, SaveOutcome
  <1>3. ASSUME NEW v \in Worker, DequeueThrows(v) \/ WorkerThrows(v) \/ SaveReplyLost(v)
        PROVE  FALSE
    BY <1>3 DEF DequeueThrows, WorkerThrows, SaveReplyLost, WorkerEnds
  <1>4. ASSUME NEW h \in Host, Stop(h) \/ Disappear(h) \/ Start(h) PROVE FALSE
    BY <1>4 DEF Stop, Disappear, Start, Reset
  <1>5. CASE UNCHANGED vars \/ \E t \in Task : Enqueue(t)
    BY <1>5 DEF vars, Enqueue
  <1>6. QED
    BY <1>1, <1>2, <1>3, <1>4, <1>5 DEF Next, Exit, Crash

\* A waiting row that changes while a SELECT has it in hand is the one that
\* SELECT's own commit takes.
LEMMA OnlyOwnCommitTakes ==
  ASSUME IInv, [Next]_vars, NEW w \in Worker, task[w] # NoTask, pc[w] = "selecting",
         status'[task[w]] # status[task[w]]
  PROVE  CommitDequeue(w)
  <1> USE QueueAssumption DEF IInv, TypeOK, dbVars
  <1>1. /\ task[w] \in Task
        /\ status[task[w]] = "enqueued"
        /\ \A v \in Worker : ~Owns(v, task[w])
        /\ \A v \in Worker \ {w} : pc[v] = "selecting" => task[v] # task[w]
    BY ClaimedRowIsFree
  <1>2. ASSUME NEW v \in Worker, SaveCommits(v) PROVE FALSE
    <2>1. Owns(v, task[v]) /\ task[v] # task[w]
      BY <1>1, <1>2 DEF SaveCommits, Owns
    <2>2. QED
      BY <1>1, <1>2, <2>1 DEF SaveCommits
  <1>3. ASSUME NEW v \in Worker \ {w}, CommitDequeue(v) PROVE FALSE
    BY <1>1, <1>3 DEF CommitDequeue
  <1>4. ASSUME NEW v \in Worker, WorkerStep(v), ~CommitDequeue(v), ~SaveCommits(v) PROVE FALSE
    BY <1>4 DEF WorkerStep, CheckToken, BeginDequeue, LockRow, SkipRow,
                ReturnFromDequeue, StartExecute, ResolveFails, ExecuteEnds, SaveOutcome
  <1>5. CASE \/ \E v \in Worker : DequeueThrows(v) \/ WorkerThrows(v)
             \/ \E h \in Host : Stop(h) \/ Disappear(h) \/ Start(h)
             \/ UNCHANGED vars
    BY <1>5 DEF DequeueThrows, WorkerThrows, Stop, Disappear, Start, vars
  <1>6. CASE \E t \in Task : Enqueue(t)
    BY <1>1, <1>6 DEF Enqueue
  <1>7. QED
    BY <1>2, <1>3, <1>4, <1>5, <1>6 DEF Next, SaveReplyLost, Exit, Crash

\* Tasks are taken oldest first, up to rows that another host has locked.
THEOREM TakenOldestFirst == Spec => OldestFirst
  <1> DEFINE Ordered ==
        \A w \in Worker, u \in Task :
          /\ (u \in skipped'[w] \ skipped[w] /\ status[u] = "enqueued")
               => \E v \in Worker : rowLock[u] = v /\ HostOf[v] # HostOf[w]
          /\ (/\ u \in snap[w] /\ task[w] # NoTask
              /\ status[u] = "enqueued" /\ status'[u] = "enqueued"
              /\ status[task[w]] # status'[task[w]])
               => u > task[w] \/ u \in skipped[w]
  <1>1. Init => OrderInv
    <2> SUFFICES ASSUME Init, NEW w \in Worker, NEW t \in Task
                 PROVE  rowLock[t] # w /\ t \notin snap[w]
      BY DEF OrderInv
    <2>1. QED
      BY QueueAssumption DEF Init
  <1>2. IInv /\ OrderInv /\ [Next]_vars => [Ordered]_vars
    <2> SUFFICES ASSUME IInv, OrderInv, [Next]_vars, NEW w \in Worker, NEW u \in Task,
                        u \in snap[w], task[w] # NoTask,
                        status[u] = "enqueued", status'[u] = "enqueued",
                        status[task[w]] # status'[task[w]], u \notin skipped[w]
                 PROVE  u > task[w]
      BY SkippedForAnotherHost
    <2>1. task[w] # u /\ task[w] <= u
      BY DEF OrderInv
    <2>2. task[w] \in Nat /\ u \in Nat
      BY QueueAssumption DEF IInv, TypeOK
    <2>3. QED
      BY <2>1, <2>2
  <1>3. QED
    BY <1>1, <1>2, Invariant, IInvStep, OrderStep, PTL DEF Spec, OldestFirst

-----------------------------------------------------------------------------
(* The queue implements the ledger.                                        *)

\* Every step of the queue is a step of the ledger or leaves it unchanged.
LEMMA LedgerStep == IInv /\ [Next]_vars => [Ledger!Next]_(Ledger!vars)
  <1> SUFFICES ASSUME IInv, [Next]_vars
               PROVE  Ledger!Next \/ UNCHANGED Ledger!vars
    OBVIOUS
  <1> USE QueueAssumption DEF Ledger!vars, IInv, TypeOK, dbVars
  <1>1. ASSUME NEW t \in Task, Enqueue(t) PROVE Ledger!Next
    BY <1>1 DEF Enqueue, Ledger!Next, Ledger!Submit
  <1>2. ASSUME NEW w \in Worker, CommitDequeue(w), task[w] # NoTask PROVE Ledger!Next
    <2>1. task[w] \in Task /\ status[task[w]] = "enqueued"
      BY <1>2, ClaimedRowIsFree DEF CommitDequeue
    <2>2. Ledger!Claim(task[w])
      BY <1>2, <2>1 DEF CommitDequeue, Ledger!Claim
    <2>3. QED
      BY <2>1, <2>2 DEF Ledger!Next
  <1>3. ASSUME NEW w \in Worker, StartExecute(w) PROVE Ledger!Next
    <2>1. task[w] \in Task /\ status[task[w]] = "processing" /\ executions[task[w]] = 0
      BY <1>3 DEF StartExecute, HandsInv, SingleOwner, Owns, RunsInv
    <2>2. Ledger!Execute(task[w])
      BY <1>3, <2>1 DEF StartExecute, Ledger!Execute
    <2>3. QED
      BY <2>1, <2>2 DEF Ledger!Next
  <1>4. ASSUME NEW w \in Worker, SaveCommits(w), UNCHANGED executions PROVE Ledger!Next
    <2>1. /\ task[w] \in Task
          /\ status[task[w]] = "processing"
          /\ outcome[w] \in Final
      BY <1>4 DEF SaveCommits, HandsInv, ContextInv, SingleOwner, Owns
    <2>2. outcome[w] = "complete" => executions[task[w]] = 1
      BY <1>4, <2>1 DEF SaveCommits, RunsInv
    <2>3. effects' \in {effects, effects \union {task[w]}}
      <3>1. unsaved[w] \subseteq {task[w]}
        BY DEF ContextInv
      <3>2. CASE unsaved[w] = {}
        BY <1>4, <3>2 DEF SaveCommits
      <3>3. CASE unsaved[w] = {task[w]}
        BY <1>4, <3>3 DEF SaveCommits
      <3>4. QED
        BY <3>1, <3>2, <3>3
    <2>4. Ledger!Finish(task[w], outcome[w])
      BY <1>4, <2>1, <2>2, <2>3 DEF SaveCommits, Ledger!Finish
    <2>5. QED
      BY <2>1, <2>4 DEF Ledger!Next, Ledger!Final, Final
  <1>5. ASSUME NEW w \in Worker, CommitDequeue(w), task[w] = NoTask
        PROVE  UNCHANGED Ledger!vars
    BY <1>5 DEF CommitDequeue
  <1>6. ASSUME NEW w \in Worker, WorkerStep(w), ~CommitDequeue(w), ~StartExecute(w),
               ~SaveOutcome(w)
        PROVE  UNCHANGED Ledger!vars
    BY <1>6 DEF WorkerStep, CheckToken, BeginDequeue, LockRow, SkipRow,
                ReturnFromDequeue, ResolveFails, ExecuteEnds
  <1>7. CASE \/ \E w \in Worker : DequeueThrows(w) \/ WorkerThrows(w)
             \/ \E h \in Host : Stop(h) \/ Disappear(h) \/ Start(h)
             \/ UNCHANGED vars
    BY <1>7 DEF DequeueThrows, WorkerThrows, WorkerEnds, Stop, Disappear, Start, vars
  <1>8. QED
    BY <1>1, <1>2, <1>3, <1>4, <1>5, <1>6, <1>7
    DEF Next, SaveOutcome, SaveReplyLost, WorkerEnds, Exit, Crash

\* The queue implements the ledger its callers rely on.
THEOREM QueueImplementsLedger == Spec => ImplementsLedger
  <1>1. Init => Ledger!Init
    BY DEF Init, Ledger!Init
  <1>2. QED
    BY <1>1, LedgerStep, Invariant, PTL DEF Spec, ImplementsLedger, Ledger!Spec
=============================================================================
