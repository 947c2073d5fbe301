------------------------- MODULE JobLifecycleProofs -------------------------
(* What JobLifecycle guarantees for any jobs, nodes, commands and bounds:  *)
(* types; no pending job falls off the queue, no job is reported           *)
(* completed without its receipt, no running job is left without a thread  *)
(* that will decide it; unless operators retry, none is dispatched more    *)
(* often than the cap allows; and, until something goes wrong, none is     *)
(* evicted without its outcome in the database.                            *)
EXTENDS JobLifecycle, SequenceTheorems, FiniteSetTheorems, TLAPS

USE LifecycleAssumption

-----------------------------------------------------------------------------
(* Types.                                                                  *)

(* The statuses the code assigns are statuses.                             *)
LEMMA Statuses ==
    /\ {"new", "pending", "running", "completed", "failed", "cancelled"}
          \subseteq MemStatus
    /\ Outcomes \subseteq MemStatus
    /\ MemStatus \subseteq RowStatus
    /\ "none" \in RowStatus
    /\ \A x \in RowStatus : x # "none" => x \in MemStatus
BY DEF MemStatus, RowStatus, Terminal

(* Assigning one field of a job dict.                                      *)
LEMMA JobEdits ==
    ASSUME NEW f \in [Jobs -> JobRecs], NEW j \in Jobs
    PROVE  /\ f[j] \in JobRecs
           /\ \A s \in MemStatus :
                 [f EXCEPT ![j].status = s] \in [Jobs -> JobRecs]
           /\ \A n \in Nodes \cup {NoNode} :
                 [f EXCEPT ![j].node = n] \in [Jobs -> JobRecs]
           /\ \A a \in Nat : [f EXCEPT ![j].attempt = a] \in [Jobs -> JobRecs]
           /\ \A b \in BOOLEAN :
                 [f EXCEPT ![j].cancel = b] \in [Jobs -> JobRecs]
BY DEF JobRecs

(* The queue after put(), and after get() and put().                       *)
LEMMA QueueTypes ==
    ASSUME queue \in Seq(Jobs)
    PROVE  /\ \A j \in Jobs : Append(queue, j) \in Seq(Jobs)
           /\ queue # <<>> => /\ Head(queue) \in Jobs
                              /\ Tail(queue) \in Seq(Jobs)
                              /\ Requeued \in Seq(Jobs)
<1>1. ASSUME queue # <<>>
      PROVE  Head(queue) \in Jobs /\ Tail(queue) \in Seq(Jobs)
  BY <1>1, HeadTailProperties
<1>2. QED
  BY <1>1 DEF Requeued

(* A runner keeps its shape whatever its next program point.               *)
LEMMA BecomeType ==
    ASSUME TypeOK, NEW r \in runners, NEW s \in Runners, Become(r, s)
    PROVE  runners' \subseteq Runners
BY DEF Become, TypeOK

(* Launch dispatches a job with a new runner.                              *)
LEMMA LaunchType ==
    ASSUME TypeOK, NEW j \in Jobs, NEW n \in Nodes, Launch(j, n)
    PROVE  job' \in [Jobs -> JobRecs] /\ runners' \subseteq Runners
<1>1. job \in [Jobs -> JobRecs]
  BY DEF TypeOK
<1>2. job[j].attempt \in Nat /\ "running" \in MemStatus
  BY <1>1, Statuses DEF JobRecs
<1>5. job' \in [Jobs -> JobRecs]
  <2>1. [status |-> "running", node |-> n, attempt |-> job[j].attempt + 1,
         cancel |-> job[j].cancel] \in JobRecs
    BY <1>1, <1>2 DEF JobRecs
  <2>2. QED
    BY <1>1, <2>1 DEF Launch
<1>6. [job |-> j, attempt |-> job[j].attempt + 1, node |-> n, gen |-> 0,
       id |-> 0, pc |-> "start", out |-> "success", stale |-> FALSE] \in Runners
  BY <1>2 DEF Runners, RunnerPC
<1>7. QED
  BY <1>5, <1>6 DEF Launch, TypeOK

(* Freeing a node leaves the registry in type.                             *)
LEMMA MarkIdleType ==
    ASSUME TypeOK, NEW n \in Nodes
    PROVE  MarkIdle(n) \in [Nodes -> NodeStatus]
BY DEF TypeOK, MarkIdle, NodeStatus

(* A status written to the table leaves the table in type.                 *)
LEMMA StoredType ==
    ASSUME TypeOK, NEW j \in Jobs, NEW s \in MemStatus
    PROVE  Stored(j, s) \in [Jobs -> Rows]
BY Statuses DEF TypeOK, Stored, Rows

(* Closing an attempt row leaves the attempts in type.                     *)
LEMMA CloseAttemptType ==
    ASSUME TypeOK, NEW j \in Jobs, NEW i, NEW o \in Outcomes,
           CloseAttempt(j, i, o)
    PROVE  attempts' \in [Jobs -> AttemptRows]
<1>1. attempts[j] \in AttemptRows /\ attempts \in [Jobs -> AttemptRows]
  BY DEF TypeOK
<1>2. CASE i \in DOMAIN attempts[j]
  <2>1. i \in 1 .. Len(attempts[j])
    BY <1>1, <1>2, LenProperties DEF AttemptRows
  <2>2. [attempts[j] EXCEPT ![i] = o] \in AttemptRows
    BY <1>1, <2>1, ExceptSeq DEF AttemptRows
  <2>3. QED
    BY <1>1, <1>2, <2>2 DEF CloseAttempt
<1>3. CASE i \notin DOMAIN attempts[j]
  BY <1>1, <1>3 DEF CloseAttempt
<1>4. QED
  BY <1>2, <1>3

(* The fault counter counts.                                               *)
LEMMA FaultType == ASSUME TypeOK, Fault PROVE faults' \in Nat
BY DEF Fault, TypeOK

(* The status a failure gets.                                              *)
LEMMA FailStatusType ==
    \A j \in Jobs : FailStatus(j) \in {"cancelled", "failed"}
BY DEF FailStatus

(* The initial state is in type.                                           *)
LEMMA InitType == Init => TypeOK /\ HandsOK
<1> SUFFICES ASSUME Init PROVE TypeOK /\ HandsOK
  OBVIOUS
<1>1. job \in [Jobs -> JobRecs]
  BY Statuses DEF Init, NewJob, JobRecs
<1>2. db \in [Jobs -> Rows]
  BY Statuses DEF Init, NoRow, Rows
<1>3. attempts \in [Jobs -> AttemptRows]
  BY EmptySeq DEF Init, AttemptRows
<1>4. queue \in Seq(Jobs)
  BY EmptySeq DEF Init
<1>5. TypeOK
  BY <1>1, <1>2, <1>3, <1>4
  DEF Init, TypeOK, NodeStatus, SchedRecs, RecRecs, IdleSched, NoRec
<1>6. HandsOK
  BY DEF Init, HandsOK, IdleSched, NoRec
<1>7. QED
  BY <1>5, <1>6

-----------------------------------------------------------------------------
(* Type correctness, one group of actions at a time.                       *)

(* submit_job.                                                             *)
LEMMA SubmitType ==
    ASSUME TypeOK, HandsOK, NEW j \in Jobs, Submit(j) \/ SubmitPersist(j)
    PROVE  TypeOK' /\ HandsOK'
<1>1. CASE Submit(j)
  <2>1. job' \in [Jobs -> JobRecs]
    BY <1>1, Statuses, JobEdits DEF Submit, TypeOK
  <2>2. queue' \in Seq(Jobs) /\ writes' \subseteq Writes
    BY <1>1, QueueTypes DEF Submit, TypeOK, Writes
  <2>3. QED
    BY <1>1, <2>1, <2>2 DEF Submit, TypeOK, HandsOK, store, net
<1>2. CASE SubmitPersist(j)
  <2>1. db' \in [Jobs -> Rows]
    BY <1>2, Statuses DEF SubmitPersist, TypeOK, Rows
  <2>2. QED
    BY <1>2, <2>1 DEF SubmitPersist, TypeOK, HandsOK, net
<1>3. QED
  BY <1>1, <1>2

(* scheduler_loop and assign_job.                                          *)
LEMMA SchedulerType ==
    ASSUME TypeOK, HandsOK, Scheduler PROVE TypeOK' /\ HandsOK'
<1>0. queue \in Seq(Jobs) /\ sched \in SchedRecs /\ reg \in [Nodes -> NodeStatus]
  BY DEF TypeOK
<1>1. CASE SchedPick
  <2>1. queue' \in Seq(Jobs) /\ Head(queue) \in Jobs
    BY <1>0, <1>1, QueueTypes DEF SchedPick
  <2>2. CASE UNCHANGED <<sched, reg>>
    BY <1>1, <2>1, <2>2 DEF SchedPick, TypeOK, HandsOK, store
  <2>3. CASE \E n \in Nodes :
               /\ reg' = [reg EXCEPT ![n] = "busy"]
               /\ sched' = [sched EXCEPT !.pc = "commit", !.job = Head(queue),
                                         !.node = n]
    <3>1. reg' \in [Nodes -> NodeStatus]
      BY <1>0, <2>3 DEF NodeStatus
    <3>2. sched' \in SchedRecs /\ sched'.pc = "commit"
          /\ sched'.job # NoJob /\ sched'.node \in Nodes
      BY <1>0, <2>1, <2>3 DEF SchedRecs
    <3>3. QED
      BY <1>1, <2>1, <3>1, <3>2 DEF SchedPick, TypeOK, HandsOK, store
  <2>4. QED
    BY <1>1, <2>2, <2>3 DEF SchedPick, Eligible
<1>2. CASE SchedCrash
  <2>1. queue' \in Seq(Jobs)
    BY <1>0, <1>2, QueueTypes DEF SchedCrash
  <2>2. sched' \in SchedRecs /\ sched'.pc # "commit" /\ sched'.job = sched.job
    <3>1. sched.crashes + 1 \in Nat
      BY <1>0 DEF SchedRecs
    <3>2. \E p \in {"idle", "dead"} :
             sched' = [sched EXCEPT !.crashes = sched.crashes + 1, !.pc = p]
      BY <1>2 DEF SchedCrash
    <3>3. QED
      BY <1>0, <3>1, <3>2 DEF SchedRecs
  <2>3. QED
    BY <1>2, <2>1, <2>2 DEF SchedCrash, TypeOK, HandsOK, store, net
<1>3. CASE SchedCommit
  <2>1. sched' \in SchedRecs /\ sched'.pc = "idle" /\ sched'.job = NoJob
    BY <1>0, <1>3 DEF SchedCommit, SchedRecs
  <2>2. sched.job \in Jobs /\ sched.node \in Nodes
    BY <1>0, <1>3 DEF SchedCommit, HandsOK, SchedRecs
  <2>3. /\ queue' \in Seq(Jobs)
        /\ job' \in [Jobs -> JobRecs] /\ runners' \subseteq Runners
        /\ reg' \in [Nodes -> NodeStatus]
    BY <1>0, <1>3, <2>2, QueueTypes, LaunchType
    DEF SchedCommit, TypeOK, NodeStatus
  <2>4. QED
    BY <1>3, <2>1, <2>3 DEF SchedCommit, TypeOK, HandsOK, store
<1>4. QED
  BY <1>1, <1>2, <1>3 DEF Scheduler

(* The program points that steps below mention by name.                    *)
LEMMA PCs == {"sent", "answered", "free", "persist"} \subseteq RunnerPC
BY DEF RunnerPC

(* A runner's fields are in type, and so is a runner at another point.     *)
LEMMA RunnerShape ==
    ASSUME TypeOK, NEW r \in runners
    PROVE  /\ r \in Runners
           /\ r.job \in Jobs /\ r.node \in Nodes /\ r.out \in Outcomes
           /\ r.gen \in Nat /\ r.id \in Nat
           /\ job[r.job] \in JobRecs /\ job[r.job].status \in MemStatus
           /\ \A p \in RunnerPC : [r EXCEPT !.pc = p] \in Runners
           /\ \A p \in RunnerPC :
                 [r EXCEPT !.pc = p, !.gen = 0, !.id = 0] \in Runners
           /\ Runners # {}
<1>1. r \in Runners
  BY DEF TypeOK
<1>2. r.job \in Jobs
  BY <1>1 DEF Runners
<1>3. job[r.job] \in JobRecs /\ job[r.job].status \in MemStatus
  BY <1>2 DEF TypeOK, JobRecs
<1>4. QED
  BY <1>1, <1>3 DEF Runners

(* _run_job as far as send_job's answer.                                   *)
LEMMA SendType ==
    ASSUME TypeOK, HandsOK, NEW r \in runners,
           \/ RunSend(r) \/ RegisterWaiter(r) \/ Answer(r) \/ SaveAnswer(r)
           \/ LoseSession(r) \/ DispatchTimeout(r) \/ LostCancelled(r)
    PROVE  TypeOK' /\ HandsOK'
<1>0. /\ r \in Runners
      /\ r.job \in Jobs /\ r.node \in Nodes /\ r.out \in Outcomes
      /\ r.gen \in Nat /\ r.id \in Nat
      /\ \A p \in RunnerPC : [r EXCEPT !.pc = p] \in Runners
      /\ \A p \in RunnerPC :
            [r EXCEPT !.pc = p, !.gen = 0, !.id = 0] \in Runners
  BY RunnerShape
<1>1. CASE RunSend(r)
  <2>1. CASE /\ UNCHANGED <<db, attempts>>
             /\ \E p \in {"stranded", "lost"} : Become(r, [r EXCEPT !.pc = p])
    <3>1. runners' \subseteq Runners
      BY <1>0, <2>1, BecomeType DEF RunnerPC
    <3>2. QED
      BY <1>1, <2>1, <3>1 DEF RunSend, TypeOK, HandsOK, net
  <2>2. CASE /\ db' = [db EXCEPT ![r.job] =
                          IF @.status = "none"
                          THEN [status |-> "pending", owned |-> FALSE] ELSE @]
             /\ attempts' = [attempts EXCEPT ![r.job] = Append(@, "dispatched")]
             /\ Become(r, [r EXCEPT !.pc = "sent", !.gen = live[r.node],
                                    !.id = Len(attempts[r.job]) + 1])
    <3>1. db' \in [Jobs -> Rows]
      BY <1>0, <2>2, Statuses DEF TypeOK, Rows
    <3>2. attempts[r.job] \in AttemptRows /\ attempts \in [Jobs -> AttemptRows]
      BY <1>0 DEF TypeOK
    <3>3. Append(attempts[r.job], "dispatched") \in AttemptRows
          /\ Len(attempts[r.job]) + 1 \in Nat
      BY <3>2, LenProperties DEF AttemptRows
    <3>4. attempts' \in [Jobs -> AttemptRows]
      BY <2>2, <3>2, <3>3
    <3>5. live[r.node] \in Nat
      BY <1>0 DEF TypeOK
    <3>6. [r EXCEPT !.pc = "sent", !.gen = live[r.node],
                    !.id = Len(attempts[r.job]) + 1] \in Runners
      BY <1>0, <3>3, <3>5, PCs DEF Runners
    <3>7. runners' \subseteq Runners
      BY <2>2, <3>6, BecomeType
    <3>8. QED
      BY <1>1, <3>1, <3>4, <3>7 DEF RunSend, TypeOK, HandsOK, net
  <2>3. QED
    BY <1>1, <2>1, <2>2 DEF RunSend
<1>2. CASE RegisterWaiter(r)
  <2>1. runners' \subseteq Runners
    BY <1>0, <1>2, BecomeType DEF RegisterWaiter, RunnerPC
  <2>2. QED
    BY <1>2, <2>1 DEF RegisterWaiter, TypeOK, HandsOK, store, net
<1>3. CASE Answer(r)
  <2>1. PICK o \in Outcomes :
           /\ Become(r, [r EXCEPT !.pc = "answered", !.out = o, !.gen = 0])
           /\ CloseAttempt(r.job, r.id, o)
    BY <1>3 DEF Answer
  <2>2. [r EXCEPT !.pc = "answered", !.out = o, !.gen = 0] \in Runners
    BY <1>0, PCs DEF Runners
  <2>3. runners' \subseteq Runners /\ attempts' \in [Jobs -> AttemptRows]
    BY <1>0, <2>1, <2>2, BecomeType, CloseAttemptType
  <2>4. QED
    BY <1>3, <2>3 DEF Answer, TypeOK, HandsOK, net
<1>4. CASE SaveAnswer(r)
  <2>1. [r EXCEPT !.pc = "free", !.id = 0] \in Runners
    BY <1>0, PCs DEF Runners
  <2>2. runners' \subseteq Runners
    BY <1>4, <2>1, BecomeType DEF SaveAnswer
  <2>3. db' \in [Jobs -> Rows]
    BY <1>0, <1>4, StoredType, Statuses DEF SaveAnswer, TypeOK
  <2>4. QED
    BY <1>4, <2>2, <2>3 DEF SaveAnswer, TypeOK, HandsOK, net
<1>5. CASE LoseSession(r)
  <2>1. runners' \subseteq Runners
    BY <1>0, <1>5, BecomeType DEF LoseSession, RunnerPC
  <2>2. QED
    BY <1>5, <2>1 DEF LoseSession, TypeOK, HandsOK, store, net
<1>6. CASE DispatchTimeout(r)
  <2>1. runners' \subseteq Runners
    BY <1>0, <1>6, BecomeType DEF DispatchTimeout, RunnerPC
  <2>2. faults' \in Nat
    BY <1>6, FaultType DEF DispatchTimeout, TypeOK
  <2>3. QED
    BY <1>6, <2>1, <2>2 DEF DispatchTimeout, TypeOK, HandsOK, store, net
<1>7. CASE LostCancelled(r)
  <2>1. runners' \subseteq Runners
    BY <1>0, <1>7, BecomeType DEF LostCancelled, RunnerPC
  <2>2. QED
    BY <1>7, <2>1 DEF LostCancelled, TypeOK, HandsOK, store, net
<1>8. QED
  BY <1>1, <1>2, <1>3, <1>4, <1>5, <1>6, <1>7

(* _run_job from the answer, or the exception, to the end of the thread.   *)
LEMMA OutcomeType ==
    ASSUME TypeOK, HandsOK, NEW r \in runners,
           \/ RaisedCheck(r) \/ RecordFailure(r) \/ FreeNode(r)
           \/ CheckStale(r) \/ MakeReceipt(r) \/ Finalize(r) \/ Persist(r)
           \/ Strand(r) \/ FailStranded(r) \/ Exit(r)
    PROVE  TypeOK' /\ HandsOK'
<1>0. /\ r \in Runners
      /\ r.job \in Jobs /\ r.node \in Nodes /\ r.out \in Outcomes
      /\ job[r.job].status \in MemStatus
      /\ \A p \in RunnerPC : [r EXCEPT !.pc = p] \in Runners
  BY RunnerShape
<1>a. FailStatus(r.job) \in MemStatus
  BY <1>0, FailStatusType, Statuses
<1>1. CASE RaisedCheck(r)
  <2>1. runners' \subseteq Runners
    BY <1>0, <1>1, BecomeType DEF RaisedCheck, RunnerPC
  <2>2. QED
    BY <1>1, <2>1 DEF RaisedCheck, TypeOK, HandsOK, store, net
<1>2. CASE RecordFailure(r)
  <2>1. runners' \subseteq Runners
    BY <1>0, <1>2, BecomeType DEF RecordFailure, RunnerPC
  <2>2. job' \in [Jobs -> JobRecs]
    BY <1>0, <1>a, <1>2, JobEdits DEF RecordFailure, TypeOK
  <2>3. QED
    BY <1>2, <2>1, <2>2 DEF RecordFailure, TypeOK, HandsOK, store, net
<1>3. CASE FreeNode(r)
  <2>1. runners' \subseteq Runners
    BY <1>0, <1>3, BecomeType DEF FreeNode, RunnerPC
  <2>2. reg' \in [Nodes -> NodeStatus]
    BY <1>0, <1>3, MarkIdleType DEF FreeNode
  <2>3. QED
    BY <1>3, <2>1, <2>2 DEF FreeNode, TypeOK, HandsOK, store
<1>4. CASE CheckStale(r)
  <2>1. PICK o \in Outcomes :
          Become(r, [r EXCEPT
                       !.out = o, !.stale = IsStale(r) /\ o = "success",
                       !.pc = IF o = "success" THEN "receipt"
                              ELSE IF IsStale(r) THEN "exit" ELSE "final"])
    BY <1>0, <1>4 DEF CheckStale, Enforced
  <2>2. \A b \in BOOLEAN, p \in RunnerPC :
           [r EXCEPT !.out = o, !.stale = b, !.pc = p] \in Runners
    BY <1>0 DEF Runners
  <2>3. /\ (IsStale(r) /\ o = "success") \in BOOLEAN
        /\ (IF o = "success" THEN "receipt"
            ELSE IF IsStale(r) THEN "exit" ELSE "final") \in RunnerPC
    BY DEF RunnerPC
  <2>4. runners' \subseteq Runners
    BY <2>1, <2>2, <2>3, BecomeType
  <2>5. QED
    BY <1>4, <2>4 DEF CheckStale, Enforced, TypeOK, HandsOK, store, net
<1>5. CASE MakeReceipt(r)
  <2>1. \A p \in RunnerPC : [r EXCEPT !.pc = p, !.stale = FALSE] \in Runners
    BY <1>0 DEF Runners
  <2>2. runners' \subseteq Runners
    BY <1>5, <2>1, BecomeType DEF MakeReceipt, RunnerPC
  <2>3. receipts' \subseteq Jobs /\ warned' \subseteq Jobs /\ faults' \in Nat
    BY <1>0, <1>5, FaultType DEF MakeReceipt, TypeOK
  <2>4. QED
    BY <1>5, <2>2, <2>3 DEF MakeReceipt, TypeOK, HandsOK, net
<1>6. CASE Finalize(r)
  <2>1. [r EXCEPT !.pc = "persist", !.out = "success"] \in Runners
    BY <1>0, PCs DEF Runners
  <2>2. runners' \subseteq Runners
    BY <1>6, <2>1, BecomeType DEF Finalize
  <2> DEFINE s == IF r.out = "success" THEN "completed" ELSE FailStatus(r.job)
             f == [job EXCEPT ![r.job].node = r.node]
  <2>3. s \in MemStatus /\ f \in [Jobs -> JobRecs]
    BY <1>0, <1>a, Statuses, JobEdits DEF TypeOK
  <2>4. job' = [f EXCEPT ![r.job].status = s]
    BY <1>0, <1>6 DEF Finalize, TypeOK
  <2>5. job' \in [Jobs -> JobRecs]
    BY <1>0, <2>3, <2>4, JobEdits
  <2>6. QED
    BY <1>6, <2>2, <2>5 DEF Finalize, TypeOK, HandsOK, store, net
<1>7. CASE Persist(r)
  <2>1. runners' \subseteq Runners
    BY <1>0, <1>7, BecomeType DEF Persist, RunnerPC
  <2>2. db' \in [Jobs -> Rows]
    BY <1>0, <1>7, StoredType DEF Persist
  <2>3. QED
    BY <1>7, <2>1, <2>2 DEF Persist, TypeOK, HandsOK, net
<1>8. CASE Strand(r)
  <2>1. runners' \subseteq Runners
    BY <1>0, <1>8, BecomeType DEF Strand, RunnerPC
  <2>2. reg' \in [Nodes -> NodeStatus]
    BY <1>0, <1>8, MarkIdleType DEF Strand
  <2>3. QED
    BY <1>8, <2>1, <2>2 DEF Strand, TypeOK, HandsOK, store
<1>9. CASE FailStranded(r)
  <2>1. [r EXCEPT !.pc = "persist"] \in Runners
    BY <1>0 DEF RunnerPC
  <2>2. runners' \subseteq Runners
    BY <1>9, <2>1, BecomeType DEF FailStranded, TypeOK
  <2>3. job' \in [Jobs -> JobRecs]
    <3>1. CASE job' = [job EXCEPT ![r.job].status = FailStatus(r.job)]
      BY <1>0, <1>a, <3>1, JobEdits DEF TypeOK
    <3>2. CASE UNCHANGED job
      BY <3>2 DEF TypeOK
    <3>3. QED
      BY <1>9, <3>1, <3>2 DEF FailStranded
  <2>4. QED
    BY <1>9, <2>2, <2>3 DEF FailStranded, TypeOK, HandsOK, store, net
<1>10. CASE Exit(r)
  <2>1. held' \subseteq Jobs
    BY <1>10 DEF Exit, TypeOK
  <2>2. QED
    BY <1>10, <2>1 DEF Exit, TypeOK, HandsOK, store, net
<1>11. QED
  BY <1>1, <1>2, <1>3, <1>4, <1>5, <1>6, <1>7, <1>8, <1>9, <1>10

(* Giving a job back: one status, no node.                                 *)
LEMMA ResetType ==
    ASSUME TypeOK, NEW j \in Jobs, NEW s \in MemStatus,
           job' = [job EXCEPT ![j].status = s, ![j].node = NoNode]
    PROVE  job' \in [Jobs -> JobRecs]
<1> DEFINE f == [job EXCEPT ![j].status = s]
<1>1. f \in [Jobs -> JobRecs]
  BY JobEdits DEF TypeOK
<1>2. job' = [f EXCEPT ![j].node = NoNode]
  BY DEF TypeOK
<1>3. QED
  BY <1>1, <1>2, JobEdits

(* recover_jobs.                                                           *)
LEMMA RecoveryType ==
    ASSUME TypeOK, HandsOK, Recovery PROVE TypeOK' /\ HandsOK'
<1>0. rec \in RecRecs /\ held \subseteq Jobs /\ queue \in Seq(Jobs)
      /\ reg \in [Nodes -> NodeStatus]
  BY DEF TypeOK
<1>1. ASSUME NEW n \in Nodes, RecoverBegin(n)
      PROVE  /\ rec' \in RecRecs /\ rec'.cur = NoJob
             /\ held' \subseteq Jobs
  BY <1>0, <1>1 DEF RecoverBegin, RecRecs
<1>2. ASSUME NEW n \in Nodes, RecoverCall(n) PROVE TypeOK' /\ HandsOK'
  BY <1>1, <1>2 DEF RecoverCall, RecoverBegin, TypeOK, HandsOK, store, net
<1>3. ASSUME NEW r \in runners, RecoverLost(r) PROVE TypeOK' /\ HandsOK'
  <2>1. r.node \in Nodes
    BY RunnerShape
  <2>2. QED
    BY <1>1, <1>3, <2>1 DEF RecoverLost, RecoverBegin, TypeOK, HandsOK,
                            store, net
<1>4. ASSUME NEW j \in Jobs, RecoverVisit(j) PROVE TypeOK' /\ HandsOK'
  <2>1. CASE job[j].attempt >= MaxAttempts
    <3>1. job' \in [Jobs -> JobRecs] /\ db' \in [Jobs -> Rows]
      <4>1. /\ job' = [job EXCEPT ![j].status = "failed", ![j].node = NoNode]
            /\ db' = Stored(j, "failed")
        BY <1>4, <2>1 DEF RecoverVisit
      <4>2. "failed" \in MemStatus
        BY Statuses
      <4>3. QED
        BY <4>1, <4>2, ResetType, StoredType
    <3>2. rec' \in RecRecs /\ rec'.cur = NoJob
      BY <1>0, <1>4, <2>1 DEF RecoverVisit, RecRecs
    <3>3. QED
      BY <1>4, <3>1, <3>2 DEF RecoverVisit, TypeOK, HandsOK, net
  <2>2. CASE ~(job[j].attempt >= MaxAttempts)
    <3>1. job' \in [Jobs -> JobRecs]
      BY <1>4, <2>2, ResetType, Statuses DEF RecoverVisit
    <3>2. rec' \in RecRecs /\ rec'.on
      <4>1. rec' = [rec EXCEPT !.todo = rec.todo \ {j}, !.cur = j] /\ rec.on
        BY <1>4, <2>2 DEF RecoverVisit
      <4>2. rec.todo \ {j} \in SUBSET Jobs
        BY <1>0 DEF RecRecs
      <4>3. QED
        BY <1>0, <4>1, <4>2 DEF RecRecs
    <3>3. QED
      BY <1>4, <2>2, <3>1, <3>2 DEF RecoverVisit, TypeOK, HandsOK, net
  <2>3. QED
    BY <2>1, <2>2
<1>5. CASE RecoverAssign
  <2>1. rec' \in RecRecs /\ rec'.cur = NoJob
    BY <1>0, <1>5 DEF RecoverAssign, RecRecs
  <2>2. rec.cur \in Jobs
    BY <1>0, <1>5 DEF RecoverAssign, RecRecs
  <2>3. /\ queue' \in Seq(Jobs)
        /\ job' \in [Jobs -> JobRecs] /\ runners' \subseteq Runners
        /\ reg' \in [Nodes -> NodeStatus]
    BY <1>0, <1>5, <2>2, QueueTypes, LaunchType
    DEF RecoverAssign, TypeOK, NodeStatus, Eligible
  <2>4. QED
    BY <1>5, <2>1, <2>3 DEF RecoverAssign, TypeOK, HandsOK, store
<1>6. CASE RecoverEnd
  <2>1. rec' \in RecRecs /\ rec'.cur = NoJob
    BY <1>6 DEF RecoverEnd, RecRecs, NoRec
  <2>2. QED
    BY <1>6, <2>1 DEF RecoverEnd, TypeOK, HandsOK, store, net
<1>7. QED
  BY <1>2, <1>3, <1>4, <1>5, <1>6 DEF Recovery

(* Workers and their sessions.                                             *)
LEMMA NetworkType ==
    ASSUME TypeOK, HandsOK, Network PROVE TypeOK' /\ HandsOK'
<1>0. /\ reg \in [Nodes -> NodeStatus] /\ live \in [Nodes -> Nat]
      /\ streams \subseteq (Nodes \X Nat) /\ MaxSessions \in Nat
  BY DEF TypeOK
<1>1. ASSUME NEW n \in Nodes, Register(n) PROVE TypeOK' /\ HandsOK'
  <2>1. PICK g \in Unused(n) : /\ live' = [live EXCEPT ![n] = g]
                               /\ streams' = streams \cup {<<n, g>>}
    BY <1>1 DEF Register
  <2>2. g \in 1 .. MaxSessions
    BY <2>1 DEF Unused
  <2>3. g \in Nat
    BY <1>0, <2>2
  <2>5. live' \in [Nodes -> Nat] /\ streams' \subseteq (Nodes \X Nat)
    BY <1>0, <2>1, <2>3
  <2>6. reg' \in [Nodes -> NodeStatus] /\ faults' \in Nat
    BY <1>0, <1>1, FaultType DEF Register, NodeStatus, TypeOK
  <2>7. QED
    BY <1>1, <2>5, <2>6 DEF Register, TypeOK, HandsOK, mem, store
<1>2. ASSUME NEW n \in Nodes, RegisterRefused(n) PROVE TypeOK' /\ HandsOK'
  BY <1>2, FaultType DEF RegisterRefused, TypeOK, HandsOK, mem, store
<1>3. ASSUME NEW n \in Nodes, HealthTimeout(n) PROVE TypeOK' /\ HandsOK'
  <2>1. reg' \in [Nodes -> NodeStatus] /\ faults' \in Nat
    BY <1>0, <1>3, FaultType DEF HealthTimeout, NodeStatus, TypeOK
  <2>2. QED
    BY <1>3, <2>1 DEF HealthTimeout, TypeOK, HandsOK, store
<1>4. ASSUME NEW n \in Nodes, Heartbeat(n) PROVE TypeOK' /\ HandsOK'
  <2>1. reg' \in [Nodes -> NodeStatus]
    BY <1>0, <1>4 DEF Heartbeat, NodeStatus
  <2>2. QED
    BY <1>4, <2>1 DEF Heartbeat, TypeOK, HandsOK, mem, store
<1>5. ASSUME NEW s \in streams, StreamEnd(s[1], s[2]) PROVE TypeOK' /\ HandsOK'
  <2>1. s[1] \in Nodes /\ s[2] \in Nat
    BY <1>0
  <2>2. reg' \in [Nodes -> NodeStatus] /\ calls' \subseteq Nodes
    BY <1>0, <1>5, <2>1 DEF StreamEnd, NodeStatus, TypeOK
  <2>3. live' \in [Nodes -> Nat] /\ streams' \subseteq (Nodes \X Nat)
    BY <1>0, <1>5, <2>1 DEF StreamEnd
  <2>4. faults' \in Nat
    BY <1>5, FaultType DEF StreamEnd, TypeOK
  <2>5. QED
    BY <1>5, <2>2, <2>3, <2>4 DEF StreamEnd, TypeOK, HandsOK, store
<1>6. ASSUME NEW j \in Jobs, LateAnswer(j) PROVE TypeOK' /\ HandsOK'
  <2>1. attempts' \in [Jobs -> AttemptRows] /\ faults' \in Nat
    BY <1>6, CloseAttemptType, FaultType DEF LateAnswer, TypeOK
  <2>2. QED
    BY <1>6, <2>1 DEF LateAnswer, TypeOK, HandsOK, mem, net
<1>7. QED
  BY <1>1, <1>2, <1>3, <1>4, <1>5, <1>6, SendType DEF Network

(* Operator commands.                                                      *)
LEMMA OperatorType ==
    ASSUME TypeOK, HandsOK, Operator PROVE TypeOK' /\ HandsOK'
<1>0. /\ job \in [Jobs -> JobRecs] /\ reg \in [Nodes -> NodeStatus]
      /\ queue \in Seq(Jobs) /\ writes \subseteq Writes
  BY DEF TypeOK
<1>1. ASSUME NEW j \in Jobs, Cancel(j) PROVE TypeOK' /\ HandsOK'
  <2>1. CASE job' = [job EXCEPT ![j].cancel = TRUE]
    <3>1. job' \in [Jobs -> JobRecs]
      BY <1>0, <2>1, JobEdits
    <3>2. QED
      BY <1>1, <3>1 DEF Cancel, TypeOK, HandsOK, store, net, Writes
  <2>2. CASE job' = [job EXCEPT ![j].status = "cancelled", ![j].cancel = TRUE]
    <3> DEFINE f == [job EXCEPT ![j].status = "cancelled"]
    <3>1. f \in [Jobs -> JobRecs]
      BY <1>0, Statuses, JobEdits
    <3>2. job' = [f EXCEPT ![j].cancel = TRUE]
      BY <1>0, <2>2
    <3>3. job' \in [Jobs -> JobRecs]
      BY <3>1, <3>2, JobEdits
    <3>4. QED
      BY <1>1, <3>3 DEF Cancel, TypeOK, HandsOK, store, net, Writes
  <2>3. QED
    BY <1>1, <2>1, <2>2 DEF Cancel
<1>2. ASSUME NEW j \in Jobs, CancelPersist(j) PROVE TypeOK' /\ HandsOK'
  <2>1. job[j].status \in MemStatus
    BY <1>0 DEF JobRecs
  <2>2. db' \in [Jobs -> Rows]
    BY <1>2, <2>1, StoredType DEF CancelPersist
  <2>3. QED
    BY <1>2, <2>2 DEF CancelPersist, TypeOK, HandsOK, net
<1>3. ASSUME NEW j \in Jobs, Retry(j) PROVE TypeOK' /\ HandsOK'
  <2> DEFINE f == [job EXCEPT ![j].status = "pending"]
             g == [f EXCEPT ![j].node = NoNode]
  <2>1. f \in [Jobs -> JobRecs]
    BY <1>0, Statuses, JobEdits
  <2>2. g \in [Jobs -> JobRecs]
    BY <2>1, JobEdits
  <2>3. job' = [g EXCEPT ![j].cancel = FALSE]
    BY <1>0, <1>3 DEF Retry
  <2>4. job' \in [Jobs -> JobRecs]
    BY <2>2, <2>3, JobEdits
  <2>5. queue' \in Seq(Jobs)
    BY <1>0, <1>3, QueueTypes DEF Retry
  <2>6. QED
    BY <1>3, <2>4, <2>5 DEF Retry, TypeOK, HandsOK, store, net
<1>4. ASSUME NEW j \in Jobs, ClearJob(j) PROVE TypeOK' /\ HandsOK'
  <2>1. db' \in [Jobs -> Rows] /\ attempts' \in [Jobs -> AttemptRows]
    BY <1>4, Statuses, EmptySeq DEF ClearJob, NoRow, Rows, AttemptRows, TypeOK
  <2>2. QED
    BY <1>4, <2>1 DEF ClearJob, TypeOK, HandsOK, net
<1>5. CASE ClearQueue
  <2>1. queue' \in Seq(Jobs) /\ Head(queue) \in Jobs
    BY <1>0, <1>5, QueueTypes DEF ClearQueue
  <2>2. job' \in [Jobs -> JobRecs]
    BY <1>0, <1>5, <2>1, Statuses, JobEdits DEF ClearQueue
  <2>3. QED
    BY <1>5, <2>1, <2>2 DEF ClearQueue, TypeOK, HandsOK, store, net
<1>6. CASE ClearFailed
  BY <1>6 DEF ClearFailed, TypeOK, HandsOK, store, net, Writes
<1>7. CASE PurgeFailed
  <2>1. db' \in [Jobs -> Rows] /\ attempts' \in [Jobs -> AttemptRows]
    BY <1>7, Statuses, EmptySeq
    DEF PurgeFailed, NoRow, Rows, AttemptRows, TypeOK
  <2>2. QED
    BY <1>7, <2>1 DEF PurgeFailed, TypeOK, HandsOK, net
<1>8. ASSUME NEW n \in Nodes, CancelOn(n) PROVE job' \in [Jobs -> JobRecs]
  BY <1>0, <1>8, JobEdits DEF CancelOn, TypeOK
<1>9. ASSUME NEW n \in Nodes, RemoveNode(n) \/ RestartWorker(n)
      PROVE  TypeOK' /\ HandsOK'
  <2>1. job' \in [Jobs -> JobRecs]
    BY <1>0, <1>8, <1>9 DEF RemoveNode, RestartWorker
  <2>2. reg' \in [Nodes -> NodeStatus] /\ UNCHANGED faults
    BY <1>0, <1>9 DEF RemoveNode, RestartWorker, NodeStatus, TypeOK
  <2>3. QED
    BY <1>9, <2>1, <2>2 DEF RemoveNode, RestartWorker, TypeOK, HandsOK, store
<1>10. QED
  BY <1>1, <1>2, <1>3, <1>4, <1>5, <1>6, <1>7, <1>9 DEF Operator

(* What a restart makes of a row.                                          *)
LEMMA RestoredTypes ==
    ASSUME TypeOK, NEW j \in Jobs
    PROVE  /\ db[j].status # "none" => RestoredStatus(j) \in MemStatus
           /\ RestoredJob(j) \in JobRecs
<1>0. db[j] \in Rows /\ db[j].status \in RowStatus
      /\ attempts[j] \in AttemptRows
  BY DEF TypeOK, Rows
<1>1. ASSUME db[j].status # "none" PROVE RestoredStatus(j) \in MemStatus
  BY <1>0, <1>1, Statuses DEF RestoredStatus
<1>2. Len(attempts[j]) \in Nat
  BY <1>0, LenProperties DEF AttemptRows
<1>3. NewJob \in JobRecs
  BY Statuses DEF NewJob, JobRecs
<1>4. \A x \in MemStatus, a \in Nat :
         [NewJob EXCEPT !.status = x, !.attempt = a] \in JobRecs
  BY <1>3 DEF JobRecs
<1>5. QED
  BY <1>1, <1>2, <1>3, <1>4 DEF RestoredJob

(* The queue of a restarted process.                                       *)
LEMMA RestartQueue ==
    ASSUME TypeOK, Restart
    PROVE  /\ queue' \in Seq(Jobs)
           /\ \A j \in Resumed : \E i \in DOMAIN queue' : queue'[i] = j
<1> DEFINE k == Cardinality(Resumed)
<1>1. Resumed \subseteq Jobs
  BY DEF Resumed, Interrupted
<1>2. k \in Nat
  BY <1>1, FS_Subset, FS_CardinalityType
<1> HIDE DEF k
<1>3. queue' \in [1 .. k -> Resumed]
  BY DEF Restart, k
<1>4. queue' \in Seq(Resumed)
  BY <1>2, <1>3, SeqDef
<1>5. queue' \in Seq(Jobs)
  BY <1>1, <1>4, SeqMonotonic
<1>6. QED
  BY <1>5 DEF Restart

(* restore_from_persistence.                                               *)
LEMMA RestartType == ASSUME TypeOK, HandsOK, Restart PROVE TypeOK' /\ HandsOK'
<1>1. job' \in [Jobs -> JobRecs]
  BY RestoredTypes DEF Restart
<1>2. queue' \in Seq(Jobs)
  BY RestartQueue
<1>3. db' \in [Jobs -> Rows]
  <2>1. ASSUME NEW j \in Jobs, j \in Interrupted
        PROVE  [db[j] EXCEPT !.status = RestoredStatus(j)] \in Rows
    <3>1. db[j].status # "none" /\ db[j] \in Rows
      BY <2>1 DEF Interrupted, TypeOK
    <3>2. RestoredStatus(j) \in RowStatus
      BY <3>1, RestoredTypes, Statuses
    <3>3. QED
      BY <3>1, <3>2 DEF Rows
  <2>2. ASSUME NEW j \in Jobs PROVE db[j] \in Rows
    BY DEF TypeOK
  <2>3. QED
    BY <2>1, <2>2 DEF Restart
<1>4. held' \subseteq Jobs
  BY DEF Restart, Interrupted
<1>5. faults' \in Nat
  BY FaultType DEF Restart
<1>6. /\ sched' \in SchedRecs /\ sched'.pc = "idle" /\ sched'.job = NoJob
      /\ rec' \in RecRecs /\ rec'.cur = NoJob
  BY DEF Restart, IdleSched, NoRec, SchedRecs, RecRecs
<1>7. /\ reg' \in [Nodes -> NodeStatus] /\ live' \in [Nodes -> Nat]
      /\ streams' = {} /\ runners' = {} /\ calls' = {} /\ writes' = {}
      /\ UNCHANGED <<attempts, receipts, warned>>
  BY DEF Restart, NodeStatus
<1>8. QED
  BY <1>1, <1>2, <1>3, <1>4, <1>5, <1>6, <1>7 DEF TypeOK, HandsOK

(* Every step keeps the types.                                             *)
LEMMA TypeStep == TypeOK /\ HandsOK /\ [Next]_vars => TypeOK' /\ HandsOK'
<1> SUFFICES ASSUME TypeOK, HandsOK, [Next]_vars PROVE TypeOK' /\ HandsOK'
  OBVIOUS
<1>1. CASE UNCHANGED vars
  BY <1>1 DEF vars, mem, store, net, TypeOK, HandsOK
<1>2. CASE Next
  BY <1>2, SubmitType, SchedulerType, RecoveryType, SendType, OutcomeType,
     NetworkType, OperatorType, RestartType DEF Next, RunnerStep
<1>3. QED
  BY <1>1, <1>2

(* Type correctness of the job lifecycle, with what the scheduler and      *)
(* recovery hold in their hands.                                           *)
THEOREM TypeInductive == Spec => [](TypeOK /\ HandsOK)
BY InitType, TypeStep, PTL DEF Spec

(* Every job dict, row, runner and session stays in its type.              *)
THEOREM TypeCorrect == Spec => []TypeOK
BY TypeInductive, PTL

-----------------------------------------------------------------------------
(* No pending job is lost. PendingIsQueued needs only HandsOK beside it:   *)
(* whoever takes an id off the queue keeps it in its hands until the job   *)
(* is running, finished, or on the queue again.                            *)

(* put().                                                                  *)
LEMMA QueueGrows ==
    ASSUME TypeOK, NEW j \in Jobs, queue' = Append(queue, j)
    PROVE  InQueue(j)' /\ \A k \in Jobs : InQueue(k) => InQueue(k)'
<1>1. queue \in Seq(Jobs) /\ Len(queue) \in Nat /\ DOMAIN queue = 1 .. Len(queue)
  BY LenProperties DEF TypeOK
<1>2. DOMAIN queue' = 1 .. Len(queue) + 1 /\ queue'[Len(queue) + 1] = j
      /\ \A i \in 1 .. Len(queue) : queue'[i] = queue[i]
  BY <1>1
<1>3. QED
  BY <1>1, <1>2 DEF InQueue

(* get().                                                                  *)
LEMMA QueueShrinks ==
    ASSUME TypeOK, queue # <<>>, queue' = Tail(queue)
    PROVE  \A k \in Jobs : InQueue(k) /\ k # Head(queue) => InQueue(k)'
<1> SUFFICES ASSUME NEW k \in Jobs, NEW i \in DOMAIN queue, queue[i] = k,
                    k # Head(queue)
             PROVE  InQueue(k)'
  BY DEF InQueue
<1>1. queue \in Seq(Jobs) /\ Len(queue) \in Nat /\ i \in 1 .. Len(queue)
  BY LenProperties DEF TypeOK
<1>2. i # 1
  BY <1>1
<1>3. queue' \in Seq(Jobs) /\ Len(queue') = Len(queue) - 1
      /\ \A m \in 1 .. Len(queue') : queue'[m] = queue[m + 1]
  BY <1>1, HeadTailProperties
<1>4. i - 1 \in 1 .. Len(queue') /\ queue'[i - 1] = k
  BY <1>1, <1>2, <1>3
<1>5. DOMAIN queue' = 1 .. Len(queue')
  BY <1>3, LenProperties
<1>6. QED
  BY <1>4, <1>5 DEF InQueue

(* get() and put() of the same id.                                         *)
LEMMA QueueRotates ==
    ASSUME TypeOK, queue # <<>>, queue' = Requeued
    PROVE  \A k \in Jobs : InQueue(k) => InQueue(k)'
<1> SUFFICES ASSUME NEW k \in Jobs, NEW i \in DOMAIN queue, queue[i] = k
             PROVE  InQueue(k)'
  BY DEF InQueue
<1> DEFINE t == Tail(queue)
<1>1. queue \in Seq(Jobs) /\ Len(queue) \in Nat /\ i \in 1 .. Len(queue)
  BY LenProperties DEF TypeOK
<1>2. t \in Seq(Jobs) /\ Len(t) = Len(queue) - 1 /\ Head(queue) \in Jobs
      /\ \A m \in 1 .. Len(t) : t[m] = queue[m + 1]
  BY <1>1, HeadTailProperties
<1> HIDE DEF t
<1>3. queue' = Append(t, Head(queue))
  BY DEF Requeued, t
<1>4. DOMAIN queue' = 1 .. Len(queue) /\ queue'[Len(queue)] = Head(queue)
      /\ \A m \in 1 .. Len(t) : queue'[m] = t[m]
  BY <1>1, <1>2, <1>3
<1>5. CASE i = 1
  BY <1>1, <1>4, <1>5 DEF InQueue
<1>6. CASE i # 1
  <2>1. i - 1 \in 1 .. Len(t) /\ queue'[i - 1] = k
    BY SMTT(30), <1>1, <1>2, <1>4, <1>6
  <2>2. QED
    BY <1>1, <1>2, <1>4, <2>1 DEF InQueue
<1>7. QED
  BY <1>5, <1>6

(* A step that makes nothing pending and takes nothing from anyone's hands *)
(* or off the queue is safe.                                               *)
LEMMA PendingFrame ==
    ASSUME TypeOK, PendingIsQueued, held' \subseteq held,
           sched'.job = sched.job, rec'.cur = rec.cur,
           \A k \in Jobs : InQueue(k) => InQueue(k)',
           \A k \in Jobs : job'[k].status = "pending" => job[k].status = "pending"
    PROVE  PendingIsQueued'
BY DEF PendingIsQueued, TypeOK

(* A queue that is left alone.                                             *)
LEMMA SameQueue ==
    ASSUME UNCHANGED queue PROVE \A k \in Jobs : InQueue(k) => InQueue(k)'
BY DEF InQueue

(* submit_job and scheduler_loop.                                          *)
LEMMA DispatchPending ==
    ASSUME TypeOK, HandsOK, PendingIsQueued,
           Scheduler \/ \E j \in Jobs : Submit(j) \/ SubmitPersist(j)
    PROVE  PendingIsQueued'
<1>0. queue \in Seq(Jobs) /\ held \subseteq Jobs /\ job \in [Jobs -> JobRecs]
      /\ NoJob \notin Jobs /\ sched \in SchedRecs
  BY DEF TypeOK
<1>1. ASSUME NEW j \in Jobs, Submit(j) PROVE PendingIsQueued'
  <2>1. InQueue(j)' /\ \A k \in Jobs : InQueue(k) => InQueue(k)'
    BY <1>1, QueueGrows DEF Submit
  <2>2. QED
    BY <1>0, <1>1, <2>1 DEF Submit, PendingIsQueued
<1>2. ASSUME NEW j \in Jobs, SubmitPersist(j) PROVE PendingIsQueued'
  BY <1>2, SameQueue, PendingFrame DEF SubmitPersist
<1>3. CASE SchedPick
  <2>1. sched.job = NoJob /\ Head(queue) \in Jobs
    BY <1>0, <1>3, QueueTypes DEF SchedPick, HandsOK
  <2>2. CASE queue' = Requeued /\ UNCHANGED sched
    BY <1>3, <2>2, QueueRotates, PendingFrame DEF SchedPick
  <2>3. CASE queue' = Tail(queue) /\ job[Head(queue)].status # "pending"
             /\ UNCHANGED sched
    BY <1>0, <1>3, <2>3, QueueShrinks DEF SchedPick, PendingIsQueued
  <2>4. CASE queue' = Tail(queue) /\ sched'.job = Head(queue)
    BY <1>0, <1>3, <2>1, <2>4, QueueShrinks DEF SchedPick, PendingIsQueued
  <2>5. QED
    BY <1>0, <1>3, <2>2, <2>3, <2>4 DEF SchedPick, SchedRecs
<1>4. CASE SchedCrash
  <2>1. sched'.job = sched.job
    BY <1>0, <1>4 DEF SchedCrash, SchedRecs
  <2>2. QED
    BY <1>4, <2>1, QueueRotates, PendingFrame DEF SchedCrash
<1>5. CASE SchedCommit
  <2>1. sched.job \in Jobs
    BY <1>0, <1>5 DEF SchedCommit, HandsOK, SchedRecs
  <2>2. CASE queue' = Append(queue, sched.job) /\ UNCHANGED job
    <3>1. PICK j \in Jobs : j = sched.job
      BY <2>1
    <3>2. InQueue(j)' /\ \A k \in Jobs : InQueue(k) => InQueue(k)'
      BY <2>2, <3>1, QueueGrows
    <3>3. QED
      BY <1>0, <1>5, <2>2, <3>1, <3>2 DEF SchedCommit, PendingIsQueued
  <2>3. CASE Launch(sched.job, sched.node) /\ UNCHANGED queue
    BY <1>0, <1>5, <2>1, <2>3, SameQueue
    DEF SchedCommit, Launch, PendingIsQueued
  <2>4. QED
    BY <1>5, <2>2, <2>3 DEF SchedCommit
<1>6. QED
  BY <1>1, <1>2, <1>3, <1>4, <1>5 DEF Scheduler

(* Runner threads: they end jobs and drop finished ones, no more.          *)
LEMMA RunnerPending ==
    ASSUME TypeOK, PendingIsQueued, RunnerStep
    PROVE  PendingIsQueued'
<1>0. PICK r \in runners :
        \/ RunSend(r) \/ RegisterWaiter(r) \/ Answer(r) \/ SaveAnswer(r)
        \/ LoseSession(r) \/ LostCancelled(r) \/ RaisedCheck(r)
        \/ RecordFailure(r) \/ FreeNode(r) \/ CheckStale(r)
        \/ MakeReceipt(r) \/ Finalize(r) \/ Persist(r) \/ Strand(r)
        \/ FailStranded(r) \/ Exit(r)
  BY DEF RunnerStep
<1>1. job \in [Jobs -> JobRecs] /\ r \in Runners /\ r.job \in Jobs
      /\ held \subseteq Jobs
  BY DEF TypeOK, Runners
<1>2. CASE UNCHANGED <<job, held, queue, sched, rec>>
  BY <1>2, SameQueue, PendingFrame
<1>3. CASE RecordFailure(r) \/ Finalize(r) \/ FailStranded(r)
  <2>1. \A k \in Jobs : job'[k].status = "pending" => job[k].status = "pending"
    BY <1>1, <1>3, FailStatusType
    DEF RecordFailure, Finalize, FailStranded, JobRecs
  <2>2. UNCHANGED <<held, queue, sched, rec>>
    BY <1>3 DEF RecordFailure, Finalize, FailStranded
  <2>3. QED
    BY <2>1, <2>2, SameQueue, PendingFrame
<1>4. CASE Exit(r)
  <2>1. held' \subseteq held /\ UNCHANGED <<job, queue, sched, rec>>
    BY <1>4 DEF Exit
  <2>2. QED
    BY <2>1, SameQueue, PendingFrame
<1>5. QED
  BY <1>0, <1>2, <1>3, <1>4
  DEF RunSend, RegisterWaiter, Answer, SaveAnswer, LoseSession, LostCancelled,
      RaisedCheck, FreeNode, CheckStale, Enforced, MakeReceipt, Persist, Strand

(* recover_jobs: a job it resets stays in its hands until it is queued.    *)
LEMMA RecoveryPending ==
    ASSUME TypeOK, HandsOK, PendingIsQueued, Recovery
    PROVE  PendingIsQueued'
<1>0. job \in [Jobs -> JobRecs] /\ held \subseteq Jobs /\ rec \in RecRecs
      /\ NoJob \notin Jobs
  BY DEF TypeOK
<1>1. ASSUME NEW n, RecoverBegin(n) PROVE PendingIsQueued'
  <2>1. rec.cur = NoJob /\ rec'.cur = NoJob
    BY <1>1 DEF RecoverBegin, LockFree, HandsOK
  <2>2. QED
    BY <1>1, <2>1, SameQueue, PendingFrame DEF RecoverBegin
<1>2. ASSUME NEW j \in Jobs, RecoverVisit(j) PROVE PendingIsQueued'
  <2>1. rec.cur = NoJob /\ UNCHANGED <<held, queue, sched>>
    BY <1>2 DEF RecoverVisit
  <2>2. \A k \in Jobs : InQueue(k) => InQueue(k)'
    BY <2>1, SameQueue
  <2>3. \A k \in Jobs \ {j} : job'[k] = job[k]
    BY <1>0, <1>2 DEF RecoverVisit
  <2>4. job'[j].status # "pending" \/ rec'.cur = j
    <3>1. CASE job[j].attempt >= MaxAttempts
      <4>1. job' = [job EXCEPT ![j].status = "failed", ![j].node = NoNode]
        BY <1>2, <3>1 DEF RecoverVisit
      <4>2. QED
        BY <1>0, <4>1 DEF JobRecs
    <3>2. CASE ~(job[j].attempt >= MaxAttempts)
      BY <1>0, <1>2, <3>2 DEF RecoverVisit, RecRecs
    <3>3. QED
      BY <3>1, <3>2
  <2>5. QED
    BY <1>0, <2>1, <2>2, <2>3, <2>4 DEF PendingIsQueued
<1>3. CASE RecoverAssign
  <2>1. PICK j \in Jobs : j = rec.cur
    BY <1>0, <1>3 DEF RecoverAssign, RecRecs
  <2>2. rec'.cur = NoJob /\ UNCHANGED <<held, sched>>
    BY <1>0, <1>3 DEF RecoverAssign, RecRecs
  <2>3. CASE job[j].status # "pending" /\ UNCHANGED <<job, queue>>
    BY <1>0, <2>1, <2>2, <2>3, SameQueue DEF PendingIsQueued
  <2>4. CASE queue' = Append(queue, j) /\ UNCHANGED job
    <3>1. InQueue(j)' /\ \A k \in Jobs : InQueue(k) => InQueue(k)'
      BY <2>4, QueueGrows
    <3>2. QED
      BY <1>0, <2>1, <2>2, <2>4, <3>1 DEF PendingIsQueued
  <2>5. CASE UNCHANGED queue /\ \E n \in Nodes : Launch(j, n)
    BY <1>0, <2>1, <2>2, <2>5, SameQueue DEF Launch, PendingIsQueued
  <2>6. QED
    BY <1>3, <2>1, <2>3, <2>4, <2>5 DEF RecoverAssign, Eligible
<1>4. CASE RecoverEnd
  <2>1. rec'.cur = rec.cur /\ UNCHANGED <<job, held, queue, sched>>
    BY <1>4 DEF RecoverEnd, NoRec
  <2>2. QED
    BY <2>1, SameQueue, PendingFrame
<1>5. QED
  BY <1>1, <1>2, <1>3, <1>4 DEF Recovery, RecoverCall, RecoverLost

(* Workers and their connections touch neither the jobs nor the queue.     *)
LEMMA NetworkPending ==
    ASSUME TypeOK, PendingIsQueued, Network
    PROVE  PendingIsQueued'
<1>1. UNCHANGED <<job, held, queue, sched, rec>>
  BY DEF Network, Register, RegisterRefused, HealthTimeout, Heartbeat,
         StreamEnd, DispatchTimeout, LateAnswer, mem
<1>2. QED
  BY <1>1, SameQueue, PendingFrame

(* Operator commands.                                                      *)
LEMMA OperatorPending ==
    ASSUME TypeOK, PendingIsQueued, Operator
    PROVE  PendingIsQueued'
<1>0. job \in [Jobs -> JobRecs] /\ held \subseteq Jobs /\ queue \in Seq(Jobs)
  BY DEF TypeOK
<1>1. CASE UNCHANGED <<job, queue, sched, rec>> /\ held' \subseteq held
  BY <1>1, SameQueue, PendingFrame
<1>2. ASSUME NEW j \in Jobs, Cancel(j) PROVE PendingIsQueued'
  <2>1. \A k \in Jobs : job'[k].status = "pending" => job[k].status = "pending"
    BY <1>0, <1>2 DEF Cancel, JobRecs
  <2>2. QED
    BY <1>2, <2>1, SameQueue, PendingFrame DEF Cancel
<1>3. ASSUME NEW j \in Jobs, Retry(j) PROVE PendingIsQueued'
  <2>1. InQueue(j)' /\ \A k \in Jobs : InQueue(k) => InQueue(k)'
    BY <1>3, QueueGrows DEF Retry
  <2>2. \A k \in Jobs \ {j} : job'[k] = job[k]
    BY <1>0, <1>3 DEF Retry
  <2>3. QED
    BY <1>0, <1>3, <2>1, <2>2 DEF Retry, PendingIsQueued
<1>4. CASE ClearQueue
  <2>1. PICK j \in Jobs : j = Head(queue)
    BY <1>0, <1>4, QueueTypes DEF ClearQueue
  <2>2. \A k \in Jobs \ {j} : InQueue(k) => InQueue(k)'
    BY <1>4, <2>1, QueueShrinks DEF ClearQueue
  <2>3. \A k \in Jobs \ {j} : job'[k] = job[k]
    BY <1>0, <1>4, <2>1 DEF ClearQueue
  <2>4. j \in held => job'[j].status # "pending"
    BY <1>0, <1>4, <2>1 DEF ClearQueue, JobRecs
  <2>5. QED
    BY <1>0, <1>4, <2>2, <2>3, <2>4 DEF ClearQueue, PendingIsQueued
<1>5. ASSUME NEW n \in Nodes, RemoveNode(n) \/ RestartWorker(n)
      PROVE  PendingIsQueued'
  <2>1. \A k \in Jobs : job'[k].status = "pending" => job[k].status = "pending"
    <3>1. CASE UNCHANGED job
      BY <3>1
    <3>2. CASE \E j \in held : job' = [job EXCEPT ![j].cancel = TRUE]
      <4>1. PICK j \in held : job' = [job EXCEPT ![j].cancel = TRUE]
        BY <3>2
      <4>2. QED
        BY <1>0, <4>1 DEF JobRecs
    <3>3. QED
      BY <1>5, <3>1, <3>2 DEF RemoveNode, RestartWorker, CancelOn
  <2>2. UNCHANGED <<held, queue, sched, rec>>
    BY <1>5 DEF RemoveNode, RestartWorker
  <2>3. QED
    BY <2>1, <2>2, SameQueue, PendingFrame
<1>6. QED
  BY <1>1, <1>2, <1>3, <1>4, <1>5
  DEF Operator, CancelPersist, ClearJob, ClearFailed, PurgeFailed

(* restore_from_persistence queues exactly the jobs it makes pending.      *)
LEMMA RestartPending ==
    ASSUME TypeOK, Restart PROVE PendingIsQueued'
<1>1. \A j \in Resumed : \E i \in DOMAIN queue' : queue'[i] = j
  BY DEF Restart
<1>2. ASSUME NEW j \in Jobs, job'[j].status = "pending" PROVE j \in Resumed
  BY <1>2
  DEF Restart, RestoredJob, NewJob, RestoredStatus, Resumed, Interrupted
<1>3. held' \subseteq Jobs
  BY DEF Restart, Interrupted
<1>4. QED
  BY <1>1, <1>2, <1>3 DEF PendingIsQueued, InQueue

(* Every step keeps every pending job on its way.                          *)
LEMMA PendingStep ==
    TypeOK /\ HandsOK /\ PendingIsQueued /\ [Next]_vars => PendingIsQueued'
<1> SUFFICES ASSUME TypeOK, HandsOK, PendingIsQueued, [Next]_vars
             PROVE  PendingIsQueued'
  OBVIOUS
<1>1. CASE UNCHANGED vars
  BY <1>1, SameQueue, PendingFrame DEF vars, mem
<1>2. CASE Next
  BY <1>2, DispatchPending, RunnerPending, RecoveryPending, NetworkPending,
     OperatorPending, RestartPending DEF Next
<1>3. QED
  BY <1>1, <1>2

(* PendingIsQueued of the code's submit_job, scheduler_loop, recover_jobs, *)
(* retry and restore together: no interleaving of them, no lost worker and *)
(* no restart leaves a pending job that nobody will ever dispatch.         *)
THEOREM NoJobForgotten == Spec => []PendingIsQueued
<1>1. Init => PendingIsQueued
  BY DEF Init, PendingIsQueued
<1>2. QED
  BY <1>1, PendingStep, TypeInductive, PTL DEF Spec

-----------------------------------------------------------------------------
(* A completed job has its receipt. The strengthening is the thread that   *)
(* is about to say so: by then the receipt is stored, or its loss logged.  *)
Accounted == receipts \cup warned
FinalHasReceipt ==
    \A r \in runners :
        r.pc = "final" /\ r.out = "success" => r.job \in Accounted
ReceiptInv == CompletedHasReceipt /\ FinalHasReceipt

(* A step is safe if it forgets no receipt, says "completed" only where    *)
(* that was already known or accounted for, and lets no new thread reach   *)
(* _finalize_job_outcome with an unaccounted success.                      *)
LEMMA ReceiptFrame ==
    ASSUME ReceiptInv, Accounted \subseteq Accounted',
           \A j \in Jobs : job'[j].status = "completed" =>
               job[j].status = "completed" \/ db[j].status = "completed"
                  \/ j \in Accounted,
           \A j \in Jobs : db'[j].status = "completed" =>
               job[j].status = "completed" \/ db[j].status = "completed",
           \A s \in runners' : s.pc = "final" /\ s.out = "success" =>
               s \in runners \/ s.job \in Accounted'
    PROVE  ReceiptInv'
BY DEF ReceiptInv, CompletedHasReceipt, FinalHasReceipt, Accounted

(* Writing a status other than completed, or one the dict has.             *)
LEMMA StoredCompleted ==
    ASSUME TypeOK, NEW j \in Jobs, NEW st, db' = Stored(j, st),
           st = "completed" => job[j].status = "completed"
    PROVE  \A k \in Jobs : db'[k].status = "completed" =>
               job[k].status = "completed" \/ db[k].status = "completed"
<1>1. db \in [Jobs -> Rows]
  BY DEF TypeOK
<1>2. CASE db[j].status = "none"
  BY <1>2 DEF Stored
<1>3. CASE db[j].status # "none"
  <2>1. db' = [db EXCEPT ![j].status = st]
    BY <1>3 DEF Stored
  <2>2. QED
    BY <1>1, <2>1 DEF Rows
<1>4. QED
  BY <1>2, <1>3

(* A thread that moves on to a point other than _finalize_job_outcome.     *)
LEMMA NotFinal ==
    ASSUME NEW r, NEW s, Become(r, s) \/ runners' = runners \ {r},
           s.pc # "final"
    PROVE  \A t \in runners' : t.pc = "final" /\ t.out = "success" =>
               t \in runners
BY DEF Become

(* Every runner step.                                                      *)
LEMMA RunnerReceipts ==
    ASSUME TypeOK, ReceiptInv, RunnerStep
    PROVE  ReceiptInv'
<1>0. PICK r \in runners :
        \/ RunSend(r) \/ RegisterWaiter(r) \/ Answer(r) \/ SaveAnswer(r)
        \/ LoseSession(r) \/ LostCancelled(r) \/ RaisedCheck(r)
        \/ RecordFailure(r) \/ FreeNode(r) \/ CheckStale(r)
        \/ MakeReceipt(r) \/ Finalize(r) \/ Persist(r) \/ Strand(r)
        \/ FailStranded(r) \/ Exit(r)
  BY DEF RunnerStep
<1>1. r \in Runners /\ r.job \in Jobs /\ r.out \in Outcomes
      /\ job \in [Jobs -> JobRecs] /\ db \in [Jobs -> Rows]
  BY DEF TypeOK, Runners
<1>2. "completed" \notin Outcomes
  OBVIOUS
<1>3. CASE RunSend(r)
  <2>1. \A k \in Jobs : db'[k].status = "completed" => db[k].status = "completed"
    BY <1>1, <1>3 DEF RunSend, Rows
  <2>2. \A s \in runners' : s.pc = "final" /\ s.out = "success" => s \in runners
    <3>1. CASE r.job \notin held
      BY <1>1, <1>3, <3>1 DEF RunSend, Become, Runners
    <3>2. CASE r.job \in held /\ live[r.node] = 0
      BY <1>1, <1>3, <3>2 DEF RunSend, Become, Runners
    <3>3. CASE r.job \in held /\ live[r.node] # 0
      <4> DEFINE s == [r EXCEPT !.pc = "sent", !.gen = live[r.node],
                                !.id = Len(attempts[r.job]) + 1]
      <4>1. Become(r, s) /\ s.pc = "sent"
        BY <1>1, <1>3, <3>3 DEF RunSend, Runners
      <4> HIDE DEF s
      <4>2. QED
        BY <4>1, NotFinal
    <3>4. QED
      BY <3>1, <3>2, <3>3
  <2>3. UNCHANGED <<job, receipts, warned>>
    BY <1>3 DEF RunSend
  <2>4. QED
    BY <2>1, <2>2, <2>3, ReceiptFrame DEF Accounted
<1>4. CASE RegisterWaiter(r) \/ Answer(r) \/ LoseSession(r) \/ LostCancelled(r)
           \/ RaisedCheck(r) \/ FreeNode(r) \/ CheckStale(r) \/ Strand(r)
           \/ Exit(r)
  <2>1. \A s \in runners' : s.pc = "final" /\ s.out = "success" => s \in runners
    <3>1. CASE CheckStale(r)
      <4>1. PICK o \in Outcomes :
              Become(r, [r EXCEPT
                       !.out = o, !.stale = IsStale(r) /\ o = "success",
                       !.pc = IF o = "success" THEN "receipt"
                              ELSE IF IsStale(r) THEN "exit" ELSE "final"])
        BY <1>1, <3>1 DEF CheckStale, Enforced
      <4>2. QED
        BY <1>1, <4>1 DEF Become, Runners
    <3>2. CASE RegisterWaiter(r)
      BY <1>1, <3>2 DEF RegisterWaiter, Become, Runners
    <3>3. CASE Answer(r)
      BY <1>1, <3>3 DEF Answer, Become, Runners
    <3>4. CASE LoseSession(r) \/ LostCancelled(r)
      <4>1. CASE LoseSession(r)
        BY <1>1, <4>1 DEF LoseSession, Become, Runners
      <4>2. CASE LostCancelled(r)
        BY <1>1, <4>2 DEF LostCancelled, Become, Runners
      <4>3. QED
        BY <3>4, <4>1, <4>2
    <3>5. CASE RaisedCheck(r)
      BY <1>1, <3>5 DEF RaisedCheck, Become, Runners
    <3>6. CASE FreeNode(r)
      BY <1>1, <3>6 DEF FreeNode, Become, Runners
    <3>7. CASE Strand(r) \/ Exit(r)
      BY <1>1, <3>7 DEF Strand, Exit, Become, Runners
    <3>8. QED
      BY <1>4, <3>1, <3>2, <3>3, <3>4, <3>5, <3>6, <3>7
  <2>2. UNCHANGED <<job, db, receipts, warned>>
    BY <1>4 DEF RegisterWaiter, Answer, LoseSession, LostCancelled, RaisedCheck,
                FreeNode, CheckStale, Enforced, Strand, Exit, store
  <2>3. QED
    BY <2>1, <2>2, ReceiptFrame DEF Accounted
<1>5. CASE SaveAnswer(r) \/ Persist(r)
  <2>1. \A s \in runners' : s.pc = "final" /\ s.out = "success" => s \in runners
    <3>1. CASE SaveAnswer(r)
      BY <1>1, <3>1 DEF SaveAnswer, Become, Runners
    <3>2. CASE Persist(r)
      BY <1>1, <3>2 DEF Persist, Become, Runners
    <3>3. QED
      BY <1>5, <3>1, <3>2
  <2>2. \A k \in Jobs : db'[k].status = "completed" =>
               job[k].status = "completed" \/ db[k].status = "completed"
    <3>1. CASE db' = db
      BY <3>1
    <3>2. CASE db' = Stored(r.job, r.out)
      BY <1>1, <1>2, <3>2, StoredCompleted
    <3>3. CASE db' = Stored(r.job, job[r.job].status)
      BY <1>1, <3>3, StoredCompleted
    <3>4. QED
      BY <1>5, <3>1, <3>2, <3>3 DEF SaveAnswer, Persist
  <2>3. UNCHANGED <<job, receipts, warned>>
    BY <1>5 DEF SaveAnswer, Persist
  <2>4. QED
    BY <2>1, <2>2, <2>3, ReceiptFrame DEF Accounted
<1>6. CASE MakeReceipt(r)
  <2>1. Accounted \subseteq Accounted' /\ r.job \in Accounted'
    BY <1>6 DEF MakeReceipt, Accounted
  <2>2. \A s \in runners' : s \in runners \/ s.job = r.job
    BY <1>1, <1>6 DEF MakeReceipt, Become, Runners
  <2>3. UNCHANGED <<job, db>>
    BY <1>6 DEF MakeReceipt
  <2>4. QED
    BY <2>1, <2>2, <2>3, ReceiptFrame
<1>7. CASE RecordFailure(r) \/ Finalize(r) \/ FailStranded(r)
  <2>1. \A s \in runners' : s.pc = "final" /\ s.out = "success" => s \in runners
    <3>1. CASE RecordFailure(r)
      BY <1>1, <3>1 DEF RecordFailure, Become, Runners
    <3>2. CASE Finalize(r)
      BY <1>1, <3>2 DEF Finalize, Become, Runners
    <3>3. CASE FailStranded(r)
      BY <1>1, <3>3 DEF FailStranded, Become, Runners
    <3>4. QED
      BY <1>7, <3>1, <3>2, <3>3
  <2>2. UNCHANGED <<db, receipts, warned>>
    BY <1>7 DEF RecordFailure, Finalize, FailStranded, store
  <2>3. \A k \in Jobs : job'[k].status = "completed" =>
            job[k].status = "completed" \/ k \in Accounted
    <3>1. CASE RecordFailure(r) \/ FailStranded(r)
      BY <1>1, <3>1, FailStatusType DEF RecordFailure, FailStranded, JobRecs
    <3>2. CASE Finalize(r)
      <4>1. r.out = "success" => r.job \in Accounted
        BY <3>2 DEF Finalize, ReceiptInv, FinalHasReceipt
      <4>2. QED
        BY <1>1, <3>2, <4>1, FailStatusType DEF Finalize, JobRecs
    <3>3. QED
      BY <1>7, <3>1, <3>2
  <2>4. QED
    BY <2>1, <2>2, <2>3, ReceiptFrame DEF Accounted
<1>8. QED
  BY <1>0, <1>3, <1>4, <1>5, <1>6, <1>7

(* Every other step: nothing but a runner completes a job.                 *)
LEMMA OtherReceipts ==
    ASSUME TypeOK, HandsOK, ReceiptInv,
           \/ \E j \in Jobs : Submit(j) \/ SubmitPersist(j)
           \/ Scheduler \/ Recovery \/ Network \/ Operator \/ Restart
    PROVE  ReceiptInv'
<1>0. job \in [Jobs -> JobRecs] /\ db \in [Jobs -> Rows] /\ held \subseteq Jobs
      /\ sched \in SchedRecs /\ rec \in RecRecs /\ NoJob \notin Jobs
      /\ runners \subseteq Runners
  BY DEF TypeOK
<1>1. CASE UNCHANGED <<job, db, receipts, warned>> /\ runners' \subseteq runners
  BY <1>1, ReceiptFrame DEF Accounted
<1>2. ASSUME NEW j \in Jobs, Submit(j) \/ Cancel(j) \/ Retry(j)
      PROVE  ReceiptInv'
  <2>1. \A k \in Jobs : job'[k].status = "completed" => job[k].status = "completed"
    <3>1. CASE Submit(j)
      BY <1>0, <3>1 DEF Submit, JobRecs
    <3>2. CASE Cancel(j)
      BY <1>0, <3>2 DEF Cancel, JobRecs
    <3>3. CASE Retry(j)
      BY <1>0, <3>3 DEF Retry, JobRecs
    <3>4. QED
      BY <1>2, <3>1, <3>2, <3>3
  <2>2. UNCHANGED <<db, receipts, warned, runners>>
    BY <1>2 DEF Submit, Cancel, Retry, store
  <2>3. QED
    BY <2>1, <2>2, ReceiptFrame DEF Accounted
<1>3. ASSUME NEW j \in Jobs, SubmitPersist(j) \/ ClearJob(j)
      PROVE  ReceiptInv'
  <2>1. \A k \in Jobs : db'[k].status = "completed" => db[k].status = "completed"
    BY <1>0, <1>3 DEF SubmitPersist, ClearJob, NoRow, Rows
  <2>2. UNCHANGED <<job, receipts, warned, runners>>
    BY <1>3 DEF SubmitPersist, ClearJob
  <2>3. QED
    BY <2>1, <2>2, ReceiptFrame DEF Accounted
<1>4. ASSUME NEW j \in Jobs, CancelPersist(j) PROVE ReceiptInv'
  <2>1. \A k \in Jobs : db'[k].status = "completed" =>
            job[k].status = "completed" \/ db[k].status = "completed"
    BY <1>4, StoredCompleted DEF CancelPersist
  <2>2. QED
    BY <1>4, <2>1, ReceiptFrame DEF CancelPersist, Accounted
<1>5. ASSUME NEW j \in Jobs, NEW n \in Nodes, Launch(j, n),
             UNCHANGED <<db, receipts, warned>>
      PROVE  ReceiptInv'
  <2>1. \A k \in Jobs : job'[k].status = "completed" => job[k].status = "completed"
    BY <1>0, <1>5 DEF Launch
  <2>2. \A s \in runners' : s.pc = "final" => s \in runners
    BY <1>5 DEF Launch
  <2>3. QED
    BY <1>5, <2>1, <2>2, ReceiptFrame DEF Accounted
<1>6. CASE Scheduler
  <2>1. CASE SchedCommit
    <3>1. sched.job \in Jobs /\ sched.node \in Nodes
      BY <1>0, <2>1 DEF SchedCommit, HandsOK, SchedRecs
    <3>2. QED
      BY <1>1, <1>5, <2>1, <3>1 DEF SchedCommit, store
  <2>2. QED
    BY <1>1, <1>6, <2>1 DEF Scheduler, SchedPick, SchedCrash, store
<1>7. CASE Recovery
  <2>1. ASSUME NEW j \in Jobs, RecoverVisit(j) PROVE ReceiptInv'
    <3>1. \A k \in Jobs : job'[k].status = "completed" => job[k].status = "completed"
      BY <1>0, <2>1 DEF RecoverVisit, JobRecs
    <3>2. \A k \in Jobs : db'[k].status = "completed" =>
              job[k].status = "completed" \/ db[k].status = "completed"
      BY <2>1, StoredCompleted DEF RecoverVisit
    <3>3. UNCHANGED <<receipts, warned, runners>>
      BY <2>1 DEF RecoverVisit
    <3>4. QED
      BY <3>1, <3>2, <3>3, ReceiptFrame DEF Accounted
  <2>2. CASE RecoverAssign
    <3>1. rec.cur \in Jobs
      BY <1>0, <2>2 DEF RecoverAssign, RecRecs
    <3>2. QED
      BY <1>1, <1>5, <2>2, <3>1 DEF RecoverAssign, Eligible, store
  <2>3. QED
    BY <1>1, <1>7, <2>1, <2>2
    DEF Recovery, RecoverEnd, RecoverCall, RecoverLost, RecoverBegin, store
<1>8. CASE Network
  <2>1. ASSUME NEW r \in runners, DispatchTimeout(r) PROVE ReceiptInv'
    <3>1. \A s \in runners' : s.pc = "final" => s \in runners
      BY <1>0, <2>1 DEF DispatchTimeout, Become, Runners
    <3>2. QED
      BY <2>1, <3>1, ReceiptFrame DEF DispatchTimeout, Accounted, store
  <2>2. QED
    BY <1>1, <1>8, <2>1
    DEF Network, Register, RegisterRefused, HealthTimeout, Heartbeat,
        StreamEnd, LateAnswer, mem, store
<1>9. CASE Operator
  <2>1. CASE ClearQueue
    <3>1. \A k \in Jobs : job'[k].status = "completed" => job[k].status = "completed"
      <4>1. CASE UNCHANGED job
        BY <4>1
      <4>2. CASE \E j \in held : job' = [job EXCEPT ![j].status = "cancelled"]
        BY <1>0, <4>2 DEF JobRecs
      <4>3. QED
        BY <2>1, <4>1, <4>2 DEF ClearQueue
    <3>2. QED
      BY <2>1, <3>1, ReceiptFrame DEF ClearQueue, Accounted, store
  <2>2. CASE PurgeFailed
    <3>1. \A k \in Jobs : db'[k].status = "completed" => db[k].status = "completed"
      BY <2>2 DEF PurgeFailed, NoRow
    <3>2. QED
      BY <2>2, <3>1, ReceiptFrame DEF PurgeFailed, Accounted
  <2>3. ASSUME NEW n \in Nodes, RemoveNode(n) \/ RestartWorker(n)
        PROVE  ReceiptInv'
    <3>1. CASE UNCHANGED job
      BY <1>1, <2>3, <3>1 DEF RemoveNode, RestartWorker, store
    <3>2. CASE \E j \in held : job' = [job EXCEPT ![j].cancel = TRUE]
      <4>1. PICK j \in held : job' = [job EXCEPT ![j].cancel = TRUE]
        BY <3>2
      <4>2. \A k \in Jobs : job'[k].status = job[k].status
        BY <1>0, <4>1 DEF JobRecs
      <4>3. QED
        BY <2>3, <4>2, ReceiptFrame
        DEF RemoveNode, RestartWorker, Accounted, store
    <3>3. QED
      BY <2>3, <3>1, <3>2 DEF RemoveNode, RestartWorker, CancelOn
  <2>4. CASE ClearFailed
    BY <1>1, <2>4 DEF ClearFailed, store
  <2>5. QED
    BY <1>2, <1>3, <1>4, <1>9, <2>1, <2>2, <2>3, <2>4 DEF Operator
<1>10. CASE Restart
  <2>1. \A k \in Jobs : job'[k].status = "completed" => db[k].status = "completed"
    BY <1>10 DEF Restart, RestoredJob, NewJob, RestoredStatus
  <2>2. \A k \in Jobs : db'[k].status = "completed" => db[k].status = "completed"
    BY <1>0, <1>10 DEF Restart, RestoredStatus, Interrupted, Rows
  <2>3. runners' = {} /\ UNCHANGED <<receipts, warned>>
    BY <1>10 DEF Restart
  <2>4. QED
    BY <2>1, <2>2, <2>3, ReceiptFrame DEF Accounted
<1>11. QED
  BY <1>2, <1>3, <1>6, <1>7, <1>8, <1>9, <1>10

(* Every step keeps completed jobs accounted for.                          *)
LEMMA ReceiptStep ==
    TypeOK /\ HandsOK /\ ReceiptInv /\ [Next]_vars => ReceiptInv'
<1> SUFFICES ASSUME TypeOK, HandsOK, ReceiptInv, [Next]_vars
             PROVE  ReceiptInv'
  OBVIOUS
<1>1. CASE UNCHANGED vars
  BY <1>1, ReceiptFrame DEF vars, mem, store, Accounted
<1>2. CASE Next
  BY <1>2, RunnerReceipts, OtherReceipts DEF Next
<1>3. QED
  BY <1>1, <1>2

(* _run_job and _finalize_job_outcome: whatever threads, operators and     *)
(* crashes do in between, a job is shown as completed, in memory or in the *)
(* database, only when its receipt is stored or its loss was logged.       *)
THEOREM CompletedIsAccountedFor == Spec => []CompletedHasReceipt
<1>1. Init => ReceiptInv
  BY DEF Init, ReceiptInv, CompletedHasReceipt, FinalHasReceipt, NewJob, NoRow
<1>2. ReceiptInv => CompletedHasReceipt
  BY DEF ReceiptInv
<1>3. QED
  BY <1>1, <1>2, ReceiptStep, TypeInductive, PTL DEF Spec

-----------------------------------------------------------------------------
(* A running job is watched. RunningIsWatched asks for any thread of the   *)
(* job; what carries over from step to step is the thread of the current   *)
(* attempt, before it has decided, on the node the job is said to run on.  *)
Decides(r) ==
    /\ r.pc \notin {"failed", "idle", "persist", "exit"}
    /\ r.pc = "receipt" => ~r.stale

Watches(r, j) ==
    /\ r.job = j /\ r.attempt = job[j].attempt /\ r.node = job[j].node
    /\ Decides(r)

Watched(j) ==
    \/ \E r \in runners : Watches(r, j)
    \/ job[j].node \in calls
    \/ rec.on /\ rec.node = job[j].node /\ j \in rec.todo

WatchInv == \A j \in held : job[j].status = "running" => Watched(j)

(* A job that runs on as it did.                                           *)
RunsOnAsBefore(j) ==
    job'[j].status = "running" =>
        /\ job[j].status = "running"
        /\ job'[j].node = job[j].node /\ job'[j].attempt = job[j].attempt

(* A step that starts no job, forgets no recovery, and whose thread, if it *)
(* watched a job that runs on, still does.                                 *)
LEMMA WatchFrame ==
    ASSUME TypeOK, WatchInv, held' \subseteq held, calls \subseteq calls', rec' = rec,
           \A j \in Jobs : RunsOnAsBefore(j),
           \A j \in Jobs, r \in runners :
               Watches(r, j) /\ job'[j].status = "running" => \E s \in runners' : Watches(s, j)'
    PROVE  WatchInv'
<1> SUFFICES ASSUME NEW j \in held', job'[j].status = "running" PROVE Watched(j)'
  BY DEF WatchInv
<1>1. j \in held /\ j \in Jobs
  BY DEF TypeOK
<1>2. Watched(j) /\ job'[j].node = job[j].node
  BY <1>1 DEF WatchInv, RunsOnAsBefore
<1>3. QED
  BY <1>1, <1>2 DEF Watched

(* The same when no thread moves at all.                                   *)
LEMMA WatchStays ==
    ASSUME TypeOK, WatchInv, held' \subseteq held, calls \subseteq calls', rec' = rec,
           runners' = runners, \A j \in Jobs : RunsOnAsBefore(j)
    PROVE  WatchInv'
<1>1. ASSUME NEW j \in Jobs, NEW r \in runners, Watches(r, j), job'[j].status = "running"
      PROVE  r \in runners' /\ Watches(r, j)'
  BY <1>1 DEF Watches, RunsOnAsBefore, Decides
<1>2. QED
  BY <1>1, WatchFrame

(* A job dict that is left alone runs on as before.                        *)
LEMMA SameJob ==
    ASSUME UNCHANGED job PROVE \A j \in Jobs : RunsOnAsBefore(j)
BY DEF RunsOnAsBefore

(* A job whose cancel flag is set runs on as before.                       *)
LEMMA CancelFlag ==
    ASSUME job \in [Jobs -> JobRecs], NEW j \in Jobs, job' = [job EXCEPT ![j].cancel = TRUE]
    PROVE  \A k \in Jobs : RunsOnAsBefore(k)
BY DEF RunsOnAsBefore, JobRecs

(* A thread moves on, deciding still, or no job it watches runs on.        *)
LEMMA WatchBecome ==
    ASSUME TypeOK, WatchInv, NEW r \in runners, NEW s, Become(r, s),
           s.job = r.job, s.attempt = r.attempt, s.node = r.node,
           Watches(r, r.job) /\ job'[r.job].status = "running" => Decides(s),
           UNCHANGED <<held, rec>>, calls \subseteq calls', \A j \in Jobs : RunsOnAsBefore(j)
    PROVE  WatchInv'
<1>1. ASSUME NEW j \in Jobs, NEW t \in runners, Watches(t, j), job'[j].status = "running"
      PROVE  \E u \in runners' : Watches(u, j)'
  <2>1. job'[j].node = job[j].node /\ job'[j].attempt = job[j].attempt
    BY <1>1 DEF RunsOnAsBefore
  <2>2. CASE t # r
    <3>1. t \in runners' /\ Watches(t, j)'
      BY <1>1, <2>1, <2>2 DEF Become, Watches, Decides
    <3>2. QED
      BY <3>1
  <2>3. CASE t = r
    <3>1. s \in runners' /\ r.job = j
      BY <1>1, <2>3 DEF Become, Watches
    <3>2. Decides(s)
      BY <1>1, <2>3, <3>1
    <3>3. Watches(s, j)'
      BY <1>1, <2>1, <2>3, <3>2 DEF Watches, Decides
    <3>4. QED
      BY <3>1, <3>3
  <2>4. QED
    BY <2>2, <2>3
<1>2. QED
  BY <1>1, WatchFrame

(* _run_job as far as the outcome: every point on the way still decides.   *)
LEMMA RunnerWatched ==
    ASSUME TypeOK, WatchInv, RunnerStep
    PROVE  WatchInv'
<1>0. PICK r \in runners :
        \/ RunSend(r) \/ RegisterWaiter(r) \/ Answer(r) \/ SaveAnswer(r)
        \/ LoseSession(r) \/ LostCancelled(r) \/ RaisedCheck(r)
        \/ RecordFailure(r) \/ FreeNode(r) \/ CheckStale(r)
        \/ MakeReceipt(r) \/ Finalize(r) \/ Persist(r) \/ Strand(r)
        \/ FailStranded(r) \/ Exit(r)
  BY DEF RunnerStep
<1>1. r \in Runners /\ r.job \in Jobs /\ job \in [Jobs -> JobRecs]
  BY RunnerShape DEF TypeOK
<1> DEFINE GoesOn ==
      \E s : /\ Become(r, s) /\ s.job = r.job /\ s.attempt = r.attempt /\ s.node = r.node
             /\ Watches(r, r.job) /\ job'[r.job].status = "running" => Decides(s)
<1>2. ASSUME GoesOn, UNCHANGED <<held, rec, calls>>, \A j \in Jobs : RunsOnAsBefore(j)
      PROVE  WatchInv'
  <2>1. PICK s : /\ Become(r, s) /\ s.job = r.job /\ s.attempt = r.attempt /\ s.node = r.node
                 /\ Watches(r, r.job) /\ job'[r.job].status = "running" => Decides(s)
    BY <1>2
  <2> HIDE DEF GoesOn
  <2>2. QED
    BY <1>2, <2>1, WatchBecome
<1>20. ASSUME NEW s, Become(r, s), s.job = r.job, s.attempt = r.attempt, s.node = r.node,
              Watches(r, r.job) /\ job'[r.job].status = "running" => Decides(s)
       PROVE  GoesOn
  BY <1>20
<1>21. ASSUME NEW p, Become(r, [r EXCEPT !.pc = p]),
              Watches(r, r.job) /\ job'[r.job].status = "running" =>
                  p \notin {"failed", "idle", "persist", "exit", "receipt"}
       PROVE  GoesOn
  <2> DEFINE s == [r EXCEPT !.pc = p]
  <2>1. s.job = r.job /\ s.attempt = r.attempt /\ s.node = r.node /\ s.pc = p
    BY <1>1 DEF Runners
  <2>2. Become(r, s)
    BY <1>21
  <2> HIDE DEF s
  <2>3. QED
    BY <1>20, <1>21, <2>1, <2>2 DEF Decides
<1> HIDE DEF GoesOn
<1>3. CASE RunSend(r)
  <2>1. GoesOn
    <3> DEFINE s == [r EXCEPT !.pc = "sent", !.gen = live[r.node], !.id = Len(attempts[r.job]) + 1]
    <3>1. \/ Become(r, [r EXCEPT !.pc = "stranded"]) \/ Become(r, [r EXCEPT !.pc = "lost"])
          \/ Become(r, s)
      BY <1>3 DEF RunSend
    <3>2. s.job = r.job /\ s.attempt = r.attempt /\ s.node = r.node /\ Decides(s)
      BY <1>1 DEF Runners, Decides
    <3> HIDE DEF s
    <3>3. QED
      BY <1>20, <1>21, <3>1, <3>2
  <2>2. QED
    BY <1>2, <1>3, <2>1, SameJob DEF RunSend
<1>4. CASE RegisterWaiter(r) \/ Answer(r) \/ SaveAnswer(r)
  <2>1. GoesOn
    <3>1. \/ Become(r, [r EXCEPT !.pc = "wait"])
          \/ Become(r, [r EXCEPT !.pc = "deaf", !.gen = 0, !.id = 0])
          \/ Become(r, [r EXCEPT !.pc = "free", !.id = 0])
          \/ \E o \in Outcomes : Become(r, [r EXCEPT !.pc = "answered", !.out = o, !.gen = 0])
      BY <1>4 DEF RegisterWaiter, Answer, SaveAnswer
    <3>2. ASSUME NEW s \in Runners, Become(r, s), s.job = r.job, s.attempt = r.attempt, s.node = r.node,
                 s.pc \in {"deaf", "free", "answered"}
          PROVE  GoesOn
      BY <1>20, <3>2 DEF Decides
    <3>3. CASE Become(r, [r EXCEPT !.pc = "deaf", !.gen = 0, !.id = 0])
      BY <1>1, <3>2, <3>3 DEF Runners, RunnerPC
    <3>4. CASE Become(r, [r EXCEPT !.pc = "free", !.id = 0])
      BY <1>1, <3>2, <3>4 DEF Runners, RunnerPC
    <3>5. ASSUME NEW o \in Outcomes, Become(r, [r EXCEPT !.pc = "answered", !.out = o, !.gen = 0])
          PROVE  GoesOn
      BY <1>1, <3>2, <3>5 DEF Runners, RunnerPC
    <3>6. QED
      BY <1>21, <3>1, <3>3, <3>4, <3>5
  <2>2. QED
    BY <1>2, <1>4, <2>1, SameJob DEF RegisterWaiter, Answer, SaveAnswer
<1>5. CASE LoseSession(r) \/ LostCancelled(r) \/ Strand(r)
  <2>1. GoesOn
    <3> DEFINE s == [r EXCEPT !.pc = "lost", !.gen = 0, !.id = 0]
    <3>1. s.job = r.job /\ s.attempt = r.attempt /\ s.node = r.node /\ Decides(s)
      BY <1>1 DEF Runners, Decides
    <3>2. \/ Become(r, s) \/ Become(r, [r EXCEPT !.pc = "raised"])
          \/ Become(r, [r EXCEPT !.pc = "failsafe"])
      BY <1>5 DEF LoseSession, LostCancelled, Strand
    <3> HIDE DEF s
    <3>3. QED
      BY <1>20, <1>21, <3>1, <3>2
  <2>2. QED
    BY <1>2, <1>5, <2>1, SameJob DEF LoseSession, LostCancelled, Strand
<1>6. CASE RaisedCheck(r)
  <2>1. GoesOn
    <3>1. Watches(r, r.job) => ~IsStale(r)
      BY DEF Watches, IsStale
    <3>2. Become(r, [r EXCEPT !.pc = IF IsStale(r) THEN "idle" ELSE "failing"])
      BY <1>6 DEF RaisedCheck
    <3>3. QED
      BY <1>21, <3>1, <3>2
  <2>2. QED
    BY <1>2, <1>6, <2>1, SameJob DEF RaisedCheck
<1>7. CASE RecordFailure(r)
  <2>1. job'[r.job].status # "running" /\ \A j \in Jobs : RunsOnAsBefore(j)
    BY <1>1, <1>7, FailStatusType DEF RecordFailure, RunsOnAsBefore, JobRecs
  <2>2. GoesOn
    BY <1>7, <1>21, <2>1 DEF RecordFailure
  <2>3. QED
    BY <1>2, <1>7, <2>1, <2>2 DEF RecordFailure
<1>8. CASE FreeNode(r)
  <2>1. GoesOn
    <3> DEFINE p == IF reg[r.node] = "absent" THEN "stranded"
                    ELSE IF r.pc = "free" THEN "check" ELSE "exit"
    <3>1. Become(r, [r EXCEPT !.pc = p]) /\ r.pc \in {"free", "idle"}
      BY <1>8 DEF FreeNode
    <3>2. Watches(r, r.job) => p \in {"stranded", "check"}
      BY <3>1 DEF Watches, Decides
    <3> HIDE DEF p
    <3>3. QED
      BY <1>21, <3>1, <3>2
  <2>2. QED
    BY <1>2, <1>8, <2>1, SameJob DEF FreeNode
<1>9. CASE CheckStale(r)
  <2>1. GoesOn
    <3>1. PICK o \in Outcomes :
             Become(r, [r EXCEPT
                          !.out = o, !.stale = IsStale(r) /\ o = "success",
                          !.pc = IF o = "success" THEN "receipt"
                                 ELSE IF IsStale(r) THEN "exit" ELSE "final"])
      BY <1>1, <1>9 DEF CheckStale, Enforced, Runners
    <3> DEFINE s == [r EXCEPT
                       !.out = o, !.stale = IsStale(r) /\ o = "success",
                       !.pc = IF o = "success" THEN "receipt"
                              ELSE IF IsStale(r) THEN "exit" ELSE "final"]
    <3>2. s.job = r.job /\ s.attempt = r.attempt /\ s.node = r.node /\ (~IsStale(r) => Decides(s))
      BY <1>1 DEF Runners, Decides
    <3>3. Watches(r, r.job) => ~IsStale(r)
      BY DEF Watches, IsStale
    <3> HIDE DEF s
    <3>4. QED
      BY <1>20, <3>1, <3>2, <3>3 DEF s
  <2>2. QED
    BY <1>2, <1>9, <2>1, SameJob DEF CheckStale, Enforced
<1>10. CASE MakeReceipt(r)
  <2>1. GoesOn
    <3> DEFINE s == [r EXCEPT !.pc = IF r.stale THEN "exit" ELSE "final", !.stale = FALSE]
    <3>1. s.job = r.job /\ s.attempt = r.attempt /\ s.node = r.node /\ (~r.stale => Decides(s))
      BY <1>1 DEF Runners, Decides
    <3>2. Become(r, s) /\ (Watches(r, r.job) => ~r.stale)
      BY <1>10 DEF MakeReceipt, Watches, Decides
    <3> HIDE DEF s
    <3>3. QED
      BY <1>20, <3>1, <3>2
  <2>2. QED
    BY <1>2, <1>10, <2>1, SameJob DEF MakeReceipt
<1>11. CASE Finalize(r)
  <2>1. job'[r.job].status # "running" /\ \A j \in Jobs : RunsOnAsBefore(j)
    BY <1>1, <1>11, FailStatusType DEF Finalize, RunsOnAsBefore, JobRecs
  <2>2. GoesOn
    <3> DEFINE s == [r EXCEPT !.pc = "persist", !.out = "success"]
    <3>1. s.job = r.job /\ s.attempt = r.attempt /\ s.node = r.node /\ Become(r, s)
      BY <1>1, <1>11 DEF Runners, Finalize
    <3> HIDE DEF s
    <3>2. QED
      BY <1>20, <2>1, <3>1
  <2>3. QED
    BY <1>2, <1>11, <2>1, <2>2 DEF Finalize
<1>12. CASE Persist(r)
  <2>1. GoesOn
    <3>1. ~Watches(r, r.job) /\ \E p : Become(r, [r EXCEPT !.pc = p])
      BY <1>12 DEF Persist, Watches, Decides
    <3>2. QED
      BY <1>21, <3>1
  <2>2. QED
    BY <1>2, <1>12, <2>1, SameJob DEF Persist
<1>13. CASE FailStranded(r)
  <2>1. CASE r.job \in held /\ job[r.job].status = "running" /\ ~IsStale(r)
    <3>1. job'[r.job].status # "running" /\ \A j \in Jobs : RunsOnAsBefore(j)
      BY <1>1, <1>13, <2>1, FailStatusType DEF FailStranded, RunsOnAsBefore, JobRecs
    <3>2. GoesOn
      BY <1>13, <1>21, <2>1, <3>1 DEF FailStranded
    <3>3. QED
      BY <1>2, <1>13, <3>1, <3>2 DEF FailStranded
  <2>2. CASE ~(r.job \in held /\ job[r.job].status = "running" /\ ~IsStale(r))
    <3>1. runners' = runners \ {r} /\ UNCHANGED <<job, held, rec, calls>>
      BY <1>13, <2>2 DEF FailStranded
    <3>2. SUFFICES ASSUME NEW j \in held', job'[j].status = "running" PROVE Watched(j)'
      BY DEF WatchInv
    <3>3. Watched(j) /\ ~Watches(r, j)
      BY <2>2, <3>1, <3>2 DEF WatchInv, Watches, IsStale
    <3>4. QED
      BY <3>1, <3>3 DEF Watched, Watches, Decides
  <2>3. QED
    BY <2>1, <2>2
<1>14. CASE Exit(r)
  <2>1. runners' = runners \ {r} /\ held' \subseteq held /\ UNCHANGED <<job, rec, calls>> /\ r.pc = "exit"
    BY <1>14 DEF Exit
  <2>2. SUFFICES ASSUME NEW j \in held', job'[j].status = "running" PROVE Watched(j)'
    BY DEF WatchInv
  <2>3. Watched(j) /\ ~Watches(r, j)
    BY <2>1, <2>2 DEF WatchInv, Watches, Decides
  <2>4. QED
    BY <2>1, <2>3 DEF Watched, Watches, Decides
<1>15. QED
  BY <1>0, <1>3, <1>4, <1>5, <1>6, <1>7, <1>8, <1>9, <1>10, <1>11, <1>12, <1>13, <1>14

(* A dispatch puts a thread of the new attempt on the job's new node.      *)
LEMMA LaunchWatched ==
    ASSUME TypeOK, WatchInv, NEW j \in Jobs, NEW n \in Nodes, Launch(j, n),
           UNCHANGED <<held, calls>>, rec'.on = rec.on, rec'.node = rec.node, rec'.todo = rec.todo
    PROVE  WatchInv'
<1>1. job \in [Jobs -> JobRecs] /\ held \subseteq Jobs
  BY DEF TypeOK
<1>2. PICK s \in runners' :
         /\ s.job = j /\ s.attempt = job[j].attempt + 1 /\ s.node = n /\ s.pc = "start"
         /\ runners \subseteq runners'
  <2> DEFINE t == [job |-> j, attempt |-> job[j].attempt + 1, node |-> n, gen |-> 0,
                   id |-> 0, pc |-> "start", out |-> "success", stale |-> FALSE]
  <2>1. t \in runners' /\ runners \subseteq runners'
    BY DEF Launch
  <2>2. t.job = j /\ t.attempt = job[j].attempt + 1 /\ t.node = n /\ t.pc = "start"
    OBVIOUS
  <2> HIDE DEF t
  <2>3. QED
    BY <2>1, <2>2
<1>3. job'[j].attempt = job[j].attempt + 1 /\ job'[j].node = n /\ \A k \in Jobs \ {j} : job'[k] = job[k]
  BY <1>1 DEF Launch
<1>4. Watches(s, j)'
  BY <1>2, <1>3 DEF Watches, Decides
<1>5. SUFFICES ASSUME NEW k \in held', job'[k].status = "running" PROVE Watched(k)'
  BY DEF WatchInv
<1>6. CASE k = j
  BY <1>2, <1>4, <1>6 DEF Watched
<1>7. CASE k # j
  <2>1. k \in held /\ job'[k] = job[k] /\ Watched(k)
    BY <1>1, <1>3, <1>5, <1>7 DEF WatchInv
  <2>2. \A r \in runners : Watches(r, k) => r \in runners' /\ Watches(r, k)'
    BY <1>2, <2>1 DEF Watches, Decides
  <2>3. QED
    BY <2>1, <2>2 DEF Watched
<1>8. QED
  BY <1>6, <1>7

(* recover_jobs: the call or the thread that asked for it becomes the walk *)
(* over the jobs, which ends when none of them runs on the node.           *)
LEMMA RecoveryWatched ==
    ASSUME TypeOK, HandsOK, WatchInv, Recovery
    PROVE  WatchInv'
<1>0. job \in [Jobs -> JobRecs] /\ held \subseteq Jobs /\ rec \in RecRecs
  BY DEF TypeOK
<1>1. ASSUME NEW n, RecoverBegin(n), calls \subseteq calls' \union {n},
             \A r \in runners : r \in runners' \/ r.node = n
      PROVE  WatchInv'
  <2>1. SUFFICES ASSUME NEW j \in held', job'[j].status = "running" PROVE Watched(j)'
    BY DEF WatchInv
  <2>2. /\ ~rec.on /\ UNCHANGED <<job, held>>
        /\ rec'.on /\ rec'.node = n /\ rec'.todo = held
    BY <1>1 DEF RecoverBegin, LockFree
  <2>3. Watched(j) /\ j \in held
    BY <2>1, <2>2 DEF WatchInv
  <2>4. CASE job[j].node = n
    BY <2>2, <2>3, <2>4 DEF Watched
  <2>5. CASE job[j].node # n
    <3>1. CASE job[j].node \in calls
      BY <1>1, <2>2, <2>5, <3>1 DEF Watched
    <3>2. ASSUME NEW r \in runners, Watches(r, j) PROVE Watched(j)'
      <4>1. r \in runners' /\ Watches(r, j)'
        BY <1>1, <2>2, <2>5, <3>2 DEF Watches, Decides
      <4>2. QED
        BY <4>1 DEF Watched
    <3>3. QED
      BY <2>2, <2>3, <3>1, <3>2 DEF Watched
  <2>6. QED
    BY <2>4, <2>5
<1>2. ASSUME NEW n \in Nodes, RecoverCall(n) PROVE WatchInv'
  BY <1>1, <1>2 DEF RecoverCall
<1>3. ASSUME NEW r \in runners, RecoverLost(r) PROVE WatchInv'
  BY <1>1, <1>3 DEF RecoverLost
<1>4. ASSUME NEW j \in Jobs, RecoverVisit(j) PROVE WatchInv'
  <2>1. \E st \in {"failed", "pending"} : job' = [job EXCEPT ![j].status = st, ![j].node = NoNode]
    BY <1>4 DEF RecoverVisit
  <2>2. job'[j].status # "running" /\ \A k \in Jobs \ {j} : job'[k] = job[k]
    BY <1>0, <2>1 DEF JobRecs
  <2>3. rec'.on = rec.on /\ rec'.node = rec.node /\ rec'.todo = rec.todo \ {j}
    BY <1>0, <1>4 DEF RecoverVisit, RecRecs
  <2>4. UNCHANGED <<held, runners, calls>>
    BY <1>4 DEF RecoverVisit
  <2>5. SUFFICES ASSUME NEW k \in held', job'[k].status = "running" PROVE Watched(k)'
    BY DEF WatchInv
  <2>6. k # j /\ k \in held /\ job'[k] = job[k] /\ Watched(k)
    BY <1>0, <2>2, <2>4, <2>5 DEF WatchInv
  <2>7. QED
    BY <2>3, <2>4, <2>6 DEF Watched, Watches, Decides
<1>5. CASE RecoverAssign
  <2>1. rec.cur \in Jobs /\ rec'.on = rec.on /\ rec'.node = rec.node /\ rec'.todo = rec.todo
        /\ UNCHANGED <<held, calls>>
    BY <1>0, <1>5 DEF RecoverAssign, RecRecs
  <2>2. CASE UNCHANGED <<job, runners>>
    <3>1. \A k \in held : Watched(k) => Watched(k)'
      BY <2>1, <2>2 DEF Watched, Watches, Decides
    <3>2. QED
      BY <2>1, <2>2, <3>1 DEF WatchInv
  <2>3. CASE \E n \in Nodes : Launch(rec.cur, n)
    BY <2>1, <2>3, LaunchWatched
  <2>4. QED
    BY <1>5, <2>2, <2>3 DEF RecoverAssign, Eligible
<1>6. CASE RecoverEnd
  <2>1. UNCHANGED <<job, held, runners, calls>> /\ \A j \in rec.todo : ~RunsOn(j, rec.node)
    BY <1>6 DEF RecoverEnd
  <2>2. SUFFICES ASSUME NEW j \in held', job'[j].status = "running" PROVE Watched(j)'
    BY DEF WatchInv
  <2>3. Watched(j) /\ ~(rec.node = job[j].node /\ j \in rec.todo)
    BY <2>1, <2>2 DEF WatchInv, RunsOn
  <2>4. QED
    BY <2>1, <2>3 DEF Watched, Watches, Decides
<1>7. QED
  BY <1>2, <1>3, <1>4, <1>5, <1>6 DEF Recovery

(* The scheduler, the network, operators and a restart.                    *)
LEMMA OthersWatched ==
    ASSUME TypeOK, HandsOK, WatchInv,
           \/ \E j \in Jobs : Submit(j) \/ SubmitPersist(j)
           \/ Scheduler \/ Network \/ Operator \/ Restart
    PROVE  WatchInv'
<1>0. job \in [Jobs -> JobRecs] /\ held \subseteq Jobs /\ queue \in Seq(Jobs) /\ sched \in SchedRecs
  BY DEF TypeOK
<1>1. ASSUME UNCHANGED <<runners, rec>>, calls \subseteq calls', held' \subseteq held, UNCHANGED job
      PROVE  WatchInv'
  BY <1>1, SameJob, WatchStays
<1>2. ASSUME UNCHANGED <<runners, rec, calls>>, held' \subseteq held, \A j \in Jobs : RunsOnAsBefore(j)
      PROVE  WatchInv'
  BY <1>2, WatchStays
<1>3. ASSUME NEW j \in Jobs, Submit(j) PROVE WatchInv'
  <2>1. SUFFICES ASSUME NEW k \in held', job'[k].status = "running" PROVE Watched(k)'
    BY DEF WatchInv
  <2>2. k \in held /\ job'[k] = job[k]
    BY <1>0, <1>3, <2>1 DEF Submit, JobRecs
  <2>3. UNCHANGED <<runners, rec, calls>> /\ Watched(k)
    BY <1>3, <2>1, <2>2 DEF Submit, WatchInv
  <2>4. QED
    BY <2>2, <2>3 DEF Watched, Watches, Decides
<1>4. ASSUME NEW j \in Jobs, SubmitPersist(j) PROVE WatchInv'
  BY <1>1, <1>4 DEF SubmitPersist
<1>5. CASE SchedPick \/ SchedCrash
  BY <1>1, <1>5 DEF SchedPick, SchedCrash
<1>6. CASE SchedCommit
  <2>1. sched.job \in Jobs /\ sched.node \in Nodes
    BY <1>0, <1>6 DEF SchedCommit, HandsOK, SchedRecs
  <2>2. CASE UNCHANGED <<job, runners>>
    BY <1>1, <1>6, <2>2 DEF SchedCommit
  <2>3. CASE Launch(sched.job, sched.node)
    BY <1>6, <2>1, <2>3, LaunchWatched DEF SchedCommit
  <2>4. QED
    BY <1>6, <2>2, <2>3 DEF SchedCommit
<1>7. ASSUME NEW r \in runners, DispatchTimeout(r) PROVE WatchInv'
  <2>1. r \in Runners
    BY DEF TypeOK
  <2> DEFINE s == [r EXCEPT !.pc = "raised", !.gen = 0, !.id = 0]
  <2>2. /\ Become(r, s) /\ s.job = r.job /\ s.attempt = r.attempt /\ s.node = r.node
        /\ Decides(s)
    BY <1>7, <2>1 DEF DispatchTimeout, Runners, Decides
  <2> HIDE DEF s
  <2>3. QED
    BY <1>7, <2>2, SameJob, WatchBecome DEF DispatchTimeout
<1>8. CASE Network
  <2>1. CASE \E r \in runners : DispatchTimeout(r)
    BY <1>7, <2>1
  <2>2. CASE UNCHANGED <<runners, rec, job, held>> /\ calls \subseteq calls'
    BY <1>1, <2>2
  <2>3. QED
    BY <1>8, <2>1, <2>2
       DEF Network, Register, RegisterRefused, HealthTimeout, Heartbeat, StreamEnd, LateAnswer, mem
<1>9. ASSUME NEW j \in Jobs, Cancel(j) PROVE WatchInv'
  <2>1. \A k \in Jobs : RunsOnAsBefore(k)
    <3>1. CASE job' = [job EXCEPT ![j].status = "cancelled", ![j].cancel = TRUE]
      <4>1. job'[j].status = "cancelled" /\ \A k \in Jobs \ {j} : job'[k] = job[k]
        BY <1>0, <3>1 DEF JobRecs
      <4>2. QED
        BY <4>1 DEF RunsOnAsBefore
    <3>2. CASE job' = [job EXCEPT ![j].cancel = TRUE]
      BY <1>0, <3>2, CancelFlag
    <3>3. QED
      BY <1>9, <3>1, <3>2 DEF Cancel
  <2>2. QED
    BY <1>2, <1>9, <2>1 DEF Cancel
<1>10. ASSUME NEW j \in Jobs, Retry(j) PROVE WatchInv'
  <2>1. \A k \in Jobs : RunsOnAsBefore(k)
    BY <1>0, <1>10 DEF Retry, RunsOnAsBefore, JobRecs
  <2>2. QED
    BY <1>2, <1>10, <2>1 DEF Retry
<1>11. CASE ClearQueue
  <2>1. Head(queue) \in Jobs
    BY <1>0, <1>11, QueueTypes DEF ClearQueue
  <2>2. \A k \in Jobs : RunsOnAsBefore(k)
    BY <1>0, <1>11, <2>1 DEF ClearQueue, RunsOnAsBefore, JobRecs
  <2>3. QED
    BY <1>2, <1>11, <2>2 DEF ClearQueue
<1>12. ASSUME NEW n \in Nodes, RemoveNode(n) \/ RestartWorker(n) PROVE WatchInv'
  <2>1. job' = job \/ \E j \in held : job' = [job EXCEPT ![j].cancel = TRUE]
    BY <1>12 DEF RemoveNode, RestartWorker, CancelOn
  <2>2. \A k \in Jobs : RunsOnAsBefore(k)
    BY <1>0, <2>1, CancelFlag, SameJob
  <2>3. QED
    BY <1>2, <1>12, <2>2 DEF RemoveNode, RestartWorker
<1>13. ASSUME NEW j \in Jobs, CancelPersist(j) \/ ClearJob(j) PROVE WatchInv'
  BY <1>1, <1>13 DEF CancelPersist, ClearJob
<1>14. CASE ClearFailed \/ PurgeFailed
  BY <1>1, <1>14 DEF ClearFailed, PurgeFailed
<1>15. CASE Restart
  <2>1. \A j \in Jobs : job'[j].status # "running"
    BY <1>15 DEF Restart, RestoredJob, NewJob, RestoredStatus, Interrupted
  <2>2. held' \subseteq Jobs
    BY <1>15 DEF Restart, Interrupted
  <2>3. QED
    BY <2>1, <2>2 DEF WatchInv
<1>16. QED
  BY <1>3, <1>4, <1>5, <1>6, <1>8, <1>9, <1>10, <1>11, <1>12, <1>13, <1>14, <1>15 DEF Scheduler, Operator

(* WatchInv is inductive.                                                  *)
LEMMA WatchStep == TypeOK /\ HandsOK /\ WatchInv /\ [Next]_vars => WatchInv'
<1> SUFFICES ASSUME TypeOK, HandsOK, WatchInv, [Next]_vars PROVE WatchInv'
  OBVIOUS
<1>1. CASE UNCHANGED vars
  BY <1>1, SameJob, WatchStays DEF vars, mem
<1>2. CASE Next
  BY <1>2, RunnerWatched, RecoveryWatched, OthersWatched DEF Next
<1>3. QED
  BY <1>1, <1>2

(* A job that self.jobs shows as running has, in every interleaving of the *)
(* threads with lost workers, recoveries, commands and restarts, a thread  *)
(* or a recovery that will still decide it: RunningIsWatched is an         *)
(* invariant (_run_job_guarded, recover_jobs).                             *)
THEOREM NoJobAbandoned == Spec => []RunningIsWatched
<1>1. Init => WatchInv
  BY DEF Init, WatchInv
<1>2. WatchInv => RunningIsWatched
  BY DEF WatchInv, Watched, Watches, RunningIsWatched
<1>3. QED
  BY <1>1, <1>2, WatchStep, TypeInductive, PTL DEF Spec

-----------------------------------------------------------------------------
(* Attempts are bounded while nobody retries by hand. A ticket is the      *)
(* right to one dispatch: an entry of the queue, or the job in the hands   *)
(* of the scheduler or of a recovery. A job has one at most, none while it *)
(* runs, and only with an attempt to spare. (retry_job hands out a second  *)
(* ticket for a pending job: with it and a lost worker the bound fails.)   *)
Ticket(j) == InQueue(j) \/ sched.job = j \/ rec.cur = j

Distinct == \A i, k \in DOMAIN queue : queue[i] = queue[k] => i = k

OneTicket ==
    /\ Distinct
    /\ \A j \in Jobs :
          /\ InQueue(j) => sched.job # j /\ rec.cur # j
          /\ sched.job = j => rec.cur # j

SpareAttempt ==
    \A j \in Jobs :
        /\ job[j].status \in {"running", "new"} => ~Ticket(j)
        /\ job[j].status = "new" => job[j].attempt = 0
        /\ Ticket(j) => job[j].attempt < MaxAttempts

TicketInv == OneTicket /\ SpareAttempt /\ AttemptsBounded

(* put() of an id that is not there.                                       *)
LEMMA DistinctGrows ==
    ASSUME TypeOK, Distinct, NEW j \in Jobs, ~InQueue(j), queue' = Append(queue, j)
    PROVE  Distinct' /\ \A k \in Jobs : InQueue(k)' => InQueue(k) \/ k = j
<1>1. queue \in Seq(Jobs) /\ Len(queue) \in Nat /\ DOMAIN queue = 1 .. Len(queue)
  BY LenProperties DEF TypeOK
<1>2. DOMAIN queue' = 1 .. Len(queue) + 1 /\ queue'[Len(queue) + 1] = j
      /\ \A i \in 1 .. Len(queue) : queue'[i] = queue[i]
  BY <1>1
<1>3. QED
  BY <1>1, <1>2 DEF InQueue, Distinct

(* get(): the id is gone from the queue.                                   *)
LEMMA DistinctShrinks ==
    ASSUME TypeOK, Distinct, queue # <<>>, queue' = Tail(queue), NEW j \in Jobs, j = Head(queue)
    PROVE  /\ Distinct' /\ ~InQueue(j)' /\ InQueue(j)
           /\ \A k \in Jobs : InQueue(k)' => InQueue(k)
<1>1. queue \in Seq(Jobs) /\ Len(queue) \in Nat /\ DOMAIN queue = 1 .. Len(queue) /\ Len(queue) >= 1
  BY LenProperties, EmptySeq DEF TypeOK
<1>2. queue' \in Seq(Jobs) /\ Len(queue') = Len(queue) - 1
      /\ \A m \in 1 .. Len(queue') : queue'[m] = queue[m + 1]
  BY <1>1, HeadTailProperties
<1>3. DOMAIN queue' = 1 .. Len(queue') /\ Head(queue) = queue[1] /\ 1 \in DOMAIN queue
  BY <1>1, <1>2, LenProperties
<1>4. \A m \in DOMAIN queue' : m + 1 \in DOMAIN queue /\ m + 1 # 1 /\ queue'[m] = queue[m + 1]
  BY <1>1, <1>2, <1>3
<1>5. \A i, k \in DOMAIN queue' : queue'[i] = queue'[k] => i = k
  <2> SUFFICES ASSUME NEW i \in DOMAIN queue', NEW k \in DOMAIN queue', queue'[i] = queue'[k] PROVE i = k
    OBVIOUS
  <2>1. i + 1 = k + 1
    BY <1>4 DEF Distinct
  <2>2. QED
    BY <1>3, <2>1
<1>6. ~\E m \in DOMAIN queue' : queue'[m] = queue[1]
  BY <1>3, <1>4 DEF Distinct
<1>7. QED
  BY <1>3, <1>4, <1>5, <1>6 DEF InQueue, Distinct

(* get() and put() of the same id.                                         *)
LEMMA DistinctRotates ==
    ASSUME TypeOK, Distinct, queue # <<>>, queue' = Requeued
    PROVE  Distinct' /\ \A k \in Jobs : InQueue(k)' => InQueue(k)
<1> DEFINE t == Tail(queue)
<1>1. queue \in Seq(Jobs) /\ Len(queue) \in Nat /\ Len(queue) >= 1
  BY LenProperties, EmptySeq DEF TypeOK
<1>2. t \in Seq(Jobs) /\ Len(t) = Len(queue) - 1 /\ Head(queue) = queue[1] /\ Head(queue) \in Jobs
      /\ \A m \in 1 .. Len(t) : t[m] = queue[m + 1]
  BY <1>1, HeadTailProperties
<1> HIDE DEF t
<1>3. queue' = Append(t, Head(queue))
  BY DEF Requeued, t
<1>4. DOMAIN queue' = 1 .. Len(queue) /\ queue'[Len(queue)] = Head(queue)
      /\ \A m \in 1 .. Len(t) : queue'[m] = t[m]
  BY <1>1, <1>2, <1>3
<1>5. PICK n \in Nat : n = Len(queue) /\ n >= 1
  BY <1>1
<1>6. DOMAIN queue = 1 .. n /\ DOMAIN queue' = 1 .. n
  BY <1>1, <1>4, <1>5, LenProperties
<1>7. queue'[n] = queue[1] /\ \A m \in 1 .. (n - 1) : queue'[m] = queue[m + 1]
  BY <1>2, <1>4, <1>5
<1>8. \A m \in 1 .. n : \E a \in 1 .. n :
         queue'[m] = queue[a] /\ ((m = n /\ a = 1) \/ (a = m + 1 /\ a # 1))
  <2> TAKE m \in 1 .. n
  <2>1. CASE m = n
    BY <1>5, <1>7, <2>1
  <2>2. CASE m # n
    <3>1. m \in 1 .. (n - 1) /\ m + 1 \in 1 .. n /\ m + 1 # 1
      BY <1>5, <2>2
    <3>2. queue'[m] = queue[m + 1]
      BY <1>7, <3>1
    <3>3. QED
      BY <3>1, <3>2
  <2>3. QED
    BY <2>1, <2>2
<1>9. ASSUME NEW i \in 1 .. n, NEW k \in 1 .. n, queue'[i] = queue'[k] PROVE i = k
  <2>1. PICK a \in 1 .. n : queue'[i] = queue[a] /\ ((i = n /\ a = 1) \/ (a = i + 1 /\ a # 1))
    BY <1>8
  <2>2. PICK b \in 1 .. n : queue'[k] = queue[b] /\ ((k = n /\ b = 1) \/ (b = k + 1 /\ b # 1))
    BY <1>8
  <2>3. a = b
    BY <1>6, <1>9, <2>1, <2>2 DEF Distinct
  <2>4. QED
    BY ONLY <1>5, <2>1, <2>2, <2>3
<1>10. Distinct'
  BY <1>6, <1>9 DEF Distinct
<1>11. \A m \in 1 .. n : \E a \in 1 .. n : queue'[m] = queue[a]
  BY <1>8
<1>12. ASSUME NEW k \in Jobs, InQueue(k)' PROVE InQueue(k)
  <2>1. PICK m \in 1 .. n : queue'[m] = k
    BY <1>6, <1>12 DEF InQueue
  <2>2. PICK a \in 1 .. n : queue'[m] = queue[a]
    BY <1>11, <2>1
  <2>3. QED
    BY <1>6, <2>1, <2>2 DEF InQueue
<1>13. QED
  BY <1>10, <1>12

(* restore_from_persistence queues every interrupted job once.             *)
LEMMA DistinctRestart ==
    ASSUME TypeOK, Restart
    PROVE  Distinct' /\ \A k \in Jobs : InQueue(k)' => k \in Resumed
<1> DEFINE n == Cardinality(Resumed)
<1>1. Resumed \in SUBSET Jobs
  BY DEF Resumed, Interrupted
<1>2. n \in Nat
  BY <1>1, FS_Subset, FS_CardinalityType
<1>3. queue' \in [1 .. n -> Resumed] /\ \A j \in Resumed : \E i \in 1 .. n : queue'[i] = j
  BY DEF Restart
<1>4. queue' \in Surjection(1 .. n, Resumed)
  BY <1>3 DEF Surjection
<1>5. IsFiniteSet(1 .. n) /\ Cardinality(1 .. n) = Cardinality(Resumed)
  BY SMTT(30), <1>2, FS_Interval
<1> HIDE DEF n
<1>6. queue' \in Injection(1 .. n, Resumed)
  BY <1>4, <1>5, FS_SurjSameCardinalityImpliesInj
<1>7. \A i, k \in 1 .. n : queue'[i] = queue'[k] => i = k
  BY <1>3, <1>6 DEF Injection, IsInjective
<1>8. QED
  BY <1>3, <1>7 DEF Distinct, InQueue

(* A step that neither dispatches nor hands out a ticket.                  *)
LEMMA TicketFrame ==
    ASSUME TypeOK, TicketInv, Distinct', \A k \in Jobs : InQueue(k)' => InQueue(k),
           sched'.job = sched.job, rec'.cur = rec.cur \/ rec'.cur = NoJob,
           \A k \in Jobs : /\ job'[k].attempt = job[k].attempt
                           /\ job'[k].status \in {"running", "new"} => job'[k].status = job[k].status
    PROVE  TicketInv'
BY DEF TicketInv, OneTicket, SpareAttempt, AttemptsBounded, Ticket

(* The same where the queue is left alone.                                 *)
LEMMA TicketStays ==
    ASSUME TypeOK, TicketInv, UNCHANGED queue,
           sched'.job = sched.job, rec'.cur = rec.cur \/ rec'.cur = NoJob,
           \A k \in Jobs : /\ job'[k].attempt = job[k].attempt
                           /\ job'[k].status \in {"running", "new"} => job'[k].status = job[k].status
    PROVE  TicketInv'
<1>1. Distinct' /\ \A k \in Jobs : InQueue(k)' => InQueue(k)
  BY DEF TicketInv, OneTicket, Distinct, InQueue
<1>2. QED
  BY <1>1, TicketFrame

(* A ticket goes from one hand to the other, or onto the queue.            *)
LEMMA TicketMoves ==
    ASSUME TypeOK, TicketInv, UNCHANGED job, NEW j \in Jobs, Ticket(j), job[j].status # "new",
           OneTicket', \A k \in Jobs : Ticket(k)' => Ticket(k)
    PROVE  TicketInv'
BY DEF TicketInv, SpareAttempt, AttemptsBounded

(* A dispatch spends the ticket.                                           *)
LEMMA TicketSpent ==
    ASSUME TypeOK, TicketInv, NEW j \in Jobs, NEW n \in Nodes, Launch(j, n), Ticket(j), UNCHANGED queue,
           \A k \in Jobs : sched'.job = k => sched.job = k,
           \A k \in Jobs : rec'.cur = k => rec.cur = k,
           \/ sched.job = j /\ sched'.job # j
           \/ rec.cur = j /\ rec'.cur # j
    PROVE  TicketInv'
<1>1. job \in [Jobs -> JobRecs] /\ job[j].attempt \in Nat
  BY DEF TypeOK, JobRecs
<1>2. job'[j].status = "running" /\ job'[j].attempt = job[j].attempt + 1
      /\ \A k \in Jobs \ {j} : job'[k] = job[k]
  BY <1>1 DEF Launch
<1>3. \A k \in Jobs : InQueue(k)' <=> InQueue(k)
  BY DEF InQueue
<1>4. Distinct'
  BY DEF TicketInv, OneTicket, Distinct
<1>5. \A k \in Jobs : Ticket(k)' => Ticket(k) /\ k # j
  BY <1>3 DEF TicketInv, OneTicket, Ticket
<1>6. OneTicket'
  BY <1>3, <1>4 DEF TicketInv, OneTicket
<1>7. job[j].attempt < MaxAttempts
  BY DEF TicketInv, SpareAttempt
<1>8. AttemptsBounded'
  BY <1>1, <1>2, <1>7 DEF TicketInv, AttemptsBounded
<1>9. SpareAttempt'
  BY <1>2, <1>5 DEF TicketInv, SpareAttempt
<1>10. QED
  BY <1>6, <1>8, <1>9 DEF TicketInv

(* submit_job hands out the first ticket, the scheduler takes and spends   *)
(* it.                                                                     *)
LEMMA DispatchTickets ==
    ASSUME MaxAttempts > 0, TypeOK, HandsOK, TicketInv,
           Scheduler \/ \E j \in Jobs : Submit(j) \/ SubmitPersist(j)
    PROVE  TicketInv'
<1>0. queue \in Seq(Jobs) /\ held \subseteq Jobs /\ job \in [Jobs -> JobRecs]
      /\ NoJob \notin Jobs /\ sched \in SchedRecs
  BY DEF TypeOK
<1>1. ASSUME NEW j \in Jobs, Submit(j) PROVE TicketInv'
  <2>1. ~Ticket(j) /\ job[j].attempt = 0 /\ queue' = Append(queue, j) /\ UNCHANGED <<sched, rec>>
    BY <1>1 DEF Submit, TicketInv, SpareAttempt
  <2>2. Distinct' /\ \A k \in Jobs : InQueue(k)' => InQueue(k) \/ k = j
    BY <2>1, DistinctGrows DEF TicketInv, OneTicket, Ticket
  <2>3. job'[j].status = "pending" /\ job'[j].attempt = 0 /\ \A k \in Jobs \ {j} : job'[k] = job[k]
    BY <1>0, <1>1, <2>1 DEF Submit, JobRecs
  <2>4. OneTicket'
    BY <2>1, <2>2 DEF TicketInv, OneTicket, Ticket
  <2>5. \A k \in Jobs : Ticket(k)' => Ticket(k) \/ k = j
    BY <2>1, <2>2 DEF Ticket
  <2>6. SpareAttempt' /\ AttemptsBounded'
    BY <2>3, <2>5 DEF TicketInv, SpareAttempt, AttemptsBounded
  <2>7. QED
    BY <2>4, <2>6 DEF TicketInv
<1>2. ASSUME NEW j \in Jobs, SubmitPersist(j) PROVE TicketInv'
  BY <1>2, TicketStays DEF SubmitPersist
<1>3. CASE SchedPick
  <2>1. PICK j \in Jobs : j = Head(queue)
    BY <1>0, <1>3, QueueTypes DEF SchedPick
  <2>2. sched.job = NoJob /\ queue # <<>> /\ UNCHANGED <<job, rec>>
    BY <1>0, <1>3 DEF SchedPick, HandsOK
  <2>3. CASE queue' = Requeued /\ UNCHANGED sched
    <3>1. Distinct' /\ \A k \in Jobs : InQueue(k)' => InQueue(k)
      BY <2>2, <2>3, DistinctRotates DEF TicketInv, OneTicket
    <3>2. QED
      BY <2>2, <2>3, <3>1, TicketFrame
  <2>4. ASSUME queue' = Tail(queue)
        PROVE  Distinct' /\ ~InQueue(j)' /\ InQueue(j) /\ \A k \in Jobs : InQueue(k)' => InQueue(k)
    BY <2>1, <2>2, <2>4, DistinctShrinks DEF TicketInv, OneTicket
  <2>5. CASE queue' = Tail(queue) /\ UNCHANGED sched
    BY <2>2, <2>4, <2>5, TicketFrame
  <2>6. CASE queue' = Tail(queue) /\ sched'.job = j
    <3>1. OneTicket'
      BY <1>0, <2>2, <2>4, <2>6 DEF TicketInv, OneTicket
    <3>2. Ticket(j) /\ \A k \in Jobs : Ticket(k)' => Ticket(k)
      BY <1>0, <2>2, <2>4, <2>6 DEF Ticket
    <3>3. job[j].status # "new"
      BY <3>2 DEF TicketInv, SpareAttempt
    <3>4. QED
      BY <2>2, <3>1, <3>2, <3>3, TicketMoves
  <2>7. QED
    BY <1>0, <1>3, <2>1, <2>3, <2>5, <2>6 DEF SchedPick, SchedRecs
<1>4. CASE SchedCrash
  <2>1. sched'.job = sched.job /\ queue # <<>> /\ queue' = Requeued /\ UNCHANGED <<job, rec>>
    BY <1>0, <1>4 DEF SchedCrash, SchedRecs
  <2>2. Distinct' /\ \A k \in Jobs : InQueue(k)' => InQueue(k)
    BY <2>1, DistinctRotates DEF TicketInv, OneTicket
  <2>3. QED
    BY <2>1, <2>2, TicketFrame
<1>5. CASE SchedCommit
  <2>1. PICK j \in Jobs : j = sched.job
    BY <1>0, <1>5 DEF SchedCommit, HandsOK, SchedRecs
  <2>2. sched.node \in Nodes /\ sched'.job = NoJob /\ UNCHANGED rec /\ Ticket(j)
    BY <1>0, <1>5, <2>1 DEF SchedCommit, HandsOK, SchedRecs, Ticket
  <2>3. CASE queue' = Append(queue, j) /\ UNCHANGED job
    <3>1. ~InQueue(j) /\ rec.cur # j /\ job[j].status # "new"
      BY <2>1, <2>2 DEF TicketInv, OneTicket, SpareAttempt
    <3>2. Distinct' /\ \A k \in Jobs : InQueue(k)' => InQueue(k) \/ k = j
      BY <2>3, <3>1, DistinctGrows DEF TicketInv, OneTicket
    <3>3. OneTicket'
      BY <1>0, <2>2, <3>1, <3>2 DEF TicketInv, OneTicket
    <3>4. \A k \in Jobs : Ticket(k)' => Ticket(k)
      BY <1>0, <2>1, <2>2, <3>2 DEF Ticket
    <3>5. QED
      BY <2>2, <2>3, <3>1, <3>3, <3>4, TicketMoves
  <2>4. CASE Launch(j, sched.node) /\ UNCHANGED queue
    BY <1>0, <2>1, <2>2, <2>4, TicketSpent
  <2>5. QED
    BY <1>5, <2>1, <2>3, <2>4 DEF SchedCommit
<1>6. QED
  BY <1>1, <1>2, <1>3, <1>4, <1>5 DEF Scheduler

(* A recovery hands out a ticket for a job that ran, and so had none, and  *)
(* had an attempt to spare.                                                *)
LEMMA RecoveryTickets ==
    ASSUME TypeOK, HandsOK, TicketInv, Recovery
    PROVE  TicketInv'
<1>0. job \in [Jobs -> JobRecs] /\ held \subseteq Jobs /\ rec \in RecRecs
      /\ NoJob \notin Jobs
  BY DEF TypeOK
<1>1. ASSUME NEW n, RecoverBegin(n) PROVE TicketInv'
  BY <1>1, TicketStays DEF RecoverBegin
<1>2. ASSUME NEW j \in Jobs, RecoverVisit(j) PROVE TicketInv'
  <2>1. rec.cur = NoJob /\ UNCHANGED <<queue, sched>> /\ job[j].status = "running"
    BY <1>2 DEF RecoverVisit, RunsOn
  <2>2. CASE job[j].attempt >= MaxAttempts
    <3>1. job' = [job EXCEPT ![j].status = "failed", ![j].node = NoNode] /\ rec'.cur = rec.cur
      BY <1>0, <1>2, <2>2 DEF RecoverVisit, RecRecs
    <3>2. job'[j].status = "failed" /\ job'[j].attempt = job[j].attempt /\ \A k \in Jobs \ {j} : job'[k] = job[k]
      BY <1>0, <3>1 DEF JobRecs
    <3>3. QED
      BY <2>1, <3>1, <3>2, TicketStays
  <2>3. CASE ~(job[j].attempt >= MaxAttempts)
    <3>1. job' = [job EXCEPT ![j].status = "pending", ![j].node = NoNode] /\ rec'.cur = j
      BY <1>0, <1>2, <2>3 DEF RecoverVisit, RecRecs
    <3>2. job'[j].status = "pending" /\ job'[j].attempt = job[j].attempt /\ job[j].attempt \in Nat
          /\ \A k \in Jobs \ {j} : job'[k] = job[k]
      BY <1>0, <3>1 DEF JobRecs
    <3>3. ~Ticket(j) /\ job[j].attempt < MaxAttempts
      BY <2>1, <2>3, <3>2 DEF TicketInv, SpareAttempt
    <3>4. \A k \in Jobs : InQueue(k)' <=> InQueue(k)
      BY <2>1 DEF InQueue
    <3>5. Distinct'
      BY <2>1 DEF TicketInv, OneTicket, Distinct
    <3>6. OneTicket'
      BY <2>1, <3>1, <3>3, <3>4, <3>5 DEF TicketInv, OneTicket, Ticket
    <3>7. \A k \in Jobs : Ticket(k)' => Ticket(k) \/ k = j
      BY <2>1, <3>1, <3>4 DEF Ticket
    <3>8. SpareAttempt' /\ AttemptsBounded'
      BY <3>2, <3>3, <3>7 DEF TicketInv, SpareAttempt, AttemptsBounded
    <3>9. QED
      BY <3>6, <3>8 DEF TicketInv
  <2>4. QED
    BY <2>2, <2>3
<1>3. CASE RecoverAssign
  <2>1. PICK j \in Jobs : j = rec.cur
    BY <1>0, <1>3 DEF RecoverAssign, RecRecs
  <2>2. rec'.cur = NoJob /\ UNCHANGED sched /\ Ticket(j)
    BY <1>0, <1>3, <2>1 DEF RecoverAssign, RecRecs, Ticket
  <2>3. CASE UNCHANGED <<job, queue>>
    BY <2>2, <2>3, TicketStays
  <2>4. CASE queue' = Append(queue, j) /\ UNCHANGED job
    <3>1. ~InQueue(j) /\ sched.job # j /\ job[j].status # "new"
      BY <2>1, <2>2 DEF TicketInv, OneTicket, SpareAttempt
    <3>2. Distinct' /\ \A k \in Jobs : InQueue(k)' => InQueue(k) \/ k = j
      BY <2>4, <3>1, DistinctGrows DEF TicketInv, OneTicket
    <3>3. OneTicket'
      BY <1>0, <2>2, <3>1, <3>2 DEF TicketInv, OneTicket
    <3>4. \A k \in Jobs : Ticket(k)' => Ticket(k)
      BY <1>0, <2>1, <2>2, <3>2 DEF Ticket
    <3>5. QED
      BY <2>2, <2>4, <3>1, <3>3, <3>4, TicketMoves
  <2>5. CASE UNCHANGED queue /\ \E n \in Nodes : Launch(j, n)
    BY <1>0, <2>1, <2>2, <2>5, TicketSpent
  <2>6. QED
    BY <1>3, <2>1, <2>3, <2>4, <2>5 DEF RecoverAssign, Eligible
<1>4. CASE RecoverEnd
  BY <1>4, TicketStays DEF RecoverEnd, NoRec
<1>5. QED
  BY <1>1, <1>2, <1>3, <1>4 DEF Recovery, RecoverCall, RecoverLost

(* Runner threads end jobs and never start one.                            *)
LEMMA RunnerTickets ==
    ASSUME TypeOK, TicketInv, RunnerStep
    PROVE  TicketInv'
<1>0. PICK r \in runners :
        \/ RunSend(r) \/ RegisterWaiter(r) \/ Answer(r) \/ SaveAnswer(r)
        \/ LoseSession(r) \/ LostCancelled(r) \/ RaisedCheck(r)
        \/ RecordFailure(r) \/ FreeNode(r) \/ CheckStale(r)
        \/ MakeReceipt(r) \/ Finalize(r) \/ Persist(r) \/ Strand(r)
        \/ FailStranded(r) \/ Exit(r)
  BY DEF RunnerStep
<1>1. job \in [Jobs -> JobRecs] /\ r.job \in Jobs
  BY RunnerShape DEF TypeOK
<1>2. CASE UNCHANGED <<job, queue, sched, rec>>
  BY <1>2, TicketStays
<1>3. CASE RecordFailure(r) \/ Finalize(r) \/ FailStranded(r)
  <2>1. \A k \in Jobs : /\ job'[k].attempt = job[k].attempt
                        /\ job'[k].status \in {"running", "new"} => job'[k].status = job[k].status
    BY <1>1, <1>3, FailStatusType
    DEF RecordFailure, Finalize, FailStranded, JobRecs
  <2>2. UNCHANGED <<queue, sched, rec>>
    BY <1>3 DEF RecordFailure, Finalize, FailStranded
  <2>3. QED
    BY <2>1, <2>2, TicketStays
<1>4. QED
  BY <1>0, <1>2, <1>3
  DEF RunSend, RegisterWaiter, Answer, SaveAnswer, LoseSession, LostCancelled,
      RaisedCheck, FreeNode, CheckStale, Enforced, MakeReceipt, Persist, Strand, Exit

(* The network, the operators' commands but retry, and a restart.          *)
LEMMA OtherTickets ==
    ASSUME "retry" \notin Commands, TypeOK, TicketInv, Network \/ Operator \/ Restart
    PROVE  TicketInv'
<1>0. job \in [Jobs -> JobRecs] /\ held \subseteq Jobs /\ queue \in Seq(Jobs)
  BY DEF TypeOK
<1>1. CASE UNCHANGED <<job, queue, sched, rec>>
  BY <1>1, TicketStays
<1>2. ASSUME NEW j \in Jobs, NEW f, UNCHANGED <<queue, sched, rec>>,
             f \in {[job EXCEPT ![j].status = "cancelled", ![j].cancel = TRUE],
                   [job EXCEPT ![j].cancel = TRUE]},
             job' = f
      PROVE  TicketInv'
  <2>1. \A k \in Jobs : /\ job'[k].attempt = job[k].attempt
                        /\ job'[k].status \in {"running", "new"} => job'[k].status = job[k].status
    BY <1>0, <1>2 DEF JobRecs
  <2>2. QED
    BY <1>2, <2>1, TicketStays
<1>3. ASSUME NEW j \in Jobs, Cancel(j) PROVE TicketInv'
  BY <1>2, <1>3 DEF Cancel
<1>4. CASE ClearQueue
  <2>1. PICK j \in Jobs : j = Head(queue)
    BY <1>0, <1>4, QueueTypes DEF ClearQueue
  <2>2. Distinct' /\ \A k \in Jobs : InQueue(k)' => InQueue(k)
    BY <1>4, <2>1, DistinctShrinks DEF ClearQueue, TicketInv, OneTicket
  <2>3. job' = job \/ job' = [job EXCEPT ![j].status = "cancelled"]
    BY <1>4, <2>1 DEF ClearQueue
  <2>4. \A k \in Jobs : /\ job'[k].attempt = job[k].attempt
                        /\ job'[k].status \in {"running", "new"} => job'[k].status = job[k].status
    BY <1>0, <2>3 DEF JobRecs
  <2>5. QED
    BY <1>4, <2>2, <2>4, TicketFrame DEF ClearQueue
<1>5. ASSUME NEW n \in Nodes, RemoveNode(n) \/ RestartWorker(n) PROVE TicketInv'
  <2>1. /\ job' = job \/ \E j \in held : job' = [job EXCEPT ![j].cancel = TRUE]
        /\ UNCHANGED <<queue, sched, rec>>
    BY <1>5 DEF RemoveNode, RestartWorker, CancelOn
  <2>2. QED
    BY <1>0, <1>1, <1>2, <2>1
<1>6. CASE Restart
  <2>1. Distinct' /\ \A k \in Jobs : InQueue(k)' => k \in Resumed
    BY <1>6, DistinctRestart
  <2>2. sched'.job = NoJob /\ rec'.cur = NoJob
    BY <1>6 DEF Restart, IdleSched, NoRec
  <2>3. \A k \in Jobs : Ticket(k)' => k \in Resumed
    BY <2>1, <2>2 DEF Ticket
  <2>4. ASSUME NEW k \in Jobs
        PROVE  /\ job'[k].status = "running" => FALSE
               /\ job'[k].attempt = IF k \in Resumed THEN Len(attempts[k]) ELSE 0
               /\ k \in Resumed => job'[k].status = "pending" /\ Len(attempts[k]) < MaxAttempts
    <3>1. attempts[k] \in Seq({"dispatched"} \cup Outcomes) /\ Len(attempts[k]) \in Nat
      BY DEF TypeOK, AttemptRows
    <3>2. job'[k] = RestoredJob(k)
      BY <1>6 DEF Restart
    <3>3. QED
      BY <3>1, <3>2 DEF RestoredJob, NewJob, RestoredStatus, Resumed, Interrupted, Unresumable
  <2>5. QED
    BY <2>1, <2>2, <2>3, <2>4 DEF TicketInv, OneTicket, SpareAttempt, AttemptsBounded
<1>7. QED
  BY <1>1, <1>3, <1>4, <1>5, <1>6
  DEF Network, Register, RegisterRefused, HealthTimeout, Heartbeat, StreamEnd, DispatchTimeout,
      LateAnswer, mem, Operator, CancelPersist, Retry, ClearJob, ClearFailed, PurgeFailed

(* Where no operator retries, GCON_MAX_JOB_ATTEMPTS bounds the dispatches  *)
(* of every job for any jobs, nodes, lost workers, recoveries, commands    *)
(* and restarts: AttemptsBounded is an invariant (recover_jobs,            *)
(* restore_from_persistence).                                              *)
THEOREM AttemptsAreBounded ==
    ASSUME MaxAttempts > 0, "retry" \notin Commands
    PROVE  Spec => []AttemptsBounded
<1>1. Init => TicketInv
  BY DEF Init, TicketInv, OneTicket, Distinct, SpareAttempt, AttemptsBounded, Ticket, InQueue, NewJob,
         IdleSched, NoRec
<1>2. TypeOK /\ HandsOK /\ TicketInv /\ [Next]_vars => TicketInv'
  <2> SUFFICES ASSUME TypeOK, HandsOK, TicketInv, [Next]_vars PROVE TicketInv'
    OBVIOUS
  <2>1. CASE UNCHANGED vars
    BY <2>1, TicketStays DEF vars, mem
  <2>2. CASE Next
    BY <2>2, DispatchTickets, RunnerTickets, RecoveryTickets, OtherTickets DEF Next
  <2>3. QED
    BY <2>1, <2>2
<1>3. TicketInv => AttemptsBounded
  BY DEF TicketInv
<1>4. QED
  BY <1>1, <1>2, <1>3, TypeInductive, PTL DEF Spec

-----------------------------------------------------------------------------
(* Until the first fault, and without the commands that cancel or clear    *)
(* jobs, eviction loses no outcome. Before any fault no worker is lost, so *)
(* there is no recovery; every job that runs is in the hands of one thread,*)
(* which is never stale; and the outcome it sets is in the row before the  *)
(* thread ends, whoever drops the job from self.jobs in the meantime.      *)
JobCommands == {"cancel", "clear_queue", "clear_failed", "clear_job"}

(* A thread that has still to set an outcome.                              *)
Busy(r) == r.pc \notin {"persist", "exit"}

Calm == calls = {} /\ ~rec.on /\ writes \subseteq {"insert"} \X Jobs

(* A registered worker is connected by the one stream it opened.           *)
Connected ==
    \A n \in Nodes :
        /\ reg[n] # "absent" => live[n] # 0
        /\ \A g \in Nat : <<n, g>> \in streams <=> live[n] = g /\ g # 0

InHand ==
    sched.pc = "commit" =>
        /\ sched.job \in held /\ job[sched.job].status = "pending"
        /\ live[sched.node] # 0

OnlyBusy ==
    \A r, s \in runners : Busy(r) /\ Busy(s) /\ r.job = s.job => r = s

OnCourse(r) ==
    /\ r.pc # "start" => db[r.job].status # "none"
    /\ Busy(r) =>
          /\ r.pc \in {"start", "sent", "wait", "answered", "free", "check",
                       "receipt", "final", "stranded", "failsafe"}
          /\ ~r.stale /\ r.attempt = job[r.job].attempt
          /\ job[r.job].status = "running"
          /\ r.pc = "start" => live[r.node] # 0
          /\ r.pc \in {"sent", "wait"} => <<r.node, r.gen>> \in streams

AtWork == \A r \in runners : OnCourse(r)

Kept == \A j \in Jobs \ held : job[j].status \notin {"pending", "running"}

Written ==
    \A j \in Jobs :
        job[j].status \in Terminal =>
            \/ db[j].status = job[j].status
            \/ \E r \in runners : r.job = j /\ r.pc = "persist"

DurableInv ==
    /\ Calm /\ Connected /\ InHand /\ OnlyBusy /\ AtWork /\ Kept /\ Written

(* A step in which no thread moves: jobs may only become pending, workers  *)
(* connect, rows appear.                                                   *)
LEMMA DurableFrame ==
    ASSUME TypeOK, DurableInv, runners' = runners, Calm', Connected', InHand',
           \A n \in Nodes : live[n] # 0 => live'[n] = live[n],
           streams \subseteq streams', held \subseteq held',
           \A k \in Jobs : db[k].status # "none" => db'[k] = db[k],
           \A k \in Jobs :
              /\ job'[k].attempt = job[k].attempt
              /\ \/ job'[k].status = job[k].status
                 \/ job[k].status # "running" /\ job'[k].status = "pending" /\ k \in held'
    PROVE  DurableInv'
<1>1. \A r \in runners : r.job \in Jobs /\ r.node \in Nodes
  BY RunnerShape
<1>2. OnlyBusy'
  BY DEF DurableInv, OnlyBusy, Busy
<1>3. AtWork'
  <2> SUFFICES ASSUME NEW r \in runners PROVE OnCourse(r)'
    BY DEF AtWork
  <2>1. OnCourse(r) /\ r.job \in Jobs /\ r.node \in Nodes
    BY <1>1 DEF DurableInv, AtWork
  <2>2. QED
    BY <2>1 DEF OnCourse, Busy
<1>4. Kept'
  BY DEF DurableInv, Kept
<1>5. Written'
  <2> SUFFICES ASSUME NEW j \in Jobs, job'[j].status \in Terminal
               PROVE  \/ db'[j].status = job'[j].status
                      \/ \E r \in runners : r.job = j /\ r.pc = "persist"
    BY DEF Written
  <2>1. job'[j].status = job[j].status
    BY DEF Terminal
  <2>2. QED
    BY <2>1 DEF DurableInv, Written, Terminal
<1>6. QED
  BY <1>2, <1>3, <1>4, <1>5 DEF DurableInv

(* A thread on its way to the outcome takes its next step; only the row of *)
(* its own job may change.                                                 *)
LEMMA MoveOn ==
    ASSUME TypeOK, DurableInv, NEW r \in runners, NEW s, Become(r, s), Busy(r), Busy(s),
           s.job = r.job, OnCourse(s)', Connected',
           UNCHANGED <<job, held, writes, sched, rec, calls, live, streams>>,
           \A k \in Jobs : db[k].status # "none" => db'[k].status # "none",
           \A k \in Jobs \ {r.job} : db'[k] = db[k]
    PROVE  DurableInv'
<1>1. runners' = (runners \ {r}) \cup {s} /\ \A t \in runners : t.job \in Jobs
  BY RunnerShape DEF Become
<1>2. Calm' /\ InHand' /\ Kept'
  BY DEF DurableInv, Calm, InHand, Kept
<1>3. OnlyBusy'
  BY <1>1 DEF DurableInv, OnlyBusy, Busy
<1>4. AtWork'
  <2> SUFFICES ASSUME NEW t \in runners, t # r PROVE OnCourse(t)'
    BY <1>1 DEF AtWork
  <2>1. OnCourse(t) /\ t.job \in Jobs
    BY <1>1 DEF DurableInv, AtWork
  <2>2. QED
    BY <2>1 DEF OnCourse, Busy
<1>5. Written'
  <2> SUFFICES ASSUME NEW j \in Jobs, job[j].status \in Terminal
               PROVE  \/ db'[j].status = job[j].status
                      \/ \E t \in runners' : t.job = j /\ t.pc = "persist"
    BY DEF Written
  <2>1. job[r.job].status = "running"
    BY DEF DurableInv, AtWork, OnCourse
  <2>2. j # r.job /\ db'[j] = db[j]
    BY <2>1 DEF Terminal
  <2>3. QED
    BY <1>1, <2>2 DEF DurableInv, Written, Busy
<1>6. QED
  BY <1>2, <1>3, <1>4, <1>5 DEF DurableInv

(* The thread sets the outcome and goes on to write it.                    *)
LEMMA SetOutcome ==
    ASSUME TypeOK, DurableInv, NEW r \in runners, NEW s, Become(r, s), Busy(r), r.pc # "start",
           s.pc = "persist", s.job = r.job,
           job'[r.job].status \in Terminal, \A k \in Jobs \ {r.job} : job'[k] = job[k],
           UNCHANGED <<held, writes, sched, rec, calls, db, reg, live, streams>>
    PROVE  DurableInv'
<1>1. runners' = (runners \ {r}) \cup {s} /\ \A t \in runners : t.job \in Jobs
  BY RunnerShape DEF Become
<1>2. OnCourse(r) /\ job[r.job].status = "running" /\ r.job \in Jobs
  BY <1>1 DEF DurableInv, AtWork, OnCourse
<1>3. Calm' /\ Connected'
  BY DEF DurableInv, Calm, Connected
<1>4. InHand'
  <2> SUFFICES ASSUME sched.pc = "commit"
               PROVE  sched.job \in held /\ job'[sched.job].status = "pending" /\ live[sched.node] # 0
    BY DEF InHand
  <2>1. sched.job \in held /\ job[sched.job].status = "pending" /\ live[sched.node] # 0
    BY DEF DurableInv, InHand
  <2>2. sched.job \in Jobs /\ sched.job # r.job
    BY <1>2, <2>1 DEF TypeOK
  <2>3. QED
    BY <2>1, <2>2
<1>5. OnlyBusy'
  BY <1>1 DEF DurableInv, OnlyBusy, Busy
<1>6. AtWork'
  <2>1. OnCourse(s)'
    BY <1>2 DEF OnCourse, Busy
  <2>2. ASSUME NEW t \in runners, t # r PROVE OnCourse(t)'
    <3>1. OnCourse(t) /\ t.job \in Jobs
      BY <1>1 DEF DurableInv, AtWork
    <3>2. CASE Busy(t)
      <4>1. t.job # r.job
        BY <2>2, <3>2 DEF DurableInv, OnlyBusy
      <4>2. QED
        BY <3>1, <4>1 DEF OnCourse, Busy
    <3>3. CASE ~Busy(t)
      BY <3>1, <3>3 DEF OnCourse, Busy
    <3>4. QED
      BY <3>2, <3>3
  <2>3. QED
    BY <1>1, <2>1, <2>2 DEF AtWork
<1>7. Kept'
  BY <1>2 DEF DurableInv, Kept, Terminal
<1>8. Written'
  <2> SUFFICES ASSUME NEW j \in Jobs, job'[j].status \in Terminal
               PROVE  \/ db[j].status = job'[j].status
                      \/ \E t \in runners' : t.job = j /\ t.pc = "persist"
    BY DEF Written
  <2>1. CASE j = r.job
    BY <1>1, <2>1
  <2>2. CASE j # r.job
    BY <1>1, <2>2 DEF DurableInv, Written, Busy
  <2>3. QED
    BY <2>1, <2>2
<1>9. QED
  BY <1>3, <1>4, <1>5, <1>6, <1>7, <1>8 DEF DurableInv

(* _run_job as far as send_job's answer: the worker is connected, so the   *)
(* job is sent and waited for.                                             *)
LEMMA DurableSend ==
    ASSUME TypeOK, DurableInv, NEW r \in runners,
           RunSend(r) \/ RegisterWaiter(r) \/ Answer(r) \/ SaveAnswer(r) \/ LoseSession(r)
    PROVE  DurableInv'
<1>0. /\ r \in Runners /\ r.job \in Jobs /\ r.node \in Nodes /\ r.out \in Outcomes
      /\ db \in [Jobs -> Rows] /\ live \in [Nodes -> Nat]
  BY RunnerShape DEF TypeOK
<1>1. OnCourse(r) /\ Connected
  BY DEF DurableInv, AtWork
<1>2. r.pc \in {"start", "sent", "wait", "answered"} /\ Busy(r)
  BY DEF RunSend, RegisterWaiter, Answer, SaveAnswer, LoseSession, Busy
<1>3. /\ ~r.stale /\ r.attempt = job[r.job].attempt /\ job[r.job].status = "running"
      /\ r.pc = "start" => live[r.node] # 0
      /\ r.pc \in {"sent", "wait"} => <<r.node, r.gen>> \in streams
      /\ r.pc # "start" => db[r.job].status # "none"
  BY <1>1, <1>2 DEF OnCourse
<1>4. UNCHANGED <<job, held, writes, sched, rec, calls, reg, live, streams>>
  BY DEF RunSend, RegisterWaiter, Answer, SaveAnswer, LoseSession, net
<1>5. Connected'
  BY <1>1, <1>4 DEF Connected
<1>6. CASE RunSend(r)
  <2>1. r.job \in held /\ live[r.node] # 0 /\ live[r.node] \in Nat /\ r.pc = "start"
    BY <1>0, <1>3, <1>6 DEF DurableInv, Kept, RunSend
  <2>0. PICK s : s = [r EXCEPT !.pc = "sent", !.gen = live[r.node], !.id = Len(attempts[r.job]) + 1]
    OBVIOUS
  <2>2. Become(r, s) /\ db' = [db EXCEPT ![r.job] =
                         IF @.status = "none"
                         THEN [status |-> "pending", owned |-> FALSE] ELSE @]
    BY <1>6, <2>0, <2>1 DEF RunSend
  <2>3. s.job = r.job /\ s.pc = "sent" /\ s.gen = live[r.node] /\ s.node = r.node
        /\ s.stale = r.stale /\ s.attempt = r.attempt
    BY <1>0, <2>0 DEF Runners
  <2>4. db'[r.job].status # "none" /\ \A k \in Jobs \ {r.job} : db'[k] = db[k]
    BY <1>0, <2>2
  <2>5. <<r.node, live[r.node]>> \in streams
    BY <1>0, <1>1, <2>1 DEF Connected
  <2>6. OnCourse(s)' /\ Busy(s)
    BY <1>3, <1>4, <2>3, <2>4, <2>5 DEF OnCourse, Busy
  <2>7. \A k \in Jobs : db[k].status # "none" => db'[k].status # "none"
    BY <2>4
  <2>8. QED
    BY <1>2, <1>4, <1>5, <2>2, <2>3, <2>4, <2>6, <2>7, MoveOn
<1>7. CASE RegisterWaiter(r)
  <2> DEFINE s == [r EXCEPT !.pc = "wait"]
  <2>1. Become(r, s) /\ UNCHANGED db /\ r.pc = "sent"
    BY <1>3, <1>7 DEF RegisterWaiter, store
  <2>2. s.job = r.job /\ s.pc = "wait" /\ s.gen = r.gen /\ s.node = r.node
        /\ s.stale = r.stale /\ s.attempt = r.attempt
    BY <1>0 DEF Runners
  <2> HIDE DEF s
  <2>3. OnCourse(s)' /\ Busy(s)
    BY <1>3, <1>4, <2>1, <2>2 DEF OnCourse, Busy
  <2>4. QED
    BY <1>2, <1>4, <1>5, <2>1, <2>2, <2>3, MoveOn
<1>8. CASE Answer(r)
  <2>1. PICK o \in Outcomes : Become(r, [r EXCEPT !.pc = "answered", !.out = o, !.gen = 0])
    BY <1>8 DEF Answer
  <2> DEFINE s == [r EXCEPT !.pc = "answered", !.out = o, !.gen = 0]
  <2>2. Become(r, s) /\ UNCHANGED db /\ r.pc = "wait"
    BY <1>8, <2>1 DEF Answer
  <2>3. s.job = r.job /\ s.pc = "answered" /\ s.stale = r.stale /\ s.attempt = r.attempt
    BY <1>0 DEF Runners
  <2> HIDE DEF s
  <2>4. OnCourse(s)' /\ Busy(s)
    BY <1>3, <1>4, <2>2, <2>3 DEF OnCourse, Busy
  <2>5. QED
    BY <1>2, <1>4, <1>5, <2>2, <2>3, <2>4, MoveOn
<1>9. CASE SaveAnswer(r)
  <2> DEFINE s == [r EXCEPT !.pc = "free", !.id = 0]
  <2>1. Become(r, s) /\ r.pc = "answered" /\ (db' = db \/ db' = Stored(r.job, r.out))
    BY <1>9 DEF SaveAnswer
  <2>2. s.job = r.job /\ s.pc = "free" /\ s.stale = r.stale /\ s.attempt = r.attempt
    BY <1>0 DEF Runners
  <2> HIDE DEF s
  <2>3. r.out # "none"
    BY <1>0
  <2>4. db'[r.job].status # "none" /\ \A k \in Jobs \ {r.job} : db'[k] = db[k]
    BY <1>0, <1>3, <2>1, <2>3 DEF Stored, Rows
  <2>5. OnCourse(s)' /\ Busy(s)
    BY <1>3, <1>4, <2>2, <2>4 DEF OnCourse, Busy
  <2>6. \A k \in Jobs : db[k].status # "none" => db'[k].status # "none"
    BY <2>4
  <2>7. QED
    BY <1>2, <1>4, <1>5, <2>1, <2>2, <2>4, <2>5, <2>6, MoveOn
<1>10. CASE LoseSession(r)
  BY <1>3, <1>10 DEF LoseSession
<1>11. QED
  BY <1>6, <1>7, <1>8, <1>9, <1>10

(* From the answer to the outcome: the dispatch is the current one. The    *)
(* worker may have been removed, then _fail_stranded_job decides.          *)
LEMMA DurableOutcome ==
    ASSUME TypeOK, DurableInv, NEW r \in runners,
           FreeNode(r) \/ CheckStale(r) \/ MakeReceipt(r) \/ Finalize(r) \/ Strand(r) \/ FailStranded(r),
           faults' = faults
    PROVE  DurableInv'
<1>0. /\ r \in Runners /\ r.job \in Jobs /\ r.node \in Nodes /\ job \in [Jobs -> JobRecs]
      /\ faults \in Nat /\ reg \in [Nodes -> NodeStatus]
  BY RunnerShape DEF TypeOK
<1>1. OnCourse(r) /\ Connected
  BY DEF DurableInv, AtWork
<1>2. r.pc \in {"free", "check", "receipt", "final", "stranded", "failsafe"} /\ Busy(r)
  BY <1>1 DEF FreeNode, CheckStale, Enforced, MakeReceipt, Finalize, Strand, FailStranded, Busy, OnCourse
<1>3. /\ ~r.stale /\ r.attempt = job[r.job].attempt /\ job[r.job].status = "running"
      /\ db[r.job].status # "none"
  BY <1>1, <1>2 DEF OnCourse
<1>4. ~IsStale(r) /\ r.job \in held
  BY <1>0, <1>3 DEF IsStale, DurableInv, Kept
<1>5. UNCHANGED <<held, writes, sched, rec, calls, db, live, streams>>
  BY DEF FreeNode, CheckStale, Enforced, MakeReceipt, Finalize, Strand, FailStranded, net, store
<1>6. ASSUME reg' = MarkIdle(r.node) \/ reg' = reg PROVE Connected'
  BY <1>0, <1>1, <1>5, <1>6 DEF Connected, MarkIdle
<1>7. ASSUME NEW s, Become(r, s), UNCHANGED job, reg' = MarkIdle(r.node) \/ reg' = reg,
             s.job = r.job, s.attempt = r.attempt, ~s.stale,
             s.pc \in {"check", "receipt", "final", "stranded", "failsafe"}
      PROVE  DurableInv'
  <2>1. OnCourse(s)' /\ Busy(s)
    BY <1>3, <1>5, <1>7 DEF OnCourse, Busy
  <2>2. QED
    BY <1>2, <1>5, <1>6, <1>7, <2>1, MoveOn
<1>8. CASE FreeNode(r)
  <2>0. PICK s : s = [r EXCEPT !.pc = IF reg[r.node] = "absent" THEN "stranded" ELSE "check"]
    OBVIOUS
  <2>1. r.pc = "free"
    BY <1>2, <1>8 DEF FreeNode
  <2>2. Become(r, s) /\ reg' = MarkIdle(r.node) /\ UNCHANGED job
    BY <1>0, <1>8, <2>0, <2>1 DEF FreeNode, Runners
  <2>3. s.job = r.job /\ s.pc \in {"stranded", "check"} /\ s.stale = r.stale /\ s.attempt = r.attempt
    BY <1>0, <2>0 DEF Runners
  <2>4. QED
    BY <1>3, <1>7, <2>2, <2>3
<1>9. CASE CheckStale(r)
  <2>1. PICK o \in {r.out} \cup (Outcomes \cap {"failed"}) :
          Become(r, [r EXCEPT !.out = o, !.stale = IsStale(r) /\ o = "success",
                              !.pc = IF o = "success" THEN "receipt"
                                     ELSE IF IsStale(r) THEN "exit" ELSE "final"])
    BY <1>9 DEF CheckStale, Enforced
  <2>0. PICK s : s = [r EXCEPT !.out = o, !.stale = FALSE,
                               !.pc = IF o = "success" THEN "receipt" ELSE "final"]
    OBVIOUS
  <2>2. s.job = r.job /\ s.pc \in {"receipt", "final"} /\ ~s.stale /\ s.attempt = r.attempt
    BY <1>0, <2>0 DEF Runners
  <2>3. Become(r, s)
    BY <1>0, <1>4, <2>0, <2>1 DEF Runners
  <2>4. UNCHANGED <<job, reg>>
    BY <1>9 DEF CheckStale, Enforced, net
  <2>5. QED
    BY <1>7, <2>2, <2>3, <2>4
<1>10. CASE MakeReceipt(r)
  <2> DEFINE s == [r EXCEPT !.pc = "final", !.stale = FALSE]
  <2>1. Become(r, s) /\ UNCHANGED <<job, reg>>
    BY <1>3, <1>10 DEF MakeReceipt, net
  <2>2. s.job = r.job /\ s.pc = "final" /\ ~s.stale /\ s.attempt = r.attempt
    BY <1>0 DEF Runners
  <2> HIDE DEF s
  <2>3. QED
    BY <1>7, <2>1, <2>2
<1>11. CASE Strand(r)
  <2> DEFINE s == [r EXCEPT !.pc = "failsafe"]
  <2>1. Become(r, s) /\ UNCHANGED job /\ reg' = MarkIdle(r.node)
    BY <1>11 DEF Strand
  <2>2. s.job = r.job /\ s.pc = "failsafe" /\ s.stale = r.stale /\ s.attempt = r.attempt
    BY <1>0 DEF Runners
  <2> HIDE DEF s
  <2>3. QED
    BY <1>3, <1>7, <2>1, <2>2
<1>12. FailStatus(r.job) \in Terminal /\ "completed" \in Terminal
  BY DEF FailStatus, Terminal
<1>13. CASE Finalize(r)
  <2> DEFINE s == [r EXCEPT !.pc = "persist", !.out = "success"]
  <2>1. Become(r, s) /\ UNCHANGED reg /\ r.pc = "final"
    BY <1>13 DEF Finalize, net
  <2>2. s.job = r.job /\ s.pc = "persist"
    BY <1>0 DEF Runners
  <2>3. job'[r.job].status \in Terminal /\ \A k \in Jobs \ {r.job} : job'[k] = job[k]
    BY <1>0, <1>12, <1>13 DEF Finalize, JobRecs
  <2> HIDE DEF s
  <2>4. QED
    BY <1>2, <1>5, <2>1, <2>2, <2>3, SetOutcome
<1>14. CASE FailStranded(r)
  <2> DEFINE s == [r EXCEPT !.pc = "persist"]
  <2>1. Become(r, s) /\ UNCHANGED reg /\ r.pc = "failsafe"
        /\ job' = [job EXCEPT ![r.job].status = FailStatus(r.job)]
    BY <1>3, <1>4, <1>14 DEF FailStranded, net
  <2>2. s.job = r.job /\ s.pc = "persist"
    BY <1>0 DEF Runners
  <2>3. job'[r.job].status \in Terminal /\ \A k \in Jobs \ {r.job} : job'[k] = job[k]
    BY <1>0, <1>12, <2>1 DEF JobRecs
  <2> HIDE DEF s
  <2>4. QED
    BY <1>2, <1>5, <2>1, <2>2, <2>3, SetOutcome
<1>15. QED
  BY <1>8, <1>9, <1>10, <1>11, <1>13, <1>14

(* The outcome reaches the row, and the thread ends with an eviction: only *)
(* finished jobs go.                                                       *)
LEMMA DurableEnd ==
    ASSUME TypeOK, DurableInv, NEW r \in runners, Persist(r) \/ Exit(r)
    PROVE  DurableInv'
<1>0. /\ r \in Runners /\ r.job \in Jobs /\ db \in [Jobs -> Rows] /\ held \subseteq Jobs
      /\ job[r.job].status \in MemStatus /\ \A t \in runners : t.job \in Jobs
  BY RunnerShape DEF TypeOK
<1>1. OnCourse(r)
  BY DEF DurableInv, AtWork
<1>2. r.pc \in {"persist", "exit"} /\ db[r.job].status # "none"
  BY <1>1 DEF Persist, Exit, OnCourse, Busy
<1>3. UNCHANGED <<job, writes, sched, rec, calls, reg, live, streams>>
  BY DEF Persist, Exit, net
<1>4. Calm' /\ Connected'
  BY <1>3 DEF DurableInv, Calm, Connected
<1>5. CASE Persist(r)
  <2> DEFINE s == [r EXCEPT !.pc = "exit"]
  <2>1. runners' = (runners \ {r}) \cup {s} /\ UNCHANGED held
    BY <1>0, <1>2, <1>5 DEF Persist, Become, Runners
  <2>2. s.job = r.job /\ s.pc = "exit"
    BY <1>0 DEF Runners
  <2> HIDE DEF s
  <2>3. db'[r.job].status = job[r.job].status /\ \A k \in Jobs \ {r.job} : db'[k] = db[k]
    BY <1>0, <1>2, <1>5 DEF Persist, Stored, Rows
  <2>4. job[r.job].status # "none"
    BY <1>0 DEF MemStatus, Terminal
  <2>5. InHand' /\ Kept'
    BY <1>3, <2>1 DEF DurableInv, InHand, Kept
  <2>6. OnlyBusy'
    BY <2>1, <2>2 DEF DurableInv, OnlyBusy, Busy
  <2>7. AtWork'
    <3>1. OnCourse(s)'
      BY <2>2, <2>3, <2>4 DEF OnCourse, Busy
    <3>2. ASSUME NEW t \in runners, t # r PROVE OnCourse(t)'
      <4>1. OnCourse(t) /\ t.job \in Jobs
        BY <1>0 DEF DurableInv, AtWork
      <4>2. db[t.job].status # "none" => db'[t.job].status # "none"
        BY <2>3, <2>4, <4>1
      <4>3. QED
        BY <1>3, <4>1, <4>2 DEF OnCourse, Busy
    <3>3. QED
      BY <2>1, <3>1, <3>2 DEF AtWork
  <2>8. Written'
    <3> SUFFICES ASSUME NEW j \in Jobs, job[j].status \in Terminal, j # r.job
                 PROVE  \/ db'[j].status = job[j].status
                        \/ \E t \in runners' : t.job = j /\ t.pc = "persist"
      BY <1>3, <2>3 DEF Written
    <3>1. QED
      BY <2>1, <2>3 DEF DurableInv, Written
  <2>9. QED
    BY <1>4, <2>5, <2>6, <2>7, <2>8 DEF DurableInv
<1>6. CASE Exit(r)
  <2>1. r.pc = "exit" /\ runners' = runners \ {r} /\ UNCHANGED db
    BY <1>6 DEF Exit, store
  <2>2. held' \subseteq held /\ \A j \in held \ held' : job[j].status \in Terminal
    BY <1>6 DEF Exit
  <2>3. InHand' /\ Kept'
    BY <1>0, <1>3, <2>2 DEF DurableInv, InHand, Kept, Terminal
  <2>4. OnlyBusy'
    BY <2>1 DEF DurableInv, OnlyBusy
  <2>5. AtWork'
    <3> SUFFICES ASSUME NEW t \in runners PROVE OnCourse(t)'
      BY <2>1 DEF AtWork
    <3>1. QED
      BY <1>3, <2>1 DEF DurableInv, AtWork, OnCourse, Busy
  <2>6. Written'
    BY <1>3, <2>1 DEF DurableInv, Written
  <2>7. QED
    BY <1>4, <2>3, <2>4, <2>5, <2>6 DEF DurableInv
<1>7. QED
  BY <1>5, <1>6

(* submit_job and the scheduler.                                           *)
LEMMA DurableDispatch ==
    ASSUME TypeOK, HandsOK, DurableInv,
           Scheduler \/ \E j \in Jobs : Submit(j) \/ SubmitPersist(j)
    PROVE  DurableInv'
<1>0. /\ job \in [Jobs -> JobRecs] /\ held \subseteq Jobs /\ db \in [Jobs -> Rows]
      /\ sched \in SchedRecs /\ live \in [Nodes -> Nat] /\ reg \in [Nodes -> NodeStatus]
      /\ queue \in Seq(Jobs) /\ NoJob \notin Jobs
  BY DEF TypeOK
<1>1. UNCHANGED <<rec, calls, live, streams>>
  BY DEF Scheduler, SchedPick, SchedCrash, SchedCommit, Submit, SubmitPersist, net
<1>2. Calm /\ Connected /\ InHand /\ Kept
  BY DEF DurableInv
<1>3. ASSUME UNCHANGED reg PROVE Connected'
  BY <1>1, <1>2, <1>3 DEF Connected
<1>4. ASSUME NEW j \in Jobs, Submit(j) PROVE DurableInv'
  <2>1. /\ job[j].status = "new" /\ held' = held \cup {j} /\ writes' = writes \cup {<<"insert", j>>}
        /\ job'[j].status = "pending" /\ job'[j].attempt = job[j].attempt
        /\ \A k \in Jobs \ {j} : job'[k] = job[k]
        /\ UNCHANGED <<runners, sched, db, reg>>
    BY <1>0, <1>4 DEF Submit, JobRecs, store, net
  <2>2. Calm'
    BY <1>1, <1>2, <2>1 DEF Calm
  <2>3. InHand'
    BY <1>0, <1>1, <1>2, <2>1 DEF InHand
  <2>4. QED
    BY <1>1, <1>3, <2>1, <2>2, <2>3, DurableFrame
<1>5. ASSUME NEW j \in Jobs, SubmitPersist(j) PROVE DurableInv'
  <2>1. /\ writes' \subseteq writes /\ UNCHANGED <<job, held, runners, sched, reg>>
        /\ \A k \in Jobs : db[k].status # "none" => db'[k] = db[k]
    BY <1>0, <1>5 DEF SubmitPersist, net
  <2>2. Calm' /\ InHand'
    BY <1>1, <1>2, <2>1 DEF Calm, InHand
  <2>3. QED
    BY <1>1, <1>3, <2>1, <2>2, DurableFrame
<1>6. CASE SchedPick
  <2>1. UNCHANGED <<job, held, writes, runners, db>>
    BY <1>6 DEF SchedPick, store
  <2>2. CASE UNCHANGED <<sched, reg>>
    <3>1. Calm' /\ InHand'
      BY <1>1, <1>2, <2>1, <2>2 DEF Calm, InHand
    <3>2. QED
      BY <1>1, <1>3, <2>1, <2>2, <3>1, DurableFrame
  <2>3. CASE ~UNCHANGED <<sched, reg>>
    <3>1. PICK n \in Eligible(Head(queue)) :
             /\ Head(queue) \in held /\ job[Head(queue)].status = "pending"
             /\ reg' = [reg EXCEPT ![n] = "busy"]
             /\ sched' = [sched EXCEPT !.pc = "commit", !.job = Head(queue), !.node = n]
      BY <1>6, <2>3 DEF SchedPick
    <3>2. n \in Nodes /\ live[n] # 0
      BY DEF Eligible, Dispatchable
    <3>3. Connected'
      BY <1>0, <1>1, <1>2, <3>1, <3>2 DEF Connected
    <3>4. sched'.job = Head(queue) /\ sched'.node = n
      BY <1>0, <3>1 DEF SchedRecs
    <3>5. Calm' /\ InHand'
      BY <1>1, <1>2, <2>1, <3>1, <3>2, <3>4 DEF Calm, InHand
    <3>6. QED
      BY <1>1, <2>1, <3>3, <3>5, DurableFrame
  <2>4. QED
    BY <2>2, <2>3
<1>7. CASE SchedCrash
  <2>1. UNCHANGED <<job, held, writes, runners, db, reg>> /\ sched'.pc # "commit"
    BY <1>0, <1>7 DEF SchedCrash, SchedRecs, store, net
  <2>2. Calm' /\ InHand'
    BY <1>1, <1>2, <2>1 DEF Calm, InHand
  <2>3. QED
    BY <1>1, <1>3, <2>1, <2>2, DurableFrame
<1>8. CASE SchedCommit
  <2>1. PICK j \in Jobs : j = sched.job /\ j \in held /\ job[j].status = "pending"
    BY <1>0, <1>2, <1>8 DEF SchedCommit, InHand
  <2>2. PICK n \in Nodes : n = sched.node /\ live[n] # 0
    BY <1>2, <1>8 DEF SchedCommit, InHand, HandsOK
  <2>3. UNCHANGED <<held, writes, db>> /\ sched'.pc = "idle"
    BY <1>0, <1>8 DEF SchedCommit, SchedRecs, store
  <2>4. Calm' /\ InHand'
    BY <1>1, <1>2, <2>3 DEF Calm, InHand
  <2>5. CASE UNCHANGED <<job, runners, reg>>
    BY <1>1, <1>3, <2>3, <2>4, <2>5, DurableFrame
  <2>6. CASE Launch(j, n) /\ reg' = [reg EXCEPT ![n] = "busy"]
    <3>1. Connected'
      BY <1>0, <1>1, <1>2, <2>2, <2>6 DEF Connected
    <3>2. PICK s : s = [job |-> j, attempt |-> job[j].attempt + 1, node |-> n, gen |-> 0,
                        id |-> 0, pc |-> "start", out |-> "success", stale |-> FALSE]
      OBVIOUS
    <3>3. runners' = runners \cup {s}
      BY <2>6, <3>2 DEF Launch
    <3>4. /\ job'[j].status = "running" /\ job'[j].attempt = job[j].attempt + 1
          /\ \A k \in Jobs \ {j} : job'[k] = job[k]
      BY <1>0, <2>6 DEF Launch
    <3>5. s.job = j /\ s.attempt = job[j].attempt + 1 /\ s.node = n /\ s.pc = "start" /\ ~s.stale
      BY <3>2
    <3>6. \A t \in runners : t.job \in Jobs /\ OnCourse(t)
      BY RunnerShape DEF DurableInv, AtWork
    <3>7. \A t \in runners : t.job = j => ~Busy(t)
      BY <2>1, <3>6 DEF OnCourse
    <3>8. OnlyBusy'
      BY <3>3, <3>5, <3>7 DEF DurableInv, OnlyBusy, Busy
    <3>9. AtWork'
      <4>1. OnCourse(s)'
        BY <1>1, <2>2, <3>4, <3>5 DEF OnCourse, Busy
      <4>2. ASSUME NEW t \in runners PROVE OnCourse(t)'
        <5>1. CASE t.job = j
          BY <2>3, <3>6, <3>7, <5>1 DEF OnCourse, Busy
        <5>2. CASE t.job # j
          BY <1>1, <2>3, <3>4, <3>6, <5>2 DEF OnCourse, Busy
        <5>3. QED
          BY <5>1, <5>2
      <4>3. QED
        BY <3>3, <4>1, <4>2 DEF AtWork
    <3>10. Kept'
      BY <1>2, <2>1, <2>3, <3>4 DEF Kept
    <3>11. Written'
      BY <2>3, <3>3, <3>4 DEF DurableInv, Written, Terminal
    <3>12. QED
      BY <2>4, <3>1, <3>8, <3>9, <3>10, <3>11 DEF DurableInv
  <2>7. QED
    BY <1>8, <2>1, <2>2, <2>5, <2>6 DEF SchedCommit
<1>9. QED
  BY <1>4, <1>5, <1>6, <1>7, <1>8 DEF Scheduler

(* Runner threads and recovery: nothing is lost, so nothing is recovered.  *)
LEMMA DurableThreads ==
    ASSUME TypeOK, HandsOK, DurableInv, RunnerStep \/ Recovery, faults' = faults
    PROVE  DurableInv'
<1>1. ASSUME NEW r \in runners
      PROVE  r.pc \in {"start", "sent", "wait", "answered", "free", "check", "receipt", "final",
                       "stranded", "failsafe", "persist", "exit"}
  BY <1>1 DEF DurableInv, AtWork, OnCourse, Busy
<1>2. calls = {} /\ ~rec.on
  BY DEF DurableInv, Calm
<1>3. ~Recovery
  BY <1>1, <1>2 DEF Recovery, RecoverAssign, RecoverEnd, RecoverVisit, RecoverCall, RecoverLost
<1>4. PICK r \in runners :
        \/ RunSend(r) \/ RegisterWaiter(r) \/ Answer(r) \/ SaveAnswer(r)
        \/ LoseSession(r) \/ LostCancelled(r) \/ RaisedCheck(r)
        \/ RecordFailure(r) \/ FreeNode(r) \/ CheckStale(r)
        \/ MakeReceipt(r) \/ Finalize(r) \/ Persist(r) \/ Strand(r)
        \/ FailStranded(r) \/ Exit(r)
  BY <1>3 DEF RunnerStep
<1>5. ~LostCancelled(r) /\ ~RaisedCheck(r) /\ ~RecordFailure(r)
  BY <1>1 DEF LostCancelled, RaisedCheck, RecordFailure
<1>6. QED
  BY <1>4, <1>5, DurableSend, DurableOutcome, DurableEnd

(* The network, as long as nothing goes wrong: workers connect.            *)
LEMMA DurableNetwork ==
    ASSUME TypeOK, HandsOK, DurableInv, Network, faults' = faults
    PROVE  DurableInv'
<1>0. /\ live \in [Nodes -> Nat] /\ reg \in [Nodes -> NodeStatus] /\ faults \in Nat
      /\ streams \subseteq Nodes \X Nat
  BY DEF TypeOK
<1>1. ~Fault
  BY <1>0 DEF Fault
<1>2. Calm /\ Connected /\ InHand
  BY DEF DurableInv
<1>3. ASSUME UNCHANGED <<mem, db>>, Connected', streams \subseteq streams',
             \A n \in Nodes : live[n] # 0 => live'[n] = live[n]
      PROVE  DurableInv'
  <2>1. UNCHANGED <<job, held, writes, runners, sched, rec, calls>>
    BY <1>3 DEF mem
  <2>2. Calm'
    BY <1>2, <2>1 DEF Calm
  <2>3. InHand'
    <3> SUFFICES ASSUME sched.pc = "commit"
                 PROVE  sched.job \in held /\ job[sched.job].status = "pending" /\ live'[sched.node] # 0
      BY <2>1 DEF InHand
    <3>1. sched.job \in held /\ job[sched.job].status = "pending" /\ live[sched.node] # 0
      BY <1>2 DEF InHand
    <3>2. sched.node \in Nodes
      BY DEF HandsOK
    <3>3. QED
      BY <1>3, <3>1, <3>2
  <2>4. QED
    BY <1>3, <2>1, <2>2, <2>3, DurableFrame
<1>4. ASSUME NEW n \in Nodes, Register(n) PROVE DurableInv'
  <2>1. live[n] = 0 /\ UNCHANGED <<mem, db>> /\ reg' = [reg EXCEPT ![n] = "idle"]
    BY <1>1, <1>4 DEF Register, store
  <2>2. PICK g \in 1 .. MaxSessions :
           live' = [live EXCEPT ![n] = g] /\ streams' = streams \cup {<<n, g>>}
    BY <1>4 DEF Register, Unused
  <2>3. g \in Nat /\ g # 0
    OBVIOUS
  <2>4. Connected'
    <3> SUFFICES ASSUME NEW m \in Nodes
                 PROVE  /\ reg'[m] # "absent" => live'[m] # 0
                        /\ \A h \in Nat : <<m, h>> \in streams' <=> live'[m] = h /\ h # 0
      BY DEF Connected
    <3>1. CASE m = n
      BY <1>0, <1>2, <2>1, <2>2, <2>3, <3>1 DEF Connected
    <3>2. CASE m # n
      BY <1>0, <1>2, <2>1, <2>2, <2>3, <3>2 DEF Connected
    <3>3. QED
      BY <3>1, <3>2
  <2>5. \A m \in Nodes : live[m] # 0 => live'[m] = live[m]
    BY <1>0, <2>1, <2>2
  <2>6. QED
    BY <1>3, <2>1, <2>2, <2>4, <2>5
<1>5. ASSUME NEW n \in Nodes, Heartbeat(n) PROVE DurableInv'
  <2>1. reg[n] # "absent" /\ live[n] # 0 /\ UNCHANGED <<mem, db, live, streams>>
        /\ \A m \in Nodes \ {n} : reg'[m] = reg[m]
    BY <1>0, <1>5 DEF Heartbeat, store
  <2>2. Connected'
    BY <1>2, <2>1 DEF Connected
  <2>3. QED
    BY <1>3, <2>1, <2>2
<1>6. ASSUME NEW n \in Nodes PROVE ~RegisterRefused(n) /\ ~HealthTimeout(n)
  BY <1>1, <1>2 DEF RegisterRefused, HealthTimeout, Connected
<1>7. ASSUME NEW s \in streams PROVE ~StreamEnd(s[1], s[2])
  <2>1. s[1] \in Nodes /\ s[2] \in Nat
    BY <1>0
  <2>2. CASE <<s[1], s[2]>> \in streams
    <3>1. live[s[1]] = s[2]
      BY <1>2, <2>1, <2>2 DEF Connected
    <3>2. QED
      BY <1>1, <3>1 DEF StreamEnd
  <2>3. QED
    BY <2>2 DEF StreamEnd
<1>8. ASSUME NEW r \in runners PROVE ~DispatchTimeout(r)
  BY <1>1 DEF DispatchTimeout, DurableInv, AtWork, OnCourse, Busy
<1>9. ASSUME NEW j \in Jobs, LateAnswer(j) PROVE DurableInv'
  <2>1. UNCHANGED <<mem, db, reg, live, streams>>
    BY <1>9 DEF LateAnswer, net
  <2>2. Connected'
    BY <1>2, <2>1 DEF Connected
  <2>3. QED
    BY <1>3, <2>1, <2>2
<1>10. QED
  BY <1>4, <1>5, <1>6, <1>7, <1>8, <1>9 DEF Network

(* The commands: workers are removed or restarted, jobs retried.           *)
LEMMA DurableOperator ==
    ASSUME Commands \cap JobCommands = {}, TypeOK, DurableInv, Operator
    PROVE  DurableInv'
<1>0. /\ job \in [Jobs -> JobRecs] /\ held \subseteq Jobs /\ reg \in [Nodes -> NodeStatus]
  BY DEF TypeOK
<1>1. Calm /\ Connected /\ InHand
  BY DEF DurableInv
<1>2. ~ClearQueue /\ ~ClearFailed /\ \A j \in Jobs : ~Cancel(j) /\ ~ClearJob(j)
  BY DEF ClearQueue, ClearFailed, Cancel, ClearJob, JobCommands
<1>3. ~PurgeFailed /\ \A j \in Jobs : ~CancelPersist(j)
  BY <1>1 DEF Calm, PurgeFailed, CancelPersist
<1>4. ASSUME NEW j \in Jobs, Retry(j) PROVE DurableInv'
  <2>1. /\ j \in held /\ job[j].status \in {"failed", "pending"}
        /\ job'[j].status = "pending" /\ job'[j].attempt = job[j].attempt
        /\ \A k \in Jobs \ {j} : job'[k] = job[k]
        /\ UNCHANGED <<held, writes, runners, sched, rec, calls, db, reg, live, streams>>
    BY <1>0, <1>4 DEF Retry, MayRetry, JobRecs, store, net
  <2>2. Calm' /\ Connected'
    BY <1>1, <2>1 DEF Calm, Connected
  <2>3. InHand'
    BY <1>0, <1>1, <2>1 DEF InHand
  <2>4. QED
    BY <2>1, <2>2, <2>3, DurableFrame
<1>5. ASSUME NEW n \in Nodes, RemoveNode(n) \/ RestartWorker(n) PROVE DurableInv'
  <2>1. /\ job' = job \/ \E j \in held : job' = [job EXCEPT ![j].cancel = TRUE]
        /\ UNCHANGED <<held, writes, runners, sched, rec, calls, db, live, streams>>
        /\ reg[n] # "absent"
        /\ \A m \in Nodes \ {n} : reg'[m] = reg[m]
    BY <1>0, <1>5 DEF RemoveNode, RestartWorker, CancelOn, store
  <2>2. \A k \in Jobs : job'[k].status = job[k].status /\ job'[k].attempt = job[k].attempt
    BY <1>0, <2>1 DEF JobRecs
  <2>3. Calm' /\ Connected'
    BY <1>1, <2>1 DEF Calm, Connected
  <2>4. InHand'
    BY <1>0, <1>1, <2>1, <2>2 DEF InHand
  <2>5. QED
    BY <2>1, <2>2, <2>3, <2>4, DurableFrame
<1>6. QED
  BY <1>2, <1>3, <1>4, <1>5 DEF Operator

(* faults counts the faults, and a restart is one.                         *)
LEMMA FaultsCount ==
    ASSUME TypeOK, [Next]_vars, faults' = 0
    PROVE  faults' = faults /\ ~Restart
<1>0. faults \in Nat
  BY DEF TypeOK
<1>1. ~Fault
  BY <1>0 DEF Fault
<1>2. ~Restart
  BY <1>1 DEF Restart
<1>3. CASE UNCHANGED vars
  BY <1>2, <1>3 DEF vars
<1>4. CASE Next
  <2>1. ASSUME \E j \in Jobs : Submit(j) \/ SubmitPersist(j) PROVE UNCHANGED faults
    BY <2>1 DEF Submit, SubmitPersist
  <2>2. ASSUME Scheduler PROVE UNCHANGED faults
    BY <2>2 DEF Scheduler, SchedPick, SchedCrash, SchedCommit
  <2>3. ASSUME Recovery PROVE UNCHANGED faults
    BY <2>3 DEF Recovery, RecoverAssign, RecoverEnd, RecoverVisit, RecoverCall, RecoverLost, RecoverBegin
  <2>4. ASSUME RunnerStep PROVE UNCHANGED faults
    BY <1>1, <2>4
    DEF RunnerStep, RunSend, RegisterWaiter, Answer, SaveAnswer, LoseSession, LostCancelled,
        RaisedCheck, RecordFailure, FreeNode, CheckStale, Enforced, MakeReceipt, Finalize, Persist, Strand,
        FailStranded, Exit
  <2>5. ASSUME Network PROVE UNCHANGED faults
    BY <1>1, <2>5
    DEF Network, Register, RegisterRefused, HealthTimeout, Heartbeat, StreamEnd, DispatchTimeout,
        LateAnswer
  <2>6. ASSUME Operator PROVE UNCHANGED faults
    BY <2>6
    DEF Operator, Cancel, CancelPersist, Retry, ClearJob, ClearQueue, ClearFailed, PurgeFailed,
        RemoveNode, RestartWorker
  <2>7. QED
    BY <1>2, <1>4, <2>1, <2>2, <2>3, <2>4, <2>5, <2>6 DEF Next
<1>5. QED
  BY <1>2, <1>3, <1>4

(* Where no operator cancels or clears jobs, and until the first fault     *)
(* (lost worker, timeout, lost receipt, restart), a finished job dropped   *)
(* from self.jobs is in the database as it ended, for any jobs, cap, order *)
(* of threads, retries and removed workers: EvictedIsDurable holds         *)
(* (_evict_completed_if_over_capacity, _persist_job_status).               *)
THEOREM EvictionLosesNothing ==
    ASSUME Commands \cap JobCommands = {}
    PROVE  Spec => [](faults = 0 => EvictedIsDurable)
<1> DEFINE Durable == faults = 0 => DurableInv
<1>1. Init => Durable
  BY DEF Init, DurableInv, Calm, Connected, InHand, OnlyBusy, AtWork, Kept, Written, NewJob, IdleSched,
         NoRec, Terminal
<1>2. TypeOK /\ HandsOK /\ Durable /\ [Next]_vars => Durable'
  <2> SUFFICES ASSUME TypeOK, HandsOK, Durable, [Next]_vars, faults' = 0 PROVE DurableInv'
    OBVIOUS
  <2>1. faults' = faults /\ ~Restart /\ DurableInv
    BY FaultsCount
  <2>2. CASE UNCHANGED vars
    <3>1. UNCHANGED <<job, held, writes, runners, sched, rec, calls, db, reg, live, streams>>
      BY <2>2 DEF vars, mem, store, net
    <3>2. Calm' /\ Connected' /\ InHand'
      BY <2>1, <3>1 DEF DurableInv, Calm, Connected, InHand
    <3>3. QED
      BY <2>1, <3>1, <3>2, DurableFrame
  <2>3. CASE Next
    BY <2>1, <2>3, DurableDispatch, DurableThreads, DurableNetwork, DurableOperator DEF Next
  <2>4. QED
    BY <2>2, <2>3
<1>3. Durable => (faults = 0 => EvictedIsDurable)
  BY DEF DurableInv, Written, EvictedIsDurable
<1>4. QED
  BY <1>1, <1>2, <1>3, TypeInductive, PTL DEF Spec
=============================================================================
