--------------------------- MODULE JobLifecycle ---------------------------
(* The life of single-node jobs in one coordinator process: submission,    *)
(* the queue, the scheduler thread, dispatch, one runner thread per        *)
(* dispatch, worker loss and recovery, operator commands, and a restart    *)
(* that rebuilds everything from the control-plane database.               *)
(*   src/src/gcon/cluster/coordinator.py        GCONCoordinator            *)
(*   src/src/gcon/cluster/registry.py           node status                *)
(*   src/src/gcon/transport/grpc_transport.py   sessions and send_job      *)
(* Threads interleave at the points where the code releases jobs_lock or   *)
(* waits. scheduler_loop calls assign_job WITHOUT jobs_lock; recover_jobs  *)
(* holds it throughout.                                                    *)
EXTENDS Integers, Sequences, FiniteSets

CONSTANTS
    Jobs, Nodes,
    NoJob, NoNode,
    Outcomes,       \* statuses a worker reports; only "success" is success
    Commands,       \* operator commands in use
    Fits,           \* <<job, node>>: the node meets the job's requirements
    MaxAttempts,    \* GCON_MAX_JOB_ATTEMPTS
    MaxHeld,        \* _max_jobs_in_memory
    MaxRestarts,    \* GCON_SCHEDULER_MAX_RESTARTS
    MaxQueue,       \* bound: queue length at which operators stop retrying
    MaxSessions,    \* bound: sessions of a node in use at once
    MaxFaults,      \* bound: faults of all kinds
    CrashAfterAnswer \* may the process die between the worker's word in the
                     \* row and the job's outcome there?

AllCommands == {"cancel", "retry", "clear_queue", "clear_failed",
                "clear_job", "deregister", "stop_worker", "restart_worker"}

ASSUME LifecycleAssumption ==
    /\ IsFiniteSet(Jobs)
    /\ NoJob \notin Jobs /\ NoNode \notin Nodes
    /\ "success" \in Outcomes
    /\ Outcomes \subseteq {"success", "failed", "timeout", "error"}
    /\ Commands \subseteq AllCommands
    /\ Fits \subseteq Jobs \X Nodes
    /\ {MaxAttempts, MaxHeld, MaxRestarts, MaxQueue, MaxSessions, MaxFaults}
          \subseteq Nat
    /\ CrashAfterAnswer \in BOOLEAN

VARIABLES
    job,        \* the job dicts, by reference: kept after removal from self.jobs
    held,       \* the keys of self.jobs
    queue,      \* job_queue
    writes,     \* durable writes a call in progress has still to make
    db,         \* the durable jobs table: status, and whether org_id is set
    attempts,   \* the durable job_attempts rows of each job
    receipts,   \* jobs with a durable receipt
    warned,     \* jobs whose receipt could not be made or stored (logged)
    reg,        \* status in the node registry
    live,       \* the session get_node finds connected; 0 = none
    streams,    \* control streams that have not ended
    runners,    \* runner threads
    sched,      \* the scheduler thread and its supervisor
    rec,        \* the recover_jobs call that holds jobs_lock
    calls,      \* nodes whose recover_jobs call waits for the lock
    faults

mem == <<job, held, queue, writes, runners, sched, rec, calls>>
store == <<db, attempts, receipts, warned>>
net == <<reg, live, streams>>
vars == <<mem, store, net, faults>>

Terminal == {"completed", "failed", "cancelled"}
MemStatus == Terminal \cup {"new", "pending", "running"} \cup Outcomes
RowStatus == MemStatus \cup {"none"}
RunnerPC == {"start", "sent", "wait", "deaf", "answered", "free", "check",
             "lost", "raised", "failing", "failed", "idle", "receipt",
             "final", "persist", "stranded", "failsafe", "exit"}
Writes == ({"insert", "status"} \X Jobs) \cup {<<"purge", NoJob>>}

Runners == [job : Jobs, attempt : Nat, node : Nodes, gen : Nat, id : Nat,
            pc : RunnerPC, out : Outcomes, stale : BOOLEAN]

NoRec == [on |-> FALSE, node |-> NoNode, todo |-> {}, cur |-> NoJob]
IdleSched == [pc |-> "idle", job |-> NoJob, node |-> NoNode, crashes |-> 0]
NewJob == [status |-> "new", node |-> NoNode, attempt |-> 0, cancel |-> FALSE]
NoRow == [status |-> "none", owned |-> FALSE]

JobRecs == [status : MemStatus, node : Nodes \cup {NoNode}, attempt : Nat,
            cancel : BOOLEAN]
Rows == [status : RowStatus, owned : BOOLEAN]
AttemptRows == Seq({"dispatched"} \cup Outcomes)
NodeStatus == {"absent", "offline", "idle", "busy"}
SchedRecs == [pc : {"idle", "commit", "dead"}, job : Jobs \cup {NoJob},
              node : Nodes \cup {NoNode}, crashes : Nat]
RecRecs == [on : BOOLEAN, node : Nodes \cup {NoNode}, todo : SUBSET Jobs,
            cur : Jobs \cup {NoJob}]

TypeOK ==
    /\ job \in [Jobs -> JobRecs]
    /\ held \subseteq Jobs
    /\ queue \in Seq(Jobs)
    /\ writes \subseteq Writes
    /\ db \in [Jobs -> Rows]
    /\ attempts \in [Jobs -> AttemptRows]
    /\ receipts \subseteq Jobs
    /\ warned \subseteq Jobs
    /\ reg \in [Nodes -> NodeStatus]
    /\ live \in [Nodes -> Nat]
    /\ streams \subseteq (Nodes \X Nat)
    /\ runners \subseteq Runners
    /\ sched \in SchedRecs
    /\ rec \in RecRecs
    /\ calls \subseteq Nodes
    /\ faults \in Nat

(* Where the scheduler and a recovery stand: each has a job in its hands   *)
(* exactly between claiming or resetting it and dispatching it.            *)
HandsOK ==
    /\ sched.pc = "commit" <=> sched.job # NoJob
    /\ sched.pc = "commit" => sched.node \in Nodes
    /\ rec.cur # NoJob => rec.on

Init ==
    /\ job = [j \in Jobs |-> NewJob]
    /\ held = {} /\ queue = <<>> /\ writes = {}
    /\ db = [j \in Jobs |-> NoRow]
    /\ attempts = [j \in Jobs |-> <<>>]
    /\ receipts = {} /\ warned = {}
    /\ reg = [n \in Nodes |-> "absent"]
    /\ live = [n \in Nodes |-> 0]
    /\ streams = {} /\ runners = {}
    /\ sched = IdleSched /\ rec = NoRec /\ calls = {}
    /\ faults = 0

-----------------------------------------------------------------------------
LockFree == ~rec.on
Fault == faults < MaxFaults /\ faults' = faults + 1
InQueue(j) == \E i \in DOMAIN queue : queue[i] = j

(* dispatchable(): idle in the registry and its control stream is up.      *)
Dispatchable(n) == reg[n] = "idle" /\ live[n] # 0
Eligible(j) == {n \in Nodes : Dispatchable(n) /\ <<j, n>> \in Fits}

(* registry.heartbeat(n, "idle") is a no-op on a node that is not there.   *)
MarkIdle(n) == [reg EXCEPT ![n] = IF @ = "absent" THEN @ ELSE "idle"]

(* The node is claimed; count the attempt, mark the job, start a runner.   *)
Launch(j, n) ==
    /\ job' = [job EXCEPT ![j] =
                  [status |-> "running", node |-> n,
                   attempt |-> job[j].attempt + 1, cancel |-> job[j].cancel]]
    /\ runners' = runners \cup
         {[job |-> j, attempt |-> job[j].attempt + 1, node |-> n, gen |-> 0,
           id |-> 0, pc |-> "start", out |-> "success", stale |-> FALSE]}

-----------------------------------------------------------------------------
(* submit_job: insert and queue, then (later) make the job durable.        *)
Submit(j) ==
    /\ LockFree
    /\ job[j].status = "new" /\ j \notin held
    /\ job' = [job EXCEPT ![j].status = "pending"]
    /\ held' = held \cup {j}
    /\ queue' = Append(queue, j)
    /\ writes' = writes \cup {<<"insert", j>>}
    /\ UNCHANGED <<runners, sched, rec, calls, store, net, faults>>

(* ensure_exists with org_id: a no-op when the row is already there.       *)
SubmitPersist(j) ==
    /\ <<"insert", j>> \in writes
    /\ writes' = writes \ {<<"insert", j>>}
    /\ db' = [db EXCEPT ![j] = IF @.status = "none"
                               THEN [status |-> "pending", owned |-> TRUE]
                               ELSE @]
    /\ UNCHANGED <<job, held, queue, runners, sched, rec, calls,
                   attempts, receipts, warned, net, faults>>

-----------------------------------------------------------------------------
(* job_queue.get() and, when the job cannot be placed, put() again.        *)
Requeued == Append(Tail(queue), Head(queue))

(* One pass of scheduler_loop up to the claim. assign_job reads the status *)
(* here, with no lock, and acts on it in SchedCommit.                      *)
SchedPick ==
    /\ sched.pc = "idle"
    /\ queue # <<>>
    /\ \E n \in Nodes : Dispatchable(n)
    /\ LET j == Head(queue) IN
       /\ j \in held
       /\ \/ /\ job[j].status # "pending"              \* skipped, dropped
             /\ queue' = Tail(queue)
             /\ UNCHANGED <<sched, reg>>
          \/ /\ job[j].status = "pending"
             /\ Eligible(j) = {}                       \* RuntimeError
             /\ queue' = Requeued
             /\ UNCHANGED <<sched, reg>>
          \/ /\ job[j].status = "pending"
             /\ \E n \in Eligible(j) :
                   /\ reg' = [reg EXCEPT ![n] = "busy"]
                   /\ sched' = [sched EXCEPT !.pc = "commit", !.job = j,
                                             !.node = n]
             /\ queue' = Tail(queue)
    /\ UNCHANGED <<job, held, writes, runners, rec, calls, store,
                   live, streams, faults>>

(* The popped id is no longer in self.jobs: assign_job raises ValueError,  *)
(* the id goes back on the queue and the loop dies. The supervisor starts  *)
(* it again, until it has crashed too often.                               *)
SchedCrash ==
    /\ sched.pc = "idle"
    /\ queue # <<>>
    /\ \E n \in Nodes : Dispatchable(n)
    /\ Head(queue) \notin held
    /\ queue' = Requeued
    /\ sched' = [sched EXCEPT
                    !.crashes = @ + 1,
                    !.pc = IF sched.crashes + 1 > MaxRestarts THEN "dead"
                           ELSE "idle"]
    /\ UNCHANGED <<job, held, writes, runners, rec, calls, store, net,
                   faults>>

(* The rest of assign_job. A node removed meanwhile sends the job back.    *)
SchedCommit ==
    /\ sched.pc = "commit"
    /\ sched' = [sched EXCEPT !.pc = "idle", !.job = NoJob, !.node = NoNode]
    /\ \/ /\ reg[sched.node] = "absent"
          /\ queue' = Append(queue, sched.job)
          /\ UNCHANGED <<job, runners, reg>>
       \/ /\ reg[sched.node] # "absent"
          /\ reg' = [reg EXCEPT ![sched.node] = "busy"]
          /\ Launch(sched.job, sched.node)
          /\ UNCHANGED queue
    /\ UNCHANGED <<held, writes, rec, calls, store, live, streams,
                   faults>>

-----------------------------------------------------------------------------
(* Runner threads: _run_job and GrpcTransport.send_job.                    *)
Become(r, s) == runners' = (runners \ {r}) \cup {s}

(* jobs.set_status: an UPDATE, so nothing when the row is not there.       *)
Stored(j, status) ==
    IF db[j].status = "none" THEN db ELSE [db EXCEPT ![j].status = status]

(* _run_job up to record_attempt. A job no longer in self.jobs is a        *)
(* KeyError; no connected session raises NodeUnavailableError. Otherwise   *)
(* make sure the row exists (without org_id: it is not in scope there) and *)
(* record the attempt.                                                     *)
RunSend(r) ==
    /\ r.pc = "start"
    /\ IF r.job \notin held
       THEN Become(r, [r EXCEPT !.pc = "stranded"]) /\ UNCHANGED <<db, attempts>>
       ELSE IF live[r.node] = 0
       THEN Become(r, [r EXCEPT !.pc = "lost"]) /\ UNCHANGED <<db, attempts>>
       ELSE /\ db' = [db EXCEPT ![r.job] =
                         IF @.status = "none"
                         THEN [status |-> "pending", owned |-> FALSE] ELSE @]
            /\ attempts' = [attempts EXCEPT ![r.job] = Append(@, "dispatched")]
            /\ Become(r, [r EXCEPT !.pc = "sent", !.gen = live[r.node],
                                   !.id = Len(attempts[r.job]) + 1])
    /\ UNCHANGED <<job, held, queue, writes, sched, rec, calls,
                   receipts, warned, net, faults>>

(* register_waiter does not look whether the session has closed since      *)
(* get_node: then nothing will ever wake this waiter but its timeout.      *)
RegisterWaiter(r) ==
    /\ r.pc = "sent"
    /\ Become(r, IF <<r.node, r.gen>> \in streams
                 THEN [r EXCEPT !.pc = "wait"]
                 ELSE [r EXCEPT !.pc = "deaf", !.gen = 0, !.id = 0])
    /\ UNCHANGED <<job, held, queue, writes, sched, rec, calls, store, net,
                   faults>>

CloseAttempt(j, i, o) ==
    attempts' = [attempts EXCEPT ![j] =
                    IF i \in DOMAIN @ THEN [@ EXCEPT ![i] = o] ELSE @]

(* The worker's JobResult reaches the waiter and closes the attempt row.   *)
Answer(r) ==
    /\ r.pc = "wait" /\ <<r.node, r.gen>> \in streams
    /\ \E o \in Outcomes :
          /\ Become(r, [r EXCEPT !.pc = "answered", !.out = o, !.gen = 0])
          /\ CloseAttempt(r.job, r.id, o)
    /\ UNCHANGED <<job, held, queue, writes, sched, rec, calls,
                   db, receipts, warned, net, faults>>

(* A JobResult nobody waits for any more still closes its attempt row.     *)
LateAnswer(j) ==
    /\ streams # {}
    /\ \E i \in DOMAIN attempts[j], o \in Outcomes :
          /\ attempts[j][i] = "dispatched"
          /\ ~\E r \in runners : r.job = j /\ r.id = i
          /\ CloseAttempt(j, i, o)
    /\ UNCHANGED <<mem, db, receipts, warned, net, faults>>

(* send_job writes the worker's word as the durable status, but only for   *)
(* the latest attempt.                                                     *)
SaveAnswer(r) ==
    /\ r.pc = "answered"
    /\ Become(r, [r EXCEPT !.pc = "free", !.id = 0])
    /\ db' = IF r.id = Len(attempts[r.job]) THEN Stored(r.job, r.out) ELSE db
    /\ UNCHANGED <<job, held, queue, writes, sched, rec, calls,
                   attempts, receipts, warned, net, faults>>

(* The session closed under the waiter.                                    *)
LoseSession(r) ==
    /\ r.pc = "wait" /\ <<r.node, r.gen>> \notin streams
    /\ Become(r, [r EXCEPT !.pc = "lost", !.gen = 0, !.id = 0])
    /\ UNCHANGED <<job, held, queue, writes, sched, rec, calls, store, net,
                   faults>>

(* No answer within the job's timeout: JobDispatchTimeoutError. A waiter   *)
(* that is still reachable may have been answered just in time (a fault).  *)
DispatchTimeout(r) ==
    /\ \/ r.pc = "deaf" /\ UNCHANGED faults
       \/ r.pc = "wait" /\ Fault
    /\ Become(r, [r EXCEPT !.pc = "raised", !.gen = 0, !.id = 0])
    /\ UNCHANGED <<job, held, queue, writes, sched, rec, calls, store, net>>

(* NodeUnavailableError: a cancelled job fails, any other goes to          *)
(* recover_jobs in this thread (RecoverLost).                              *)
LostCancelled(r) ==
    /\ r.pc = "lost" /\ job[r.job].cancel
    /\ Become(r, [r EXCEPT !.pc = "raised"])
    /\ UNCHANGED <<job, held, queue, writes, sched, rec, calls, store, net,
                   faults>>

IsStale(r) == job[r.job].attempt # r.attempt

(* The exception path: discard a stale failure, else go on to record it.   *)
RaisedCheck(r) ==
    /\ LockFree /\ r.pc = "raised"
    /\ Become(r, [r EXCEPT !.pc = IF IsStale(r) THEN "idle" ELSE "failing"])
    /\ UNCHANGED <<job, held, queue, writes, sched, rec, calls, store, net,
                   faults>>

FailStatus(j) == IF job[j].cancel THEN "cancelled" ELSE "failed"

(* _advance_workflow lies between the check and this write.                *)
RecordFailure(r) ==
    /\ LockFree /\ r.pc = "failing"
    /\ job' = [job EXCEPT ![r.job].status = FailStatus(r.job)]
    /\ Become(r, [r EXCEPT !.pc = "failed"])
    /\ UNCHANGED <<held, queue, writes, sched, rec, calls, store, net,
                   faults>>

(* send_job returned, or the failure is dealt with: the node is idle. On a *)
(* removed node registry.heartbeat raises.                                 *)
FreeNode(r) ==
    /\ r.pc \in {"free", "idle"}
    /\ reg' = MarkIdle(r.node)
    /\ Become(r, [r EXCEPT !.pc = IF reg[r.node] = "absent" THEN "stranded"
                                  ELSE IF @ = "free" THEN "check" ELSE "exit"])
    /\ UNCHANGED <<job, held, queue, writes, sched, rec, calls, store,
                   live, streams, faults>>

(* _enforce_sandbox_evidence: a customer's result without the evidence of  *)
(* its sandbox becomes a failure.                                          *)
Enforced(r) == {r.out} \cup (Outcomes \cap {"failed"})

(* Mutant of CheckStale: a success is announced before its receipt.        *)
CheckStaleAnnounces(r) ==
    /\ LockFree /\ r.pc = "check"
    /\ Become(r, [r EXCEPT !.pc = IF IsStale(r) THEN "exit" ELSE "final"])
    /\ UNCHANGED <<job, held, queue, writes, sched, rec, calls, store, net,
                   faults>>

(* Is this dispatch still the job's current one? A stale failure is        *)
(* discarded, a stale success still gets its receipt.                      *)
CheckStale(r) ==
    /\ LockFree /\ r.pc = "check"
    /\ \E o \in Enforced(r) :
          Become(r, [r EXCEPT
                       !.out = o, !.stale = IsStale(r) /\ o = "success",
                       !.pc = IF o = "success" THEN "receipt"
                              ELSE IF IsStale(r) THEN "exit" ELSE "final"])
    /\ UNCHANGED <<job, held, queue, writes, sched, rec, calls, store, net,
                   faults>>

(* Create, store and upload the receipt. An exception is only logged. A    *)
(* stale success stops here.                                               *)
MakeReceipt(r) ==
    /\ r.pc = "receipt"
    /\ \/ /\ receipts' = receipts \cup {r.job}
          /\ UNCHANGED <<warned, faults>>
       \/ /\ Fault
          /\ warned' = warned \cup {r.job}
          /\ UNCHANGED receipts
    /\ Become(r, [r EXCEPT !.pc = IF r.stale THEN "exit" ELSE "final",
                           !.stale = FALSE])
    /\ UNCHANGED <<job, held, queue, writes, sched, rec, calls, db, attempts,
                   net>>

(* _finalize_job_outcome under the lock: no second look at the attempt.    *)
Finalize(r) ==
    /\ LockFree /\ r.pc = "final"
    /\ job' = [job EXCEPT ![r.job].node = r.node,
                          ![r.job].status = IF r.out = "success" THEN "completed"
                                            ELSE FailStatus(r.job)]
    /\ Become(r, [r EXCEPT !.pc = "persist", !.out = "success"])
    /\ UNCHANGED <<held, queue, writes, sched, rec, calls, store, net,
                   faults>>

(* Mutant of Persist: only a job still in self.jobs is written.            *)
PersistHeldOnly(r) ==
    /\ r.pc \in {"persist", "failed"}
    /\ db' = IF r.job \in held THEN Stored(r.job, job[r.job].status) ELSE db
    /\ Become(r, [r EXCEPT !.pc = IF @ = "failed" THEN "idle" ELSE "exit"])
    /\ UNCHANGED <<job, held, queue, writes, sched, rec, calls,
                   attempts, receipts, warned, net, faults>>

(* _persist_job_status writes whatever the dict says by now. The exception *)
(* path frees the node only after it.                                      *)
Persist(r) ==
    /\ r.pc \in {"persist", "failed"}
    /\ db' = Stored(r.job, job[r.job].status)
    /\ Become(r, [r EXCEPT !.pc = IF @ = "failed" THEN "idle" ELSE "exit"])
    /\ UNCHANGED <<job, held, queue, writes, sched, rec, calls,
                   attempts, receipts, warned, net, faults>>

(* _fail_stranded_job frees the node,                                      *)
Strand(r) ==
    /\ r.pc = "stranded"
    /\ reg' = MarkIdle(r.node)
    /\ Become(r, [r EXCEPT !.pc = "failsafe"])
    /\ UNCHANGED <<job, held, queue, writes, sched, rec, calls, store,
                   live, streams, faults>>

(* and fails the job if it is still running on this very attempt.          *)
FailStranded(r) ==
    /\ LockFree /\ r.pc = "failsafe"
    /\ IF r.job \in held /\ job[r.job].status = "running" /\ ~IsStale(r)
       THEN /\ job' = [job EXCEPT ![r.job].status = FailStatus(r.job)]
            /\ Become(r, [r EXCEPT !.pc = "persist"])
       ELSE runners' = runners \ {r} /\ UNCHANGED job
    /\ UNCHANGED <<held, queue, writes, sched, rec, calls, store, net,
                   faults>>

(* The thread ends with _evict_completed_if_over_capacity: terminal jobs   *)
(* leave self.jobs while it is over its cap.                               *)
Exit(r) ==
    /\ LockFree /\ r.pc = "exit"
    /\ runners' = runners \ {r}
    /\ LET over == Cardinality(held) - MaxHeld
           done == {j \in held : job[j].status \in Terminal}
       IN  IF over <= 0 THEN UNCHANGED held
           ELSE \E S \in SUBSET done :
                   /\ \/ Cardinality(S) = over
                      \/ S = done /\ Cardinality(S) < over
                   /\ held' = held \ S
    /\ UNCHANGED <<job, queue, writes, sched, rec, calls, store, net, faults>>

-----------------------------------------------------------------------------
(* recover_jobs(n): called by the health loop and the disconnect callback  *)
(* (calls) and by a runner whose session closed. It takes jobs_lock and    *)
(* visits the jobs one by one.                                             *)
RecoverBegin(n) ==
    /\ LockFree
    /\ rec' = [on |-> TRUE, node |-> n, todo |-> held, cur |-> NoJob]
    /\ UNCHANGED <<job, held, queue, writes, sched, store, net, faults>>

RecoverCall(n) ==
    /\ n \in calls
    /\ calls' = calls \ {n}
    /\ RecoverBegin(n)
    /\ UNCHANGED runners

(* Mutant of RecoverLost: the thread leaves recovery to the callbacks.     *)
RecoverLostNot(r) ==
    /\ r.pc = "lost" /\ ~job[r.job].cancel
    /\ LockFree
    /\ runners' = runners \ {r}
    /\ UNCHANGED <<job, held, queue, writes, sched, rec, calls, store, net,
                   faults>>

RecoverLost(r) ==
    /\ r.pc = "lost" /\ ~job[r.job].cancel
    /\ runners' = runners \ {r}
    /\ RecoverBegin(r.node)
    /\ UNCHANGED calls

RunsOn(j, n) == job[j].node = n /\ job[j].status = "running"

(* Out of attempts: failed for good. Otherwise back to pending.            *)
RecoverVisit(j) ==
    /\ rec.on /\ rec.cur = NoJob /\ j \in rec.todo
    /\ RunsOn(j, rec.node)
    /\ IF job[j].attempt >= MaxAttempts
       THEN /\ job' = [job EXCEPT ![j].status = "failed", ![j].node = NoNode]
            /\ db' = Stored(j, "failed")
            /\ rec' = [rec EXCEPT !.todo = @ \ {j}]
       ELSE /\ job' = [job EXCEPT ![j].status = "pending", ![j].node = NoNode]
            /\ rec' = [rec EXCEPT !.todo = @ \ {j}, !.cur = j]
            /\ UNCHANGED db
    /\ UNCHANGED <<held, queue, writes, runners, sched, calls,
                   attempts, receipts, warned, net, faults>>

(* Mutant of RecoverAssign: with no node free, the job is left pending.    *)
RecoverAssignDrops ==
    /\ rec.on /\ rec.cur # NoJob
    /\ rec' = [rec EXCEPT !.cur = NoJob]
    /\ LET j == rec.cur IN
       IF job[j].status = "pending" /\ Eligible(j) # {}
       THEN \E n \in Eligible(j) :
               reg' = [reg EXCEPT ![n] = "busy"] /\ Launch(j, n)
       ELSE UNCHANGED <<job, runners, reg>>
    /\ UNCHANGED <<held, queue, writes, sched, calls, store, live, streams,
                   faults>>

(* assign_job under the lock: skip, dispatch, or back on the queue.        *)
RecoverAssign ==
    /\ rec.on /\ rec.cur # NoJob
    /\ rec' = [rec EXCEPT !.cur = NoJob]
    /\ LET j == rec.cur IN
       \/ /\ job[j].status # "pending"
          /\ UNCHANGED <<job, queue, runners, reg>>
       \/ /\ job[j].status = "pending" /\ Eligible(j) = {}
          /\ queue' = Append(queue, j)
          /\ UNCHANGED <<job, runners, reg>>
       \/ /\ job[j].status = "pending"
          /\ \E n \in Eligible(j) :
                reg' = [reg EXCEPT ![n] = "busy"] /\ Launch(j, n)
          /\ UNCHANGED queue
    /\ UNCHANGED <<held, writes, sched, calls, store, live, streams,
                   faults>>

RecoverEnd ==
    /\ rec.on /\ rec.cur = NoJob
    /\ \A j \in rec.todo : ~RunsOn(j, rec.node)
    /\ rec' = NoRec
    /\ UNCHANGED <<job, held, queue, writes, runners, sched, calls,
                   store, net, faults>>

-----------------------------------------------------------------------------
(* Session tokens are unique; only those still referred to are told apart. *)
Unused(n) ==
    {g \in 1 .. MaxSessions :
        <<n, g>> \notin streams /\ ~\E r \in runners : r.node = n /\ r.gen = g}

(* Workers. Register opens a session, and its control stream follows. A    *)
(* worker only comes back on its own (a fault) while its old stream is up. *)
Register(n) ==
    /\ reg[n] \in {"absent", "offline"}
    /\ IF live[n] = 0 THEN UNCHANGED faults ELSE Fault
    /\ \E g \in Unused(n) :
          /\ \A v \in Unused(n) : g <= v
          /\ live' = [live EXCEPT ![n] = g]
          /\ streams' = streams \cup {<<n, g>>}
    /\ reg' = [reg EXCEPT ![n] = "idle"]
    /\ UNCHANGED <<mem, store>>

(* A worker that comes back before its loss is noticed: the session table  *)
(* is overwritten first, then the registry refuses the node.               *)
RegisterRefused(n) ==
    /\ Fault
    /\ reg[n] \in {"idle", "busy"} /\ live[n] # 0
    /\ live' = [live EXCEPT ![n] = 0]
    /\ UNCHANGED <<mem, store, reg, streams>>

(* A control stream ends: the session goes if it is still the current one, *)
(* its waiters are released, and the NODE is reported disconnected.        *)
StreamEnd(n, g) ==
    /\ <<n, g>> \in streams
    /\ IF live[n] = g THEN Fault ELSE UNCHANGED faults
    /\ streams' = streams \ {<<n, g>>}
    /\ live' = [live EXCEPT ![n] = IF @ = g THEN 0 ELSE @]
    /\ IF reg[n] \in {"idle", "busy"}
       THEN reg' = [reg EXCEPT ![n] = "offline"] /\ calls' = calls \cup {n}
       ELSE UNCHANGED <<reg, calls>>
    /\ UNCHANGED <<job, held, queue, writes, runners, sched, rec, store>>

(* check_node_health: no heartbeat for too long. A connected worker may be *)
(* alive and only slow (a fault); one with no session is certain to be.    *)
HealthTimeout(n) ==
    /\ reg[n] \in {"idle", "busy"}
    /\ IF live[n] = 0 THEN UNCHANGED faults ELSE Fault
    /\ reg' = [reg EXCEPT ![n] = "offline"]
    /\ calls' = calls \cup {n}
    /\ UNCHANGED <<job, held, queue, writes, runners, sched, rec, store,
                   live, streams>>

(* The worker's own heartbeat. An "idle" that contradicts a fresh claim is *)
(* ignored (CLAIM_GRACE_SECONDS).                                          *)
WorkerBusy(n) ==
    \E r \in runners : r.node = n /\ r.pc = "wait" /\ r.gen = live[n]
JustClaimed(n) ==
    \/ sched.pc = "commit" /\ sched.node = n
    \/ \E r \in runners : r.node = n /\ r.pc \in {"start", "sent"}

Heartbeat(n) ==
    /\ reg[n] # "absent" /\ live[n] # 0
    /\ reg' = [reg EXCEPT ![n] =
                  IF WorkerBusy(n) THEN "busy"
                  ELSE IF @ = "busy" /\ JustClaimed(n) THEN @ ELSE "idle"]
    /\ reg' # reg
    /\ UNCHANGED <<mem, store, live, streams, faults>>

-----------------------------------------------------------------------------
(* Operator commands. cancel_job on a queued job takes the lock for the    *)
(* dict, and writes the row after it.                                      *)
Cancel(j) ==
    /\ "cancel" \in Commands
    /\ j \in held
    /\ \/ /\ LockFree /\ job[j].status = "pending"
          /\ job' = [job EXCEPT ![j].status = "cancelled", ![j].cancel = TRUE]
          /\ writes' = writes \cup {<<"status", j>>}
       \/ /\ job[j].status = "running" /\ ~job[j].cancel
          /\ job' = [job EXCEPT ![j].cancel = TRUE]
          /\ UNCHANGED writes
    /\ UNCHANGED <<held, queue, runners, sched, rec, calls, store, net, faults>>

CancelPersist(j) ==
    /\ <<"status", j>> \in writes
    /\ writes' = writes \ {<<"status", j>>}
    /\ db' = Stored(j, job[j].status)
    /\ UNCHANGED <<job, held, queue, runners, sched, rec, calls,
                   attempts, receipts, warned, net, faults>>

(* Mutant of MayRetry: no attempt cap.                                     *)
MayRetryUncapped(j) == job[j].status \in {"failed", "pending"}

MayRetry(j) ==
    /\ job[j].status \in {"failed", "pending"}
    /\ job[j].attempt < MaxAttempts

(* retry_job; retry_failed_jobs is the same for every failed job.          *)
Retry(j) ==
    /\ "retry" \in Commands
    /\ LockFree /\ Len(queue) < MaxQueue
    /\ j \in held /\ MayRetry(j)
    /\ job' = [job EXCEPT ![j].status = "pending", ![j].node = NoNode,
                          ![j].cancel = FALSE]
    /\ queue' = Append(queue, j)
    /\ UNCHANGED <<held, writes, runners, sched, rec, calls, store, net,
                   faults>>

(* One turn of the loop of clear_queue: no lock, and nothing is written    *)
(* through.                                                                *)
ClearQueue ==
    /\ "clear_queue" \in Commands
    /\ queue # <<>>
    /\ queue' = Tail(queue)
    /\ LET j == Head(queue) IN
       job' = IF j \in held /\ job[j].status = "pending"
              THEN [job EXCEPT ![j].status = "cancelled"] ELSE job
    /\ UNCHANGED <<held, writes, runners, sched, rec, calls, store, net,
                   faults>>

(* clear_failed_jobs: from memory under the lock,                          *)
ClearFailed ==
    /\ "clear_failed" \in Commands
    /\ LockFree
    /\ <<"purge", NoJob>> \notin writes
    /\ \E j \in Jobs : db[j].status = "failed" \/ job[j].status = "failed"
    /\ held' = {j \in held : job[j].status # "failed"}
    /\ writes' = writes \cup {<<"purge", NoJob>>}
    /\ UNCHANGED <<job, queue, runners, sched, rec, calls, store, net, faults>>

(* then from the table, unless a receipt refers to the job. The attempts   *)
(* go with the row.                                                        *)
PurgeFailed ==
    /\ <<"purge", NoJob>> \in writes
    /\ writes' = writes \ {<<"purge", NoJob>>}
    /\ LET gone == {j \in Jobs : db[j].status = "failed" /\ j \notin receipts}
       IN  /\ db' = [j \in Jobs |-> IF j \in gone THEN NoRow ELSE db[j]]
           /\ attempts' = [j \in Jobs |-> IF j \in gone THEN <<>>
                                          ELSE attempts[j]]
    /\ UNCHANGED <<job, held, queue, runners, sched, rec, calls,
                   receipts, warned, net, faults>>

Clearable == {"failed", "cancelled"}

(* clear_jobs_for_org for one of the organization's own jobs.              *)
ClearJob(j) ==
    /\ "clear_job" \in Commands
    /\ LockFree
    /\ j \notin receipts
    /\ IF j \in held THEN job[j].status \in Clearable
       ELSE db[j].status # "none"              \* evicted: only the row is left
    /\ db[j].status # "none" => db[j].owned /\ db[j].status \in Clearable
    /\ held' = held \ {j}
    /\ db' = [db EXCEPT ![j] = NoRow]
    /\ attempts' = [attempts EXCEPT ![j] = <<>>]
    /\ UNCHANGED <<job, queue, writes, runners, sched, rec, calls,
                   receipts, warned, net, faults>>

(* _cancel_node_job marks the first job it finds running on the node.      *)
CancelOn(n) ==
    IF \E j \in held : RunsOn(j, n)
    THEN \E j \in held : RunsOn(j, n) /\ job' = [job EXCEPT ![j].cancel = TRUE]
    ELSE UNCHANGED job

(* deregister_agent; stop_worker cancels what the node runs first.         *)
RemoveNode(n) ==
    /\ reg[n] # "absent"
    /\ \/ "deregister" \in Commands /\ UNCHANGED job
       \/ /\ "stop_worker" \in Commands
          /\ IF reg[n] = "busy" THEN LockFree /\ CancelOn(n) ELSE UNCHANGED job
    /\ reg' = [reg EXCEPT ![n] = "absent"]
    /\ UNCHANGED <<held, queue, writes, runners, sched, rec, calls, store,
                   live, streams, faults>>

RestartWorker(n) ==
    /\ "restart_worker" \in Commands
    /\ reg[n] # "absent"
    /\ IF reg[n] = "busy" THEN LockFree /\ CancelOn(n) ELSE UNCHANGED job
    /\ reg' = [reg EXCEPT ![n] = "idle"]
    /\ UNCHANGED <<held, queue, writes, runners, sched, rec, calls, store,
                   live, streams, faults>>

-----------------------------------------------------------------------------
(* restore_from_persistence, row by row.                                   *)
OpenAttempts(j) == {i \in DOMAIN attempts[j] : attempts[j][i] = "dispatched"}
Interrupted == {j \in Jobs : db[j].status \in {"pending", "running"}}
Unresumable(j) ==
    \/ Cardinality(OpenAttempts(j)) > 1     \* taken for a replicated job
    \/ Len(attempts[j]) >= MaxAttempts
Resumed == {j \in Interrupted : ~Unresumable(j)}

RestoredStatus(j) ==
    IF j \notin Interrupted THEN db[j].status
    ELSE IF Unresumable(j) THEN "failed" ELSE "pending"

RestoredJob(j) ==
    IF db[j].status = "none" THEN NewJob
    ELSE [NewJob EXCEPT !.status = RestoredStatus(j),
                        !.attempt = IF j \in Resumed THEN Len(attempts[j])
                                    ELSE 0]

(* A worker's word in the row, which no outcome of the job has replaced:   *)
(* restore_from_persistence takes the job for finished.                    *)
Unsettled(j) ==
    db[j].status \notin Terminal \cup {"none", "pending", "running"}

(* The process dies and starts again: threads, sessions and memory go, the *)
(* interrupted jobs are queued again and the newest finished jobs reloaded.*)
Restart ==
    /\ Fault
    /\ CrashAfterAnswer \/ \A j \in Jobs : ~Unsettled(j)
    /\ job' = [j \in Jobs |-> RestoredJob(j)]
    /\ LET rows == {j \in Jobs : db[j].status # "none"}
           done == rows \ Interrupted
       IN  \E T \in SUBSET done :
              /\ T = done \/ Cardinality(T) = MaxHeld
              /\ Cardinality(T) <= MaxHeld
              /\ held' = Interrupted \cup T
    /\ queue' \in {q \in [1 .. Cardinality(Resumed) -> Resumed] :
                      \A j \in Resumed : \E i \in DOMAIN q : q[i] = j}
    /\ db' = [j \in Jobs |-> IF j \in Interrupted
                             THEN [db[j] EXCEPT !.status = RestoredStatus(j)]
                             ELSE db[j]]
    /\ writes' = {} /\ runners' = {} /\ calls' = {}
    /\ sched' = IdleSched /\ rec' = NoRec
    /\ reg' = [n \in Nodes |-> "absent"]
    /\ live' = [n \in Nodes |-> 0]
    /\ streams' = {}
    /\ UNCHANGED <<attempts, receipts, warned>>

-----------------------------------------------------------------------------
Scheduler == SchedPick \/ SchedCrash \/ SchedCommit
Recovery ==
    \/ RecoverAssign \/ RecoverEnd
    \/ \E j \in Jobs : RecoverVisit(j)
    \/ \E n \in Nodes : RecoverCall(n)
    \/ \E r \in runners : RecoverLost(r)
RunnerStep ==
    \E r \in runners :
        \/ RunSend(r) \/ RegisterWaiter(r) \/ Answer(r) \/ SaveAnswer(r)
        \/ LoseSession(r) \/ LostCancelled(r) \/ RaisedCheck(r)
        \/ RecordFailure(r) \/ FreeNode(r) \/ CheckStale(r)
        \/ MakeReceipt(r) \/ Finalize(r) \/ Persist(r) \/ Strand(r)
        \/ FailStranded(r) \/ Exit(r)
Network ==
    \/ \E n \in Nodes : \/ Register(n) \/ RegisterRefused(n)
                        \/ HealthTimeout(n) \/ Heartbeat(n)
    \/ \E s \in streams : StreamEnd(s[1], s[2])
    \/ \E r \in runners : DispatchTimeout(r)
    \/ \E j \in Jobs : LateAnswer(j)
Operator ==
    \/ \E j \in Jobs :
          Cancel(j) \/ CancelPersist(j) \/ Retry(j) \/ ClearJob(j)
    \/ ClearQueue \/ ClearFailed \/ PurgeFailed
    \/ \E n \in Nodes : RemoveNode(n) \/ RestartWorker(n)

Next ==
    \/ \E j \in Jobs : Submit(j) \/ SubmitPersist(j)
    \/ Scheduler \/ Recovery \/ RunnerStep \/ Network \/ Operator
    \/ Restart

Spec == Init /\ [][Next]_vars

(* Every thread runs; a disconnected worker registers again, and one that  *)
(* is connected sends heartbeats.                                          *)
Fairness ==
    /\ WF_vars(Scheduler) /\ WF_vars(Recovery) /\ WF_vars(RunnerStep)
    /\ WF_vars(\E r \in runners : r.pc = "deaf" /\ DispatchTimeout(r))
    /\ \A j \in Jobs : WF_vars(SubmitPersist(j)) /\ WF_vars(CancelPersist(j))
    /\ WF_vars(PurgeFailed)
    /\ \A n \in Nodes :
          /\ WF_vars(live[n] = 0 /\ Register(n))
          /\ WF_vars(live[n] = 0 /\ HealthTimeout(n))
          /\ WF_vars(Heartbeat(n))

FairSpec == Spec /\ Fairness

-----------------------------------------------------------------------------
(* A job that self.jobs shows as pending is on its way to the scheduler:   *)
(* on the queue, in its hands, or in recover_jobs' hands. Before, one left *)
(* off the queue stayed pending for ever (recover_jobs, scheduler_loop).   *)
PendingIsQueued ==
    \A j \in held :
        job[j].status = "pending" =>
            InQueue(j) \/ sched.job = j \/ rec.cur = j

(* A running job has a thread that will still decide its outcome, or a     *)
(* recovery of its node to come (_run_job_guarded: "the job stayed         *)
(* running forever").                                                      *)
RunningIsWatched ==
    \A j \in held :
        job[j].status = "running" =>
            \/ \E r \in runners : r.job = j
            \/ job[j].node \in calls
            \/ rec.on /\ rec.node = job[j].node /\ j \in rec.todo

(* GCON_MAX_JOB_ATTEMPTS bounds the dispatches of a job.                   *)
AttemptsBounded == \A j \in Jobs : job[j].attempt <= MaxAttempts

(* A job is announced as completed only after its receipt is stored, or    *)
(* the failure to store it was logged (_finalize_job_outcome); a crash     *)
(* does not change that. (A row that a crash left at the worker's          *)
(* "success" is not so announced: see CrashAfterAnswer.)                   *)
CompletedHasReceipt ==
    \A j \in Jobs :
        db[j].status = "completed" \/ job[j].status = "completed" =>
            j \in receipts \cup warned

(* A finished job dropped from self.jobs is served from the database       *)
(* (_load_job_from_control_plane): once its thread is gone, the row says   *)
(* what the dict said, even when another thread evicted it before its      *)
(* status was written.                                                     *)
EvictedIsDurable ==
    \A j \in Jobs \ held :
        (/\ job[j].status \in Terminal
         /\ ~\E r \in runners : r.job = j
         /\ <<"status", j>> \notin writes)
        => db[j].status = job[j].status

(* Every job that gets in is completed, failed or cancelled in the end,    *)
(* whatever workers do (or is gone with the process, when that died before *)
(* submit_job returned): what restore_from_persistence says of the jobs a  *)
(* crash leaves in flight. It does not hold when the process dies between  *)
(* send_job's set_status and _persist_job_status (CrashAfterAnswer).       *)
EveryJobEnds ==
    \A j \in Jobs : job[j].status = "pending"
                       ~> job[j].status \in Terminal \cup {"new"}

=============================================================================
