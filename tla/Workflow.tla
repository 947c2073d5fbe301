------------------------------ MODULE Workflow ------------------------------
(* Workflows: a DAG of jobs, advanced by the threads that finish them.     *)
(*   src/src/gcon/workflow/workflow_engine.py         WorkflowEngine       *)
(*   src/src/gcon/workflow/workflow_state.py, dag.py, workflow.py          *)
(*   src/src/gcon/cluster/coordinator.py              _advance_workflow    *)
(* One workflow of one organization. The thread that finishes a job marks  *)
(* it, makes its children ready and submits them; only the submissions are *)
(* under _schedule_lock, the rest of the shared WorkflowState is not.      *)
EXTENDS Integers, Sequences, FiniteSets, Graphs

CONSTANTS
    Order,          \* the workflow's jobs, in the order of its definition
    Deps,           \* its dependencies: pairs of parent and child
    Main,           \* the thread of submit_workflow, retry_job and restore
    Caps,           \* concurrent-job caps the organization's plan may have
    Refusable,      \* jobs that the plan or the policy may come to refuse
    Raisable,       \* jobs whose dispatch may raise in the coordinator
    Unheard,        \* ends of a job that nobody tells the workflow of
    MaxRetries,     \* bound: operator retries
    MaxRestarts,    \* bound: restarts while no call is half done
    MaxRaces,       \* bound: jobs that end before the engine knows they run
    MaxCrashes      \* bound: restarts in the middle of a call

Jobs == Range(Order)
Dag == [node |-> Jobs, edge |-> Deps]
Threads == Jobs \cup {Main}

ASSUME WorkflowAssumption ==
    /\ Order \in Seq(Jobs) /\ Order # <<>>
    /\ Deps \subseteq Jobs \X Jobs
    /\ Main \notin Jobs
    /\ Caps \subseteq Nat \ {0} /\ Caps # {}
    /\ Refusable \subseteq Jobs /\ Raisable \subseteq Jobs
    /\ Unheard \subseteq {"exhausted", "answered"}
    /\ {MaxRetries, MaxRestarts, MaxRaces, MaxCrashes} \subseteq Nat

Parents == [j \in Jobs |-> Predecessors(Dag, j)]
(* descendants: all that a walk from the children of j to their children   *)
(* comes by, which is the least set closed under that walk.                *)
Below == [j \in Jobs |-> {d \in Jobs : \A S \in SUBSET Jobs :
             Successors(Dag, j) \subseteq S /\ AllSuccessors(Dag, S) \subseteq S => d \in S}]
Above == [j \in Jobs |-> {p \in Jobs : j \in Below[p]}]

(* The jobs of a workflow are the keys of a dictionary.                    *)
ASSUME NamesAssumption ==
    /\ \A i, k \in 1 .. Len(Order) : Order[i] = Order[k] => i = k
    /\ "free" \notin Threads

(* submit_workflow refuses a workflow with a cycle.                        *)
ASSUME AcyclicAssumption == \A j \in Jobs : j \notin Below[j]

VARIABLES
    state,      \* WorkflowState.job_states
    status,     \* WorkflowState.status
    over,       \* is WorkflowState.completed_at set
    saved,      \* the persisted workflow: these three
    deferred,   \* is the workflow in _deferred
    lock,       \* holder of _schedule_lock
    job,        \* the coordinator's status of each job
    refused,    \* jobs in WorkflowState.errors
    retried,    \* jobs whose retry no dispatch has made durable yet
    thread,     \* what each thread is doing
    cap,        \* the organization's concurrent-job cap
    untold,     \* history: jobs with an end that nobody told the workflow of
    retries, restarts, races, crashes

wf == <<state, status, over>>
engine == <<saved, deferred, lock>>
jobs == <<job, refused, retried>>
bounds == <<cap, untold, retries, restarts, races, crashes>>
vars == <<wf, engine, jobs, thread, bounds>>

JobStates == {"none", "PENDING", "READY", "RUNNING", "COMPLETED", "FAILED",
              "CANCELLED", "BLOCKED"}
WorkflowStatus == {"none", "RUNNING", "COMPLETED", "FAILED", "CANCELLED"}
Nothing == [state |-> [j \in Jobs |-> "none"], status |-> "none", over |-> FALSE]
Saved == [state : [Jobs -> JobStates], status : WorkflowStatus, over : BOOLEAN]
Idle == [pc |-> "idle", job |-> Main, how |-> "none", raised |-> FALSE,
         todo |-> <<>>, boot |-> {}]
PCs == {"idle", "mark", "ready", "block", "lock", "submit", "running",
        "settle", "retry", "record", "reopen", "boot"}
Hows == {"none", "submit", "completed", "failed", "cancelled", "retry",
         "schedule"}
ThreadRecs == [pc : PCs, job : Threads, how : Hows, raised : BOOLEAN,
               todo : Seq(Jobs), boot : SUBSET Jobs]

TypeOK ==
    /\ state \in [Jobs -> JobStates]
    /\ status \in WorkflowStatus
    /\ over \in BOOLEAN /\ deferred \in BOOLEAN
    /\ saved \in Saved
    /\ lock \in Threads \cup {"free"}
    /\ job \in [Jobs -> {"absent", "live", "completed", "failed", "cancelled",
                         "success"}]
    /\ refused \subseteq Jobs /\ retried \subseteq Jobs
    /\ thread \in [Threads -> ThreadRecs]
    /\ untold \subseteq Jobs
    /\ {cap, retries, restarts, races, crashes} \subseteq Nat

Init ==
    /\ state = Nothing.state /\ status = "none" /\ over = FALSE
    /\ saved = Nothing /\ deferred = FALSE /\ lock = "free"
    /\ job = [j \in Jobs |-> "absent"] /\ refused = {} /\ retried = {}
    /\ thread = [t \in Threads |-> Idle]
    /\ cap \in Caps
    /\ untold = {} /\ retries = 0 /\ restarts = 0 /\ races = 0 /\ crashes = 0

-----------------------------------------------------------------------------
In(s, S) == {j \in Jobs : s[j] \in S}
Live == In(job, {"live"})
Race == races < MaxRaces /\ races' = races + 1
Booting == thread[Main].pc = "boot" \/ thread[Main].how \notin {"none", "submit"}
(* _persist. The snapshot (state.to_dict) and its save are one step here:  *)
(* two threads that save at once do it in the order of their snapshots.    *)
Persist == saved' = [state |-> state', status |-> status', over |-> over']
Goto(t, pc) == thread' = [thread EXCEPT ![t].pc = pc]

(* Mutant of Blocked: only the children are blocked, not all descendants.  *)
BlockedChildren(s) ==
    LET should == {j \in Jobs : \E p \in Parents[j] : s[p] \in {"FAILED", "CANCELLED"}} IN
    [j \in Jobs |->
        IF j \in should /\ s[j] \in {"PENDING", "READY"} THEN "BLOCKED"
        ELSE IF s[j] = "BLOCKED" /\ j \notin should THEN "PENDING"
        ELSE s[j]]

(* _recompute_blocked on the job states s.                                 *)
Blocked(s) ==
    LET should == UNION {Below[b] : b \in In(s, {"FAILED", "CANCELLED"})} IN
    [j \in Jobs |->
        IF j \in should /\ s[j] \in {"PENDING", "READY"} THEN "BLOCKED"
        ELSE IF s[j] = "BLOCKED" /\ j \notin should THEN "PENDING"
        ELSE s[j]]

(* Mutant of Settled: a cancelled workflow is not seen to stop.            *)
SettledFailedOnly(s, stat) ==
    over \/ (stat = "FAILED" /\ In(s, {"RUNNING", "READY"}) = {})

(* _settle, once the status is stat and the job states are s.              *)
Settled(s, stat) ==
    over \/ (stat \in {"FAILED", "CANCELLED"} /\ In(s, {"RUNNING", "READY"}) = {})

(* process_failed_job or process_cancelled_job after the mark.             *)
Broken(s, how) ==
    LET stat == IF how = "failed" \/ status = "FAILED" THEN "FAILED"
                ELSE "CANCELLED" IN
    /\ state' = Blocked(s)
    /\ status' = stat
    /\ over' = Settled(Blocked(s), stat)
    /\ Persist

(* The end of _advance_workflow_dag: retry_deferred follows. _reconcile    *)
(* goes on with the next job instead.                                      *)
AfterDag(t) == IF t = Main THEN "boot" ELSE "retry"

-----------------------------------------------------------------------------
(* submit_workflow and initialize_workflow, to the first submission.       *)
(* _check_no_collisions: none of the job ids may be in use.                *)
Submit ==
    /\ status = "none" /\ thread[Main].pc = "idle"
    /\ \A j \in Jobs : job[j] = "absent"
    /\ state' = [j \in Jobs |-> IF Parents[j] = {} THEN "READY" ELSE "PENDING"]
    /\ status' = "RUNNING"
    /\ thread' = [thread EXCEPT ![Main].pc = "lock", ![Main].how = "submit"]
    /\ UNCHANGED <<over, engine, jobs, bounds>>

(* A job ends: with a result, by cancel_job, or by an exception in the     *)
(* coordinator's dispatch. In the last case the workflow is advanced       *)
(* before the job is given its status.                                     *)
Finish(j, how, raised) ==
    /\ job[j] = "live" /\ thread[j].pc = "idle" /\ ~Booting
    /\ IF state[j] = "RUNNING" THEN UNCHANGED races ELSE Race
    /\ raised => how = "failed" /\ j \in Raisable
    /\ job' = IF raised THEN job ELSE [job EXCEPT ![j] = how]
    /\ retried' = retried \ {j}
    /\ thread' = [thread EXCEPT ![j] =
                     [Idle EXCEPT !.pc = "mark", !.job = j, !.how = how,
                                  !.raised = raised]]
    /\ UNCHANGED <<wf, engine, cap, untold, refused, retries, restarts, crashes>>

(* recover_jobs fails a job whose worker is lost and whose attempts are    *)
(* used up. It does not call _advance_workflow.                            *)
Exhaust(j) ==
    /\ "exhausted" \in Unheard
    /\ job[j] = "live" /\ thread[j] = Idle /\ ~Booting
    /\ job' = [job EXCEPT ![j] = "failed"]
    /\ retried' = retried \ {j}
    /\ untold' = untold \cup {j}
    /\ UNCHANGED <<wf, engine, refused, thread, cap, retries, restarts, races, crashes>>

MarkOf(how) == CASE how = "completed" -> "COMPLETED" [] how = "failed" -> "FAILED"
                 [] how = "cancelled" -> "CANCELLED"

(* mark_completed, mark_failed or mark_cancelled. A workflow that a crash  *)
(* took before it was ever saved is unknown, and its jobs advance nothing. *)
Mark(t) ==
    /\ thread[t].pc = "mark"
    /\ LET th == thread[t] IN
       IF status = "none" THEN Goto(t, "retry") /\ UNCHANGED state
       ELSE /\ state' = [state EXCEPT ![th.job] = MarkOf(th.how)]
            /\ Goto(t, IF th.how = "completed" THEN "ready" ELSE "block")
    /\ UNCHANGED <<status, over, engine, jobs, bounds>>

(* Mutant of NewlyReady: any parent will do.                               *)
NewlyReadyAny ==
    {j \in Jobs : /\ state[j] = "PENDING"
                  /\ \E p \in Parents[j] : state[p] = "COMPLETED"}

(* The jobs update_ready_jobs moves: those of dag.ready_jobs that are      *)
(* still pending.                                                          *)
NewlyReady ==
    {j \in Jobs : /\ state[j] = "PENDING"
                  /\ \A p \in Parents[j] : state[p] = "COMPLETED"}

UpdateReady(t) ==
    /\ thread[t].pc = "ready"
    /\ state' = [j \in Jobs |-> IF j \in NewlyReady THEN "READY" ELSE state[j]]
    /\ Goto(t, "lock")
    /\ UNCHANGED <<status, over, engine, jobs, bounds>>

Block(t) ==
    /\ thread[t].pc = "block"
    /\ Broken(state, thread[t].how)
    /\ Goto(t, AfterDag(t))
    /\ UNCHANGED <<deferred, lock, jobs, bounds>>

-----------------------------------------------------------------------------
(* The ready ones of the first k jobs, in the order of the definition.     *)
ReadyOfFirst[k \in 0 .. Len(Order)] ==
    IF k = 0 THEN <<>>
    ELSE IF state[Order[k]] = "READY" THEN Append(ReadyOfFirst[k - 1], Order[k])
    ELSE ReadyOfFirst[k - 1]
ReadyList == ReadyOfFirst[Len(Order)]

(* schedule_ready_jobs takes the lock and looks who is ready.              *)
Schedule(t) ==
    /\ thread[t].pc = "lock"
    /\ lock = "free"
    /\ lock' = t
    /\ thread' = [thread EXCEPT ![t].pc = "submit", ![t].todo = ReadyList]
    /\ UNCHANGED <<wf, saved, deferred, jobs, bounds>>

(* retry_deferred, which schedules in the same lock hold.                  *)
RetryDeferred(t) ==
    /\ thread[t].pc = "retry"
    /\ lock = "free"
    /\ IF deferred /\ ReadyList # <<>>
       THEN /\ lock' = t
            /\ thread' = [thread EXCEPT ![t].pc = "submit", ![t].how = "retry",
                                        ![t].todo = ReadyList]
            /\ UNCHANGED deferred
       ELSE /\ deferred' = FALSE
            /\ thread' = [thread EXCEPT ![t] =
                             IF @.raised THEN [@ EXCEPT !.pc = "record"] ELSE Idle]
            /\ UNCHANGED lock
    /\ UNCHANGED <<wf, saved, jobs, bounds>>

(* One submit_job of the loop: taken, held back by the cap, or refused,    *)
(* and a refused one is failed on the spot.                                *)
Accept(t) ==
    /\ thread[t].pc = "submit" /\ thread[t].todo # <<>>
    /\ LET x == Head(thread[t].todo) IN
       /\ Cardinality(Live) < cap /\ job[x] = "absent"
       /\ job' = [job EXCEPT ![x] = "live"]
    /\ Goto(t, "running")
    /\ UNCHANGED <<wf, engine, refused, retried, bounds>>

HoldBack(t) ==
    /\ thread[t].pc = "submit" /\ thread[t].todo # <<>>
    /\ Cardinality(Live) >= cap
    /\ thread' = [thread EXCEPT ![t].todo = Tail(@)]
    /\ UNCHANGED <<wf, engine, jobs, bounds>>

Refuse(t) ==
    /\ thread[t].pc = "submit" /\ thread[t].todo # <<>>
    /\ LET x == Head(thread[t].todo) IN
       /\ Cardinality(Live) < cap
       /\ job[x] # "absent" \/ x \in Refusable
       /\ refused' = refused \cup {x}
       /\ Broken([state EXCEPT ![x] = "FAILED"], "failed")
    /\ thread' = [thread EXCEPT ![t].todo = Tail(@)]
    /\ UNCHANGED <<deferred, lock, job, retried, bounds>>

MarkRunning(t) ==
    /\ thread[t].pc = "running"
    /\ state' = [state EXCEPT ![Head(thread[t].todo)] = "RUNNING"]
    /\ thread' = [thread EXCEPT ![t].pc = "submit", ![t].todo = Tail(@)]
    /\ UNCHANGED <<status, over, engine, jobs, bounds>>

(* Mutant of StaysDeferred: the workflow is not noted.                     *)
StaysDeferredNot == FALSE

StaysDeferred == In(state, {"READY"}) # {}

(* The end of the loop, and of the call that made it.                      *)
EndSchedule(t) ==
    /\ thread[t].pc = "submit" /\ thread[t].todo = <<>>
    /\ deferred' = StaysDeferred
    /\ lock' = "free"
    /\ LET th == thread[t] IN
       \/ /\ th.how = "completed"
          /\ Goto(t, "settle")
          /\ UNCHANGED <<wf, saved>>
       \/ /\ th.how = "schedule"
          /\ Goto(t, "boot")
          /\ UNCHANGED <<wf, saved>>
       \/ /\ th.how \in {"submit", "retry"}
          /\ thread' = [thread EXCEPT ![t] =
                           IF @.raised THEN [@ EXCEPT !.pc = "record"] ELSE Idle]
          /\ UNCHANGED wf /\ Persist
    /\ UNCHANGED <<jobs, bounds>>

(* The end of process_completed_job.                                       *)
Settle(t) ==
    /\ thread[t].pc = "settle"
    /\ LET all == \A j \in Jobs : state[j] = "COMPLETED" IN
       /\ status' = IF all THEN "COMPLETED" ELSE status
       /\ over' = IF all THEN TRUE ELSE Settled(state, status)
    /\ UNCHANGED state
    /\ Persist
    /\ Goto(t, AfterDag(t))
    /\ UNCHANGED <<deferred, lock, jobs, bounds>>

(* _run_job's exception path gives the job its status at last.             *)
Record(t) ==
    /\ thread[t].pc = "record"
    /\ job' = [job EXCEPT ![t] = "failed"]
    /\ thread' = [thread EXCEPT ![t] = Idle]
    /\ UNCHANGED <<wf, engine, refused, retried, bounds>>

-----------------------------------------------------------------------------
(* retry_job of a failed job: it is queued again, then reopened.           *)
Retry(j) ==
    /\ retries < MaxRetries
    /\ thread[Main].pc = "idle"
    /\ job[j] = "failed"
    /\ IF thread[j].pc = "idle" THEN UNCHANGED races ELSE Race
    /\ retries' = retries + 1
    /\ job' = [job EXCEPT ![j] = "live"]
    /\ retried' = retried \cup {j}
    /\ thread' = [thread EXCEPT ![Main] =
                     IF status = "none" THEN Idle
                     ELSE [Idle EXCEPT !.pc = "reopen", !.job = j]]
    /\ UNCHANGED <<wf, engine, cap, untold, refused, restarts, crashes>>

Reopen ==
    /\ thread[Main].pc = "reopen"
    /\ LET s == Blocked([state EXCEPT ![thread[Main].job] = "RUNNING"])
           clean == In(s, {"FAILED", "CANCELLED"}) = {}
       IN  /\ state' = s
           /\ status' = IF In(s, {"FAILED"}) # {} THEN "FAILED"
                        ELSE IF clean THEN "RUNNING" ELSE "CANCELLED"
           /\ over' = (over /\ ~clean)
           /\ refused' = refused \ {thread[Main].job}
    /\ Persist
    /\ thread' = [thread EXCEPT ![Main] = Idle]
    /\ UNCHANGED <<deferred, lock, job, retried, bounds>>

-----------------------------------------------------------------------------
(* No call is half done: nothing but callbacks that have not begun.        *)
BetweenCalls == \A t \in Threads : thread[t].pc = "idle"
                 \/ (thread[t].pc = "mark" /\ t # Main /\ ~thread[t].raised)

(* The jobs that a crash may leave in the table with the worker's word     *)
(* (send_job) and not yet as completed or failed: restore_from_persistence *)
(* takes them for finished, _reconcile does not.                           *)
Answered == IF "answered" \in Unheard
            THEN {j \in Live : thread[j].pc = "idle"} ELSE {}

(* The coordinator restarts: the jobs and the workflow come back as they   *)
(* were saved. A retry that was not dispatched again is forgotten.         *)
Restart ==
    /\ IF BetweenCalls THEN restarts < MaxRestarts /\ restarts' = restarts + 1
                            /\ UNCHANGED crashes
       ELSE crashes < MaxCrashes /\ crashes' = crashes + 1 /\ UNCHANGED restarts
    /\ \E lost \in SUBSET (retried \cap Live), stuck \in SUBSET Answered :
          /\ job' = [j \in Jobs |-> IF j \in stuck THEN "success"
                                    ELSE IF j \in lost THEN "failed" ELSE job[j]]
          /\ untold' = untold \cup stuck
    /\ state' = saved.state /\ status' = saved.status /\ over' = saved.over
    /\ deferred' = FALSE /\ lock' = "free" /\ retried' = {}
    /\ thread' = [[t \in Threads |-> Idle] EXCEPT ![Main] =
                     IF saved.status \in {"none", "COMPLETED"} THEN Idle
                     ELSE [Idle EXCEPT !.pc = "boot",
                             !.boot = In(saved.state, {"RUNNING", "READY"})]]
    /\ UNCHANGED <<saved, cap, refused, retries, races>>

(* _reconcile: each job the saved workflow had in flight, against its      *)
(* status in the jobs table.                                               *)
Reconcile ==
    /\ thread[Main].pc = "boot"
    /\ LET th == thread[Main] IN
       \/ th.boot = {} /\ thread' = [thread EXCEPT ![Main] = Idle]
       \/ \E j \in th.boot :
             LET rest == [th EXCEPT !.boot = @ \ {j}, !.job = j] IN
             thread' = [thread EXCEPT ![Main] =
                CASE job[j] \in {"completed", "failed", "cancelled"} ->
                        [rest EXCEPT !.pc = "mark", !.how = job[j]]
                  [] job[j] = "absent" /\ state[j] = "READY" ->
                        [rest EXCEPT !.pc = "lock", !.how = "schedule"]
                  [] OTHER -> rest]
    /\ UNCHANGED <<wf, engine, jobs, bounds>>

-----------------------------------------------------------------------------
Step(t) ==
    \/ Mark(t) \/ UpdateReady(t) \/ Block(t) \/ Settle(t) \/ Record(t)
    \/ Schedule(t) \/ RetryDeferred(t)
    \/ Accept(t) \/ HoldBack(t) \/ Refuse(t) \/ MarkRunning(t) \/ EndSchedule(t)
End(j) == \E how \in {"completed", "failed", "cancelled"}, raised \in BOOLEAN :
              Finish(j, how, raised)
Command == Submit \/ (\E j \in Jobs : Retry(j)) \/ Reopen

Next ==
    \/ Command \/ Restart \/ Reconcile
    \/ \E t \in Threads : Step(t)
    \/ \E j \in Jobs : End(j) \/ Exhaust(j)

Spec == Init /\ [][Next]_vars

(* Threads run on, and every job that can still end does (JobLifecycle).   *)
Fairness ==
    /\ WF_vars(Reconcile) /\ WF_vars(Reopen)
    /\ \A t \in Threads : WF_vars(Step(t))
    /\ \A j \in Jobs : WF_vars(End(j))

FairSpec == Spec /\ Fairness

-----------------------------------------------------------------------------
AtRest == \A t \in Threads : thread[t].pc = "idle"

(* "parent_job must complete before child_job can execute": no step of any *)
(* thread submits a job with a parent that has not completed.              *)
ParentsFirst ==
    [][\A j \in Jobs : job[j] = "absent" /\ job'[j] # "absent" =>
          \A p \in Parents[j] : job[p] = "completed"]_vars

(* When no callback is under way the workflow and the coordinator agree on *)
(* every job, and a job that was not submitted is blocked exactly when     *)
(* something above it broke, ready exactly when all its parents completed: *)
(* as long as the workflow was told of every end of a job. It is not by    *)
(* recover_jobs at the cap of attempts, nor of a row left at 'success'.    *)
Agreement ==
    status # "none" /\ AtRest /\ untold = {} => \A j \in Jobs :
        /\ state[j] = "RUNNING" <=> job[j] = "live"
        /\ state[j] = "COMPLETED" <=> job[j] = "completed"
        /\ state[j] = "CANCELLED" <=> job[j] = "cancelled"
        /\ state[j] = "FAILED" <=> job[j] = "failed" \/ j \in refused
        /\ job[j] = "absent" /\ j \notin refused =>
              state[j] = IF \E a \in Above[j] : state[a] \in {"FAILED", "CANCELLED"}
                         THEN "BLOCKED"
                         ELSE IF \A p \in Parents[j] : state[p] = "COMPLETED"
                         THEN "READY" ELSE "PENDING"

(* A job that the cap held back is tried again whenever one of the         *)
(* organization's jobs ends, "since that is when room appears": at rest,   *)
(* a job waits only because the cap is really full, or because a job ended *)
(* and the workflow was not told.                                          *)
RoomIsUsed ==
    status # "none" /\ AtRest /\ untold = {} =>
        In(state, {"READY"}) = {} \/ Cardinality(Live) >= cap

(* Every workflow comes to its end: "completed_at is when the workflow     *)
(* stopped doing anything", and it is set in the end, if the workflow is   *)
(* told of every end of a job.                                             *)
WorkflowEnds == status # "none" ~> over \/ untold # {}

(* The same without the condition: a callback that "was lost in a crash    *)
(* advances the DAG now instead of stalling it forever" (restore). It does *)
(* not hold: recover_jobs tells nobody of a job it fails at the cap, and   *)
(* _reconcile does not know a row that a crash left at 'success'.          *)
WorkflowAlwaysEnds == status # "none" ~> over
=============================================================================
