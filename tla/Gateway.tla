------------------------------ MODULE Gateway ------------------------------
(***************************************************************************)
(* The customer's way in (api/api_v1.py): requests of one organization are *)
(* counted against the plan's rate (management/request_limiter.py), looked *)
(* up by their Idempotency-Key (repositories/idempotency_keys.py) and      *)
(* submitted to the coordinator, which holds the organization to the       *)
(* plan's number of concurrent jobs (cluster/coordinator.py submit_job).   *)
(*                                                                         *)
(* Every request is served by a thread of its own.  A job, or workflow,    *)
(* has the identity of the request that created it, so a client's retry is *)
(* another request with the same key.  Time is counted in units.           *)
(***************************************************************************)
EXTENDS Integers, Sequences, FiniteSets

CONSTANTS
    Requests,    \* requests
    Shapes,      \* what a request may ask: [kind : Kinds, key, body]
    NoKey,       \* the key of a request without one
    NoRequest,   \* no request
    Plans,       \* limits an organization may have: [rate, cap], 0 for none
    FirstPlan,
    Window,      \* WINDOW_SECONDS
    MaxStall,    \* bound: units between a thread's look at the clock and the limiter's lock
    MaxTime,     \* bound: units
    MaxTrouble   \* bound: restarts, failing writes, changes of the plan, retried and cleared jobs

Kinds == {"job", "workflow"}
Keys == {shape.key : shape \in Shapes} \ {NoKey}
Bodies == {shape.body : shape \in Shapes}

ASSUME NumbersAreNatural == {Window, MaxStall, MaxTime, MaxTrouble} \subseteq Nat
ASSUME PlansAreLimits == Plans \subseteq [rate : Nat, cap : Nat]
ASSUME PlanIsKnown == FirstPlan \in Plans
ASSUME StallIsShort == MaxStall < Window
ASSUME RequestsAreFinite == IsFiniteSet(Requests) /\ NoRequest \notin Requests
ASSUME ShapesAreRecords == Shapes \subseteq [kind : Kinds, key : Keys \union {NoKey}, body : Bodies]

VARIABLES
    now,       \* time.monotonic
    plan,      \* get_org_limits of the organization
    window,    \* _windows[org]: when the counted requests looked at the clock
    request,   \* the state of each request's thread
    holder,    \* _IDEMPOTENCY_LOCKS: who holds the lock of a (kind, key)
    recorded,  \* tables job_ and workflow_submission_idempotency_keys
    job,       \* jobs and workflows: in memory, with or without their row
    admitted,  \* history: when each counted request was really let in
    peak,      \* history: the laxest limits there were
    cut,       \* history: requests cut short after they created and before they recorded
    retried,   \* history: jobs that were retried
    spent      \* how much of MaxTrouble is used

vars == <<now, plan, window, request, holder, recorded, job, admitted, peak, cut, retried, spent>>

Nothing == [id |-> NoRequest, body |-> "none"]
NoShape == [kind |-> "none", key |-> NoKey, body |-> "none"]
Fresh == [at |-> "new", shape |-> NoShape, stamp |-> 0, rate |-> 0, cap |-> 0, answer |-> NoRequest]
Refused == [Fresh EXCEPT !.at = "refused"]

Init ==
    /\ now = 0
    /\ plan = FirstPlan
    /\ window = <<>>
    /\ request = [r \in Requests |-> Fresh]
    /\ holder = [slot \in Kinds \X Keys |-> NoRequest]
    /\ recorded = [slot \in Kinds \X Keys |-> Nothing]
    /\ job = [r \in Requests |-> "none"]
    /\ admitted = <<>>
    /\ peak = FirstPlan
    /\ cut = {}
    /\ retried = {}
    /\ spent = 0

Trouble == spent < MaxTrouble /\ spent' = spent + 1
Become(r, state) == request' = [request EXCEPT ![r] = state]
Slot(r) == <<request[r].shape.kind, request[r].shape.key>>
HasKey(r) == request[r].shape.key # NoKey

---------------------------------------------------------------------------
(* The rate limit.                                                          *)

\* A queue of times without the entries at its head that are not after a time: everything
\* from the first later one on.
Since(times, time) ==
    LET kept == {i \in 1..Len(times) : \E k \in 1..i : times[k] > time}
    IN  SubSeq(times, Len(times) - Cardinality(kept) + 1, Len(times))

\* Of the history, what RateHeld still asks about at a time
Late(time) == Since(admitted, time - (Window - MaxStall))

\* Time passes, while a request is still to look at the clock, though never so much that
\* a thread stalls for longer than MaxStall between its look and the lock.
Tick ==
    /\ now < MaxTime
    /\ \E r \in Requests : request[r].at \in {"new", "arrived"}
    /\ \A r \in Requests : request[r].at = "arrived" => now < request[r].stamp + MaxStall
    /\ now' = now + 1
    /\ admitted' = Late(now')
    /\ UNCHANGED <<plan, window, request, holder, recorded, job, peak, cut, retried, spent>>

\* get_org_limits
Allowance == plan.rate

\* require_scope: the key is good; the allowance of the plan is looked up, and hit
\* begins with a look at the clock
Arrive(r, shape) ==
    /\ request[r].at = "new"
    /\ Become(r, [Fresh EXCEPT !.at = "arrived", !.shape = shape, !.stamp = now, !.rate = Allowance])
    /\ UNCHANGED <<now, plan, window, holder, recorded, job, admitted, peak, cut, retried, spent>>

\* What is left of the window at a stamp: the entries at its head that are too old go
Remaining(stamp) == Since(window, stamp - Window)

\* Mutant: the window is full only when it holds more than the limit
HitOneMore(r) ==
    /\ request[r].at = "arrived"
    /\ LET me == request[r]
           left == IF me.rate = 0 THEN window ELSE Remaining(me.stamp)
           allowed == me.rate = 0 \/ Len(left) <= me.rate
           counted == allowed /\ me.rate # 0
       IN  /\ window' = IF counted THEN Append(left, me.stamp) ELSE left
           /\ admitted' = IF counted THEN Append(admitted, now) ELSE admitted
           /\ Become(r, IF allowed THEN [Fresh EXCEPT !.at = "admitted", !.shape = me.shape] ELSE Refused)
    /\ UNCHANGED <<now, plan, holder, recorded, job, peak, cut, retried, spent>>

\* RequestRateLimiter.hit under its lock; a refused request is not counted, and without
\* a limit nothing is
Hit(r) ==
    /\ request[r].at = "arrived"
    /\ LET me == request[r]
           left == IF me.rate = 0 THEN window ELSE Remaining(me.stamp)
           allowed == me.rate = 0 \/ Len(left) < me.rate
           counted == allowed /\ me.rate # 0
       IN  /\ window' = IF counted THEN Append(left, me.stamp) ELSE left
           /\ admitted' = IF counted THEN Append(admitted, now) ELSE admitted
           /\ Become(r, IF allowed THEN [Fresh EXCEPT !.at = "admitted", !.shape = me.shape] ELSE Refused)
    /\ UNCHANGED <<now, plan, holder, recorded, job, peak, cut, retried, spent>>

---------------------------------------------------------------------------
(* One job, or one workflow, for a key.                                     *)

\* _replay_workflow finds a workflow only in the engine; a job is replayed in any case
Replays(r) ==
    LET known == recorded[Slot(r)] IN
    known.id # NoRequest /\ (request[r].shape.kind = "job" \/ job[known.id] # "gone")

Answer(r, id) == [request[r] EXCEPT !.at = "answered", !.answer = id]

\* Mutant: the key is looked up before its lock is taken
LookupUnlocked(r) ==
    /\ request[r].at = "admitted"
    /\ IF HasKey(r) /\ Replays(r)
         THEN Become(r, Answer(r, recorded[Slot(r)].id))
         ELSE Become(r, [request[r] EXCEPT !.at = "submit"])
    /\ UNCHANGED <<now, plan, window, holder, recorded, job, admitted, peak, cut, retried, spent>>

\* submit_job and submit_workflow up to the decision: under the key's lock, another body
\* is refused (422), the same one is answered with what it created
Lookup(r) ==
    /\ request[r].at = "admitted"
    /\ IF ~HasKey(r)
         THEN Become(r, [request[r] EXCEPT !.at = "submit"]) /\ UNCHANGED holder
         ELSE /\ holder[Slot(r)] = NoRequest
              /\ LET known == recorded[Slot(r)]
                     differs == known.id # NoRequest /\ known.body # request[r].shape.body
                 IN  IF differs \/ Replays(r)
                       THEN /\ Become(r, IF differs THEN Refused
                                         ELSE Answer(r, known.id))
                            /\ UNCHANGED holder
                       ELSE /\ Become(r, [request[r] EXCEPT !.at = "submit"])
                            /\ holder' = [holder EXCEPT ![Slot(r)] = r]
    /\ UNCHANGED <<now, plan, window, recorded, job, admitted, peak, cut, retried, spent>>

\* Leaving the block of the key's lock
Unlocked(r) == [slot \in DOMAIN holder |-> IF holder[slot] = r THEN NoRequest ELSE holder[slot]]

\* The key is recorded; whoever was first stays recorded
Record(r) ==
    /\ request[r].at = "record"
    /\ recorded' = IF ~HasKey(r) \/ recorded[Slot(r)].id # NoRequest THEN recorded
                   ELSE [recorded EXCEPT ![Slot(r)] = [id |-> r, body |-> request[r].shape.body]]
    /\ Become(r, Answer(r, r))
    /\ holder' = Unlocked(r)
    /\ UNCHANGED <<now, plan, window, job, admitted, peak, cut, retried, spent>>

---------------------------------------------------------------------------
(* The submission.                                                          *)

InFlight == {r \in Requests : request[r].shape.kind = "job" /\ job[r] \in {"memory", "live"}}
HasRoom(cap) == cap = 0 \/ Cardinality(InFlight) < cap

\* Refused before anything was created; a job and a workflow share worker_gate, which asks
\* whether the organization has the workers that could ever run it
Turned(r) ==
    /\ Become(r, Refused)
    /\ holder' = Unlocked(r)
    /\ UNCHANGED <<now, plan, window, recorded, job, admitted, peak, cut, retried, spent>>

\* The job is not valid, its program or its verification not in the plan, policy says no,
\* a dataset is unknown, no worker could ever run it, or this coordinator does not lead
RefuseJob(r) == request[r].at = "submit" /\ request[r].shape.kind = "job" /\ Turned(r)

\* The workflow is not valid or too large, there is no worker for it, or this coordinator
\* does not lead
RefuseWorkflow(r) == request[r].at = "submit" /\ request[r].shape.kind = "workflow" /\ Turned(r)

\* _concurrent_job_cap
Cap == plan.cap

\* The cap is looked up, once, and a first look taken at the jobs
Resolve(r) ==
    /\ request[r].at = "submit" /\ request[r].shape.kind = "job"
    /\ IF HasRoom(Cap)
         THEN Become(r, [request[r] EXCEPT !.at = "insert", !.cap = Cap]) /\ UNCHANGED holder
         ELSE Become(r, Refused) /\ holder' = Unlocked(r)
    /\ UNCHANGED <<now, plan, window, recorded, job, admitted, peak, cut, retried, spent>>

\* Mutant: the first look was enough
InsertUnchecked(r) ==
    /\ request[r].at = "insert"
    /\ job' = [job EXCEPT ![r] = "memory"]
    /\ Become(r, [request[r] EXCEPT !.at = "persist", !.cap = 0])
    /\ UNCHANGED <<now, plan, window, holder, recorded, admitted, peak, cut, retried, spent>>

\* The second look and the insert, under jobs_lock
Insert(r) ==
    /\ request[r].at = "insert"
    /\ IF HasRoom(request[r].cap)
         THEN /\ job' = [job EXCEPT ![r] = "memory"]
              /\ Become(r, [request[r] EXCEPT !.at = "persist", !.cap = 0])
              /\ UNCHANGED holder
         ELSE /\ Become(r, Refused)
              /\ holder' = Unlocked(r)
              /\ UNCHANGED job
    /\ UNCHANGED <<now, plan, window, recorded, admitted, peak, cut, retried, spent>>

\* ensure_exists: from here on a restart brings the job back
Persist(r) ==
    /\ request[r].at = "persist"
    /\ job' = [job EXCEPT ![r] = IF @ = "memory" THEN "live" ELSE @]
    /\ Become(r, [request[r] EXCEPT !.at = "record"])
    /\ UNCHANGED <<now, plan, window, holder, recorded, admitted, peak, cut, retried, spent>>

\* ensure_exists fails, which is only logged
PersistFails(r) ==
    /\ request[r].at = "persist"
    /\ Trouble
    /\ Become(r, [request[r] EXCEPT !.at = "record"])
    /\ UNCHANGED <<now, plan, window, holder, recorded, job, admitted, peak, cut, retried>>

\* _create_workflow: registered with the engine and stored; its jobs are submitted by
\* the engine, which waits for room under the cap (module Workflow)
CreateWorkflow(r) ==
    /\ request[r].at = "submit" /\ request[r].shape.kind = "workflow"
    /\ job' = [job EXCEPT ![r] = "live"]
    /\ Become(r, [request[r] EXCEPT !.at = "record"])
    /\ UNCHANGED <<now, plan, window, holder, recorded, admitted, peak, cut, retried, spent>>

---------------------------------------------------------------------------
(* What else happens.                                                       *)

\* A job ends, well or not, or is cancelled; a workflow that is over stays with the engine.
Ends(r) ==
    /\ job[r] \in {"memory", "live"} /\ request[r].shape.kind = "job"
    /\ \E end \in {"failed", "over"} : job' = [job EXCEPT ![r] = end]
    /\ UNCHANGED <<now, plan, window, request, holder, recorded, admitted, peak, cut, retried, spent>>

\* POST /jobs/{job_id}/retry of a failed job: the cap is not asked
Retry(r) ==
    /\ job[r] = "failed" /\ request[r].shape.kind = "job"
    /\ Trouble
    /\ job' = [job EXCEPT ![r] = IF request[r].at = "persist" THEN "memory" ELSE "live"]
    /\ retried' = retried \union {r}
    /\ UNCHANGED <<now, plan, window, request, holder, recorded, admitted, peak, cut>>

\* POST /jobs/clear of a failed job: the job and its row are deleted, the key stays
Clear(r) ==
    /\ job[r] = "failed" /\ request[r].shape.kind = "job"
    /\ Trouble
    /\ job' = [job EXCEPT ![r] = "gone"]
    /\ UNCHANGED <<now, plan, window, request, holder, recorded, admitted, peak, cut, retried>>

\* The laxer of two limits, 0 being none at all
Laxer(a, b) == IF a = 0 \/ b = 0 THEN 0 ELSE IF a > b THEN a ELSE b

\* set_plan_limits, or the organization moves to another plan: applies to the next look
ChangePlan(new) ==
    /\ new # plan
    /\ Trouble
    /\ plan' = new
    /\ peak' = [rate |-> Laxer(new.rate, peak.rate), cap |-> Laxer(new.cap, peak.cap)]
    /\ UNCHANGED <<now, window, request, holder, recorded, job, admitted, cut, retried>>

Working(r) == request[r].at \in {"arrived", "admitted", "submit", "insert", "persist", "record"}
Created(r) == job[r] # "none"

\* Writing the key fails: the request ends in an error, the job stays.
RecordFails(r) ==
    /\ request[r].at = "record" /\ HasKey(r)
    /\ Trouble
    /\ Become(r, [request[r] EXCEPT !.at = "dead"])
    /\ holder' = Unlocked(r)
    /\ cut' = cut \union {r}
    /\ UNCHANGED <<now, plan, window, recorded, job, admitted, peak, retried>>

\* The coordinator restarts: threads, locks and counts are gone, and so is a job without
\* a row.
Restart ==
    /\ Trouble
    /\ request' = [r \in Requests |-> IF Working(r) THEN [request[r] EXCEPT !.at = "dead"] ELSE request[r]]
    /\ cut' = cut \union {r \in Requests : Working(r) /\ Created(r)}
    /\ job' = [r \in Requests |-> IF job[r] = "memory" THEN "gone" ELSE job[r]]
    /\ holder' = [slot \in DOMAIN holder |-> NoRequest]
    /\ window' = <<>> /\ admitted' = <<>>
    /\ UNCHANGED <<now, plan, recorded, peak, retried>>

---------------------------------------------------------------------------

ServeStep(r) ==
    \/ Hit(r) \/ Lookup(r) \/ Resolve(r) \/ Insert(r) \/ Persist(r) \/ CreateWorkflow(r) \/ Record(r)

Next ==
    \/ Tick \/ Restart
    \/ \E r \in Requests, shape \in Shapes : Arrive(r, shape)
    \/ \E r \in Requests : ServeStep(r) \/ RefuseJob(r) \/ RefuseWorkflow(r) \/ PersistFails(r) \/
           Ends(r) \/ Retry(r) \/ Clear(r) \/ RecordFails(r)
    \/ \E new \in Plans : ChangePlan(new)

Spec == Init /\ [][Next]_vars
---------------------------------------------------------------------------

SameKey(r, s) == r # s /\ HasKey(r) /\ Slot(r) = Slot(s)

\* An Idempotency-Key means one thing: all successful answers to it name the same job,
\* or workflow, for the same body, whatever requests raced, failed or were cut short; and
\* a second one was created only where a request was cut short between creating and
\* recording it (_idempotency_lock, "look up key -> submit -> record key").
OneMeaning ==
    \A r, s \in Requests : SameKey(r, s) =>
        /\ request[r].at = "answered" /\ request[s].at = "answered" =>
               request[r].answer = request[s].answer /\ request[r].shape.body = request[s].shape.body
        /\ Created(r) /\ Created(s) => r \in cut \/ s \in cut

\* An organization whose plans all have a limit never has more jobs in flight than the
\* laxest of them allowed, however many submissions raced for the last place; jobs it
\* retried itself are not counted (submit_job, "otherwise simultaneous submissions all see
\* room and all get in").
CapHeld == peak.cap # 0 => Cardinality(InFlight \ retried) <= peak.cap

\* In any stretch of time as long as the window, less the longest stall of a thread, no
\* more requests are let in than the laxest of the plans allowed, where all have a limit
\* ("at most N requests in any rolling 60 seconds", request_limiter.py).
RateHeld ==
    peak.rate # 0 => \A i \in DOMAIN admitted :
        Cardinality({k \in DOMAIN admitted : admitted[k] > admitted[i] - (Window - MaxStall) /\ admitted[k] <= admitted[i]})
            <= peak.rate
=============================================================================
