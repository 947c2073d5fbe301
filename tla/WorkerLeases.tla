--------------------------- MODULE WorkerLeases ---------------------------
(* Hosted workers leased to customers, cleaned between them.               *)
(*   src/src/gcon/cluster/worker_leases.py            WorkerLeaseManager   *)
(*   src/src/gcon/persistence/repositories/worker_leases.py, fleet_nodes.py*)
(*   src/src/gcon/cluster/registry.py                 set_lease, register  *)
(*   src/src/gcon/execution/sanitize.py               the worker's part    *)
(* A manager call holds _lock and makes several durable writes in a row.   *)
(* Each is a step of its own here, for the process may die between two of  *)
(* them and the scheduler and the workers do not take that lock.           *)
EXTENDS Integers, Sequences, FiniteSets

CONSTANTS
    Workers, Orgs,
    NoOrg,
    Cap,            \* cap_resolver: hosted workers an organization's plan has
    MaxRefs,        \* bound: lease ids and clean-up refs issued
    MaxFaults,      \* bound: losses, refusals and restarts between calls
    MaxLate,        \* bound: jobs sent long after their worker was claimed
    MaxCrashes      \* bound: deaths of the process in the middle of a call

ASSUME LeaseAssumption ==
    /\ IsFiniteSet(Workers)
    /\ NoOrg \notin Orgs
    /\ Cap \in [Orgs -> Nat]
    /\ {MaxRefs, MaxFaults, MaxLate, MaxCrashes} \subseteq Nat

VARIABLES
    lease,      \* the open worker_leases row of each worker
    fleet,      \* its fleet_nodes row: held_reason, and sanitize_ref
    reg,        \* its registry entry
    up,         \* is its control stream up
    call,       \* what the manager call in progress has still to do
    claims,     \* jobs whose worker is claimed and that are not sent yet
    inbox,      \* clean-up requests on their way to the worker
    answers,    \* SanitizeResults on their way back
    running,    \* organizations whose jobs run on the machine
    residue,    \* organizations whose containers or files are on it
    refs,       \* lease ids and clean-up refs issued so far
    faults, late, crashes

durable == <<lease, fleet>>
host == <<running, residue>>
wire == <<up, inbox, answers>>
bounds == <<faults, late, crashes>>
vars == <<durable, reg, call, claims, wire, host, refs, bounds>>

NoLease == [state |-> "none", org |-> NoOrg, id |-> 0]
FreeRow == [held |-> FALSE, ref |-> 0]
Absent == [status |-> "absent", jobs |-> FALSE, state |-> "none", org |-> NoOrg]

LeaseStates == {"none", "active", "ending", "sanitizing"}
Leases == [state : LeaseStates, org : Orgs \cup {NoOrg}, id : Nat]
FleetRows == [held : BOOLEAN, ref : Nat]
Entries == [status : {"absent", "offline", "idle", "busy"}, jobs : BOOLEAN,
            state : LeaseStates, org : Orgs \cup {NoOrg}]
Ops == {"ending", "advance", "sanitizing", "begin", "send", "staff_send",
        "ended", "hold", "clear", "unhold", "show"}
Answers == [worker : Workers, ref : Nat, ok : BOOLEAN]

TypeOK ==
    /\ lease \in [Workers -> Leases]
    /\ fleet \in [Workers -> FleetRows]
    /\ reg \in [Workers -> Entries]
    /\ up \in [Workers -> BOOLEAN]
    /\ call \in Seq(Ops \X Workers)
    /\ claims \subseteq Workers \X Orgs
    /\ inbox \subseteq Workers \X Nat
    /\ answers \subseteq Answers
    /\ running \in [Workers -> SUBSET Orgs]
    /\ residue \in [Workers -> SUBSET Orgs]
    /\ {refs, faults, late, crashes} \subseteq Nat

Init ==
    /\ lease = [w \in Workers |-> NoLease]
    /\ fleet = [w \in Workers |-> FreeRow]
    /\ reg = [w \in Workers |-> Absent]
    /\ up = [w \in Workers |-> FALSE]
    /\ call = <<>> /\ claims = {} /\ inbox = {} /\ answers = {}
    /\ running = [w \in Workers |-> {}]
    /\ residue = [w \in Workers |-> {}]
    /\ refs = 0 /\ faults = 0 /\ late = 0 /\ crashes = 0

-----------------------------------------------------------------------------
LockFree == call = <<>>
Fault == faults < MaxFaults /\ faults' = faults + 1
Open(w) == lease[w].state # "none"
Claimed(w) == \E o \in Orgs : <<w, o>> \in claims
HeldBy(o) == {w \in Workers : lease[w].org = o /\ Open(w)}

(* available_nodes: in the live registry, idle, not leased there or in the *)
(* database, not held and not being cleaned.                               *)
Available ==
    {w \in Workers :
        /\ reg[w].status = "idle" /\ reg[w].state = "none" /\ up[w]
        /\ ~fleet[w].held /\ fleet[w].ref = 0
        /\ ~Open(w)}

(* registry.set_lease: a no-op on a worker that is not registered.         *)
Shown(w, row) ==
    [reg EXCEPT ![w] = IF @.status = "absent" THEN @
                       ELSE [@ EXCEPT !.state = row.state, !.org = row.org]]

Todo(w, ops) == [i \in DOMAIN ops |-> <<ops[i], w>>]

-----------------------------------------------------------------------------
(* Manager calls. Each decides under the lock and leaves its writes in     *)
(* `call`, for Do to make one by one.                                      *)

(* request: the workers asked for, all or none. The plan's cap and the     *)
(* candidates are looked up, then create_many inserts the leases in one    *)
(* transaction. A lease id only counts together with its worker, so one    *)
(* number serves the whole batch.                                          *)
Request(o, S) ==
    /\ LockFree
    /\ refs < MaxRefs
    /\ S # {} /\ S \subseteq Available
    /\ Cardinality(HeldBy(o)) + Cardinality(S) <= Cap[o]
    /\ lease' = [w \in Workers |->
                    IF w \in S THEN [state |-> "active", org |-> o, id |-> refs + 1]
                    ELSE lease[w]]
    /\ refs' = refs + 1
    /\ call' \in {q \in [1 .. Cardinality(S) -> {"show"} \X S] :
                     \A w \in S : \E i \in DOMAIN q : q[i] = <<"show", w>>}
    /\ UNCHANGED <<fleet, reg, claims, wire, host, bounds>>

(* release, by the customer, by staff or by the tick of an idle lease.     *)
Release(w) ==
    /\ LockFree
    /\ lease[w].state = "active"
    /\ call' = Todo(w, <<"ending", "show", "advance">>)
    /\ UNCHANGED <<durable, reg, claims, wire, host, refs, bounds>>

(* Mutant of TickLost: only an active lease is given up.                   *)
TickLostActiveOnly(w) ==
    /\ LockFree
    /\ lease[w].state = "active" /\ reg[w].status \in {"absent", "offline"}
    /\ call' = Todo(w, <<"ended", "hold", "show">>)
    /\ UNCHANGED <<durable, reg, claims, wire, host, refs, bounds>>

(* _tick_one: the worker has been unreachable for too long; an ending      *)
(* lease is tried again; a clean-up with a start time timed out.           *)
TickLost(w) ==
    /\ LockFree
    /\ Open(w) /\ reg[w].status \in {"absent", "offline"}
    /\ call' = Todo(w, <<"ended", "hold", "show">>)
    /\ UNCHANGED <<durable, reg, claims, wire, host, refs, bounds>>

MayAdvance(w) == reg[w].status = "idle" /\ ~reg[w].jobs /\ up[w]

TickEnding(w) ==
    /\ LockFree
    /\ lease[w].state = "ending" /\ MayAdvance(w)
    /\ call' = Todo(w, <<"advance">>)
    /\ UNCHANGED <<durable, reg, claims, wire, host, refs, bounds>>

(* Mutant of TickTimeout: a clean-up that timed out counts as done.        *)
TickTimeoutTrusts(w) ==
    /\ LockFree
    /\ lease[w].state = "sanitizing" /\ fleet[w].ref # 0
    /\ call' = Todo(w, <<"ended", "clear", "show">>)
    /\ UNCHANGED <<durable, reg, claims, wire, host, refs, bounds>>

TickTimeout(w) ==
    /\ LockFree
    /\ lease[w].state = "sanitizing" /\ fleet[w].ref # 0
    /\ call' = Todo(w, <<"ended", "hold", "show">>)
    /\ UNCHANGED <<durable, reg, claims, wire, host, refs, bounds>>

(* tick: a clean-up that staff asked for, or that a crash cut off from its *)
(* lease, and nobody answered.                                             *)
TickStaff(w) ==
    /\ LockFree
    /\ fleet[w].ref # 0 /\ ~Open(w)
    /\ call' = Todo(w, <<"hold">>)
    /\ UNCHANGED <<durable, reg, claims, wire, host, refs, bounds>>

(* sanitize_held_node.                                                     *)
StaffClean(w) ==
    /\ LockFree
    /\ refs < MaxRefs
    /\ ~Open(w) /\ reg[w].status = "idle" /\ up[w]
    /\ refs' = refs + 1
    /\ call' = Todo(w, <<"begin", "staff_send">>)
    /\ UNCHANGED <<durable, reg, claims, wire, host, bounds>>

(* Mutant of WhatAnswerDoes: any answer from the worker will do.           *)
WhatAnswerDoesAnyRef(a) ==
    LET w == a.worker IN
    IF lease[w].state = "sanitizing"
    THEN IF a.ok THEN <<"ended", "clear", "show">> ELSE <<"ended", "hold", "show">>
    ELSE IF ~Open(w) THEN IF a.ok THEN <<"unhold">> ELSE <<"hold">>
    ELSE <<>>

(* The writes on_sanitize_result makes: the answer must name the lease     *)
(* being cleaned, or else the clean-up the fleet row waits for.            *)
WhatAnswerDoes(a) ==
    LET w == a.worker IN
    IF lease[w].state = "sanitizing" /\ lease[w].id = a.ref
    THEN IF a.ok THEN <<"ended", "clear", "show">> ELSE <<"ended", "hold", "show">>
    ELSE IF fleet[w].ref = a.ref /\ ~Open(w)
    THEN IF a.ok THEN <<"unhold">> ELSE <<"hold">>
    ELSE <<>>

OnSanitizeResult(a) ==
    /\ LockFree
    /\ answers' = answers \ {a}
    /\ call' = Todo(a.worker, WhatAnswerDoes(a))
    /\ UNCHANGED <<durable, reg, claims, up, inbox, host, refs, bounds>>

-----------------------------------------------------------------------------
(* One write, or one effect, of the call in progress.                      *)
DurableStep(op, w) ==
    /\ \/ op = "ending" /\ lease' = [lease EXCEPT ![w].state = "ending"]
                        /\ UNCHANGED fleet
       \/ op = "sanitizing" /\ lease' = [lease EXCEPT ![w].state = "sanitizing"]
                            /\ UNCHANGED fleet
       \/ op = "ended" /\ lease' = [lease EXCEPT ![w] = NoLease]
                       /\ UNCHANGED fleet
       \/ op = "begin" /\ fleet' = [fleet EXCEPT ![w].ref =
                                       IF Open(w) THEN lease[w].id ELSE refs]
                       /\ UNCHANGED lease
       \/ op = "hold" /\ fleet' = [fleet EXCEPT ![w] = [held |-> TRUE, ref |-> 0]]
                      /\ UNCHANGED lease
       \/ op = "unhold" /\ fleet' = [fleet EXCEPT ![w] = FreeRow]
                        /\ UNCHANGED lease
       \/ op = "clear" /\ fleet' = [fleet EXCEPT ![w].ref = 0]
                       /\ UNCHANGED lease
    /\ call' = Tail(call)
    /\ UNCHANGED <<reg, inbox>>

(* Mutant of ShowStep: the live registry is not told.                      *)
ShowStepNot(op, w) ==
    /\ op = "show"
    /\ call' = Tail(call)
    /\ UNCHANGED <<durable, reg, inbox>>

ShowStep(op, w) ==
    /\ op = "show"
    /\ reg' = Shown(w, lease[w])
    /\ call' = Tail(call)
    /\ UNCHANGED <<durable, inbox>>

(* _advance: nothing unless the worker is idle and reachable.              *)
AdvanceStep(op, w) ==
    /\ op = "advance"
    /\ call' = IF MayAdvance(w)
               THEN Todo(w, <<"sanitizing", "begin", "show", "send">>)
               ELSE <<>>
    /\ UNCHANGED <<durable, reg, inbox>>

(* send_sanitize, and what follows when the worker cannot be reached.      *)
SendStep(op, w) ==
    /\ op \in {"send", "staff_send"}
    /\ \/ /\ up[w]
          /\ inbox' = inbox \cup {<<w, fleet[w].ref>>}
          /\ call' = Tail(call)
       \/ /\ ~up[w]
          /\ call' = Todo(w, IF op = "send" THEN <<"ended", "hold", "show">>
                             ELSE <<"clear">>)
          /\ UNCHANGED inbox
    /\ UNCHANGED <<durable, reg>>

Do ==
    /\ call # <<>>
    /\ LET op == Head(call)[1]
           w == Head(call)[2]
       IN  \/ DurableStep(op, w) \/ ShowStep(op, w)
           \/ AdvanceStep(op, w) \/ SendStep(op, w)
    /\ UNCHANGED <<claims, up, answers, host, refs, bounds>>

-----------------------------------------------------------------------------
(* The scheduler: claim_best_idle_node on a dispatchable hosted worker of  *)
(* the job's organization, and later the JobAssign, on whatever session    *)
(* the worker then has.                                                    *)
Claim(w, o) ==
    /\ reg[w].status = "idle" /\ up[w]
    /\ reg[w].state = "active" /\ reg[w].org = o
    /\ reg' = [reg EXCEPT ![w].status = "busy"]
    /\ claims' = claims \cup {<<w, o>>}
    /\ UNCHANGED <<durable, call, wire, host, refs, bounds>>

SendJob(w, o) ==
    /\ <<w, o>> \in claims
    /\ claims' = claims \ {<<w, o>>}
    /\ IF up[w]
       THEN /\ running' = [running EXCEPT ![w] = @ \cup {o}]
            /\ residue' = [residue EXCEPT ![w] = @ \cup {o}]
       ELSE UNCHANGED host
    /\ UNCHANGED <<durable, reg, call, wire, refs, bounds>>

JobEnds(w) ==
    /\ running[w] # {}
    /\ running' = [running EXCEPT ![w] = {}]
    /\ UNCHANGED <<durable, reg, call, claims, wire, residue, refs, bounds>>

(* A claim whose job is still to be sent is normally hidden from the       *)
(* worker's "idle" (CLAIM_GRACE_SECONDS); not when the send takes longer,  *)
(* or when the entry was offline or replaced in between.                   *)
LateFor(w) == IF Claimed(w) THEN late < MaxLate /\ late' = late + 1
              ELSE UNCHANGED late

(* The coordinator gives up on a job and frees the worker (a dispatch      *)
(* timeout) while the job is still running there.                          *)
GiveUp(w) ==
    /\ Fault
    /\ reg[w].status = "busy" /\ running[w] # {}
    /\ LateFor(w)
    /\ reg' = [reg EXCEPT ![w].status = "idle", ![w].jobs = FALSE]
    /\ UNCHANGED <<durable, call, claims, wire, host, refs, crashes>>

-----------------------------------------------------------------------------
(* Workers. A clean-up refuses while a job runs, and may fail.             *)
Clean(w, ref) ==
    /\ <<w, ref>> \in inbox
    /\ inbox' = inbox \ {<<w, ref>>}
    /\ \/ /\ running[w] = {}
          /\ residue' = [residue EXCEPT ![w] = {}]
          /\ answers' = answers \cup {[worker |-> w, ref |-> ref, ok |-> TRUE]}
          /\ UNCHANGED faults
       \/ /\ IF running[w] = {} THEN Fault ELSE UNCHANGED faults
          /\ answers' = answers \cup {[worker |-> w, ref |-> ref, ok |-> FALSE]}
          /\ UNCHANGED residue
    /\ UNCHANGED <<durable, reg, call, claims, up, running, refs, late, crashes>>

Heartbeat(w) ==
    /\ reg[w].status # "absent" /\ up[w]
    /\ LET s == IF running[w] # {} THEN "busy" ELSE "idle" IN
       /\ reg[w].status # s \/ reg[w].jobs # (running[w] # {})
       /\ reg' = [reg EXCEPT ![w].status = s, ![w].jobs = (running[w] # {})]
       /\ IF s = "idle" THEN LateFor(w) ELSE UNCHANGED late
    /\ UNCHANGED <<durable, call, claims, wire, host, refs, faults, crashes>>

(* registry.register reads the worker's lease back from the database.      *)
Register(w) ==
    /\ reg[w].status \in {"absent", "offline"} /\ ~up[w]
    /\ LateFor(w)
    /\ reg' = [reg EXCEPT ![w] = [status |-> "idle", jobs |-> FALSE,
                                  state |-> lease[w].state,
                                  org |-> lease[w].org]]
    /\ up' = [up EXCEPT ![w] = TRUE]
    /\ UNCHANGED <<durable, call, claims, inbox, answers, host, refs, faults,
                   crashes>>

Cut(w) == /\ inbox' = {m \in inbox : m[1] # w}
          /\ answers' = {a \in answers : a.worker # w}

(* The stream ends, with everything that was on it.                        *)
Disconnect(w) ==
    /\ Fault
    /\ up[w]
    /\ up' = [up EXCEPT ![w] = FALSE]
    /\ reg' = [reg EXCEPT ![w].status = IF @ = "absent" THEN @ ELSE "offline"]
    /\ Cut(w)
    /\ UNCHANGED <<durable, call, claims, host, refs, late, crashes>>

HealthTimeout(w) ==
    /\ Fault
    /\ up[w] /\ reg[w].status \in {"idle", "busy"}
    /\ reg' = [reg EXCEPT ![w].status = "offline"]
    /\ UNCHANGED <<durable, call, claims, wire, host, refs, late, crashes>>

(* The coordinator process dies and starts again. Workers and their jobs   *)
(* do not notice, but their streams are gone.                              *)
Restart ==
    /\ IF LockFree THEN Fault /\ UNCHANGED crashes
       ELSE crashes < MaxCrashes /\ crashes' = crashes + 1 /\ UNCHANGED faults
    /\ reg' = [w \in Workers |-> Absent]
    /\ up' = [w \in Workers |-> FALSE]
    /\ call' = <<>> /\ claims' = {} /\ inbox' = {} /\ answers' = {}
    /\ UNCHANGED <<durable, host, refs, late>>

-----------------------------------------------------------------------------
Manager ==
    \/ Do
    \/ \E o \in Orgs, S \in SUBSET Workers : Request(o, S)
    \/ \E a \in answers : OnSanitizeResult(a)
    \/ \E w \in Workers :
          \/ TickLost(w) \/ TickEnding(w) \/ TickTimeout(w) \/ TickStaff(w)
          \/ Release(w) \/ StaffClean(w)
Worker ==
    \E w \in Workers :
        \/ JobEnds(w) \/ GiveUp(w) \/ Heartbeat(w) \/ Register(w)
        \/ Disconnect(w) \/ HealthTimeout(w)
        \/ \E o \in Orgs : Claim(w, o) \/ SendJob(w, o)
Cleaning == \E m \in inbox : Clean(m[1], m[2])

Next == Manager \/ Worker \/ Cleaning \/ Restart

Spec == Init /\ [][Next]_vars

(* The health loop ticks, the manager's calls run on, jobs end, and a      *)
(* worker that is up sends heartbeats.                                     *)
Fairness ==
    /\ WF_vars(Do)
    /\ \A w \in Workers :
          /\ WF_vars(TickLost(w)) /\ WF_vars(TickEnding(w))
          /\ WF_vars(TickTimeout(w))
          /\ WF_vars(JobEnds(w)) /\ WF_vars(Heartbeat(w))
          /\ \A o \in Orgs : WF_vars(SendJob(w, o))

FairSpec == Spec /\ Fairness

-----------------------------------------------------------------------------
(* Nothing says that the worker may not be given to the next customer.     *)
InPool(w) ==
    /\ ~Open(w) /\ ~fleet[w].held /\ fleet[w].ref = 0
    /\ \A i \in DOMAIN call : call[i][2] # w

(* "A worker is never returned to the pool on the strength of a timeout":  *)
(* whatever is lost, late or refused, a worker that may be leased carries  *)
(* nothing of its last customer.                                           *)
PoolIsClean ==
    \A w \in Workers : InPool(w) => running[w] = {} /\ residue[w] = {}

(* "While the lease lasts the worker is that customer's alone": what runs  *)
(* or lies on a leased machine is its customer's, to the end of the        *)
(* clean-up.                                                               *)
OnlyItsCustomer ==
    \A w \in Workers :
        Open(w) => running[w] \cup residue[w] \subseteq {lease[w].org}

(* "Every state change is written to the database first, then applied to   *)
(* the live registry": between calls a registered worker shows the lease   *)
(* that the database has, whenever it registered.                          *)
RegistryShowsLease ==
    \A w \in Workers :
        LockFree /\ reg[w].status # "absent" =>
            reg[w].state = lease[w].state /\ reg[w].org = lease[w].org

(* A lease that has begun to end does end, whatever becomes of the worker. *)
LeaseEnds ==
    \A w \in Workers :
        lease[w].state \in {"ending", "sanitizing"} ~> ~Open(w)
=============================================================================
