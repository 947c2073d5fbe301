# Formal verification of the GCON coordinator

TLA+ models of the parts of `briton-data/gcon` that carry its own control logic, the TLC
configurations that check them on small instances, and TLAPS proofs of the results that hold
for every instance. Paths below are relative to `src/gcon/`; in `PROJECT.json` they are relative
to the directory that holds the repository, so they carry the prefix `src/src/gcon/`.

    tlc -workers 2 -config Lifecycle.cfg MCJobLifecycle     # a model-checking run
    tlapm ReplicasProofs.tla                                # the proofs of a module

## 1. Inventory

GCON is a coordinator (one process, many threads, an SQL control-plane database) and a fleet of
workers that hold a gRPC control stream to it. Customers submit jobs and workflows over HTTP;
the coordinator dispatches each job to a worker, signs a receipt for its result and bills it.

| Component | State | Operations | What is hard | Module |
|---|---|---|---|---|
| Leader election (`cluster/leader_election.py`, `repositories/leases.py`) | one lease row; each process's belief | tick, release, stop | compare-and-swap against stale clocks, slow ticks, death of the holder | `LeaderElection`, `Lease` |
| Job lifecycle, registry, transport (`cluster/coordinator.py`, `registry.py`, `transport/grpc_transport.py`) | jobs, queue, runner threads, sessions; rows `jobs`, `job_attempts`, receipts | submit, schedule, assign, run, finalize, recover, cancel, retry, clear, restore | unlocked status checks, recovery against a late result, a crash at any write, old and new streams of one node | `JobLifecycle` |
| Replicated jobs (`coordinator.py`, `execution/replication.py`) | groups of replicas, verdict | claim N nodes, run, compare, sign, end | overlapping groups, partial failure, a restart between receipts and verdict | `Replicas` |
| Workflow engine (`workflow/*.py`) | `WorkflowState`, `_deferred` | submit, schedule, complete, fail, cancel, reopen, restore | state shared by all finishing threads, mostly without a lock; the concurrent-job cap; a crash before `_persist` | `Workflow` |
| Hosted worker leases (`cluster/worker_leases.py`, `execution/sanitize.py`) | `worker_leases`, `fleet_nodes`; the lease shown in the registry | request, release, tick, clean-up and its answer | isolation of customers; lost, late and false clean-up answers | `WorkerLeases` |
| Worker agent (`transport/agent_daemon.py`, `execution/agent.py`) | connection loop, `_active_jobs`, one shared agent | enroll, register, run, cancel, time out, report | one agent object shared by the executor's threads; a cancel against a start; reconnects in mid-job | `WorkerAgent` |
| Certificates, enrollment (`transport/tls.py`, `tls_rotation.py`, `repositories/enroll_tokens.py`) | key and certificate files, trust bundle, manifest, token uses | issue, rotate, prune, revoke, enroll | many files, no transaction; a token used twice | `Certificates`, `WorkerAgent` |
| Accounts (`management/*.py`, routes of `api/api_v1.py`, `dashboard/web_server.py`) | users, customers, sessions, reset links, API keys | sign up, log in, reset, change, revoke, delete | a handler is several calls without a lock | `Accounts` |
| Plans, limits, idempotency (`api/api_v1.py`, `management/request_limiter.py`) | windows, keys, caps | submit, look up, record | simultaneous retries of one request, the edge of a window | `Gateway` |
| Billing (`billing/*.py`) | invoices, plans, prices and their history | close a month, invoice, finalize, pay | late and repeated runs, terms that change meanwhile | `Billing` |
| Receipts, keys, stakes (`execution/verifier.py`, `hmac_keyring.py`, `staking.py`) | receipts, verdict cache, keyring, stakes | sign, store, verify, rotate, slash | a receipt replaced or evicted while it is judged | `Trust` |
| Webhooks (`transport/webhooks.py`) | delivery rows, subscriptions | queue, post, retry | two dispatchers on one row, a lost secrets key | `Webhooks` |
| Health, alerts, incidents (`monitoring/*.py`) | health, incidents | sample, evaluate, open, resolve | restarts with incidents open | `Oversight` |
| Autoscaler, events, telemetry, read-only views, database plumbing, migrations, SDK | - | - | presentation and plumbing | - |

They interact through the coordinator object (one process, its locks named in each module), the
control-plane database (atomic per statement or transaction), and the gRPC streams. What makes
each part correct is the list of properties in section 4; the hazards behind them are in
`PROJECT.json`, each at its line.

## 2. Plan

Done, in this order: `LeaderElection`, `JobLifecycle` (the core), `WorkerLeases`, `Workflow`;
then `Accounts`, `Replicas`, `WorkerAgent`, `Billing`, `Gateway`, `Trust` with `Webhooks` and
`Oversight`, the abstract `Lease` and its refinement, and `Certificates` composed with the
worker. Left, most valuable first:

1. Proofs for what is still only model-checked (the end of section 5): `RevokedIsRefused` and
   `SessionKeysBounded` of `Accounts`, then `EveryReceiptAccounted` of `Trust`.
2. `JobService`, an abstract specification (a job is accepted, runs, ends once) that `JobLifecycle`
   without operator commands implements.
3. A composition of `Workflow` with the job lifecycle's real announcements of an end.
4. Pure algorithms against reference definitions: cycle detection and topological sort of a DAG,
   the scheduler's score.

## 3. Modules and the code

A step is what happens between two points where the code releases a lock, waits, calls another
component or makes a durable write. Formatting, logging, telemetry and read-only views are left
out everywhere.

**`LeaderElection`** has one row (`holder`, `term`, `expires`), and for each coordinator what its
last tick granted it, whether it leads, and the tick in progress. A tick is four steps: sample the
clock, read the row, compare-and-swap on everything read, act on the answer. Release, a stop whose
join timed out, a crash, a start and a failed call are actions; the clock is shared, as the code
assumes. **`Lease`** is the same service with nothing of this left: one lease that passes
atomically from hand to hand. `ImplementsLease` maps the row to the lease and the processes that
lead on an unexpired grant to `leads`.

**`JobLifecycle`.** `job` is the job dict, `held` the keys of `self.jobs` (a thread may hold a dict
after it was removed), `queue` the queue, `db`, `attempts` and `receipts` the durable rows.
`runners` is the set of `_run_job` threads with their program counters, `sched` the scheduler
between the claim and the rest of `assign_job`, `rec` the `recover_jobs` call that holds
`jobs_lock`, `calls` the ones that wait. `reg`, `live` and `streams` are the registry, the session
`get_node` finds, and the control streams that have not ended (an old one may outlive its
replacement). `Restart` is `restore_from_persistence` on whatever was durable; with
`CrashAfterAnswer` FALSE it does not fall between the row `success` of `send_job` and the final
status (`Unsettled`). Node scoring is a free choice among the nodes that fit.

**`Replicas`** is a job with `verify.replicas`: claiming N workers one by one, a thread per
replica, the comparison of the outputs, a receipt per replica, the verdict and its row, with
recovery, cancellation and restart. A group is one dispatch; an old group may still run when the
next one has started. With `CrashBeforePersist` FALSE the coordinator does not die between a durable
answer and the verdict's row.

**`WorkerLeases`.** `lease` and `fleet` are the durable rows, `reg` the registry entry with the
lease shown in it, `call` what the manager call that holds `_lock` has still to write. `running`
and `residue` are what really runs and lies on the machine, which no coordinator sees; the
properties are about them. Draining, quarantine, versions and the order of the candidates are left out.

**`Workflow`.** `state`, `status` and `over` (is `completed_at` set) are the `WorkflowState`,
`saved` its persisted copy, `job` the coordinator's own word on each job, `thread` what each
finishing thread and the main thread are doing. Only the submission loop is under `_schedule_lock`.
A job's life is one step here; `JobLifecycle` takes it apart. `Unheard` names the two ends of a job
that the code tells no workflow of: at the cap of attempts (`Exhaust`), and in a row left at
`success` (`Answered`); `untold` remembers the jobs that ended so. `Persist` takes the copy of the
state and saves it in one step; in the code two threads that persist at once could save in the other
order, which leaves an older copy, as a crash inside a call does (`MaxCrashes`).

**`Certificates`** is the coordinator's certificate directory. Each operation (`rotate_ca`, the
credentials of a new connection, `sign_agent_csr`, start-up) is a program of file operations
performed by a thread; a crash may fall between any two. **`WorkerAgent`** composes it with one
worker: the connection loop and its enrollment, the control thread, the executor's threads around
the single `GCONAgent`, and the processes or containers they start. `shared` remembers which runs
had the agent together with another run, `missed` which runs docker failed to kill, `lapsed` which
enroll tokens have expired or been revoked. The two jobs and the enrollment are separate loads of one run.

**`Accounts`.** A handler is a list of calls on stores that are each atomic; `todo[t]` is what
thread t has still to call; a loop over keys is a list and then one call per key. A password has a
version, and a session, key or link remembers the version it was given for. `crossed` marks a
request during which its key was regenerated between the look-up and the check of its status.

**`Gateway`** follows requests of one organization through the limiter, the idempotency table and
the concurrent-job cap. The history `admitted` reaches back a window less a stall, which is how far
the limiter's promise goes; `peak` is the laxest of the limits in force since the start.

**`Billing`** counts time in half months and money in tenths of a cent;
`inForce` records what plans and plans' prices were when each month began. The prices for usage
(`pricing`) have no history in the code: an invoice is priced by those in force when it is made, all
read at once.

**`Trust`**, **`Webhooks`** and **`Oversight`** extend one another: receipts and what is known of
them, deliveries, and the health loop with its incidents, in one process that may restart.
`spare` bounds a behaviour by a load (so many receipts, key operations, restarts, ...), so that
each part is explored in depth without the product of all; `WorkerAgent` does the same. Stakes,
quarantine and the policy's counts are carried along for the rules that read them; no property is
about the stakes.

## 4. Runs

| Run | Instance | States | Shows |
|---|---|---|---|
| `LeaderElection` | 2 coordinators, TTL 2, time to 4, 2 faults, fair | 192,000 | one rightful leader, grants are rows, no early take-over, the abstract lease is implemented, failover |
| `Lifecycle` | 1 job, 2 workers, 2 attempts, 1 fault of any kind but a crash after a durable answer, fair | 900,000 | no job forgotten, unwatched or completed without its receipt; every job ends |
| `Commands` | 1 job, 2 workers, all commands, no fault | 341,000 (with symmetry) | the attempts stay within their cap |
| `TwoJobs` | 2 jobs that fit one of 2 workers, memory for 1 | 17,000 | eviction by another thread loses nothing |
| `WorkerLeases` | 1 worker, 2 customers, 4 references, 3 faults, fair | 102,000 | clean pool, isolation, registry agrees with the database, leases end |
| `Workflow` | 4 jobs (two roots, join, one below), cap 1 or 2, 1 retry, 1 restart, unannounced ends, fair | 522,000 | parents first; until an end goes unannounced: agreement at rest, room is used, workflows end |
| `Accounts` | 3 staff, 3 customers, 2 threads, 2 requests, crashes | 241,000 | old credentials die with the password, a revoked key is refused, login keys are bounded |
| `Replicas` | 2 replicas, 2 nodes, 2 groups, 1 fault, 1 restart other than between a durable answer and the verdict's row | 922,000 (with symmetry) | verdicts are earned, one story, verdicts and disputes are kept, nothing is stranded |
| `WorkerAgent` | 7 loads, fair: 2 jobs with 2 sessions, 1 cut and 1 fault; enrollments with 1-2 rotations, prune, restart, revocation, 1-2 faults | 854,000 | table of active jobs, faithful results, enrollment, trust, every run answered |
| `Billing` | 2 months, 2 jobs, 1 request of staff, 1 fault, fair | 511,000 | nothing billed twice, invoices right to the cent, every month invoiced |
| `Gateway` | 3 requests, 4 shapes, 2 plans, 1 trouble | 2,950,000 (with symmetry) | one meaning per key, cap and rate held |
| `Oversight` | 11 loads over 2 jobs, 2 dispatchers, 3 conditions of the plant, fair | 227,000 | receipts accounted for, deliveries settle, incidents follow |

Eight more configurations are kept as counterexamples and are no part of the runs: each checks one
property that a comment or docstring states and the code does not keep, and TLC must report it
violated, in seconds.

| Configuration | Module | Property | What TLC finds | Disagreement |
|---|---|---|---|---|
| `JobsEndCrash.cfg` | `MCJobLifecycle` | `EveryJobEnds` | a crash after the row `success` leaves the job so for ever | 14 |
| `VerdictsCrash.cfg` | `MCReplicas` | `VerdictIsKept` | the same crash hides a dispute | 14 |
| `WorkflowAnswered.cfg` | `MCWorkflow` | `WorkflowAlwaysEnds` | the same crash stops a workflow | 14 |
| `WorkflowExhausted.cfg` | `MCWorkflow` | `WorkflowAlwaysEnds` | a failure at the cap of attempts is not announced | 6 |
| `StaffLinks.cfg` | `MCAccounts` | `LinksFollowEveryPassword` | a reset link of staff outlives the password | 15 |
| `RegeneratedKey.cfg` | `MCAccounts` | `RevokedIsAlwaysRefused` | a revoked key regenerated between look-up and check | 16 |
| `KillFails.cfg` | `MCWorkerAgent` | `NoContainerLeft` | a container left by a `docker kill` that failed | 8 |
| `HalfMadeChange.cfg` | `MCBilling` | `InvoiceIsAlwaysRight` | an invoice made between a change and its record | 17 |

**Bounds.** Two coordinators and two terms let a holder lose the row and a third tick meet the old
one. A fault in `Lifecycle` may fall between any two steps (except the crash of 14); two attempts let one loss lead to a
redispatch and a second to the cap, and two workers let a recovery land elsewhere. In
`WorkerLeases` three faults allow a lost answer, a failed clean-up and a restart in one behaviour.
Four workflow jobs are the least with a join and a job two levels below a failure. Two requests in
`Accounts` are every pair of handlers, call by call. Two groups of replicas are the least for a
stale one; two months the least for a late invoice under changed terms; three requests let two
race for the place a third frees. In the certificate loads a crash may fall in the middle of
either rotation, with an enrollment on each side of it. Deadlock is not checked where a system may
come to rest (all work done, all bounds used up).

Some bounds are 0, FALSE or empty in a run because what they allow does break a property; they are
disagreements 3 to 7, 11 and 14 below. They are `MaxLate` and `MaxCrashes` of `WorkerLeases`,
`MaxRaces` and `MaxCrashes` of `Workflow` (its `MaxRestarts` is 1, and only the last job's
dispatch may raise), `MaxRaces` of `Replicas`, `Meets` of `Certificates`, `CrashAfterAnswer` in
`Lifecycle` and `CrashBeforePersist` in `Replicas`. The last two take out one crash that breaks
`EveryJobEnds` and `VerdictIsKept`; the other properties of the two runs hold with it too, and are
proved so (section 5). The unannounced ends of a job do happen in `Workflow`: after one (`untold`
not empty) `Agreement`, `RoomIsUsed` and `WorkflowEnds` say nothing more, and `ParentsFirst` still
does. `Commands` has no faults for the reason in
disagreement 3 (a retry and a lost worker together break the cap), `TwoJobs` has neither faults nor
commands for the reason in disagreement 13.

**Fairness.** Threads that are running run on: electors, schedulers, runners, recovery, the health
loop, dispatchers, the executor's threads, the monthly automation; the clock advances. Their loops
catch every exception. The transport's wait is bounded by a timeout; workers reconnect in
`Lifecycle` (the agent's reconnect loop) and a dead node is found by the health sweep; in
`WorkerLeases` nothing says that a worker comes back or answers. A job's process ends. In
`Oversight` a sampling interval is finite, so a pass in which it is due comes again and again (SF
on `Evaluate`). Faults, commands, restarts and requests are not fair.

### Where code and documentation disagree

Met while modelling; each was confirmed by a counterexample (with the bound given, if any) unless
it is marked *(read)*. Those in the table of counterexamples above have a configuration of their own.

1. *Cancel.* `assign_job` tests the status without `jobs_lock` and writes it many calls later
   (`coordinator.py:1337`); a cancel in between is overwritten. The docstring at 3737 says
   "assign_job() already refuses to dispatch a job whose status isn't still "pending"".
2. *A cleared job on the queue.* The scheduler pops an id that is gone (1332), dies, is restarted
   and pops it again; 3740 says "it is silently skipped instead of run".
3. *Attempts.* A worker lost in mid-job leaves its attempt row open and the next attempt opens a
   second (2325); 597 says "a single-node job can never have more than one attempt in flight at
   once", and a restart takes the job for a replicated one. A retry of a pending job queues its id
   twice (3974), so with a worker loss it is dispatched beyond its cap; a late outcome may be
   written between its check and its write (2441).
4. *Hosted workers.* `_end_lost` ends the lease and then holds the worker (`worker_leases.py:306`,
   `MaxCrashes = 1`); line 21 says a worker that was lost "is HELD". A crash between
   `mark_sanitizing` and `begin_sanitize` leaves the lease `sanitizing` with no clean-up that could
   end or time out, against `LeaseEnds` (`MaxCrashes = 1`). A dispatch that is late by more than
   `CLAIM_GRACE_SECONDS` reaches a worker that was cleaned meanwhile (`registry.py:44`, `MaxLate =
   1`).
5. *Workflow slots.* The exception path of `_run_job` lets held-back jobs try again before it has
   given up its own slot (2393, `Raisable` not empty); 2126 says "this job's slot is free".
6. *Workflow state.* A job that ends before `mark_running` is overwritten as running
   (`workflow_engine.py:214`, `MaxRaces = 1`); a crash before `_persist` loses what was submitted
   (260, `MaxCrashes = 1`). `_reconcile` submits the ready jobs it finds and does not `_persist`
   (487): a second restart finds them READY, not RUNNING, and misses that they failed, although 488
   says that "its completion will advance the DAG" (`MaxRestarts = 2`). `recover_jobs` fails an
   exhausted job without telling the workflow (`coordinator.py:2012`, `WorkflowExhausted.cfg`); 2142
   says that without that call the workflow is told by nothing.
7. *Replicas.* A group that starts while an older one is past its staleness check lets the older
   verdict through (`MaxRaces = 1`). A restart reads receipts newest first, so that the oldest one
   wins (`coordinator.py:697`) *(read)*; cancelling reaches only the first replica's worker *(read)*.
8. *Worker.* A cancel of the second of two jobs before its `Popen` is lost or kills the first
   (`agent.py:314`); the `finally` of `_run_job` removes a newer attempt's entry
   (`agent_daemon.py:532`); a timeout on the subprocess backend kills only the shell (`agent.py:688`);
   results in flight are lost by a graceful stop (`agent_daemon.py:364`, against 177). A `docker kill`
   that fails or times out is logged and ignored (`docker_executor.py:479`, callers `agent.py:319` and
   687), so that a run reports while its container goes on, although 685 calls it "the real stop"
   (`KillFails.cfg`). Hence `shared`, `missed` and the docker condition in `AloneIsFaithful`.
9. *Billing.* Two processes may each pass the overlap check (`repositories/billing.py:52`), so
   `Procs` has one member; a receipt uploaded in one month for a job that ends in the next is
   never billed (`invoicing.py:200`) *(read)*; `finalize_invoice` may reopen a paid invoice
   (`repositories/billing.py:171`, against `invoicing.py:528`) *(read)*.
10. *Accounts and gateway.* A deletion may be undone by a concurrent update; a crash between
    `_do_submit` and the record of its key makes a retry submit again (`cut` in `Gateway`);
    `retry_job` ignores the cap (`retried`); the limiter looks at the clock before it takes its
    lock (`MaxStall`).
11. *Certificates.* `tls_rotation.py`'s docstring says that "every certificate already issued under
    the old CA keeps working during a grace period". The server keeps its side of that
    (`TrustKept`), but an enrolled worker verifies the server against the one CA file it got at
    enrollment (`tls.py:540`), and `rotate_ca` re-signs the server's certificate at once, so that
    after a rotation the worker's handshake fails until it is enrolled again. The enroll port keeps
    the certificate of start-up (`grpc_transport.py:969`), so a join command made after a rotation
    does not work before a restart. In the middle of a rotation a connection or an enrollment makes
    an authority of its own (`Meets = TRUE`). A rotation that died after the manifest was written
    leaves a first entry whose age lets a later prune drop the authority right after its real
    retirement (2 rotations, 1 restart, 1 prune). Two restarts may leave the key of one authority
    with the certificate of another (1 rotation, 2 restarts).
12. *Receipts.* A receipt that a dashboard thread judges first is neither slashed nor counted for
    quarantine (`coordinator.py:4777`) *(read)*; a restart verifies again (725, against 1820 "Each
    receipt is verified exactly once, ever"); an exception of the stake ledger drops the other
    verdicts of the pass, which are then neither slashed nor counted (1847, `LedgerRaises`); one
    unreadable secret drops all of an organization's deliveries (`webhooks.py:139`).
13. *Evicted jobs.* `_persist_job_status` is there so that a job that left memory is not served with
    "a stale status a completed job never actually had" (`coordinator.py:3160`). It still may be:
    `clear_queue` writes nothing (3785); `cancel_job` updates a row that `submit_job` may not have
    made yet (3760), and the row made afterwards says pending; and when `recover_jobs` has failed a
    job, an answer of an earlier attempt may still be written over "failed", because the newer
    attempt has no row yet (`grpc_transport.py:1134`). Each was confirmed in `TwoJobs` with that
    command or one fault. (The two clearings delete the row on purpose, so they are left out as
    well.)
14. *The row "success".* `send_job` stores the worker's own word as the job's status
    (`grpc_transport.py:1137`); receipt, verdict, "completed" and the word to the workflow come
    later. A crash in between leaves a row that `restore_from_persistence` does not take for
    interrupted (609) and that nobody else takes for ended: the job is never run again, completed or
    evicted (against 556, "Reconcile jobs that were still in flight ... whether cleanly or via a
    crash"; `JobsEndCrash.cfg`); it looks finished and may have no receipt, so that
    `CompletedHasReceipt` is about "completed" only; a replicated job is shown without the dispute
    that its receipts record (against 3107, "a dispute verdict must not silently disappear";
    `VerdictsCrash.cfg`); and `_reconcile` does not know the status, so that its workflow stands
    still (`workflow_engine.py:478`, against 442, "advances the DAG now instead of stalling it
    forever"; `WorkflowAnswered.cfg`).
15. *Reset links of staff.* Only the customers' paths call `invalidate_all_for_user`, whose docstring
    says "once their password has actually changed via any path, so an older unconsumed reset link
    can't still be redeemed" (`auth.py:320`). A link that a member of staff asked for before a
    change of the password still replaces it (`management_layer.py:807`, `StaffLinks.cfg`);
    `CredentialsFollowPassword` is therefore about the links of customers.
16. *A regenerated key.* `authenticate_api_key` looks a key up by its secret and then asks whether
    the object is valid (`management_layer.py:257`); `regenerate_key` in between makes the same object
    Active with another secret, and the old secret of a revoked key gets through (against 253; 
    `RegeneratedKey.cfg`). `RevokedIsRefused` leaves out requests that such a regeneration crossed.
17. *Half-made changes of terms.* `update_organization` and `set_plan_limits` store the change and then
    record it (`management_layer.py:1953`, 1547). An invoice made in between, or after a crash in
    between, prices a closed month by the new terms, although "a change made today never reaches back
    to periods that ended before it" (`terms_history.py:12`; `HalfMadeChange.cfg`). `InvoiceIsRight`
    leaves such invoices out (`clean`). A change of the prices for usage always reaches back to months
    that are not invoiced yet (`invoicing.py:456`): `set_pricing` keeps no history, and no text of the
    repository promises one, so that `InvoiceIsRight` prices usage by what was in force when the invoice
    was made.

## 5. Proofs

Every theorem is for arbitrary sets of coordinators, jobs, nodes, requests, outcomes and commands
and for any bounds, from the named assumptions of its module: finite sets of jobs and requests,
null values that are no members, bounds in `Nat`. A theorem that holds only under a condition says
so in its `ASSUME`, or has the form `[](C => P)` where C says that something has not happened yet;
each such condition is that of the run or weaker, and the behaviours it leaves out are disagreements
of section 4, so the theorems cannot be had without it.

| Module | Theorems | Condition |
|---|---|---|
| `LeaderElectionProofs` | `TypeCorrect`, `SingleRightfulLeader`, `GrantsAreRows`, `TakeoverOnlyAfterExpiry`, `ElectionImplementsLease` | - |
| `JobLifecycleProofs` | `TypeCorrect`, `NoJobForgotten`, `CompletedIsAccountedFor`, `NoJobAbandoned` | - |
| | `AttemptsAreBounded` | nobody retries by hand (3) |
| | `EvictionLosesNothing` | nobody cancels or clears jobs; up to the first fault (13) |
| `GatewayProofs` | `RateIsHeld`, `CapIsHeld`, `KeysMeanOneThing` | - |
| `WorkerLeasesProofs` | `RegistryIsTrue` | - |
| | `PoolStaysClean`, `CustomersApart` | no late dispatch, no crash inside a call (4) |
| `WorkflowProofs` | `ParentsComeFirst` | - |
| | `BooksAgree` | up to the first end that is not announced (6, 14), race, crash inside a call or second restart (6) |
| | `RoomStaysUsed` | the same, and no dispatch raises (5) |
| `WorkerAgentProofs` | `TableTellsTruth`, `AloneStaysFaithful`, `EnrollmentIsSafe` | - |
| `BillingProofs` | `NothingBilledTwice` | one process (9) |
| `ReplicasProofs` | `AgreementIsEarned`, `NothingIsStranded` | - |
| | `OneStoryTold` | no group starts while an older one ends the job (7) |
| | `VerdictsKept` | the same, and no crash between a durable answer and the verdict's row (14) |

**`LeaderElectionProofs`.** The inductive invariant is `IInv == TypeOK /\ LiveGrantIsRow /\
SwapDecided`. `LiveGrantIsRow` alone is not inductive: the write of one process must not
invalidate another's live grant, and why it cannot is in the past, when it read the row.
`SwapDecided` records it: a tick that is about to swap did find that row free, expired or its
own at the time it sampled. `SwapSparesLiveGrants` combines the two. `SingleRightfulLeader`,
`GrantsAreRows` and `TakeoverOnlyAfterExpiry` follow.

`ElectionImplementsLease` is the refinement: `Spec => ImplementsLease`. Initial states map to
initial states, and every step maps to a step of `Lease` or to a stutter: a successful swap to
`Take` or `Renew`, the act on its answer to `Lead`, a stop, a crash or a failed call of the leader
to `Yield`, a release to `GiveUp`, the clock to `ClockTick`. The mapping needs more than `IInv`: `RInv == IInv
/\ RowBound`, where `RowBound` says that no row runs longer than a TTL from now and that the
holder's tick under way was sampled late enough for its renewal not to shorten the row. That a
take-over finds nobody leading is `LiveGrantIsRow` once more.

**`JobLifecycleProofs`.** `TypeCorrect`, with `HandsOK` as strengthening (the scheduler and the
recovery have a job in their hands exactly when their program counters say so), action by action.
`NoJobForgotten` (`PendingIsQueued`) is inductive over `TypeOK /\ HandsOK`
once one knows what pushing, popping and rotating do to membership in the queue (`QueueGrows`,
`QueueShrinks`, `QueueRotates`); it holds with every operator command. `CompletedIsAccountedFor`
(`CompletedHasReceipt`) needs `FinalHasReceipt`: a runner past its receipt step with a success to
announce has its receipt stored or its loss logged. `NoJobAbandoned` (`RunningIsWatched`) asks for
any thread of the job, but what carries over from step to step is stronger: a thread of the current
attempt, on the node the job is said to run on, that has not decided yet, or a recovery of that
node to come (`Watched`). `AttemptsAreBounded` counts tickets: an entry on the queue, or the job in
the hands of the scheduler or of a recovery, is the right to one dispatch; a job has one at most,
none while it runs, and only with an attempt to spare (`TicketInv`). `retry_job` hands out a second
one, hence the condition. `EvictionLosesNothing` (`EvictedIsDurable`) rests on `DurableInv`. Before
the first fault every registered worker has the one stream it opened (`Connected`), so no thread is
ever lost and there is no recovery (`Calm`); of the threads of a job at most one has still to set an
outcome (`OnlyBusy`), and that one is of the current attempt, of a running job, past its first step
only with a row to write to (`AtWork`); running and pending jobs are never evicted (`Kept`). Hence
an outcome differs from the row only while a thread is about to write it (`Written`). Retries and
the commands on workers are allowed, although the run has none: a retry leaves the thread of the
earlier attempt behind, which then writes what the dict says by now.

**`GatewayProofs`.** For `RateIsHeld` the history of admissions and the limiter's window are two
lists: `Aligned` says that the history's entries are the last of the window, each stamped at most a
stall before its admission, so that counting the window counts them (`RateInv`). `CapIsHeld`: the
count and the insert are under one lock, and what is in flight was counted (`Born`). For
`KeysMeanOneThing`, `KeyInv` follows a key through its life: whoever is inside the block holds the
key's lock and finds nothing recorded, what is recorded was created under the key, every answer is
what is recorded, and what was created is recorded unless its thread was cut short.

**`WorkerLeasesProofs`.** A call is a list of writes that a crash may cut anywhere, so the
invariant speaks of what is still due. `RegistryIsTrue`: an entry that differs from the database
is about to be shown again (`ShownOrDue`), because in every call the state is written first and
shown after (`Program`). `PoolStaysClean` and `CustomersApart`: whatever could dirty a machine is
leased, held or about to be held; nothing is claimed on a worker being cleaned; an answer
that is waited for is true, and an older one is never taken for it because references only grow
(`LeaseInv`).

**`WorkflowProofs`.** `ParentsComeFirst` is an action property. The `WorkflowState` that the
callbacks share is not locked, so what a thread took in hand may be out of date; the invariant is
that every word in it is true in one direction (`Truthful`: a job called READY has completed
parents, one called COMPLETED has completed), that the saved copy is so too, and that so is what
each thread holds (`Honest`). `ReadyOfFirst`, the list of ready jobs in order, is a recursive
function; that it has a solution, and that everything on it is ready, is shown by least
counterexample (`Least`), since the induction theorems of the library cannot be instantiated.

`BooksAgree` proves `Agreement` for every graph, cap and number of threads while the workflow is
`Undisturbed`: no end that nobody announced, no race, no crash inside a call, at most one restart.
`AgreeInv` accounts for every difference between the engine's books and the coordinator's jobs by
work that is under way: what the engine calls a job is what the coordinator says of it, or a thread
has still to pass the end on (`Place`); what the thread of a job, the thread of the commands and of
restore, and any thread may be at (`JobWork`, `MainWork`, `Works`); everything above a job that got
as far as READY has completed (`Rooted`), and only jobs below a broken one are blocked
(`BlockedWhy`); a pending job below a broken one, or with all its parents completed, has a thread
that will look at it (`BlockDue`, `ReadyDue`); before the restart the saved copy is what is known,
or a call is half done (`Clean`). What is below a job is defined as the least set closed under
edges, so facts about it are had by exhibiting a closed set (`LastEdge`: whatever is below a job has
a parent that is the job or below it), where the breadth-first search of `dag.py` would need an
induction. `RoomStaysUsed` proves `RoomIsUsed` from `RoomInv` on top of that: a ready job that no
thread is about to submit was noted as deferred (`Noted`); where a job is ready and there is room,
some thread will still call `schedule_ready_jobs`, or has every ready job in hand, or restore has
(`Looked`); no dispatch has raised, and `retry_deferred` is the last thing a call does (`CalmRec`).
The condition on `Raisable` is disagreement 5: there the look comes before the room.

**`WorkerAgentProofs`.** Three invariants of the worker, each for any jobs, sessions and loads.
`TableTellsTruth` (`TableIsTrue`): an entry of `_active_jobs` is of a begun run of that very job, and the
handler or the run's callback has still to remove it (`Entries`); a run in progress is entered,
unless the handler is just about to, or another run of the same job took its place (`Missing`). Both
need that runs are given out in order and are on the stream once (`Numbered`, `Letters`), and that
what the handler has in hand has begun and has no callback yet (`InHand`). `AloneStaysFaithful`
(`AloneIsFaithful`): two runs inside `execute_job` are both noted as sharing the agent (`Together`), so
for any other run the agent's current job and process are its own until it has read its result
(`Own`), and nothing of it was there before it began (`Unstarted`); its container is gone when it
reports, or docker failed to kill it (`missed`), which is as much as the code can say (8). `EnrollmentIsSafe`
(`EnrollmentHolds`): `EnrollInv` bounds what a token has granted by its count of uses, and follows the
worker's files through the writes that a crash may separate: no certificate before its key, and
none that counts as enrolled without the key it was made for.

Only model-checked:

- liveness (`Failover`, `EveryJobEnds`, `LeaseEnds`, `WorkflowEnds`, `EveryRunAnswered`,
  `MonthsInvoiced`, `DeliveriesSettle`, `IncidentsFollow`): fairness and ENABLED are out of the
  prover's reach;
- `InvoiceIsRight`: the amount is a sum over a set of jobs, and what a fold computes needs an
  induction with an operator for a parameter, which the installed provers cannot instantiate;
- `TrustKept` and `CredentialsFollowPassword`: they hold in their runs and not for every bound.
  `TrustKept` fails for the longer sequences of rotations and restarts of disagreement 11;
  `CredentialsFollowPassword` fails when three requests overlap (an account under creation, whose
  password an administrator sets and with which somebody logs in before the creation is over);
- `EveryReceiptAccounted`: a restart rebuilds the dict of receipts with a fold;
- `RevokedIsRefused` and `SessionKeysBounded` of `Accounts`: not yet.

No module declares a RECURSIVE operator.

## 6. Not modelled

The autoscaler (a pure decision with a cooldown), events, notifications and telemetry (they observe,
nothing decides on what they keep), database plumbing, migrations and storage, the SDK and start-up
scripts, request parsing, permissions and rendering around read-only calls. The cryptography is
external: a signature holds when the right key made it. Of modelled components: in `JobLifecycle`
drain, age-based retention and the pools of shared workers; in `Workflow` losing the leadership
during a submission, several workflows of one organization, cycle detection; in `WorkerAgent`
metrics, log streaming, the clean-up (it is in `WorkerLeases`) and `reissue_agent_cert`, which
nothing calls; in `Gateway` the limiter of log-ins; in `Trust` attestation; in `Webhooks` callback
secrets and address checks; in `Oversight` the rules `verification_disputed`, `scheduler_restarted`,
`db_slow_write` and `no_leader`.
