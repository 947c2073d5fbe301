---------------------------- MODULE WorkerAgent ----------------------------
(***************************************************************************)
(* One worker: the daemon's connection loop (transport/agent_daemon.py),   *)
(* its first enrollment against the coordinator's Enroll handler, the      *)
(* control thread that takes envelopes, the executor's threads that run    *)
(* jobs through the ONE GCONAgent they share (execution/agent.py), and the *)
(* job processes and containers themselves.                                *)
(*                                                                         *)
(* The agent is shared state: execute_job sets agent.process and           *)
(* agent.current for its own run and reads them back later, while the      *)
(* executor may be running other jobs.  The coordinator gives a worker one *)
(* job at a time, but a worker that reconnects in mid-job looks idle to it.*)
(*                                                                         *)
(* A run is one handling of one JobAssign.  Its process has two parts: the *)
(* command that Popen started (the shell or the docker CLI) and the work   *)
(* below it (what the shell spawned, or the container).                    *)
(*                                                                         *)
(* The coordinator's side of enrollment and of the TLS handshake is module *)
(* Certificates, which this one composes with the worker.                  *)
(***************************************************************************)
EXTENDS Certificates

CONSTANTS
    Jobs,          \* job ids
    MaxRuns,       \* bound: assignments
    MaxSessions,   \* bound: registrations
    MaxUses,       \* enroll_tokens.max_uses of the worker's token
    Threads,       \* ThreadPoolExecutor(max_workers=4)
    CaOnDisk,      \* the join command installed ca.cert.pem (else --enroll-insecure)
    Docker         \* GCON_EXECUTION_BACKEND = docker (else subprocess)

ASSUME BoundsAreNumbers ==
    {MaxRuns, MaxSessions, MaxUses, Threads} \subseteq Nat
ASSUME SwitchesAreBooleans == {CaOnDisk, Docker} \subseteq BOOLEAN
ASSUME JobsHaveIds == "none" \notin Jobs

Runs == 1..MaxRuns
NoRun == 0
MaxAsks == Cardinality(Asks)
Provisioned == MaxAsks + 1   \* number of a certificate that was put on the worker by hand

VARIABLES
    loop,      \* where run_forever and _connect_and_serve are
    disk,      \* the files in its cert_dir: which key, which certificate, by whom, which CA
    ask,       \* the last enrollment request, and the number of its key
    request,   \* the Enroll handlers of the coordinator, one per request
    given,     \* what an Enroll answer holds: who signed the certificate, which CA comes along
    uses,      \* enroll_tokens.uses
    lapsed,    \* the token has expired, or staff revoked it
    session,   \* number of the last registration; a session's token and queue
    inbox,     \* envelopes on the control stream, coordinator to worker
    outbound,  \* the session's queue of results, worker to coordinator
    hand,      \* _handle_coordinator_envelope between its statements
    run,       \* the runs: job, session, where its thread is, what it waits on, its result
    hooked,    \* runs whose future has the _forget callback
    active,    \* daemon._active_jobs
    agent,     \* GCONAgent: process, current job
    cmd,       \* what Popen started, per run
    work,      \* runs whose work (container, process tree) is alive
    shared,    \* history: runs that shared the agent with another run
    missed,    \* history: runs whose container a docker kill failed to kill
    free,      \* the coordinator believes the worker idle
    got        \* runs whose result the coordinator received

vars == <<loop, disk, ask, request, given, uses, lapsed, session, inbox, outbound, hand,
          run, hooked, active, agent, cmd, work, shared, missed, free, got, spare, certVars>>
enrollVars == <<disk, ask, request, given, uses, lapsed>>
runVars == <<run, hooked, active, agent, cmd, work, shared, missed>>
linkVars == <<session, inbox, outbound, hand, free, got>>

Init ==
    /\ CertInit /\ spare \in Loads
    /\ IF spare.provisioned = 1
         THEN loop = "connect" /\ disk = [key |-> Provisioned, cert |-> Provisioned, by |-> 1, ca |-> 1]
         ELSE loop = "join" /\ disk = [key |-> 0, cert |-> 0, by |-> 0, ca |-> 0]
    /\ ask = 0 /\ request = [a \in Asks |-> "none"] /\ uses = 0 /\ lapsed = FALSE
    /\ given = [a \in Asks |-> [by |-> 0, ca |-> 0]]
    /\ session = 0 /\ inbox = <<>> /\ outbound = <<>> /\ hand = [at |-> "idle", run |-> NoRun]
    /\ run = [r \in Runs |-> [job |-> "none", session |-> 0, at |-> "none", on |-> NoRun, result |-> "none"]]
    /\ hooked = {} /\ active = [j \in Jobs |-> NoRun]
    /\ agent = [process |-> NoRun, current |-> "none"]
    /\ cmd = [r \in Runs |-> "none"] /\ work = {} /\ shared = {} /\ missed = {}
    /\ free = FALSE /\ got = {}

Fault == Spend("faults")

---------------------------------------------------------------------------
(* The connection loop: enroll if needed, register, serve, back off.        *)

Enrolled == disk.cert # 0 /\ disk.ca # 0

\* An exception anywhere in _connect_and_serve reaches run_forever.
Raise == loop' = "backoff"

\* The join command: read_ca on the coordinator, install_ca on the worker.
Join ==
    /\ loop = "join"
    /\ CaOnDisk => HasCert("ca")
    /\ loop' = "connect"
    /\ disk' = [disk EXCEPT !.ca = IF CaOnDisk THEN Authority ELSE 0]
    /\ UNCHANGED <<ask, request, given, uses, lapsed, linkVars, runVars, spare, certVars>>

\* The enroll port is up, and is verified against the CA the worker was given
\* (not at all without one).
EnrollPortTrusted == enrollBy # 0 /\ (CaOnDisk => disk.ca = enrollBy)

\* _connect_and_serve up to its first remote call: a certificate on disk goes
\* straight to Register, otherwise a new key is made and Enroll is called.
Connect ==
    /\ loop = "connect"
    /\ \/ /\ Enrolled
          /\ loop' = "register"
          /\ UNCHANGED <<ask, request>>
       \/ /\ ~Enrolled /\ EnrollPortTrusted
          /\ ask < MaxAsks
          /\ ask' = ask + 1
          /\ request' = [request EXCEPT ![ask + 1] = "asked"]
          /\ loop' = "enroll"
       \/ /\ ~Enrolled /\ ~EnrollPortTrusted
          /\ Raise
          /\ UNCHANGED <<ask, request>>
    /\ UNCHANGED <<disk, given, uses, lapsed, linkVars, runVars, spare, certVars>>

\* The token's time is over, or EnrollTokenRepository.revoke.  (For a token that is
\* used up it makes no difference.)
Lapse ==
    /\ ~lapsed /\ uses < MaxUses /\ Fault
    /\ lapsed' = TRUE
    /\ UNCHANGED <<loop, disk, ask, request, given, uses, linkVars, runVars, certVars>>

\* EnrollTokenRepository.unusable_reason, or a token that is revoked
Unusable == lapsed \/ uses >= MaxUses

\* Enroll up to the signature: a token that is no longer good is refused.  The other
\* refusals (too many requests, a name that is taken, the plan's cap, a bad CSR) are
\* answered alike; this worker's requests give no cause for them.
EnrollCheck(a) ==
    /\ request[a] = "asked"
    /\ \/ Unusable /\ request' = [request EXCEPT ![a] = "refused"] /\ UNCHANGED thread
       \/ /\ ~Unusable /\ request' = [request EXCEPT ![a] = "signing"]
          /\ thread' = [thread EXCEPT ![a].todo = Signing]
    /\ UNCHANGED <<loop, disk, ask, given, uses, lapsed, linkVars, runVars, spare, file, bundle, manifest,
                   plain, made, enrollBy, revoked, pruned>>

\* EnrollTokenRepository.consume: one atomic conditional UPDATE.
Consumes == ~lapsed /\ uses < MaxUses

\* Enroll after the signature: the certificate is given out only if the use counts,
\* and with the CA of that moment.  A file that is not there makes the call fail.
EnrollGive(a) ==
    /\ request[a] = "signing" /\ ~Working(a)
    /\ LET signed == thread[a].by # 0
           answered == signed /\ Consumes /\ HasCert("ca")
       IN /\ uses' = IF signed /\ Consumes THEN uses + 1 ELSE uses
          /\ request' = [request EXCEPT ![a] = IF answered THEN "given" ELSE "refused"]
          /\ given' = IF answered THEN [given EXCEPT ![a] = [by |-> thread[a].by, ca |-> Authority]] ELSE given
    /\ UNCHANGED <<loop, disk, ask, lapsed, linkVars, runVars, spare, certVars>>

\* The answer arrives, or the call's 15 seconds are over before it does.
EnrollAnswer ==
    /\ loop = "enroll"
    /\ \/ request[ask] = "given" /\ loop' = "key" /\ UNCHANGED spare
       \/ request[ask] = "refused" /\ Raise /\ UNCHANGED spare
       \/ request[ask] # "refused" /\ Raise /\ Fault
    /\ UNCHANGED <<enrollVars, linkVars, runVars, certVars>>

\* Mutant: the certificate is written before its key
WriteFilesCertFirst ==
    /\ \/ loop = "key" /\ disk' = [disk EXCEPT !.cert = ask, !.by = given[ask].by] /\ loop' = "cert"
       \/ loop = "cert" /\ disk' = [disk EXCEPT !.key = ask] /\ loop' = "ca"
       \/ loop = "ca" /\ disk' = [disk EXCEPT !.ca = given[ask].ca] /\ loop' = "register"
    /\ UNCHANGED <<ask, request, given, uses, lapsed, linkVars, runVars, spare, certVars>>

\* The end of _ensure_enrolled: three files, written one after the other.
WriteFiles ==
    /\ \/ loop = "key" /\ disk' = [disk EXCEPT !.key = ask] /\ loop' = "cert"
       \/ loop = "cert" /\ disk' = [disk EXCEPT !.cert = ask, !.by = given[ask].by] /\ loop' = "ca"
       \/ loop = "ca" /\ disk' = [disk EXCEPT !.ca = given[ask].ca] /\ loop' = "register"
    /\ UNCHANGED <<ask, request, given, uses, lapsed, linkVars, runVars, spare, certVars>>

\* A new connection: the server fetches its credentials.
Dial ==
    /\ loop = "register"
    /\ \/ /\ enrollBy # 0 /\ ~Working(Server)
          /\ loop' = "shake"
          /\ thread' = [thread EXCEPT ![Server].todo = Fetch]
       \/ enrollBy = 0 /\ Raise /\ UNCHANGED thread
    /\ UNCHANGED <<enrollVars, linkVars, runVars, spare, file, bundle, manifest, plain, made,
                   enrollBy, revoked, pruned>>

\* The handshake, and the checks of the Register handler: the worker knows one
\* authority, the server all that are not pruned.
Presentable == HasKey("coordinator") /\ file.coordinator.cert.of = file.coordinator.key
Accepted ==
    /\ Presentable /\ file.coordinator.cert.by = disk.ca
    /\ disk.by \in Roots
    /\ ~(revoked /\ disk.cert = Provisioned)

\* Two authorities of one name: the one that is tried may be the wrong one.
Ambiguous == \E g \in Roots \ {disk.by} : {g, disk.by} \subseteq plain

\* Register: a new session with its own token and queue, or a failed call.
Register ==
    /\ loop = "shake" /\ ~Working(Server)
    /\ \/ /\ Accepted
          /\ session < MaxSessions
          /\ session' = session + 1
          /\ inbox' = <<>> /\ outbound' = <<>>
          /\ free' = TRUE
          /\ loop' = "serve"
          /\ UNCHANGED <<hand, got, spare>>
       \/ (~Accepted \/ Ambiguous) /\ Raise /\ UNCHANGED <<linkVars, spare>>
       \/ Raise /\ Fault /\ UNCHANGED linkVars
    /\ UNCHANGED <<enrollVars, runVars, certVars>>

\* The wait of run_forever's except branch; how long it lasts is left out.
BackOff ==
    /\ loop = "backoff"
    /\ loop' = "connect"
    /\ UNCHANGED <<enrollVars, linkVars, runVars, spare, certVars>>

\* The control stream is gone, with what was on it: closed by the coordinator
\* (the loop connects again at once) or broken (an exception).
\* The control thread itself notices, so it is between two envelopes.
StreamLost ==
    /\ loop = "serve" /\ hand.at = "idle"
    /\ Fault
    /\ loop' = "connect" \/ Raise
    /\ inbox' = <<>> /\ outbound' = <<>>
    /\ free' = FALSE
    /\ UNCHANGED <<enrollVars, session, hand, got, runVars, certVars>>

\* AgentDaemon.stop, from the signal handler of run_worker: with _stop set
\* request_generator returns, which ends the stream, and run_forever's loop ends.
\* The executor's threads go on: stop waits for them.
Stop ==
    /\ loop \notin {"join", "over"} /\ hand.at = "idle"
    /\ loop' = "over"
    /\ inbox' = <<>> /\ outbound' = <<>>
    /\ free' = FALSE
    /\ UNCHANGED <<enrollVars, session, hand, got, runVars, spare, certVars>>

---------------------------------------------------------------------------
(* The coordinator's side of the stream, as far as the worker depends on it.*)

\* send_job to a worker it believes idle: the next run, of any job.
Assign(r, j) ==
    /\ loop = "serve" /\ free
    /\ r = Cardinality({q \in Runs : run[q].job # "none"}) + 1
    /\ Spend("runs")
    /\ run' = [run EXCEPT ![r].job = j, ![r].session = session]
    /\ inbox' = Append(inbox, [kind |-> "assign", job |-> j, run |-> r])
    /\ free' = FALSE
    /\ UNCHANGED <<loop, enrollVars, session, outbound, hand, got, hooked, active, agent, cmd, work, shared, missed, certVars>>

\* cancel_job for a job that was sent on this session.
CancelJob(j) ==
    /\ loop = "serve"
    /\ \E r \in Runs : run[r].job = j /\ run[r].session = session
    /\ Spend("cuts")
    /\ inbox' = Append(inbox, [kind |-> "cancel", job |-> j, run |-> NoRun])
    /\ UNCHANGED <<loop, enrollVars, session, outbound, hand, free, got, runVars, certVars>>

\* request_generator yields the head of the queue and the coordinator takes it.
Send ==
    /\ loop = "serve" /\ outbound # <<>>
    /\ got' = got \union {Head(outbound)}
    /\ outbound' = Tail(outbound)
    /\ free' = TRUE
    /\ UNCHANGED <<loop, enrollVars, session, inbox, hand, runVars, spare, certVars>>

---------------------------------------------------------------------------
(* _handle_coordinator_envelope, statement by statement.                    *)

\* job_assign, first statement: executor.submit
Submit ==
    /\ loop = "serve" /\ hand.at = "idle" /\ inbox # <<>> /\ Head(inbox).kind = "assign"
    /\ run' = [run EXCEPT ![Head(inbox).run].at = "queued"]
    /\ hand' = [at |-> "track", run |-> Head(inbox).run]
    /\ inbox' = Tail(inbox)
    /\ UNCHANGED <<loop, enrollVars, session, outbound, free, got, hooked, active, agent, cmd, work, shared, missed, spare, certVars>>

\* job_assign, second statement: the entry in _active_jobs
Track ==
    /\ hand.at = "track"
    /\ active' = [active EXCEPT ![run[hand.run].job] = hand.run]
    /\ hand' = [hand EXCEPT !.at = "hook"]
    /\ UNCHANGED <<loop, enrollVars, session, inbox, outbound, free, got, run, hooked, agent, cmd, work, shared, missed, spare, certVars>>

Over(r) == run[r].at \in {"callback", "ended", "lost"}

\* _forget: remove the entry, but only this attempt's own
Forgotten(r) == [active EXCEPT ![run[r].job] = IF @ = r THEN NoRun ELSE @]

\* Mutant: the callback is added without looking whether the job is over
HookUnchecked ==
    /\ hand.at = "hook"
    /\ hooked' = hooked \union {hand.run}
    /\ hand' = [at |-> "idle", run |-> NoRun]
    /\ UNCHANGED <<loop, enrollVars, session, inbox, outbound, free, got, run, active, agent, cmd, work, shared, missed, spare, certVars>>

\* job_assign, last statement: add_done_callback, which runs at once if the future is over
Hook ==
    /\ hand.at = "hook"
    /\ IF Over(hand.run)
         THEN active' = Forgotten(hand.run) /\ UNCHANGED hooked
         ELSE hooked' = hooked \union {hand.run} /\ UNCHANGED active
    /\ hand' = [at |-> "idle", run |-> NoRun]
    /\ UNCHANGED <<loop, enrollVars, session, inbox, outbound, free, got, run, agent, cmd, work, shared, missed, spare, certVars>>

Up(r) == r # NoRun /\ cmd[r] = "up"

\* A container is named after its job, so two runs of a job share the name.
Named(j) == {r \in work : run[r].job = j}

\* What a docker kill of the container named after job j is aimed at: whichever run
\* it belongs to
Containers(j) == IF Docker THEN Named(j) ELSE {}

\* kill_container, which kills K.  It may fail, or not answer in its 15 seconds: both
\* callers go on as if it had worked.
KillContainer(j, K) ==
    /\ K \in {Containers(j), {}}
    /\ missed' = missed \union (Containers(j) \ K)

\* What is left of the commands when containers K are killed and command p gets
\* a signal: a docker CLI reports its container's death, a killed one is killed.
CmdAfter(K, p) == [r \in Runs |-> CASE r = p /\ cmd[r] = "up" -> "killed"
                                    [] r # p /\ r \in K /\ cmd[r] = "up" -> "bad"
                                    [] OTHER -> cmd[r]]

\* job_cancel, with all of GCONAgent.cancel: if the table has the job, kill what
\* agent.process is, provided it is still running; killpg takes the whole tree.
\* The two seconds it waits for a first process may pass without one.
Cancel ==
    /\ loop = "serve" /\ hand.at = "idle" /\ inbox # <<>> /\ Head(inbox).kind = "cancel"
    /\ inbox' = Tail(inbox)
    /\ IF active[Head(inbox).job] # NoRun /\ Up(agent.process)
         THEN \E K \in SUBSET work :
              /\ KillContainer(agent.current, K)
              /\ cmd' = CmdAfter(K, agent.process)
              /\ work' = work \ (K \union (IF Docker THEN {} ELSE {agent.process}))
         ELSE UNCHANGED <<cmd, work, missed>>
    /\ UNCHANGED <<loop, enrollVars, session, outbound, hand, free, got, run, hooked, active, agent, shared, spare, certVars>>

---------------------------------------------------------------------------
(* The threads of the executor: _run_job around execute_job.                *)

Inside(r) == run[r].at \in {"begin", "attach", "wait", "pop"}
Busy == {r \in Runs : Inside(r) \/ run[r].at = "put"}

Goto(r, place) == run' = [run EXCEPT ![r].at = place]
Ends(r, result) == run' = [run EXCEPT ![r].at = "pop", ![r].on = NoRun, ![r].result = result]

\* A thread takes the run; _execute_job notes it in the agent.
Start(r) ==
    /\ run[r].at = "queued" /\ Cardinality(Busy) < Threads
    /\ Goto(r, "begin")
    /\ agent' = [agent EXCEPT !.current = run[r].job]
    /\ LET others == {q \in Runs : Inside(q)} IN
       shared' = IF others = {} THEN shared ELSE shared \union others \union {r}
    /\ UNCHANGED <<loop, enrollVars, linkVars, hooked, active, cmd, work, missed, spare, certVars>>

\* docker run --name: the container does not start while its name is taken
NameTaken(j) == Docker /\ Named(j) # {}

\* Popen.  A program that is not there, or a host path under docker, raises; a
\* container whose name is taken by an older one of the same job does not start.
Spawn(r) ==
    /\ run[r].at = "begin"
    /\ \/ /\ Goto(r, "attach")
          /\ agent' = [agent EXCEPT !.process = r]
          /\ IF NameTaken(run[r].job)
               THEN cmd' = [cmd EXCEPT ![r] = "bad"] /\ UNCHANGED work
               ELSE cmd' = [cmd EXCEPT ![r] = "up"] /\ work' = work \union {r}
       \/ /\ Ends(r, "error")
          /\ UNCHANGED <<agent, cmd, work>>
    /\ UNCHANGED <<loop, enrollVars, linkVars, hooked, active, shared, missed, spare, certVars>>

\* The readers and the wait take agent.process as it is now.
Attach(r) ==
    /\ run[r].at = "attach"
    /\ run' = [run EXCEPT ![r].at = "wait", ![r].on = agent.process]
    /\ UNCHANGED <<loop, enrollVars, linkVars, hooked, active, agent, cmd, work, shared, missed, spare, certVars>>

\* The status of the result: returncode of agent.process as it is then
Outcome(r) == IF cmd[agent.process] = "ok" THEN "success" ELSE "failed"

\* The pipes are at their end: the CLI held them, or everything below the shell
PipesClosed(r) == ~Up(r) /\ (Docker \/ r \notin work)

\* wait() returns and the readers are joined; the normal result.
Finish(r) ==
    /\ run[r].at = "wait" /\ PipesClosed(run[r].on)
    /\ Ends(r, Outcome(r))
    /\ UNCHANGED <<loop, enrollVars, linkVars, hooked, active, agent, cmd, work, shared, missed, spare, certVars>>

\* Mutant: the timeout kills the command it started and leaves the container
ExpireCommandOnly(r) ==
    /\ run[r].at = "wait"
    /\ Spend("cuts")
    /\ Ends(r, "timeout")
    /\ cmd' = CmdAfter({}, agent.process) /\ UNCHANGED work
    /\ UNCHANGED <<loop, enrollVars, linkVars, hooked, active, agent, shared, missed, certVars>>

\* TimeoutExpired: docker kill by this job's name, then kill() of agent.process,
\* which is the command alone and not what it started.
Expire(r) ==
    /\ run[r].at = "wait"
    /\ Spend("cuts")
    /\ Ends(r, "timeout")
    /\ \E K \in SUBSET work :
       /\ KillContainer(run[r].job, K)
       /\ cmd' = CmdAfter(K, agent.process)
       /\ work' = work \ K
    /\ UNCHANGED <<loop, enrollVars, linkVars, hooked, active, agent, shared, certVars>>

\* The finally of _run_job: the table's entry for the job, whoever's it is.
Pop(r) ==
    /\ run[r].at = "pop"
    /\ Goto(r, "put")
    /\ active' = [active EXCEPT ![run[r].job] = NoRun]
    /\ UNCHANGED <<loop, enrollVars, linkVars, hooked, agent, cmd, work, shared, missed, spare, certVars>>

\* Mutant: only a job that is still in the table is reported
PutListedOnly(r) ==
    /\ run[r].at = "put"
    /\ Goto(r, IF r \in hooked THEN "callback" ELSE "ended")
    /\ outbound' = IF active[run[r].job] = r /\ loop = "serve" THEN Append(outbound, r) ELSE outbound
    /\ UNCHANGED <<loop, enrollVars, session, inbox, hand, free, got, hooked, active, agent, cmd, work, shared, missed, spare, certVars>>

\* _report_result: the result goes on the queue of the session the job came on;
\* after a reconnect nobody reads that queue any more.  With it the future is over.
Put(r) ==
    /\ run[r].at = "put"
    /\ Goto(r, IF r \in hooked THEN "callback" ELSE "ended")
    /\ outbound' = IF run[r].session = session /\ loop = "serve" THEN Append(outbound, r) ELSE outbound
    /\ UNCHANGED <<loop, enrollVars, session, inbox, hand, free, got, hooked, active, agent, cmd, work, shared, missed, spare, certVars>>

\* The done-callback of a future that had one when it ended.
Callback(r) ==
    /\ run[r].at = "callback"
    /\ Goto(r, "ended")
    /\ active' = Forgotten(r)
    /\ UNCHANGED <<loop, enrollVars, linkVars, hooked, agent, cmd, work, shared, missed, spare, certVars>>

---------------------------------------------------------------------------
(* The job processes, and the death of the worker process.                  *)

\* The work ends by itself, and with it the command that waits for it.
Exit(r, code) ==
    /\ r \in work
    /\ work' = work \ {r}
    /\ cmd' = [cmd EXCEPT ![r] = IF @ = "up" THEN code ELSE @]
    /\ UNCHANGED <<loop, enrollVars, linkVars, run, hooked, active, agent, shared, missed, spare, certVars>>

\* The worker dies and is started again: what Popen started lives on (its own
\* session, its own container), everything in memory is gone.
Crash ==
    /\ loop \notin {"join", "over"}
    /\ Fault
    /\ loop' = "connect"
    /\ inbox' = <<>> /\ outbound' = <<>> /\ hand' = [at |-> "idle", run |-> NoRun]
    /\ free' = FALSE
    /\ run' = [r \in Runs |-> IF run[r].at = "none" THEN run[r] ELSE [run[r] EXCEPT !.at = "lost"]]
    /\ hooked' = {} /\ active' = [j \in Jobs |-> NoRun]
    /\ agent' = [process |-> NoRun, current |-> "none"]
    /\ UNCHANGED <<enrollVars, session, got, cmd, work, shared, missed, certVars>>

\* The coordinator dies and starts again: calls in progress fail, streams end.
Outage ==
    /\ enrollBy # 0 /\ hand.at = "idle"
    /\ Spend("restarts")
    /\ RestartServer
    /\ request' = [a \in Asks |-> IF request[a] \in {"asked", "signing"} THEN "refused" ELSE request[a]]
    /\ loop' = IF loop \in {"serve", "shake"} THEN "backoff" ELSE loop
    /\ inbox' = <<>> /\ outbound' = <<>> /\ free' = FALSE
    /\ UNCHANGED <<disk, ask, given, uses, lapsed, session, hand, got, runVars>>

---------------------------------------------------------------------------

RunStep(r) == Start(r) \/ Spawn(r) \/ Attach(r) \/ Finish(r) \/ Pop(r) \/ Put(r) \/ Callback(r)
HandStep == Submit \/ Track \/ Hook \/ Cancel

Next ==
    \/ Join \/ Connect \/ EnrollAnswer \/ WriteFiles \/ Dial \/ Register \/ BackOff
    \/ StreamLost \/ Stop \/ Send \/ Crash \/ Outage \/ Lapse
    \/ \E a \in Asks : EnrollCheck(a) \/ EnrollGive(a)
    \/ CertNext /\ UNCHANGED <<loop, enrollVars, linkVars, runVars>>
    \/ \E r \in Runs, j \in Jobs : Assign(r, j)
    \/ \E j \in Jobs : CancelJob(j)
    \/ HandStep
    \/ \E r \in Runs : RunStep(r) \/ Expire(r)
    \/ \E r \in Runs, code \in {"ok", "bad"} : Exit(r, code)

\* Threads of one Python process run; a process whose work is done ends; the
\* queue's reader runs while the session does.
Fairness ==
    /\ WF_vars(HandStep) /\ WF_vars(Send)
    /\ \A r \in Runs : WF_vars(RunStep(r)) /\ WF_vars(Exit(r, "ok") \/ Exit(r, "bad"))

Spec == Init /\ [][Next]_vars /\ Fairness
---------------------------------------------------------------------------

\* _active_jobs, which the heartbeat, the cancel and the clean-up go by, tells the
\* truth: an entry of a run that is over is about to be removed (the handler or the
\* callback still has it in hand), so a worker never reports busy for ever; and a run
\* in progress has its entry, unless another attempt of the same job came to this worker.
TableIsTrue ==
    /\ \A j \in Jobs : LET r == active[j] IN
         r # NoRun /\ Over(r) => run[r].at = "callback" \/ hand.run = r
    /\ \A r \in Runs : run[r].at \in {"queued", "begin", "attach", "wait", "pop"} /\ hand.run # r =>
         active[run[r].job] = r \/ \E q \in Runs \ {r} : run[q].job = run[r].job

Reported(r) == run[r].at \in {"pop", "put", "callback", "ended"}

\* A run that never shared the agent with another one reports what its own command
\* did, and on the docker backend its container is gone when it reports, unless the
\* docker kill of that container itself failed, whatever cancels, timeouts,
\* reconnects and earlier runs there were.
AloneIsFaithful ==
    \A r \in Runs \ shared : Reported(r) =>
        /\ run[r].result = "success" => cmd[r] = "ok"
        /\ run[r].result = "failed" => cmd[r] \in {"bad", "killed"}
        /\ Docker /\ r \in work => r \in missed

\* "Explicit `docker kill` by name is the real stop here": a run that was alone never
\* reports with its container alive.  When that command fails nobody notices.
NoContainerLeft == \A r \in Runs \ shared : Docker /\ Reported(r) => r \notin work

\* Enroll and _ensure_enrolled together: however requests, timeouts and crashes fall,
\* a token gives out no more certificates than it has uses, and a worker that
\* counts as enrolled has the certificate of the key on its disk.
EnrollmentHolds ==
    /\ Cardinality({a \in Asks : request[a] = "given"}) <= MaxUses
    /\ Enrolled => disk.key = disk.cert

\* However rotations, prunings, enrollments and a restart of the coordinator are
\* interleaved: every certificate given out (or put on a worker by hand) is signed by
\* an authority that is still trusted, unless that was retired and its grace period is
\* over; a key file and a certificate file that are both there belong together (or the
\* certificate is just being written); and every authority in the bundle is in the manifest, so that
\* it goes one day.
TrustKept ==
    /\ LET signers == {given[a].by : a \in {a \in Asks : request[a] = "given"}} \cup ({disk.by} \ {0})
       IN signers \subseteq Roots \cup pruned
    /\ \A f \in DOMAIN file : HasKey(f) /\ HasCert(f) =>
         file[f].cert.of = file[f].key \/ \E t \in Hands : Doing(t, "cert") /\ Head(Todo(t)).file = f
    /\ bundle \ {Authority} \subseteq {e.ca : e \in manifest}

\* A job that was handed to the worker is answered, as long as its session and the
\* worker live: no thread waits for ever and no result is dropped.
EveryRunAnswered ==
    \A r \in Runs : run[r].at = "queued" ~>
        (r \in got \/ run[r].at = "lost" \/ run[r].session # session \/ loop # "serve")
=============================================================================
