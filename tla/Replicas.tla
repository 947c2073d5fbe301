------------------------------ MODULE Replicas ------------------------------
(***************************************************************************)
(* A replicated ("verify") job: _assign_replicated_job claims N workers,   *)
(* _run_replicated_job runs the job on all of them, compares the outputs   *)
(* (execution/replication.py), signs one receipt per replica and ends the  *)
(* job with a verdict.  One job.  A group is one dispatch; an old group    *)
(* may still be running when a recovery has started the next one, and      *)
(* `stale' is what keeps it from ending the job.                           *)
(***************************************************************************)
EXTENDS Naturals, Sequences, FiniteSets, FiniteSetsExt

CONSTANTS Nodes,       \* workers
          Outputs,     \* what a replica can print
          N,           \* verify.replicas
          MaxAttempts, \* GCON_MAX_JOB_ATTEMPTS
          MaxGroups,   \* bound on the dispatches of a behaviour
          MaxFaults,   \* bound on lost, silent, removed workers, failed calls, cancellations
          MaxCrashes,  \* bound on restarts of the coordinator
          MaxRaces,    \* bound on groups started while an older one is ending the job
          CrashBeforePersist, \* may the coordinator die with a worker's word in the row?
          None

ASSUME ReplicasAssumption ==
  /\ N \in Nat /\ N >= 2 /\ MaxAttempts \in Nat \ {0} /\ MaxGroups \in Nat \ {0}
  /\ MaxFaults \in Nat /\ MaxCrashes \in Nat /\ MaxRaces \in Nat
  /\ CrashBeforePersist \in BOOLEAN

Groups   == 1..MaxGroups
Replicas == 1..N
Verdicts == {"agreed", "disputed", "unavailable"}
Results  == Outputs \cup {"error"}
RegStatus == {"idle", "busy", "offline", "gone"}

VARIABLES job,      \* the job dict: status, attempt, node, cancel_requested, verify, verdict and result with their groups
          queued,   \* the job's id is on the queue
          asg,      \* assign_job in progress: the nodes claimed so far, and whether recover_jobs called it
          reg,      \* registry status of every node
          up,       \* nodes whose session get_node finds
          calls,    \* nodes whose recover_jobs call has not run yet
          grp,      \* group -> its thread and the threads of its replicas
          attempts, \* durable job_attempts rows, in order: is it still "dispatched"
          row,      \* the durable jobs row
          receipts, \* durable receipts in upload order: group, the agreement they carry
          primary,  \* self.receipts[job_id]: the group it is from
          faults, crashes, races

vars == <<job, queued, asg, reg, up, calls, grp, attempts, row, receipts, primary, faults, crashes, races>>

NoThread == [pc |-> "none", node |-> None, cut |-> FALSE, res |-> "error", id |-> 0]
NoGroup  == [pc |-> "none", att |-> 0, th |-> [i \in Replicas |-> NoThread], ok |-> <<>>, stale |-> FALSE,
             agree |-> FALSE, left |-> {}, first |-> TRUE]
Idle     == [on |-> FALSE, locked |-> FALSE, got |-> <<>>]

Init ==
  /\ job = [st |-> "pending", att |-> 0, node |-> None, cancel |-> FALSE, verify |-> TRUE,
            ver |-> "none", verG |-> 0, resG |-> 0]
  /\ queued = TRUE /\ asg = Idle
  /\ reg = [n \in Nodes |-> "idle"] /\ up = Nodes /\ calls = {}
  /\ grp = [g \in Groups |-> NoGroup]
  /\ attempts = <<>> /\ row = [st |-> "pending", ver |-> "none", verG |-> 0, resG |-> 0]
  /\ receipts = <<>> /\ primary = 0
  /\ faults = 0 /\ crashes = 0 /\ races = 0

Live(g)     == grp[g].pc \notin {"none", "done"}
Used        == {g \in Groups : grp[g].pc # "none"}
OnNode(n)   == \E g \in Groups, i \in Replicas : Live(g) /\ grp[g].th[i].node = n
                                                 /\ grp[g].th[i].pc \in {"send", "wait", "answered", "err", "free"}
Claimed(n)  == \E k \in DOMAIN asg.got : asg.got[k] = n
Fault       == faults < MaxFaults /\ faults' = faults + 1

\* registry.heartbeat(n, s) by the coordinator: never ignored, ValueError for a removed node.
Mark(r, n, s) == IF r[n] = "gone" THEN r ELSE [r EXCEPT ![n] = s]

-----------------------------------------------------------------------------
(* assign_job and _assign_replicated_job.                                  *)

\* The scheduler pops the id; assign_job skips a job that is not pending.
Pop ==
  /\ queued /\ ~asg.on /\ job.verify /\ queued' = FALSE
  /\ asg' = IF job.st = "pending" THEN [Idle EXCEPT !.on = TRUE] ELSE asg
  /\ UNCHANGED <<job, reg, up, calls, grp, attempts, row, receipts, primary, faults, crashes, races>>

\* One select_node: an idle, connected node is claimed under the registry's lock.
Claim ==
  /\ asg.on /\ Len(asg.got) < N
  /\ \E n \in Nodes :
       /\ reg[n] = "idle" /\ n \in up
       /\ reg' = [reg EXCEPT ![n] = "busy"]
       /\ asg' = [asg EXCEPT !.got = Append(@, n)]
  /\ UNCHANGED <<job, queued, up, calls, grp, attempts, row, receipts, primary, faults, crashes, races>>

\* The registry after the nodes in `ns' were given back.
Released(ns) == [n \in Nodes |-> IF n \in ns /\ reg[n] # "gone" THEN "idle" ELSE reg[n]]

\* Too few nodes: everything claimed is released and the caller queues the job again.
Short ==
  /\ asg.on /\ Len(asg.got) < N /\ \A n \in Nodes : reg[n] # "idle" \/ n \notin up
  /\ reg' = Released({asg.got[k] : k \in DOMAIN asg.got})
  /\ asg' = Idle /\ queued' = TRUE
  /\ UNCHANGED <<job, up, calls, grp, attempts, row, receipts, primary, faults, crashes, races>>

\* Mutant: the caller is not told, and does not queue the job again.
RemovedDrops ==
  /\ asg.on /\ Len(asg.got) = N
  /\ \E k \in DOMAIN asg.got : reg[asg.got[k]] = "gone"
  /\ reg' = Released({asg.got[k] : k \in DOMAIN asg.got})
  /\ asg' = Idle
  /\ UNCHANGED <<job, queued, up, calls, grp, attempts, row, receipts, primary, faults, crashes, races>>

\* All N are claimed and marked busy once more; one that was removed meanwhile
\* sends the others back.
Removed ==
  /\ asg.on /\ Len(asg.got) = N
  /\ \E k \in DOMAIN asg.got : reg[asg.got[k]] = "gone"
  /\ reg' = Released({asg.got[k] : k \in DOMAIN asg.got})
  /\ asg' = Idle /\ queued' = TRUE
  /\ UNCHANGED <<job, up, calls, grp, attempts, row, receipts, primary, faults, crashes, races>>

\* A group between its staleness check and its last write.
Deciding(g) == grp[g].pc \in {"failing", "compare", "sign", "final"} /\ ~grp[g].stale

\* The group starts.  assign_job looked at the status long before: a group that
\* still took itself for the current one may be ending the job (MaxRaces).
Launch ==
  /\ asg.on /\ Len(asg.got) = N
  /\ \A k \in DOMAIN asg.got : reg[asg.got[k]] # "gone"
  /\ Used # Groups
  /\ IF job.st = "pending" /\ ~\E g \in Groups : Deciding(g) THEN UNCHANGED races
     ELSE races < MaxRaces /\ races' = races + 1
  /\ LET g == Cardinality(Used) + 1 IN
     /\ grp' = [grp EXCEPT ![g] = [NoGroup EXCEPT !.pc = "run", !.att = job.att + 1,
                  !.th = [i \in Replicas |-> [NoThread EXCEPT !.pc = "send", !.node = asg.got[i]]]]]
     /\ job' = [job EXCEPT !.st = "running", !.att = @ + 1, !.node = asg.got[1]]
  /\ reg' = [n \in Nodes |-> IF Claimed(n) THEN "busy" ELSE reg[n]]
  /\ asg' = Idle
  /\ UNCHANGED <<queued, up, calls, attempts, row, receipts, primary, faults, crashes>>

-----------------------------------------------------------------------------
(* run_one: the thread of one replica.                                     *)

Step(g, i, pc) == grp' = [grp EXCEPT ![g].th[i].pc = pc]

\* send_job: no session, no attempt row.
Send(g, i) ==
  /\ grp[g].th[i].pc = "send"
  /\ LET n == grp[g].th[i].node IN
     IF n \in up
     THEN /\ attempts' = Append(attempts, TRUE)
          /\ grp' = [grp EXCEPT ![g].th[i].pc = "wait", ![g].th[i].id = Len(attempts) + 1]
     ELSE Step(g, i, "err") /\ UNCHANGED attempts
  /\ UNCHANGED <<job, queued, asg, reg, up, calls, row, receipts, primary, faults, crashes, races>>

\* The worker's JobResult: the servicer closes the attempt's row and wakes the thread.
Answer(g, i) ==
  /\ grp[g].th[i].pc = "wait" /\ ~grp[g].th[i].cut
  /\ \E r \in Results : grp' = [grp EXCEPT ![g].th[i].pc = "answered", ![g].th[i].res = r]
  /\ attempts' = [attempts EXCEPT ![grp[g].th[i].id] = FALSE]
  /\ UNCHANGED <<job, queued, asg, reg, up, calls, row, receipts, primary, faults, crashes, races>>

\* send_job stores the worker's own word if this is still the job's last attempt row.
Store(g, i) ==
  /\ grp[g].th[i].pc = "answered" /\ Step(g, i, "free")
  /\ row' = IF grp[g].th[i].id = Len(attempts)
            THEN [row EXCEPT !.st = IF grp[g].th[i].res = "error" THEN "error" ELSE "success",
                             !.ver = "none", !.verG = 0, !.resG = g]
            ELSE row
  /\ UNCHANGED <<job, queued, asg, reg, up, calls, attempts, receipts, primary, faults, crashes, races>>

\* The session closed under the thread, or nothing came in time.
NoAnswer(g, i) ==
  /\ grp[g].th[i].pc = "wait"
  /\ IF grp[g].th[i].cut THEN UNCHANGED faults ELSE Fault
  /\ Step(g, i, "err")
  /\ UNCHANGED <<job, queued, asg, reg, up, calls, attempts, row, receipts, primary, crashes, races>>

\* The except branch: best-effort cancel, the node shown idle, a failure recorded.
FailOne(g, i) ==
  /\ grp[g].th[i].pc = "err" /\ Step(g, i, "fail")
  /\ reg' = Mark(reg, grp[g].th[i].node, "idle")
  /\ UNCHANGED <<job, queued, asg, up, calls, attempts, row, receipts, primary, faults, crashes, races>>

\* The other branch: a node removed meanwhile raises here, and the thread dies
\* with neither a success nor a failure.
FreeOne(g, i) ==
  /\ grp[g].th[i].pc = "free"
  /\ LET n == grp[g].th[i].node IN
     IF reg[n] = "gone" THEN Step(g, i, "dead") /\ UNCHANGED reg
     ELSE /\ grp' = [grp EXCEPT ![g].th[i].pc = "ok", ![g].ok = Append(@, i)]
          /\ reg' = Mark(reg, n, "idle")
  /\ UNCHANGED <<job, queued, asg, up, calls, attempts, row, receipts, primary, faults, crashes, races>>

-----------------------------------------------------------------------------
(* _run_replicated_job after the join.                                     *)

\* The successes that are no errors, by their places among the successes.
Good(g) == {k \in DOMAIN grp[g].ok : grp[g].th[grp[g].ok[k]].res # "error"}

Unlocked == ~asg.locked   \* recover_jobs holds jobs_lock during its assign_job

Joined(g) == Unlocked /\ grp[g].pc = "run" /\ \A i \in Replicas : grp[g].th[i].pc \in {"ok", "fail", "dead"}

\* Mutant: every group takes itself for the current one.
JoinNeverStale(g) ==
  /\ Joined(g)
  /\ grp' = [grp EXCEPT ![g].pc = IF Good(g) = {} THEN "failing" ELSE "compare"]
  /\ UNCHANGED <<job, queued, asg, reg, up, calls, attempts, row, receipts, primary, faults, crashes, races>>

\* The one staleness check; without a success a stale group is through.
Join(g) ==
  /\ Joined(g)
  /\ LET stale == job.att # grp[g].att IN
     grp' = [grp EXCEPT ![g].stale = stale,
               ![g].pc = IF Good(g) # {} THEN "compare" ELSE IF stale THEN "done" ELSE "failing"]
  /\ UNCHANGED <<job, queued, asg, reg, up, calls, attempts, row, receipts, primary, faults, crashes, races>>

\* All replicas failed.
FailGroup(g) ==
  /\ grp[g].pc = "failing" /\ Unlocked
  /\ job' = [job EXCEPT !.st = IF job.cancel THEN "cancelled" ELSE "failed", !.resG = g]
  /\ grp' = [grp EXCEPT ![g].pc = "persist"]
  /\ UNCHANGED <<queued, asg, reg, up, calls, attempts, row, receipts, primary, faults, crashes, races>>

\* Mutant: one output agrees with itself.
AgreeVacuous(results) == Cardinality({results[k] : k \in DOMAIN results}) <= 1

\* compare_results: at least two results, one output hash.
Agree(results) == Cardinality(DOMAIN results) >= 2 /\ Cardinality({results[k] : k \in DOMAIN results}) <= 1

\* The comparison puts its verdict on the job; if it cannot be made (a call it
\* needs raises) the job says so, unless it already has a verdict.
Compare(g) ==
  /\ grp[g].pc = "compare" /\ Unlocked
  /\ \/ LET a == Agree([k \in Good(g) |-> grp[g].th[grp[g].ok[k]].res]) IN
        /\ grp' = [grp EXCEPT ![g].pc = "sign", ![g].agree = a, ![g].left = Good(g)]
        /\ job' = IF grp[g].stale THEN job
                  ELSE [job EXCEPT !.ver = IF a THEN "agreed" ELSE "disputed", !.verG = g]
        /\ UNCHANGED faults
     \/ /\ Fault /\ grp' = [grp EXCEPT ![g].pc = IF grp[g].stale THEN "done" ELSE "final"]
        /\ job' = IF grp[g].stale \/ job.ver # "none" THEN job ELSE [job EXCEPT !.ver = "unavailable", !.verG = g]
  /\ UNCHANGED <<queued, asg, reg, up, calls, attempts, row, receipts, primary, crashes, races>>

\* create_receipt for the next replica: refused if the worker's certificate is
\* another's; the first one made is the job's receipt, unless the group is
\* stale; a failed upload is logged and forgotten.
Sign(g) ==
  /\ grp[g].pc = "sign" /\ grp[g].left # {}
  /\ \/ /\ grp' = [grp EXCEPT ![g].left = @ \ {Min(@)}, ![g].first = FALSE]
        /\ primary' = IF grp[g].first /\ ~grp[g].stale THEN g ELSE primary
        /\ \/ /\ receipts' = Append(receipts, [g |-> g, agree |-> grp[g].agree])
              /\ UNCHANGED faults
           \/ Fault /\ UNCHANGED receipts
     \/ Fault /\ grp' = [grp EXCEPT ![g].left = @ \ {Min(@)}] /\ UNCHANGED <<primary, receipts>>
  /\ UNCHANGED <<job, queued, asg, reg, up, calls, attempts, row, crashes, races>>

Signed(g) ==
  /\ grp[g].pc = "sign" /\ grp[g].left = {}
  /\ grp' = [grp EXCEPT ![g].pc = IF grp[g].stale THEN "done" ELSE "final"]
  /\ UNCHANGED <<job, queued, asg, reg, up, calls, attempts, row, receipts, primary, faults, crashes, races>>

\* The job is completed in memory, in the table, and announced.
Complete(g) ==
  /\ grp[g].pc = "final" /\ Unlocked
  /\ job' = [job EXCEPT !.st = "completed", !.node = grp[g].th[grp[g].ok[Min(Good(g))]].node, !.resG = g]
  /\ grp' = [grp EXCEPT ![g].pc = "persist"]
  /\ UNCHANGED <<queued, asg, reg, up, calls, attempts, row, receipts, primary, faults, crashes, races>>

\* Mutant: the row keeps the result only.
PersistResultOnly(g) ==
  /\ grp[g].pc = "persist" /\ grp' = [grp EXCEPT ![g].pc = "done"]
  /\ row' = [row EXCEPT !.st = job.st, !.resG = job.resG]
  /\ UNCHANGED <<job, queued, asg, reg, up, calls, attempts, receipts, primary, faults, crashes, races>>

\* _persist_job_status: status and result, with the verdict inside the result.
Persist(g) ==
  /\ grp[g].pc = "persist" /\ grp' = [grp EXCEPT ![g].pc = "done"]
  /\ row' = [st |-> job.st, ver |-> job.ver, verG |-> job.verG, resG |-> job.resG]
  /\ UNCHANGED <<job, queued, asg, reg, up, calls, attempts, receipts, primary, faults, crashes, races>>

-----------------------------------------------------------------------------
(* Recovery, commands, workers and restarts.                               *)

\* recover_jobs(n) under jobs_lock: it looks only at job["node_id"], the first replica's.
Recover(n) ==
  /\ n \in calls /\ ~asg.on /\ calls' = calls \ {n}
  /\ IF job.node # n \/ job.st # "running" THEN UNCHANGED <<job, row, asg, races>>
     ELSE /\ IF \E g \in Groups : Deciding(g) THEN races < MaxRaces /\ races' = races + 1 ELSE UNCHANGED races
          /\ IF job.att >= MaxAttempts
             THEN /\ job' = [job EXCEPT !.st = "failed", !.node = None, !.resG = 0]
                  /\ row' = [st |-> "failed", ver |-> job.ver, verG |-> job.verG, resG |-> 0]
                  /\ UNCHANGED asg
             ELSE /\ job' = [job EXCEPT !.st = "pending", !.node = None]
                  /\ asg' = [Idle EXCEPT !.on = TRUE, !.locked = TRUE] /\ UNCHANGED row
  /\ UNCHANGED <<queued, reg, up, grp, attempts, receipts, primary, faults, crashes>>

\* cancel_job; of a running job it reaches the first replica's worker only.
Cancel ==
  /\ ~job.cancel /\ Fault
  /\ \/ /\ job.st = "pending" /\ Unlocked
        /\ job' = [job EXCEPT !.st = "cancelled", !.cancel = TRUE]
        /\ row' = [row EXCEPT !.st = "cancelled"]
     \/ /\ job.st = "running" /\ job' = [job EXCEPT !.cancel = TRUE] /\ UNCHANGED row
  /\ UNCHANGED <<queued, asg, reg, up, calls, grp, attempts, receipts, primary, crashes, races>>

Cut(n) == [g \in Groups |-> [grp[g] EXCEPT !.th =
             [i \in Replicas |-> IF @[i].node = n /\ @[i].pc = "wait" THEN [@[i] EXCEPT !.cut = TRUE] ELSE @[i]]]]

\* The control stream ends: waiters are woken, the node is offline, its jobs are recovered.
Disconnect(n) ==
  /\ n \in up /\ Fault /\ up' = up \ {n} /\ grp' = Cut(n)
  /\ reg' = Mark(reg, n, "offline")
  /\ calls' = IF reg[n] \in {"gone", "offline"} THEN calls ELSE calls \cup {n}
  /\ UNCHANGED <<job, queued, asg, attempts, row, receipts, primary, crashes, races>>

\* The health sweep gives a silent node up; its stream is still there.
Silent(n) ==
  /\ n \in up /\ reg[n] \in {"idle", "busy"} /\ Fault
  /\ reg' = [reg EXCEPT ![n] = "offline"] /\ calls' = calls \cup {n}
  /\ UNCHANGED <<job, queued, asg, up, grp, attempts, row, receipts, primary, crashes, races>>

\* Its next heartbeat, or a new registration.
Return(n) ==
  /\ reg[n] = "offline" \/ (reg[n] = "gone" /\ n \notin up)
  /\ up' = up \cup {n}
  /\ reg' = [reg EXCEPT ![n] = IF n \in up /\ OnNode(n) THEN "busy" ELSE "idle"]
  /\ UNCHANGED <<job, queued, asg, calls, grp, attempts, row, receipts, primary, faults, crashes, races>>

\* deregister_agent: out of the registry, and nothing else.
Deregister(n) ==
  /\ reg[n] # "gone" /\ Fault /\ reg' = [reg EXCEPT ![n] = "gone"]
  /\ UNCHANGED <<job, queued, asg, up, calls, grp, attempts, row, receipts, primary, crashes, races>>

\* restore_from_persistence: the verify configuration is not in the database;
\* more than one open attempt row is taken for a replicated job and fails it.
\* A row with a worker's word in it (Store, without a Persist after it) is taken
\* for an end.  Receipts are read newest first, each over the one before: the
\* oldest stays.
Restart ==
  /\ crashes < MaxCrashes /\ crashes' = crashes + 1
  /\ CrashBeforePersist \/ row.st \notin {"success", "error"}
  /\ LET open == {k \in DOMAIN attempts : attempts[k]}
         fail == Cardinality(open) > 1 \/ Len(attempts) >= MaxAttempts
         st   == IF row.st \notin {"pending", "running"} THEN row.st ELSE IF fail THEN "failed" ELSE "pending"
     IN  /\ job' = [st |-> st, att |-> Len(attempts), node |-> None, cancel |-> FALSE, verify |-> FALSE,
                    ver |-> row.ver, verG |-> row.verG, resG |-> row.resG]
         /\ queued' = (st = "pending")
         /\ row' = [row EXCEPT !.st = st]
  /\ asg' = Idle /\ calls' = {} /\ up' = {}
  /\ reg' = [n \in Nodes |-> IF reg[n] = "gone" THEN "gone" ELSE "offline"]
  /\ grp' = [g \in Groups |-> IF g \in Used THEN [NoGroup EXCEPT !.pc = "done"] ELSE NoGroup]
  /\ primary' = IF receipts = <<>> THEN 0 ELSE receipts[1].g
  /\ UNCHANGED <<attempts, receipts, faults, races>>

\* A resumed job runs on one node (assign_job, _run_job: module JobLifecycle).
RunPlain ==
  /\ queued /\ ~job.verify /\ job.st = "pending"
  /\ \E n \in up, s \in {"completed", "failed"} :
       /\ reg[n] = "idle"
       /\ job' = [job EXCEPT !.st = s, !.node = n, !.att = @ + 1, !.resG = 0]
       /\ attempts' = Append(attempts, FALSE)
       /\ row' = [row EXCEPT !.st = s, !.resG = 0]
  /\ queued' = FALSE
  /\ UNCHANGED <<asg, reg, up, calls, grp, receipts, primary, faults, crashes, races>>

Runner(g) ==
  \/ \E i \in Replicas : Send(g, i) \/ Answer(g, i) \/ Store(g, i) \/ NoAnswer(g, i) \/ FailOne(g, i) \/ FreeOne(g, i)
  \/ Join(g) \/ FailGroup(g) \/ Compare(g) \/ Sign(g) \/ Signed(g) \/ Complete(g)
  \/ Persist(g)

Next ==
  \/ Pop \/ Claim \/ Short \/ Removed \/ Launch
  \/ \E g \in Groups : Runner(g)
  \/ \E n \in Nodes : Recover(n) \/ Disconnect(n) \/ Silent(n) \/ Return(n) \/ Deregister(n)
  \/ Cancel \/ Restart \/ RunPlain

Spec == Init /\ [][Next]_vars
-----------------------------------------------------------------------------
(* Properties.                                                             *)

\* The state has the shape the code gives it.
TypeOK ==
  /\ job.st \in {"pending", "running", "completed", "failed", "cancelled", "success", "error"}
  /\ job.att \in Nat /\ job.node \in Nodes \cup {None} /\ job.ver \in Verdicts \cup {"none"}
  /\ {job.verG, job.resG, row.verG, row.resG, primary} \subseteq 0..MaxGroups
  /\ reg \in [Nodes -> RegStatus] /\ up \subseteq Nodes /\ calls \subseteq Nodes
  /\ asg.on \in BOOLEAN /\ Len(asg.got) <= N /\ queued \in BOOLEAN
  /\ \A g \in Groups, i \in Replicas :
       /\ grp[g].th[i].pc \in {"none", "send", "wait", "answered", "err", "fail", "free", "ok", "dead"}
       /\ grp[g].th[i].res \in Results /\ grp[g].th[i].id \in 0..Len(attempts)
  /\ faults \in 0..MaxFaults /\ crashes \in 0..MaxCrashes

\* A verdict "agreed", on the job, in its row or inside a stored receipt, was
\* earned: two replicas of that very group really ended well and with the same
\* output (compare_results, build_execution_proof), and no others with another.
\* Up to the first restart: a restart forgets what the replicas printed.
Earned(g) ==
  LET good == {i \in Replicas : grp[g].th[i].pc = "ok" /\ grp[g].th[i].res # "error"}
  IN  Cardinality(good) >= 2 /\ \A i, j \in good : grp[g].th[i].res = grp[g].th[j].res

AgreedIsEarned ==
  crashes = 0 =>
    /\ job.ver = "agreed" => Earned(job.verG)
    /\ row.ver = "agreed" => Earned(row.verG)
    /\ \A k \in DOMAIN receipts : receipts[k].agree => Earned(receipts[k].g)

\* A completed job, its verdict and the receipt shown for it are of one and the
\* same group, in memory and in the table, whatever older groups still run: a
\* late group changes neither (is_stale).
OneStory ==
  /\ job.verify /\ job.st = "completed" => job.verG = job.resG /\ primary \in {0, job.resG}
  /\ row.st = "completed" /\ row.resG # 0 => row.verG = row.resG

\* What the row shows as the job's success: "completed", or the worker's own
\* "success" where a restart has taken it for the job's end.
ShownDone == row.st = "completed" \/ (row.st = "success" /\ ~job.verify)

\* A dispute does not disappear: a completed row carries the verdict of its
\* group, and a job shown as done carries the dispute that any receipt of its
\* group records, also after a restart (_persist_job_status, _job_verification).
\* It does not hold when the process dies between send_job's set_status and
\* _persist_job_status (CrashBeforePersist).
VerdictIsKept ==
  /\ row.st = "completed" /\ row.resG # 0 => row.ver # "none"
  /\ \A k \in DOMAIN receipts :
       ShownDone /\ receipts[k].g = row.resG /\ ~receipts[k].agree => row.ver = "disputed"

\* Nothing is stranded. A busy node is claimed by an assignment in progress or one
\* of a group's threads is still at it (no worker stays busy with nothing on it);
\* a running job has a group of its own attempt that will still end it; a pending
\* one is on the queue or being assigned.
NothingStranded ==
  /\ \A n \in Nodes : reg[n] = "busy" => Claimed(n) \/ OnNode(n)
  /\ job.st = "running" => \E g \in Groups : Live(g) /\ grp[g].att = job.att /\ ~grp[g].stale
  /\ job.st = "pending" => queued \/ asg.on
=============================================================================
