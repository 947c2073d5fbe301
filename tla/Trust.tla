------------------------------- MODULE Trust -------------------------------
(***************************************************************************)
(* Receipts, their verification and what a failed one costs a node         *)
(* (cluster/coordinator.py receive_receipt .. get_receipts,                *)
(* execution/verifier.py, execution/hmac_keyring.py, execution/staking.py, *)
(* persistence/repositories/receipts.py and staking.py).                   *)
(*                                                                         *)
(* Job threads sign receipts and store them; the health thread drains the  *)
(* queue of unverified ones; a dashboard thread that lists the receipts    *)
(* verifies whatever is not verified yet.  The three share one lock for    *)
(* the verdict cache, its two running totals and the queue, and hold it    *)
(* only around single steps: a receipt may be replaced or evicted between  *)
(* the moment a thread picks it up and the moment it records the verdict.  *)
(* An HMAC secret is represented by its key id.  The health thread's       *)
(* record `loop' is shared with module Oversight, which goes on from pc    *)
(* "tick".                                                                 *)
(***************************************************************************)
EXTENDS Integers, Sequences, FiniteSets, SequencesExt

CONSTANTS Jobs, Nodes,
          QuarantineAfter,   \* GCON_QUARANTINE_AFTER_FAILURES; 0 turns it off
          MaxInMemory,       \* _max_receipts_in_memory
          MaxRows,           \* GCON_DB_MAX_RECEIPTS
          SlashDivisor,      \* 1 / GCON_SLASH_FRACTION
          Deposit,           \* what every node has bonded at first
          Policy,            \* policy.json over its defaults
          Metrics,           \* [Jobs -> record]: what a job's proof reports; NotReported if it does not
          NotReported,
          Loads              \* bound: what a behaviour may contain, one record each

ASSUME TrustAssumption ==
    /\ QuarantineAfter \in Nat
    /\ {MaxInMemory, MaxRows, SlashDivisor} \subseteq Nat \ {0}
    /\ Deposit \in Nat

VARIABLES
    spare,        \* what is left of the behaviour's load
    ring,         \* the keyring: the current key and the keys still on file
    rcpt,         \* every receipt ever signed; its index is its identity
    run,          \* [Jobs -> record]: where the job's thread is in _run_job
    receipts,     \* coordinator.receipts, a dict in insertion order
    pending,      \* _pending_receipt_ids
    cache,        \* _receipt_verified_cache; `of' is the receipt that was judged
    count,        \* _verified_receipt_count and _unverified_receipt_count
    rows, marked, \* the receipts table, in upload order, and its verified column
    loop,         \* the health thread
    page,         \* a dashboard thread inside get_receipts
    assurance,    \* _policy_compliant_count and _policy_exception_count
    known,        \* _known_unverified_receipt_ids
    streak,       \* _node_verification_failure_streak
    quarantined,  \* the nodes whose registry entry says so
    stake,        \* node_stakes
    desk          \* an operator's stake request between its read and its write

memoryVars == <<run, receipts, pending, cache, count, page, assurance, known, streak, quarantined, desk>>
trustVars == <<spare, ring, rcpt, memoryVars, rows, marked, stake>>

Spend(what) == spare[what] > 0 /\ spare' = [spare EXCEPT ![what] = @ - 1]

Idle == [pc |-> "idle", key |-> 0, id |-> 0]
NoMark == <<>>
Resting == [pc |-> "rest", todo |-> <<>>, newly |-> <<>>, mark |-> NoMark, seen |-> <<>>,
            firing |-> {}, opening |-> <<>>]
Closed == [todo |-> <<>>, mark |-> NoMark]
NoVerdict == [verdict |-> "none", of |-> 0]

TrustInit ==
    /\ spare \in Loads
    /\ ring = [current |-> 1, live |-> {1}]
    /\ rcpt = <<>>
    /\ run = [j \in Jobs |-> Idle]
    /\ receipts = <<>> /\ pending = <<>>
    /\ cache = [j \in Jobs |-> NoVerdict]
    /\ count = [good |-> 0, bad |-> 0]
    /\ rows = <<>> /\ marked = {}
    /\ loop = Resting /\ page = Closed
    /\ assurance = [compliant |-> 0, exceptions |-> 0]
    /\ known = {}
    /\ streak = [n \in Nodes |-> 0]
    /\ quarantined = {}
    /\ stake = [n \in Nodes |-> [bonded |-> Deposit, unbonding |-> 0, slashed |-> 0]]
    /\ desk = <<>>

-----------------------------------------------------------------------------
(***************************************************************************)
(* The dict of receipts and the keyring.                                   *)
(***************************************************************************)
At(dict, j) == {i \in DOMAIN dict : dict[i].job = j}

\* receipts.get(j): a receipt's identity, 0 for None.
Get(dict, j) == IF At(dict, j) = {} THEN 0 ELSE dict[CHOOSE i \in At(dict, j) : TRUE].id

\* dict[j] = id: a key that is there keeps its place, a new one goes last.
Put(dict, j, id) ==
    IF At(dict, j) = {} THEN Append(dict, [job |-> j, id |-> id])
    ELSE [i \in DOMAIN dict |-> IF dict[i].job = j THEN [job |-> j, id |-> id] ELSE dict[i]]

\* verify_signature with the secret of the key the proof names.
SignatureHolds(id) == rcpt[id].signed = rcpt[id].named

\* A proof names the key it was signed with: it is good when that key is on
\* file and really is the one that signed.
ValidateProof(id) ==
    IF rcpt[id].named \in ring.live /\ SignatureHolds(id) THEN "good" ELSE "bad"

\* HmacKeyring.rotate: the old key stays on file; ids are never used again.
Rotate ==
    /\ Spend("keys")
    /\ ring' = [current |-> ring.current + 1, live |-> ring.live \cup {ring.current + 1}]
    /\ UNCHANGED <<rcpt, memoryVars, rows, marked, stake, loop>>

Revoke(k) ==
    /\ k \in ring.live \ {ring.current}
    /\ Spend("keys")
    /\ ring' = [ring EXCEPT !.live = @ \ {k}]
    /\ UNCHANGED <<rcpt, memoryVars, rows, marked, stake, loop>>

-----------------------------------------------------------------------------
(***************************************************************************)
(* A job thread: sign, store, upload, evict.                               *)
(***************************************************************************)
\* generate_execution_proof writes the current key's id into the payload ...
NameKey(j) ==
    /\ run[j].pc = "idle"
    /\ Spend("receipts")
    /\ run' = [run EXCEPT ![j] = [pc |-> "sign", key |-> ring.current, id |-> 0]]
    /\ UNCHANGED <<ring, rcpt, receipts, pending, cache, count, page, known, streak,
                   quarantined, assurance, desk, rows, marked, stake, loop>>

\* ... and sign_data signs it with whatever secret is current by then.
CreateReceipt(j, n) ==
    rcpt' = Append(rcpt, [job |-> j, node |-> n, named |-> run[j].key, signed |-> ring.current])

\* receive_receipt, under the lock: store, forget the verdict of the receipt
\* that is replaced and its share of the totals, queue the job.
Receive(j, id) ==
    /\ receipts' = Put(receipts, j, id)
    /\ cache' = [cache EXCEPT ![j] = NoVerdict]
    /\ count' = IF cache[j].verdict = "none" THEN count
                ELSE [count EXCEPT ![cache[j].verdict] = @ - 1]
    /\ pending' = Append(pending, j)

Sign(j, n) ==
    /\ run[j].pc = "sign"
    /\ CreateReceipt(j, n)
    /\ Receive(j, Len(rcpt) + 1)
    /\ run' = [run EXCEPT ![j] = [pc |-> "upload", key |-> 0, id |-> Len(rcpt) + 1]]
    /\ UNCHANGED <<spare, ring, page, known, streak, quarantined, assurance, desk, rows, marked, stake, loop>>

\* PolicyEngine.evaluate: a metric that is missing fails its check.
CheckRuntime(m) == m.runtime # NotReported /\ m.runtime <= Policy.maxRuntime
CheckCpu(m) == m.cpu # NotReported /\ m.cpu <= Policy.maxCpu
CheckMemory(m) == m.memory # NotReported /\ m.memory <= Policy.maxMemory
CheckGpu(m) ==
    /\ m.gpuTotal # NotReported /\ m.gpuUsed # NotReported
    /\ IF m.gpuTotal = 0 THEN ~Policy.requireGpu ELSE m.gpuUsed <= m.gpuTotal

Complies(j) ==
    CheckRuntime(Metrics[j]) /\ CheckCpu(Metrics[j]) /\ CheckMemory(Metrics[j]) /\ CheckGpu(Metrics[j])

\* _record_policy_result: every receipt is counted once, whatever became of its row.
RecordPolicy(j) ==
    assurance' = IF Complies(j) THEN [assurance EXCEPT !.compliant = @ + 1]
                 ELSE [assurance EXCEPT !.exceptions = @ + 1]

\* receipts.upload: a new row, not verified; an error is logged and the
\* receipt stays in memory only.
Upload(j) ==
    /\ run[j].pc = "upload"
    /\ \/ rows' = Append(rows, run[j].id) /\ UNCHANGED spare
       \/ Spend("faults") /\ UNCHANGED rows
    /\ RecordPolicy(j)
    /\ run' = [run EXCEPT ![j].pc = "evict"]
    /\ UNCHANGED <<ring, rcpt, receipts, pending, cache, count, page, known, streak,
                   quarantined, desk, marked, stake, loop>>

\* _evict_completed_if_over_capacity: the oldest entries of the dict go; their
\* verdicts and totals stay.
Evict(j) ==
    /\ run[j].pc = "evict"
    /\ receipts' = IF Len(receipts) > MaxInMemory
                   THEN SubSeq(receipts, Len(receipts) - MaxInMemory + 1, Len(receipts))
                   ELSE receipts
    /\ run' = [run EXCEPT ![j] = Idle]
    /\ UNCHANGED <<spare, ring, rcpt, pending, cache, count, page, known, streak,
                   quarantined, assurance, desk, rows, marked, stake, loop>>

-----------------------------------------------------------------------------
(***************************************************************************)
(* Verification.  A verdict is computed outside the lock and recorded      *)
(* under it; computing it late instead is the same, since only the keyring *)
(* could change it and nothing orders the keyring with the lock.           *)
(***************************************************************************)
\* Mutant: the receipt in the dict is not compared with the one judged.
MayCommitAnyReceipt(j, id) == id # 0 /\ cache[j].verdict = "none"

\* _commit_receipt_verification records a verdict only for a job that has
\* none, and only while the receipt judged is still the one in the dict.
MayCommit(j, id) == id # 0 /\ cache[j].verdict = "none" /\ Get(receipts, j) = id

Commit(j, id) ==
    IF MayCommit(j, id)
    THEN /\ cache' = [cache EXCEPT ![j] = [verdict |-> ValidateProof(id), of |-> id]]
         /\ count' = [count EXCEPT ![ValidateProof(id)] = @ + 1]
    ELSE UNCHANGED <<cache, count>>

\* The mark that a commit leaves to be written outside the lock.
MarkOf(j, id) == IF MayCommit(j, id) THEN <<j, ValidateProof(id)>> ELSE NoMark

RowsOf(j) == {i \in DOMAIN rows : rcpt[rows[i]].job = j}

\* mark_verified_by_job_id: the newest row of the job, if it has one by now.
MarkVerified(mark) ==
    marked' = IF RowsOf(mark[1]) = {} THEN marked
              ELSE LET newest == rows[CHOOSE i \in RowsOf(mark[1]) : \A k \in RowsOf(mark[1]) : k <= i]
                   IN IF mark[2] = "good" THEN marked \cup {newest} ELSE marked \ {newest}

\* What a list of jobs still has to be verified, with the receipts it holds now.
Unverified(jobs) ==
    LET open == SelectSeq(jobs, LAMBDA j : cache[j].verdict = "none")
    IN [i \in DOMAIN open |-> <<open[i], Get(receipts, open[i])>>]

\* _drain_pending_receipt_verifications takes the whole queue at once.
DrainTake ==
    /\ loop.pc = "rest"
    /\ loop' = [loop EXCEPT !.pc = "drain", !.todo = Unverified(pending)]
    /\ pending' = <<>>
    /\ UNCHANGED <<spare, ring, rcpt, run, receipts, cache, count, page, known, streak,
                   quarantined, assurance, desk, rows, marked, stake>>

Draining == loop.pc = "drain" /\ loop.mark = NoMark

\* One receipt: gone or replaced ones are passed over; a verdict this thread
\* recorded is handed on to Settle.
DrainVerify ==
    /\ Draining /\ loop.todo # <<>>
    /\ LET j == Head(loop.todo)[1]
           id == Head(loop.todo)[2]
       IN /\ Commit(j, id)
          /\ loop' = [loop EXCEPT !.todo = Tail(@),
                         !.newly = IF MayCommit(j, id) THEN Append(@, <<id, ValidateProof(id)>>) ELSE @,
                         !.mark = MarkOf(j, id)]
    /\ UNCHANGED <<spare, ring, rcpt, run, receipts, pending, page, known, streak,
                   quarantined, assurance, desk, rows, marked, stake>>

DrainMark ==
    /\ loop.pc = "drain" /\ loop.mark # NoMark
    /\ MarkVerified(loop.mark)
    /\ loop' = [loop EXCEPT !.mark = NoMark]
    /\ UNCHANGED <<spare, ring, rcpt, memoryVars, rows, stake>>

\* get_receipts copies the dict and the cache, verifies what has no verdict
\* and then commits one result after the other.
PageTake ==
    /\ page = Closed
    /\ Spend("pages")
    /\ page' = [page EXCEPT !.todo = Unverified([i \in DOMAIN receipts |-> receipts[i].job])]
    /\ UNCHANGED <<ring, rcpt, run, receipts, pending, cache, count, known, streak,
                   quarantined, assurance, desk, rows, marked, stake, loop>>

PageVerify ==
    /\ page.mark = NoMark /\ page.todo # <<>>
    /\ LET j == Head(page.todo)[1]
           id == Head(page.todo)[2]
       IN Commit(j, id) /\ page' = [todo |-> Tail(page.todo), mark |-> MarkOf(j, id)]
    /\ UNCHANGED <<spare, ring, rcpt, run, receipts, pending, known, streak,
                   quarantined, assurance, desk, rows, marked, stake, loop>>

PageMark ==
    /\ page.mark # NoMark
    /\ MarkVerified(page.mark)
    /\ page' = [page EXCEPT !.mark = NoMark]
    /\ UNCHANGED <<spare, ring, rcpt, run, receipts, pending, cache, count, known, streak,
                   quarantined, assurance, desk, rows, stake, loop>>

-----------------------------------------------------------------------------
(***************************************************************************)
(* What a verdict of the drain does to its node.                           *)
(***************************************************************************)
Settling == Draining /\ loop.todo = <<>> /\ loop.newly # <<>> /\ loop.seen = <<>>

\* A good receipt ends its node's streak.
SettleGood ==
    /\ Settling /\ Head(loop.newly)[2] = "good"
    /\ known' = known \ {Head(loop.newly)[1]}
    /\ streak' = [streak EXCEPT ![rcpt[Head(loop.newly)[1]].node] = 0]
    /\ loop' = [loop EXCEPT !.newly = Tail(@)]
    /\ UNCHANGED <<spare, ring, rcpt, run, receipts, pending, cache, count, page,
                   quarantined, assurance, desk, rows, marked, stake>>

\* A bad one is remembered, and what the node has at stake is read ...
SettleBad ==
    /\ Settling /\ Head(loop.newly)[2] = "bad"
    /\ known' = known \cup {Head(loop.newly)[1]}
    /\ loop' = [loop EXCEPT !.seen = <<stake[rcpt[Head(loop.newly)[1]].node]>>]
    /\ UNCHANGED <<spare, ring, rcpt, run, receipts, pending, cache, count, page, streak,
                   quarantined, assurance, desk, rows, marked, stake>>

Least(a, b) == IF a < b THEN a ELSE b
Most(a, b) == IF a < b THEN b ELSE a

\* slash_for_failed_verification and slash: bonded stake first, then what is
\* being withdrawn; the amounts come from the row read, the update is relative.
Slash(n, seen) ==
    LET total == seen.bonded + seen.unbonding
        amount == Most(1, total \div SlashDivisor)
        fromBonded == Least(amount, seen.bonded)
        fromUnbonding == Least(amount - fromBonded, seen.unbonding)
    IN stake' = IF total <= 0 THEN stake
                ELSE [stake EXCEPT ![n] = [bonded |-> @.bonded - fromBonded,
                                           unbonding |-> @.unbonding - fromUnbonding,
                                           slashed |-> @.slashed + fromBonded + fromUnbonding]]

\* _register_verification_failure.
RegisterFailure(n) ==
    IF QuarantineAfter > 0 /\ streak[n] + 1 >= QuarantineAfter
    THEN streak' = [streak EXCEPT ![n] = 0] /\ quarantined' = quarantined \cup {n}
    ELSE /\ streak' = [streak EXCEPT ![n] = IF QuarantineAfter > 0 THEN @ + 1 ELSE @]
         /\ UNCHANGED quarantined

\* ... then slashed, and the failure counted against the node.
Punish ==
    /\ loop.seen # <<>>
    /\ LET n == rcpt[Head(loop.newly)[1]].node
       IN Slash(n, loop.seen[1]) /\ RegisterFailure(n)
    /\ loop' = [loop EXCEPT !.newly = Tail(@), !.seen = <<>>]
    /\ UNCHANGED <<spare, ring, rcpt, run, receipts, pending, cache, count, page, known,
                   assurance, desk, rows, marked>>

\* The stake ledger raises: the pass is given up, with the rest of its verdicts.
LedgerRaises ==
    /\ loop.seen # <<>>
    /\ Spend("faults")
    /\ loop' = [loop EXCEPT !.pc = "tick", !.newly = <<>>, !.seen = <<>>]
    /\ UNCHANGED <<ring, rcpt, memoryVars, rows, marked, stake>>

\* RetentionPolicy.sweep, by count: the newest rows stay.
Newest == SubSeq(rows, Most(1, Len(rows) - MaxRows + 1), Len(rows))

\* _maybe_sweep_retention: due in some passes, not in others.
Sweep ==
    /\ Draining /\ loop.todo = <<>> /\ loop.newly = <<>>
    /\ rows' \in {rows, Newest}
    /\ loop' = [loop EXCEPT !.pc = "tick"]
    /\ UNCHANGED <<spare, ring, rcpt, memoryVars, marked, stake>>

\* clear_quarantine, an operator's decision.
ClearQuarantine(n) ==
    /\ n \in quarantined
    /\ quarantined' = quarantined \ {n}
    /\ streak' = [streak EXCEPT ![n] = 0]
    /\ UNCHANGED <<spare, ring, rcpt, run, receipts, pending, cache, count, page, known,
                   assurance, desk, rows, marked, stake, loop>>

-----------------------------------------------------------------------------
(***************************************************************************)
(* Operators' stake requests (of one unit): each reads, then writes.       *)
(***************************************************************************)
Bond(n) ==
    /\ Spend("stakes")
    /\ stake' = [stake EXCEPT ![n].bonded = @ + 1]
    /\ UNCHANGED <<ring, rcpt, memoryVars, rows, marked, loop>>

Ask(op, n) ==
    /\ desk = <<>>
    /\ Spend("stakes")
    /\ op = "unbond" => stake[n].bonded >= 1
    /\ op = "release" => stake[n].unbonding > 0
    /\ desk' = <<op, n>>
    /\ UNCHANGED <<ring, rcpt, run, receipts, pending, cache, count, page, known, streak,
                   quarantined, assurance, rows, marked, stake, loop>>

Answer ==
    /\ desk # <<>>
    /\ stake' = IF desk[1] = "unbond"
                THEN [stake EXCEPT ![desk[2]].bonded = @ - 1, ![desk[2]].unbonding = @ + 1]
                ELSE [stake EXCEPT ![desk[2]].unbonding = 0]
    /\ desk' = <<>>
    /\ UNCHANGED <<spare, ring, rcpt, run, receipts, pending, cache, count, page, known, streak,
                   quarantined, assurance, rows, marked, loop>>

-----------------------------------------------------------------------------
\* restore_from_persistence reads the newest rows first: of two receipts of a
\* job the older one ends up in the dict.  Every one is queued.
Restored ==
    LET newest == Reverse(SubSeq(rows, Most(1, Len(rows) - MaxInMemory + 1), Len(rows)))
    IN [dict |-> FoldLeft(LAMBDA d, id : Put(d, rcpt[id].job, id), <<>>, newest),
        queue |-> [i \in DOMAIN newest |-> rcpt[newest[i]].job]]

\* HmacKeyring.load_or_create finds the file, or starts a ring of its own.
LoadRing(lost) ==
    ring' = IF lost THEN [current |-> ring.current + 1, live |-> {ring.current + 1}] ELSE ring

\* The coordinator stops anywhere and a process starts from the database.
RestartTrust(lost) ==
    /\ Spend("restarts")
    /\ LoadRing(lost)
    /\ run' = [j \in Jobs |-> Idle]
    /\ receipts' = Restored.dict /\ pending' = Restored.queue
    /\ cache' = [j \in Jobs |-> NoVerdict]
    /\ count' = [good |-> 0, bad |-> 0]
    /\ loop' = Resting /\ page' = Closed
    /\ assurance' = [compliant |-> 0, exceptions |-> 0]
    /\ known' = {}
    /\ streak' = [n \in Nodes |-> 0]
    /\ quarantined' = {} /\ desk' = <<>>
    /\ UNCHANGED <<rcpt, rows, marked, stake>>

\* DrainTake and RestartTrust are parts of larger steps of module Oversight.
TrustNext ==
    \/ \E j \in Jobs : NameKey(j) \/ Upload(j) \/ Evict(j) \/ (\E n \in Nodes : Sign(j, n))
    \/ Rotate \/ (\E k \in ring.live : Revoke(k))
    \/ DrainVerify \/ DrainMark \/ SettleGood \/ SettleBad \/ Punish \/ LedgerRaises \/ Sweep
    \/ PageTake \/ PageVerify \/ PageMark
    \/ Answer \/ (\E n \in Nodes : Bond(n) \/ ClearQuarantine(n) \/ Ask("unbond", n) \/ Ask("release", n))

\* The health thread and the job threads go on while the process lives.
TrustFairness ==
    /\ WF_<<trustVars, loop>>(DrainVerify \/ DrainMark \/ SettleGood \/ SettleBad \/ Punish \/ Sweep)
    /\ \A j \in Jobs : WF_<<trustVars, loop>>(Upload(j) \/ Evict(j) \/ (\E n \in Nodes : Sign(j, n)))

-----------------------------------------------------------------------------
\* Whatever the threads do between their critical sections, every receipt in
\* memory is accounted for: the two totals the trust score and the alert rule
\* read are the numbers of cached verdicts; a cached verdict is about the
\* receipt that is in the dict, never about one it replaced; and a receipt
\* without a verdict is still queued or in the hands of the running drain, so
\* that it cannot stay unverified for ever.
EveryReceiptAccounted ==
    /\ \A v \in {"good", "bad"} : count[v] = Cardinality({j \in Jobs : cache[j].verdict = v})
    /\ \A i \in DOMAIN receipts :
         LET j == receipts[i].job
         IN IF cache[j].verdict = "none"
            THEN j \in ToSet(pending) \/ <<j, receipts[i].id>> \in ToSet(loop.todo)
            ELSE cache[j].of = receipts[i].id
=============================================================================
