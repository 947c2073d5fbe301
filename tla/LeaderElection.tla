-------------------------- MODULE LeaderElection --------------------------
(* Active-passive leader election between coordinator processes that share *)
(* one control-plane database.                                             *)
(*   src/src/gcon/cluster/leader_election.py        LeaderElector          *)
(*   src/src/gcon/persistence/repositories/leases.py  LeaseRepository      *)
(*   src/scripts/run_coordinator.py                 the process around it  *)
(* A tick is four steps, because other processes run between them: the     *)
(* clock is sampled, the row is read, the compare-and-swap is committed,   *)
(* and only then is the answer applied to _is_leader.                      *)
EXTENDS Integers, FiniteSets

CONSTANTS
    Coordinators,   \* holder ids (--coordinator-id: stable across restarts)
    NoOne,          \* holder of the absent row
    TTL,            \* ttl_seconds, in clock units
    MaxTime,        \* bound: the clock stops here
    MaxFaults       \* bound: crashes, failed database calls and shutdowns

ASSUME ElectionAssumption ==
    /\ NoOne \notin Coordinators
    /\ TTL \in Nat \ {0}
    /\ MaxTime \in Nat
    /\ MaxFaults \in Nat

VARIABLES
    now,        \* the clock every process reads
    lease,      \* the coordinator_leases row
    isLeader,   \* _is_leader of each process
    phase,      \* where each process is: down, electing, serving, released
    pc,         \* where its tick is: idle, read, swap, answer
    tick,       \* locals of try_acquire_or_renew
    grant,      \* the row the last successful tick of the process returned
    faults      \* crashes, failed calls and shutdowns so far

vars == <<now, lease, isLeader, phase, pc, tick, grant, faults>>

Row(c, t, e) == [holder |-> c, term |-> t, expires |-> e]
NoLease == Row(NoOne, 0, 0)
NoTick == [at |-> 0, seen |-> NoLease, won |-> FALSE]

Rows == [holder : Coordinators \cup {NoOne}, term : Nat, expires : Nat]
Ticks == [at : Nat, seen : Rows, won : BOOLEAN]

TypeOK ==
    /\ now \in Nat
    /\ lease \in Rows
    /\ isLeader \in [Coordinators -> BOOLEAN]
    /\ phase \in [Coordinators -> {"down", "electing", "serving", "released"}]
    /\ pc \in [Coordinators -> {"idle", "read", "swap", "answer"}]
    /\ tick \in [Coordinators -> Ticks]
    /\ grant \in [Coordinators -> Rows]
    /\ faults \in Nat

Init ==
    /\ now = 0
    /\ lease = NoLease
    /\ isLeader = [c \in Coordinators |-> FALSE]
    /\ phase = [c \in Coordinators |-> "electing"]
    /\ pc = [c \in Coordinators |-> "idle"]
    /\ tick = [c \in Coordinators |-> NoTick]
    /\ grant = [c \in Coordinators |-> NoLease]
    /\ faults = 0

-----------------------------------------------------------------------------
(* Mutants: what a slip in the code beside them would make of these steps. *)
MayTakeOwnOnly(c, row, at) == row = NoLease \/ row.holder = c
MayTakeEarly(c, row, at) ==
    row = NoLease \/ row.holder = c \/ row.expires <= at + 1
NewRowSameTerm(c, row, at) ==
    Row(c, IF row = NoLease THEN 1 ELSE row.term, at + TTL)
MatchesIgnoringExpiry(row, seen) ==
    row.holder = seen.holder /\ row.term = seen.term

(* The decision of try_acquire_or_renew, on the row it read.               *)
MayTake(c, row, at) ==
    \/ row = NoLease
    \/ row.holder = c
    \/ row.expires <= at

(* The row the compare-and-swap writes: a renewal keeps the term.          *)
NewRow(c, row, at) ==
    Row(c,
        IF row = NoLease THEN 1
        ELSE IF row.holder = c THEN row.term ELSE row.term + 1,
        at + TTL)

(* INSERT ... ON CONFLICT DO NOTHING, or UPDATE ... WHERE the row is still *)
(* exactly what was read.                                                  *)
Matches(row, seen) == row = seen

(* try_tick: sample the clock.                                             *)
Sample(c) ==
    /\ phase[c] \in {"electing", "serving"}
    /\ pc[c] = "idle"
    /\ pc' = [pc EXCEPT ![c] = "read"]
    /\ tick' = [tick EXCEPT ![c] = [NoTick EXCEPT !.at = now]]
    /\ UNCHANGED <<now, lease, isLeader, phase, grant, faults>>

(* The SELECT, and the early return for someone else's live lease.         *)
Read(c) ==
    /\ pc[c] = "read"
    /\ tick' = [tick EXCEPT ![c].seen = lease]
    /\ pc' = [pc EXCEPT ![c] = IF MayTake(c, lease, tick[c].at)
                               THEN "swap" ELSE "answer"]
    /\ UNCHANGED <<now, lease, isLeader, phase, grant, faults>>

(* The conditional write and its commit.                                   *)
Swap(c) ==
    /\ pc[c] = "swap"
    /\ pc' = [pc EXCEPT ![c] = "answer"]
    /\ IF Matches(lease, tick[c].seen)
       THEN LET row == NewRow(c, tick[c].seen, tick[c].at) IN
            /\ lease' = row
            /\ grant' = [grant EXCEPT ![c] = row]
            /\ tick' = [tick EXCEPT ![c].won = TRUE]
       ELSE UNCHANGED <<lease, grant, tick>>
    /\ UNCHANGED <<now, isLeader, phase, faults>>

(* _transition with the answer. Losing leadership ends the process         *)
(* (on_lose_leadership is os._exit); the first win ends run_until_leader.  *)
Transition(c) ==
    /\ pc[c] = "answer"
    /\ pc' = [pc EXCEPT ![c] = "idle"]
    /\ tick' = [tick EXCEPT ![c] = NoTick]
    /\ isLeader' = [isLeader EXCEPT ![c] = tick[c].won]
    /\ LET exits == isLeader[c] /\ ~tick[c].won IN
       /\ phase' = [phase EXCEPT ![c] =
                       IF exits THEN "down"
                       ELSE IF tick[c].won /\ @ = "electing" THEN "serving"
                       ELSE @]
       /\ grant' = [grant EXCEPT ![c] = IF exits THEN NoLease ELSE @]
    /\ UNCHANGED <<now, lease, faults>>

(* Everything in the memory of a process that ends.                        *)
Forget(c) ==
    /\ phase' = [phase EXCEPT ![c] = "down"]
    /\ isLeader' = [isLeader EXCEPT ![c] = FALSE]
    /\ pc' = [pc EXCEPT ![c] = "idle"]
    /\ tick' = [tick EXCEPT ![c] = NoTick]
    /\ grant' = [grant EXCEPT ![c] = NoLease]

(* A database error inside the transaction rolls it back. The background   *)
(* loop logs it and keeps its belief; run_until_leader lets it end the     *)
(* process.                                                                *)
TickError(c) ==
    /\ faults < MaxFaults
    /\ faults' = faults + 1
    /\ pc[c] \in {"read", "swap"}
    /\ IF phase[c] = "electing"
       THEN Forget(c)
       ELSE /\ pc' = [pc EXCEPT ![c] = "idle"]
            /\ tick' = [tick EXCEPT ![c] = NoTick]
            /\ UNCHANGED <<isLeader, phase, grant>>
    /\ UNCHANGED <<now, lease>>

Crash(c) ==
    /\ faults < MaxFaults
    /\ faults' = faults + 1
    /\ phase[c] # "down"
    /\ Forget(c)
    /\ UNCHANGED <<now, lease>>

(* The process supervisor starts the process again, in run_until_leader.   *)
Start(c) ==
    /\ phase[c] = "down"
    /\ phase' = [phase EXCEPT ![c] = "electing"]
    /\ UNCHANGED <<now, lease, isLeader, pc, tick, grant, faults>>

(* Mutant of Release: the DELETE without its holder_id condition.          *)
ReleaseAnyHolder(c) ==
    /\ faults < MaxFaults
    /\ faults' = faults + 1
    /\ phase[c] = "serving"
    /\ isLeader[c]
    /\ phase' = [phase EXCEPT ![c] = "released"]
    /\ lease' = NoLease
    /\ grant' = [grant EXCEPT ![c] = NoLease]
    /\ UNCHANGED <<now, isLeader, pc, tick>>

(* stop(): no further tick begins, and the row is deleted if this process  *)
(* holds it. A tick that outlasts the five-second join is still running.   *)
Release(c) ==
    /\ faults < MaxFaults
    /\ faults' = faults + 1
    /\ phase[c] = "serving"
    /\ isLeader[c]
    /\ phase' = [phase EXCEPT ![c] = "released"]
    /\ lease' = IF lease.holder = c THEN NoLease ELSE lease
    /\ grant' = [grant EXCEPT ![c] = NoLease]
    /\ UNCHANGED <<now, isLeader, pc, tick>>

(* The rest of stop(): _transition(False), whose callback exits.           *)
StopExit(c) ==
    /\ phase[c] = "released"
    /\ Forget(c)
    /\ UNCHANGED <<now, lease, faults>>

ClockTick ==
    /\ now < MaxTime
    /\ now' = now + 1
    /\ UNCHANGED <<lease, isLeader, phase, pc, tick, grant, faults>>

Step(c) == Sample(c) \/ Read(c) \/ Swap(c) \/ Transition(c)

Next ==
    \/ ClockTick
    \/ \E c \in Coordinators :
          \/ Sample(c) \/ Read(c) \/ Swap(c) \/ Transition(c)
          \/ TickError(c) \/ Crash(c) \/ Start(c) \/ Release(c) \/ StopExit(c)

(* The elector thread runs while its process does, and time passes. Nobody *)
(* promises that a dead process comes back.                                *)
Fairness ==
    /\ WF_vars(ClockTick)
    /\ \A c \in Coordinators : WF_vars(Step(c)) /\ WF_vars(StopExit(c))

Spec == Init /\ [][Next]_vars
FairSpec == Spec /\ Fairness

-----------------------------------------------------------------------------
(* A process leads by right while it believes it leads and the row it was  *)
(* last granted has not run out.                                           *)
LeadsByRight(c) ==
    /\ isLeader[c]
    /\ grant[c] # NoLease
    /\ grant[c].expires > now

Leads == {c \in Coordinators : LeadsByRight(c)}

(* "Two coordinator processes racing to acquire the same lease can never   *)
(* both succeed": no two processes lead on unexpired grants, whatever the  *)
(* interleaving of their reads and writes, crashes and shutdowns.          *)
OneRightfulLeader ==
    \A c, d \in Coordinators : LeadsByRight(c) /\ LeadsByRight(d) => c = d

(* What makes it inductive: an unexpired grant is the row in the database, *)
(* so a swap that matches the row cannot pass over somebody's live grant.  *)
LiveGrantIsRow ==
    \A c \in Coordinators :
        grant[c] # NoLease =>
            /\ grant[c].holder = c
            /\ grant[c].expires > now => lease = grant[c]

(* A swap is decided on a clock sample from the past.                      *)
SwapDecided ==
    \A c \in Coordinators :
        /\ tick[c].at <= now
        /\ pc[c] = "swap" => MayTake(c, tick[c].seen, tick[c].at)

(* try_acquire_or_renew never takes a row from another holder before it    *)
(* runs out by the current clock, however late the write lands.            *)
NoEarlyTakeover ==
    [][lease' # lease /\ lease # NoLease /\ lease' # NoLease
          /\ lease'.holder # lease.holder => lease.expires <= now]_vars

(* The four-step ticks of all processes, with their crashes, errors and    *)
(* shutdowns, look like one lease that passes atomically from hand to      *)
(* hand: a new term per takeover, renewals that never shorten it, and the  *)
(* right to lead only while the row of one's own lasts.                    *)
Abstract == INSTANCE Lease WITH
    holder <- lease.holder, until <- lease.expires, term <- lease.term,
    leads <- Leads
ImplementsLease == Abstract!Spec

(* Failover: once the holder is dead and its row can run out, a process    *)
(* that waits in run_until_leader leads, unless it dies too (or somebody   *)
(* renews the row past the time the model has).                            *)
Failover ==
    \A c, d \in Coordinators :
        (/\ c # d /\ lease.holder = c /\ lease.expires <= MaxTime
         /\ phase[c] = "down" /\ phase[d] = "electing")
        ~> \/ phase[d] = "down" \/ \E e \in Coordinators : isLeader[e]
           \/ lease.expires > MaxTime
=============================================================================
