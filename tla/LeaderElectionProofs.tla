------------------------ MODULE LeaderElectionProofs ------------------------
(* What LeaderElection guarantees for any set of coordinators, any lease   *)
(* length and any bounds: types, one rightful leader, no early takeover.   *)
EXTENDS LeaderElection, TLAPS

(* The inductive invariant. OneRightfulLeader alone is not inductive: a    *)
(* swap could land on the row of a live grant. LiveGrantIsRow ties every   *)
(* unexpired grant to the row, and SwapDecided says that a pending swap    *)
(* was allowed for the row it will compare with.                           *)
IInv == TypeOK /\ LiveGrantIsRow /\ SwapDecided

USE ElectionAssumption

(* The row a swap writes is a row, held by the swapping process.           *)
LEMMA NewRowType ==
    ASSUME NEW c \in Coordinators, NEW row \in Rows, NEW at \in Nat
    PROVE  /\ NewRow(c, row, at) \in Rows
           /\ NewRow(c, row, at).holder = c
           /\ NewRow(c, row, at).expires = at + TTL
           /\ NewRow(c, row, at).term \in Nat
BY DEF NewRow, Row, Rows, NoLease

(* The absent row and the empty tick are well typed.                       *)
LEMMA EmptyTypes == NoLease \in Rows /\ NoTick \in Ticks
BY DEF NoLease, NoTick, Row, Rows, Ticks

(* A process that ends leaves its own state in type.                       *)
LEMMA ForgetType ==
    ASSUME TypeOK, NEW c \in Coordinators, Forget(c)
    PROVE  /\ phase' \in [Coordinators ->
                             {"down", "electing", "serving", "released"}]
           /\ isLeader' \in [Coordinators -> BOOLEAN]
           /\ pc' \in [Coordinators -> {"idle", "read", "swap", "answer"}]
           /\ tick' \in [Coordinators -> Ticks]
           /\ grant' \in [Coordinators -> Rows]
BY EmptyTypes DEF TypeOK, Forget

(* The initial state satisfies the inductive invariant.                    *)
LEMMA InitIInv == Init => IInv
<1> SUFFICES ASSUME Init PROVE IInv
  OBVIOUS
<1>1. TypeOK
  BY EmptyTypes DEF Init, TypeOK
<1>2. LiveGrantIsRow
  BY DEF Init, LiveGrantIsRow
<1>3. SwapDecided
  BY DEF Init, SwapDecided, NoTick
<1>4. QED
  BY <1>1, <1>2, <1>3 DEF IInv

(* Every step keeps the variables in their types.                          *)
LEMMA TypeStep == TypeOK /\ [Next]_vars => TypeOK'
<1> SUFFICES ASSUME TypeOK, [Next]_vars PROVE TypeOK'
  OBVIOUS
<1>1. CASE ClockTick
  BY <1>1 DEF ClockTick, TypeOK
<1>2. ASSUME NEW c \in Coordinators, Sample(c) PROVE TypeOK'
  BY <1>2, EmptyTypes DEF Sample, TypeOK, Ticks, NoTick
<1>3. ASSUME NEW c \in Coordinators, Read(c) PROVE TypeOK'
  BY <1>3 DEF Read, TypeOK, Ticks
<1>4. ASSUME NEW c \in Coordinators, Swap(c) PROVE TypeOK'
  <2>1. CASE Matches(lease, tick[c].seen)
    <3> DEFINE row == NewRow(c, tick[c].seen, tick[c].at)
    <3>1. tick[c].seen \in Rows /\ tick[c].at \in Nat
      BY DEF TypeOK, Ticks
    <3>2. row \in Rows /\ row.term \in Nat
      BY <3>1, NewRowType
    <3> HIDE DEF row
    <3>3. /\ lease' = row
          /\ grant' = [grant EXCEPT ![c] = row]
          /\ tick' = [tick EXCEPT ![c].won = TRUE]
      BY <1>4, <2>1 DEF Swap, row
    <3>4. QED
      BY <1>4, <3>2, <3>3 DEF Swap, TypeOK, Ticks
  <2>2. CASE ~Matches(lease, tick[c].seen)
    BY <1>4, <2>2 DEF Swap, TypeOK
  <2>3. QED
    BY <2>1, <2>2
<1>5. ASSUME NEW c \in Coordinators, Transition(c) PROVE TypeOK'
  BY <1>5, EmptyTypes DEF Transition, TypeOK, Ticks
<1>6. ASSUME NEW c \in Coordinators, TickError(c) PROVE TypeOK'
  <2>1. CASE phase[c] = "electing"
    BY <1>6, <2>1, ForgetType DEF TickError, TypeOK
  <2>2. CASE phase[c] # "electing"
    BY <1>6, <2>2, EmptyTypes DEF TickError, TypeOK
  <2>3. QED
    BY <2>1, <2>2
<1>7. ASSUME NEW c \in Coordinators, Crash(c) PROVE TypeOK'
  BY <1>7, ForgetType DEF Crash, TypeOK
<1>8. ASSUME NEW c \in Coordinators, Start(c) PROVE TypeOK'
  BY <1>8 DEF Start, TypeOK
<1>9. ASSUME NEW c \in Coordinators, Release(c) PROVE TypeOK'
  BY <1>9, EmptyTypes DEF Release, TypeOK
<1>10. ASSUME NEW c \in Coordinators, StopExit(c) PROVE TypeOK'
  BY <1>10, ForgetType DEF StopExit, TypeOK
<1>11. CASE UNCHANGED vars
  BY <1>11 DEF vars, TypeOK
<1>12. QED
  BY <1>1, <1>2, <1>3, <1>4, <1>5, <1>6, <1>7, <1>8, <1>9, <1>10, <1>11
  DEF Next

(* A pending swap stays justified: its row and its sample are locals, and  *)
(* the clock only moves forward.                                           *)
LEMMA SwapDecidedStep == TypeOK /\ SwapDecided /\ [Next]_vars => SwapDecided'
<1> SUFFICES ASSUME TypeOK, SwapDecided, [Next]_vars PROVE SwapDecided'
  OBVIOUS
<1> USE DEF TypeOK, SwapDecided
<1>1. CASE ClockTick
  BY <1>1 DEF ClockTick, Ticks
<1>2. ASSUME NEW c \in Coordinators, Sample(c) PROVE SwapDecided'
  BY <1>2 DEF Sample, Ticks, NoTick
<1>3. ASSUME NEW c \in Coordinators, Read(c) PROVE SwapDecided'
  BY <1>3 DEF Read, Ticks
<1>4. ASSUME NEW c \in Coordinators, Swap(c) PROVE SwapDecided'
  BY <1>4 DEF Swap, Ticks
<1>5. ASSUME NEW c \in Coordinators, Transition(c) PROVE SwapDecided'
  BY <1>5 DEF Transition, Ticks, NoTick
<1>6. ASSUME NEW c \in Coordinators, TickError(c) PROVE SwapDecided'
  BY <1>6 DEF TickError, Forget, Ticks, NoTick
<1>7. ASSUME NEW c \in Coordinators, Crash(c) PROVE SwapDecided'
  BY <1>7 DEF Crash, Forget, Ticks, NoTick
<1>8. ASSUME NEW c \in Coordinators, Start(c) PROVE SwapDecided'
  BY <1>8 DEF Start
<1>9. ASSUME NEW c \in Coordinators, Release(c) PROVE SwapDecided'
  BY <1>9 DEF Release
<1>10. ASSUME NEW c \in Coordinators, StopExit(c) PROVE SwapDecided'
  BY <1>10 DEF StopExit, Forget, Ticks, NoTick
<1>11. CASE UNCHANGED vars
  BY <1>11 DEF vars
<1>12. QED
  BY <1>1, <1>2, <1>3, <1>4, <1>5, <1>6, <1>7, <1>8, <1>9, <1>10, <1>11
  DEF Next

(* A swap that matches the row never passes over another process's live    *)
(* grant: that grant is the row, the row is someone else's, and the swap   *)
(* was decided on a clock no later than now.                               *)
LEMMA SwapSparesLiveGrants ==
    ASSUME IInv, NEW c \in Coordinators, NEW d \in Coordinators, c # d,
           Swap(c), Matches(lease, tick[c].seen), grant[d] # NoLease
    PROVE  ~(grant[d].expires > now)
<1> SUFFICES ASSUME grant[d].expires > now PROVE FALSE
  OBVIOUS
<1>1. grant[d].holder = d /\ lease = grant[d]
  BY DEF IInv, LiveGrantIsRow
<1>2. tick[c].seen = grant[d]
  BY <1>1 DEF Matches
<1>3. MayTake(c, grant[d], tick[c].at)
  BY <1>2 DEF IInv, SwapDecided, Swap
<1>4. grant[d].expires <= tick[c].at /\ tick[c].at <= now
  BY <1>1, <1>3 DEF MayTake, IInv, SwapDecided
<1>5. grant[d].expires \in Nat /\ tick[c].at \in Nat /\ now \in Nat
  BY DEF IInv, TypeOK, Rows, Ticks
<1>6. QED
  BY <1>4, <1>5

(* Unexpired grants stay equal to the row.                                 *)
LEMMA LiveGrantStep == IInv /\ [Next]_vars => LiveGrantIsRow'
<1> SUFFICES ASSUME IInv, [Next]_vars PROVE LiveGrantIsRow'
  OBVIOUS
<1>0. TypeOK /\ LiveGrantIsRow
  BY DEF IInv
<1>1. CASE ClockTick
  BY <1>0, <1>1 DEF ClockTick, LiveGrantIsRow, TypeOK, Rows
<1>2. ASSUME NEW c \in Coordinators, Sample(c) \/ Read(c) \/ Start(c)
      PROVE LiveGrantIsRow'
  BY <1>0, <1>2 DEF Sample, Read, Start, LiveGrantIsRow
<1>3. ASSUME NEW c \in Coordinators, Swap(c) PROVE LiveGrantIsRow'
  <2>1. CASE Matches(lease, tick[c].seen)
    <3> DEFINE row == NewRow(c, tick[c].seen, tick[c].at)
    <3>1. tick[c].seen \in Rows /\ tick[c].at \in Nat
      BY <1>0 DEF TypeOK, Ticks
    <3>2. row.holder = c
      BY <3>1, NewRowType
    <3> HIDE DEF row
    <3>3. lease' = row /\ grant' = [grant EXCEPT ![c] = row] /\ now' = now
      BY <1>3, <2>1 DEF Swap, row
    <3>4. SUFFICES ASSUME NEW d \in Coordinators, grant'[d] # NoLease
                   PROVE  /\ grant'[d].holder = d
                          /\ grant'[d].expires > now' => lease' = grant'[d]
      BY DEF LiveGrantIsRow
    <3>5. CASE d = c
      BY <1>0, <3>2, <3>3, <3>5 DEF TypeOK
    <3>6. CASE d # c
      <4>1. grant'[d] = grant[d]
        BY <1>0, <3>3, <3>6 DEF TypeOK
      <4>2. ~(grant[d].expires > now)
        BY <1>3, <2>1, <3>4, <3>6, <4>1, SwapSparesLiveGrants
      <4>3. QED
        BY <1>0, <3>3, <3>4, <4>1, <4>2 DEF LiveGrantIsRow
    <3>7. QED
      BY <3>5, <3>6
  <2>2. CASE ~Matches(lease, tick[c].seen)
    BY <1>0, <1>3, <2>2 DEF Swap, LiveGrantIsRow
  <2>3. QED
    BY <2>1, <2>2
<1>4. ASSUME NEW c \in Coordinators, Transition(c) PROVE LiveGrantIsRow'
  BY <1>0, <1>4 DEF Transition, LiveGrantIsRow, TypeOK
<1>5. ASSUME NEW c \in Coordinators, TickError(c) PROVE LiveGrantIsRow'
  BY <1>0, <1>5 DEF TickError, Forget, LiveGrantIsRow, TypeOK
<1>6. ASSUME NEW c \in Coordinators, Crash(c) \/ StopExit(c)
      PROVE LiveGrantIsRow'
  BY <1>0, <1>6 DEF Crash, StopExit, Forget, LiveGrantIsRow, TypeOK
<1>7. ASSUME NEW c \in Coordinators, Release(c) PROVE LiveGrantIsRow'
  <2>1. SUFFICES ASSUME NEW d \in Coordinators, grant'[d] # NoLease
                 PROVE  /\ grant'[d].holder = d
                        /\ grant'[d].expires > now' => lease' = grant'[d]
    BY DEF LiveGrantIsRow
  <2>2. d # c /\ grant'[d] = grant[d] /\ now' = now
    BY <1>0, <1>7, <2>1 DEF Release, TypeOK
  <2>3. lease = grant[d] => lease' = lease
    BY <1>0, <1>7, <2>1, <2>2 DEF Release, LiveGrantIsRow
  <2>4. QED
    BY <1>0, <2>1, <2>2, <2>3 DEF LiveGrantIsRow
<1>8. CASE UNCHANGED vars
  BY <1>0, <1>8 DEF vars, LiveGrantIsRow
<1>9. QED
  BY <1>1, <1>2, <1>3, <1>4, <1>5, <1>6, <1>7, <1>8 DEF Next

(* The invariant holds throughout.                                         *)
THEOREM Inductive == Spec => []IInv
<1>1. IInv /\ [Next]_vars => IInv'
  BY TypeStep, SwapDecidedStep, LiveGrantStep DEF IInv
<1>2. QED
  BY InitIInv, <1>1, PTL DEF Spec

(* Type correctness of the election.                                       *)
THEOREM TypeCorrect == Spec => []TypeOK
<1>1. IInv => TypeOK
  BY DEF IInv
<1>2. QED
  BY <1>1, Inductive, PTL

(* try_acquire_or_renew: two processes never lead on unexpired grants at   *)
(* the same time, for any number of processes and any lease length.        *)
THEOREM SingleRightfulLeader == Spec => []OneRightfulLeader
<1>1. IInv => OneRightfulLeader
  <2> SUFFICES ASSUME IInv, NEW c \in Coordinators, NEW d \in Coordinators,
                      LeadsByRight(c), LeadsByRight(d)
               PROVE  c = d
    BY DEF OneRightfulLeader
  <2>1. grant[c].holder = c /\ lease = grant[c]
    BY DEF IInv, LiveGrantIsRow, LeadsByRight
  <2>2. grant[d].holder = d /\ lease = grant[d]
    BY DEF IInv, LiveGrantIsRow, LeadsByRight
  <2>3. QED
    BY <2>1, <2>2
<1>2. QED
  BY <1>1, Inductive, PTL

(* An unexpired grant is the row in the database.                          *)
THEOREM GrantsAreRows == Spec => []LiveGrantIsRow
<1>1. IInv => LiveGrantIsRow
  BY DEF IInv
<1>2. QED
  BY <1>1, Inductive, PTL

(* The write of a tick never takes an unexpired row from another holder,   *)
(* however long after its read it lands.                                   *)
THEOREM TakeoverOnlyAfterExpiry == Spec => NoEarlyTakeover
<1> DEFINE Early == lease' # lease /\ lease # NoLease /\ lease' # NoLease
                    /\ lease'.holder # lease.holder
<1>1. IInv /\ [Next]_vars => [Early => lease.expires <= now]_vars
  <2> SUFFICES ASSUME IInv, Next, Early PROVE lease.expires <= now
    OBVIOUS
  <2>1. PICK c \in Coordinators : Swap(c) /\ Matches(lease, tick[c].seen)
    BY DEF Next, ClockTick, Sample, Read, Swap, Transition, TickError, Crash,
           Start, Release, StopExit, Forget
  <2>2. tick[c].seen = lease /\ tick[c].seen \in Rows /\ tick[c].at \in Nat
    BY <2>1 DEF Matches, IInv, TypeOK, Ticks
  <2>3. lease'.holder = c
    BY <2>1, <2>2, NewRowType DEF Swap
  <2>4. MayTake(c, lease, tick[c].at) /\ tick[c].at <= now
    BY <2>1, <2>2 DEF IInv, SwapDecided, Swap
  <2>5. lease.expires <= tick[c].at
    BY <2>3, <2>4 DEF MayTake
  <2>6. lease.expires \in Nat /\ now \in Nat /\ tick[c].at \in Nat
    BY <2>2 DEF IInv, TypeOK, Rows
  <2>7. QED
    BY <2>4, <2>5, <2>6
<1>2. QED
  BY <1>1, Inductive, PTL DEF Spec, NoEarlyTakeover

-----------------------------------------------------------------------------
(* LeaderElection implements Lease: every step of a tick, a crash, an      *)
(* error or a shutdown is a step of the atomic lease or no step at all.    *)

(* What the mapping needs beyond IInv. No row runs longer than a TTL from  *)
(* now, and the tick its holder has under way was sampled late enough for  *)
(* the renewal not to shorten it.                                          *)
RowBound ==
    /\ lease.holder = NoOne => lease = NoLease
    /\ lease.expires <= now + TTL
    /\ \A c \in Coordinators :
          lease.holder = c /\ pc[c] \in {"read", "swap"} =>
              lease.expires <= tick[c].at + TTL

RInv == IInv /\ RowBound


(* The row is absent at first, and an absent row bounds nothing.           *)
LEMMA InitRowBound == Init => RowBound
BY DEF Init, RowBound, NoLease, Row

(* The absent row is within every bound.                                   *)
LEMMA NoLeaseBound ==
    /\ NoLease.holder = NoOne
    /\ NoLease.expires = 0
    /\ NoLease.term = 0
BY DEF NoLease, Row

(* Every step keeps the rows bounded.                                      *)
LEMMA RowBoundStep == IInv /\ RowBound /\ [Next]_vars => RowBound'
<1> SUFFICES ASSUME IInv, RowBound, [Next]_vars PROVE RowBound'
  OBVIOUS
<1>0. TypeOK /\ SwapDecided
  BY DEF IInv
<1>1. CASE ClockTick
  BY <1>0, <1>1 DEF ClockTick, RowBound, TypeOK, Rows
<1>2. ASSUME NEW c \in Coordinators, Sample(c) PROVE RowBound'
  BY <1>0, <1>2 DEF Sample, RowBound, TypeOK, NoTick, Rows, Ticks
<1>3. ASSUME NEW c \in Coordinators, Read(c) \/ Start(c) PROVE RowBound'
  BY <1>0, <1>3 DEF Read, Start, RowBound, TypeOK, Rows, Ticks
<1>4. ASSUME NEW c \in Coordinators, Swap(c) PROVE RowBound'
  <2>1. CASE Matches(lease, tick[c].seen)
    <3> DEFINE row == NewRow(c, tick[c].seen, tick[c].at)
    <3>1. /\ tick[c].seen \in Rows /\ tick[c].at \in Nat
          /\ tick[c].at <= now /\ now \in Nat
      BY <1>0 DEF TypeOK, Ticks, SwapDecided
    <3>2. row.holder = c /\ row.expires = tick[c].at + TTL
      BY <3>1, NewRowType
    <3> HIDE DEF row
    <3>3. lease' = row /\ now' = now /\ pc' = [pc EXCEPT ![c] = "answer"]
      BY <1>4, <2>1 DEF Swap, row
    <3>4. pc'[c] = "answer"
      BY <1>0, <3>3 DEF TypeOK
    <3>5. QED
      BY <3>1, <3>2, <3>3, <3>4 DEF RowBound
  <2>2. CASE ~Matches(lease, tick[c].seen)
    BY <1>0, <1>4, <2>2 DEF Swap, RowBound, TypeOK
  <2>3. QED
    BY <2>1, <2>2
<1>5. ASSUME NEW c \in Coordinators, Transition(c) PROVE RowBound'
  BY <1>0, <1>5 DEF Transition, RowBound, TypeOK
<1>6. ASSUME NEW c \in Coordinators, TickError(c) PROVE RowBound'
  BY <1>0, <1>6 DEF TickError, Forget, RowBound, TypeOK
<1>7. ASSUME NEW c \in Coordinators, Crash(c) \/ StopExit(c) PROVE RowBound'
  BY <1>0, <1>7 DEF Crash, StopExit, Forget, RowBound, TypeOK
<1>8. ASSUME NEW c \in Coordinators, Release(c) PROVE RowBound'
  <2>1. now' = now /\ pc' = pc /\ tick' = tick
    BY <1>8 DEF Release
  <2>2. lease' = lease \/ lease' = NoLease
    BY <1>8 DEF Release
  <2>3. QED
    BY <1>0, <2>1, <2>2, NoLeaseBound DEF RowBound, TypeOK
<1>9. CASE UNCHANGED vars
  BY <1>9 DEF vars, RowBound
<1>10. QED
  BY <1>1, <1>2, <1>3, <1>4, <1>5, <1>6, <1>7, <1>8, <1>9 DEF Next

(* Whoever leads by right holds the row, and the row has not run out.      *)
LEMMA LeaderHolds ==
    ASSUME IInv, NEW c \in Leads
    PROVE  /\ c \in Coordinators
           /\ lease = grant[c]
           /\ lease.holder = c
           /\ lease.expires > now
BY DEF IInv, LiveGrantIsRow, Leads, LeadsByRight

(* The same of the next state.                                             *)
LEMMA NextLeaderHolds ==
    ASSUME IInv', NEW c \in Leads'
    PROVE  /\ c \in Coordinators
           /\ lease' = grant'[c]
           /\ lease'.holder = c
           /\ lease'.expires > now'
BY DEF IInv, LiveGrantIsRow, Leads, LeadsByRight

(* A swap that finds its row unchanged takes a free or expired lease, or   *)
(* renews its own.                                                         *)
LEMMA SwapRefines ==
    ASSUME RInv, NEW c \in Coordinators, Swap(c),
           Matches(lease, tick[c].seen)
    PROVE  Abstract!Take(c) \/ Abstract!Renew(c)
<1> DEFINE row == NewRow(c, tick[c].seen, tick[c].at)
<1>1. /\ lease \in Rows /\ tick[c].at \in Nat /\ now \in Nat
      /\ tick[c].seen = lease /\ tick[c].at <= now
      /\ MayTake(c, lease, tick[c].at) /\ pc[c] = "swap"
  BY DEF RInv, IInv, TypeOK, Ticks, SwapDecided, Swap, Matches
<1>2. /\ row.holder = c /\ row.expires = tick[c].at + TTL
      /\ row.term = IF lease = NoLease THEN 1
                    ELSE IF lease.holder = c THEN lease.term
                    ELSE lease.term + 1
  BY <1>1 DEF NewRow, Row
<1> HIDE DEF row
<1>3. /\ lease' = row /\ now' = now /\ isLeader' = isLeader
      /\ grant' = [grant EXCEPT ![c] = row]
  BY DEF Swap, row
<1>4. Leads' \subseteq {c}
  <2> SUFFICES ASSUME NEW d \in Leads', d # c PROVE FALSE
    OBVIOUS
  <2>1. d \in Coordinators /\ grant'[d] = grant[d]
    BY <1>3 DEF Leads, RInv, IInv, TypeOK
  <2>2. grant[d] # NoLease /\ grant[d].expires > now
    BY <1>3, <2>1 DEF Leads, LeadsByRight
  <2>3. QED
    BY <2>1, <2>2, SwapSparesLiveGrants DEF RInv
<1>5. c \in Leads' => lease'.expires > now
  BY <1>3, <1>2 DEF Leads, LeadsByRight, RInv, IInv, TypeOK
<1>6. c # NoOne /\ NoLease.holder = NoOne /\ NoLease.term = 0
  BY NoLeaseBound
<1>7. lease'.expires <= now + TTL
  BY <1>1, <1>2, <1>3
<1>8. CASE lease.holder = c
  <2>1. lease.expires <= lease'.expires
    BY <1>1, <1>2, <1>3, <1>8 DEF RInv, RowBound
  <2>2. Leads \subseteq {c}
    BY <1>8, LeaderHolds DEF RInv
  <2>3. c \in Leads => c \in Leads'
    <3> SUFFICES ASSUME c \in Leads PROVE c \in Leads'
      OBVIOUS
    <3>1. lease.expires > now /\ isLeader[c]
      BY LeaderHolds DEF RInv, Leads, LeadsByRight
    <3>2. grant'[c] = lease' /\ lease'.expires > now
      BY <1>1, <1>2, <1>3, <2>1, <3>1 DEF RInv, IInv, TypeOK, Rows
    <3>3. lease' # NoLease
      BY <1>2, <1>3, <1>6
    <3>4. QED
      BY <1>3, <3>1, <3>2, <3>3 DEF Leads, LeadsByRight
  <2>4. Leads' = Leads \/ (Leads' = {c} /\ lease'.expires > now)
    BY <1>4, <1>5, <2>2, <2>3
  <2>5. lease'.holder = lease.holder /\ lease'.term = lease.term
    BY <1>2, <1>3, <1>6, <1>8
  <2>6. Abstract!Renew(c)
    BY <1>3, <1>7, <1>8, <2>1, <2>4, <2>5
    DEF Abstract!Renew, Abstract!MayLead
  <2>7. QED
    BY <2>6
<1>9. CASE lease.holder # c
  <2>1. lease.holder = NoOne \/ lease.expires <= now
    BY <1>1, <1>6, <1>9 DEF MayTake, Rows
  <2>2. Leads = {}
    <3> SUFFICES ASSUME NEW d \in Leads PROVE FALSE
      OBVIOUS
    <3>1. /\ d \in Coordinators /\ lease.holder = d /\ lease.expires > now
      BY LeaderHolds DEF RInv
    <3>2. d # NoOne
      BY <3>1
    <3>3. QED
      BY <1>1, <2>1, <3>1, <3>2 DEF Rows
  <2>3. Leads' = Leads \/ (Leads' = {c} /\ lease'.expires > now)
    BY <1>4, <1>5, <2>2
  <2>4. lease'.holder = c /\ lease'.term = lease.term + 1
    BY <1>1, <1>2, <1>3, <1>6, <1>9 DEF Rows
  <2>5. Abstract!Take(c)
    BY <1>3, <1>7, <1>9, <2>1, <2>2, <2>3, <2>4
    DEF Abstract!Take, Abstract!MayLead
  <2>6. QED
    BY <2>5
<1>10. QED
  BY <1>8, <1>9

(* A step that only removes leaders and leaves clock and row alone is a    *)
(* Yield or no step.                                                       *)
LEMMA FewerLead ==
    ASSUME RInv, UNCHANGED <<now, lease>>, Leads' \subseteq Leads
    PROVE  Abstract!Yield \/ UNCHANGED Abstract!vars
<1>1. \A c, d \in Leads : c = d
  BY LeaderHolds DEF RInv
<1>2. Leads' = Leads \/ Leads' = {}
  BY <1>1
<1>3. QED
  BY <1>2 DEF Abstract!Yield, Abstract!vars

(* Every step of the election is a step of the atomic lease or none.       *)
LEMMA StepRefines ==
    ASSUME RInv, RInv', Next
    PROVE  Abstract!Next \/ UNCHANGED Abstract!vars
<1> USE DEF Abstract!Next
<1>0. TypeOK
  BY DEF RInv, IInv
<1>1. CASE ClockTick
  <2>1. Leads' = IF lease.expires > now' THEN Leads ELSE {}
    <3>1. ASSUME NEW c \in Leads' PROVE c \in Leads /\ lease.expires > now'
      <4>1. lease'.expires > now'
        BY <3>1, NextLeaderHolds DEF RInv
      <4>2. QED
        BY <1>0, <1>1, <3>1, <4>1
        DEF ClockTick, Leads, LeadsByRight, TypeOK, Rows
    <3>2. ASSUME NEW c \in Leads, lease.expires > now' PROVE c \in Leads'
      <4>1. lease = grant[c]
        BY <3>2, LeaderHolds DEF RInv
      <4>2. QED
        BY <1>1, <3>2, <4>1 DEF ClockTick, Leads, LeadsByRight
    <3>3. QED
      BY <3>1, <3>2
  <2>2. Abstract!ClockTick
    BY <1>1, <2>1 DEF ClockTick, Abstract!ClockTick
  <2>3. QED
    BY <2>2
<1>2. ASSUME NEW c \in Coordinators, Sample(c) \/ Read(c) \/ Start(c)
      PROVE  UNCHANGED Abstract!vars
  BY <1>2 DEF Sample, Read, Start, Abstract!vars, Leads, LeadsByRight
<1>3. ASSUME NEW c \in Coordinators, Swap(c)
      PROVE  Abstract!Next \/ UNCHANGED Abstract!vars
  <2>1. CASE Matches(lease, tick[c].seen)
    BY <1>3, <2>1, SwapRefines
  <2>2. CASE ~Matches(lease, tick[c].seen)
    BY <1>3, <2>2 DEF Swap, Abstract!vars, Leads, LeadsByRight
  <2>3. QED
    BY <2>1, <2>2
<1>4. ASSUME NEW c \in Coordinators, Transition(c)
      PROVE  Abstract!Next \/ UNCHANGED Abstract!vars
  <2>1. UNCHANGED <<now, lease>>
    BY <1>4 DEF Transition
  <2>2. \A d \in Coordinators \ {c} : d \in Leads' => d \in Leads
    BY <1>0, <1>4 DEF Transition, Leads, LeadsByRight, TypeOK
  <2>3. CASE c \in Leads' /\ c \notin Leads
    <3>1. lease.holder = c /\ lease.expires > now
      BY <2>1, <2>3, NextLeaderHolds DEF RInv
    <3>2. Leads' = {c}
      <4>1. \A d, e \in Leads' : d = e
        BY NextLeaderHolds DEF RInv
      <4>2. QED
        BY <2>3, <4>1
    <3>3. Abstract!Lead(c)
      BY <2>1, <3>1, <3>2 DEF Abstract!Lead
    <3>4. QED
      BY <3>3
  <2>4. CASE ~(c \in Leads' /\ c \notin Leads)
    <3>1. Leads' \subseteq Leads
      BY <2>2, <2>4 DEF Leads
    <3>2. QED
      BY <2>1, <3>1, FewerLead
  <2>5. QED
    BY <2>3, <2>4
<1>5. ASSUME NEW c \in Coordinators, TickError(c) \/ Crash(c) \/ StopExit(c)
      PROVE  Abstract!Next \/ UNCHANGED Abstract!vars
  <2>1. UNCHANGED <<now, lease>>
    BY <1>5 DEF TickError, Crash, StopExit
  <2>2. Leads' \subseteq Leads
    BY <1>0, <1>5
    DEF TickError, Crash, StopExit, Forget, Leads, LeadsByRight, TypeOK
  <2>3. QED
    BY <2>1, <2>2, FewerLead
<1>6. ASSUME NEW c \in Coordinators, Release(c)
      PROVE  Abstract!Next \/ UNCHANGED Abstract!vars
  <2>1. now' = now /\ Leads' \subseteq Leads \ {c}
    BY <1>0, <1>6 DEF Release, Leads, LeadsByRight, TypeOK
  <2>2. CASE lease.holder = c
    <3>1. lease' = NoLease
      BY <1>6, <2>2 DEF Release
    <3>2. Leads' = {}
      BY <2>1, <2>2, LeaderHolds DEF RInv
    <3>3. Abstract!GiveUp
      BY <2>1, <3>1, <3>2, NoLeaseBound DEF Abstract!GiveUp
    <3>4. QED
      BY <3>3
  <2>3. CASE lease.holder # c
    <3>1. lease' = lease
      BY <1>6, <2>3 DEF Release
    <3>2. QED
      BY <2>1, <3>1, FewerLead
  <2>4. QED
    BY <2>2, <2>3
<1>7. QED
  BY <1>1, <1>2, <1>3, <1>4, <1>5, <1>6 DEF Next

(* The refinement, for any set of coordinators, any lease length and any   *)
(* bounds: Spec implements the atomic lease.                               *)
THEOREM ElectionImplementsLease == Spec => ImplementsLease
<1>1. Init => Abstract!Init
  BY NoLeaseBound DEF Init, Abstract!Init, Leads, LeadsByRight
<1>2. Init => RowBound
  BY InitRowBound
<1>3. IInv /\ RowBound /\ [Next]_vars => RowBound'
  BY RowBoundStep
<1>4. IInv /\ RowBound /\ IInv' /\ RowBound' /\ [Next]_vars
        => [Abstract!Next]_(Abstract!vars)
  <2> SUFFICES ASSUME RInv, RInv', [Next]_vars
               PROVE  [Abstract!Next]_(Abstract!vars)
    BY DEF RInv
  <2>1. CASE Next
    BY <2>1, StepRefines
  <2>2. CASE UNCHANGED vars
    BY <2>2 DEF vars, Abstract!vars, Leads, LeadsByRight
  <2>3. QED
    BY <2>1, <2>2
<1>5. QED
  BY <1>1, <1>2, <1>3, <1>4, Inductive, PTL
  DEF Spec, ImplementsLease, Abstract!Spec
=============================================================================
