--------------------------- MODULE GatewayProofs ---------------------------
(* OneMeaning, CapHeld and RateHeld of Gateway, for every number of        *)
(* requests, every set of plans and every window.                          *)
EXTENDS Gateway, SequenceTheorems, FiniteSetTheorems, TLAPS

---------------------------------------------------------------------------
(* Types.                                                                  *)

Ats == {"new", "arrived", "admitted", "submit", "insert", "persist", "record",
        "answered", "refused", "dead"}
Jobs == {"none", "memory", "live", "failed", "over", "gone"}
Limits == [rate : Nat, cap : Nat]
Slots == Kinds \X Keys

States == [at : Ats, shape : Shapes \union {NoShape}, stamp : Nat, rate : Nat, cap : Nat,
           answer : Requests \union {NoRequest}]

TypeOK ==
    /\ now \in Nat
    /\ plan \in Limits
    /\ window \in Seq(Nat)
    /\ request \in [Requests -> States]
    /\ holder \in [Slots -> Requests \union {NoRequest}]
    /\ recorded \in [Slots -> [id : Requests \union {NoRequest}, body : Bodies \union {"none"}]]
    /\ job \in [Requests -> Jobs]
    /\ admitted \in Seq(Nat)
    /\ peak \in Limits
    /\ cut \subseteq Requests
    /\ retried \subseteq Requests
    /\ spent \in Nat

(* What a thread that is past its arrival was asked.                       *)
Shaped ==
    \A r \in Requests :
        request[r].at \notin {"new", "refused"} => request[r].shape \in Shapes

(* Since drops a prefix: all of it up to the time, and nothing after it.   *)
LEMMA SinceDrops ==
    ASSUME NEW times \in Seq(Nat), NEW time \in Int
    PROVE  \E d \in 0..Len(times) :
              /\ Since(times, time) = SubSeq(times, d + 1, Len(times))
              /\ d < Len(times) => times[d + 1] > time
              /\ \A i \in 1..d : times[i] <= time
<1> DEFINE n == Len(times)
           kept == {i \in 1..n : \E k \in 1..i : times[k] > time}
           c == Cardinality(kept)
<1>1. n \in Nat /\ \A i \in 1..n : times[i] \in Nat
  OBVIOUS
<1>2. IsFiniteSet(kept) /\ c \in Nat /\ c <= n
  <2>1. IsFiniteSet(1..n) /\ Cardinality(1..n) = n
    BY <1>1, FS_Interval
  <2>2. kept \in SUBSET (1..n)
    OBVIOUS
  <2>3. QED
    BY <2>1, <2>2, FS_Subset, FS_CardinalityType
<1>3. \A i \in kept : i \in 1..n /\ i..n \subseteq kept
  BY <1>1
<1>4. \A i \in 1..n : i \in kept <=> \E k \in 1..i : times[k] > time
  OBVIOUS
<1>5. Since(times, time) = SubSeq(times, n - c + 1, n)
  BY DEF Since
<1> HIDE DEF n, kept, c
<1>6. \A i \in kept : n - c + 1 <= i
  <2> TAKE i \in kept
  <2>1. i \in Int /\ n \in Int /\ i <= n
    BY <1>1, <1>3
  <2>2. IsFiniteSet(i..n) /\ Cardinality(i..n) = n - i + 1
    BY <2>1, FS_Interval
  <2>3. n - i + 1 <= c
    <3>1. i..n \in SUBSET kept
      BY <1>3
    <3>2. Cardinality(i..n) <= Cardinality(kept)
      BY <1>2, <3>1, FS_Subset
    <3>3. QED
      BY <2>2, <3>2 DEF c
  <2>4. QED
    BY <1>1, <1>2, <2>1, <2>3
<1>7. PICK d \in 0..n : d = n - c
  BY <1>1, <1>2
<1>8. kept = (d + 1)..n
  <2>1. IsFiniteSet((d + 1)..n) /\ Cardinality((d + 1)..n) = n - d
    <3>1. d + 1 \in Int /\ n \in Int /\ d <= n
      BY <1>1, <1>7
    <3>2. /\ IsFiniteSet((d + 1)..n)
          /\ Cardinality((d + 1)..n) = IF d + 1 > n THEN 0 ELSE n - (d + 1) + 1
      BY <3>1, FS_Interval
    <3>3. QED
      BY <3>1, <3>2
  <2>2. kept \subseteq (d + 1)..n
    BY <1>1, <1>2, <1>3, <1>6, <1>7
  <2>3. Cardinality(kept) = n - d
    BY <1>1, <1>2, <1>7 DEF c
  <2>4. QED
    BY <2>1, <2>2, <2>3, FS_Subset
<1>9. ASSUME d < n PROVE times[d + 1] > time
  <2>1. d + 1 \in kept /\ d + 1 \in 1..n
    BY <1>1, <1>7, <1>8, <1>9
  <2>2. PICK k \in 1..(d + 1) : times[k] > time
    BY <2>1, <1>4
  <2>3. k \in 1..n /\ k \in 1..k
    BY <1>1, <1>7, <1>9, <2>2
  <2>4. k \in kept
    BY <1>4, <2>2, <2>3
  <2>5. k = d + 1
    BY <1>1, <1>7, <1>8, <2>2, <2>4
  <2>6. QED
    BY <2>2, <2>5
<1>10. ASSUME NEW i \in 1..d PROVE times[i] <= time
  <2>1. i \notin kept /\ i \in 1..n /\ i \in 1..i
    BY <1>1, <1>7, <1>8
  <2>2. ~(times[i] > time) /\ times[i] \in Nat
    BY <1>1, <1>4, <2>1
  <2>3. QED
    BY <2>2
<1>11. Since(times, time) = SubSeq(times, d + 1, n)
  BY <1>1, <1>2, <1>5, <1>7
<1>12. QED
  BY <1>7, <1>9, <1>10, <1>11 DEF n

(* Since is a queue of times.                                              *)
LEMMA SinceType ==
    ASSUME NEW times \in Seq(Nat), NEW time \in Int
    PROVE  Since(times, time) \in Seq(Nat)
<1>1. PICK d \in 0..Len(times) : Since(times, time) = SubSeq(times, d + 1, Len(times))
  BY SinceDrops
<1>2. QED
  BY <1>1, SubSeqProperties

TInv == TypeOK /\ Shaped

USE NumbersAreNatural, RequestsAreFinite

(* The states a thread is put into are states.                             *)
LEMMA StateTypes ==
    /\ Fresh \in States /\ Refused \in States
    /\ Fresh.at = "new" /\ Refused.at = "refused"
    /\ Fresh.shape = NoShape /\ Refused.shape = NoShape
BY DEF Fresh, Refused, States, Ats

(* A slot that is looked up is one of the tables' slots.                   *)
LEMMA SlotType ==
    ASSUME TInv, NEW r \in Requests, request[r].at \notin {"new", "refused"}, HasKey(r)
    PROVE  Slot(r) \in Slots /\ request[r].shape.body \in Bodies
BY ShapesAreRecords DEF TInv, Shaped, HasKey, Slot, Slots

(* The next state of every thread is a state, and keeps what it was asked. *)
LEMMA RequestType == TInv /\ [Next]_vars => request' \in [Requests -> States] /\ Shaped'
<1> SUFFICES ASSUME TInv, [Next]_vars PROVE request' \in [Requests -> States] /\ Shaped'
  OBVIOUS
<1> USE StateTypes DEF TInv, TypeOK
<1>1. ASSUME NEW r \in Requests, NEW state \in States, Become(r, state),
             state.at \notin {"new", "refused"} => state.shape \in Shapes
      PROVE  request' \in [Requests -> States] /\ Shaped'
  BY <1>1 DEF Become, Shaped
<1>2. ASSUME NEW r \in Requests, NEW at \in Ats, Become(r, [request[r] EXCEPT !.at = at]),
             request[r].at \notin {"new", "refused"}
      PROVE  request' \in [Requests -> States] /\ Shaped'
  BY <1>1, <1>2 DEF States, Shaped
<1>3. ASSUME request' = request PROVE request' \in [Requests -> States] /\ Shaped'
  BY <1>3 DEF Shaped
<1>4. ASSUME NEW r \in Requests, NEW shape \in Shapes, Arrive(r, shape)
      PROVE  request' \in [Requests -> States] /\ Shaped'
  <2> DEFINE state == [Fresh EXCEPT !.at = "arrived", !.shape = shape, !.stamp = now, !.rate = Allowance]
  <2>1. state \in States /\ state.shape \in Shapes
    BY DEF Fresh, States, Ats, Allowance, Limits
  <2>2. Become(r, state)
    BY <1>4 DEF Arrive
  <2> HIDE DEF state
  <2>3. QED
    BY <1>1, <2>1, <2>2
<1>5. ASSUME NEW r \in Requests, Hit(r) PROVE request' \in [Requests -> States] /\ Shaped'
  <2> DEFINE state == [Fresh EXCEPT !.at = "admitted", !.shape = request[r].shape]
  <2>1. state \in States /\ state.shape \in Shapes
    BY <1>5 DEF Fresh, States, Ats, Shaped, Hit
  <2>2. Become(r, state) \/ Become(r, Refused)
    BY <1>5 DEF Hit
  <2> HIDE DEF state
  <2>3. QED
    BY <1>1, <2>1, <2>2
<1>6. ASSUME NEW r \in Requests, NEW id \in Requests, Become(r, Answer(r, id)),
             request[r].at \notin {"new", "refused"}
      PROVE  request' \in [Requests -> States] /\ Shaped'
  <2>1. Answer(r, id) \in States /\ Answer(r, id).shape \in Shapes
    BY <1>6 DEF Answer, States, Ats, Shaped
  <2>2. QED
    BY <1>1, <1>6, <2>1
<1>7. ASSUME NEW r \in Requests, Lookup(r) PROVE request' \in [Requests -> States] /\ Shaped'
  <2>1. request[r].at = "admitted"
    BY <1>7 DEF Lookup
  <2>2. ASSUME HasKey(r), Replays(r) PROVE recorded[Slot(r)].id \in Requests
    BY <2>1, <2>2, SlotType DEF Replays
  <2>3. \/ Become(r, [request[r] EXCEPT !.at = "submit"])
        \/ Become(r, Refused)
        \/ HasKey(r) /\ Replays(r) /\ Become(r, Answer(r, recorded[Slot(r)].id))
    BY <1>7 DEF Lookup
  <2>4. QED
    BY <1>1, <1>2, <1>6, <2>1, <2>2, <2>3 DEF Ats
<1>8. ASSUME NEW r \in Requests, Record(r) PROVE request' \in [Requests -> States] /\ Shaped'
  BY <1>6, <1>8 DEF Record
<1>9. ASSUME NEW r \in Requests, RefuseJob(r) \/ RefuseWorkflow(r)
      PROVE  request' \in [Requests -> States] /\ Shaped'
  BY <1>1, <1>9 DEF RefuseJob, RefuseWorkflow, Turned
<1>10. ASSUME NEW r \in Requests, Resolve(r) PROVE request' \in [Requests -> States] /\ Shaped'
  <2> DEFINE state == [request[r] EXCEPT !.at = "insert", !.cap = Cap]
  <2>1. state \in States /\ state.shape \in Shapes
    BY <1>10 DEF States, Ats, Shaped, Resolve, Cap, Limits
  <2>2. Become(r, state) \/ Become(r, Refused)
    BY <1>10 DEF Resolve
  <2> HIDE DEF state
  <2>3. QED
    BY <1>1, <2>1, <2>2
<1>11. ASSUME NEW r \in Requests, Insert(r) PROVE request' \in [Requests -> States] /\ Shaped'
  <2> DEFINE state == [request[r] EXCEPT !.at = "persist", !.cap = 0]
  <2>1. state \in States /\ state.shape \in Shapes
    BY <1>11 DEF States, Ats, Shaped, Insert
  <2>2. Become(r, state) \/ Become(r, Refused)
    BY <1>11 DEF Insert
  <2> HIDE DEF state
  <2>3. QED
    BY <1>1, <2>1, <2>2
<1>12. ASSUME NEW r \in Requests, Persist(r) \/ PersistFails(r) \/ CreateWorkflow(r) \/ RecordFails(r)
       PROVE  request' \in [Requests -> States] /\ Shaped'
  <2>1. /\ request[r].at \in {"persist", "submit", "record"}
        /\ \E at \in {"record", "dead"} : Become(r, [request[r] EXCEPT !.at = at])
    BY <1>12 DEF Persist, PersistFails, CreateWorkflow, RecordFails
  <2>2. QED
    BY <1>2, <2>1 DEF Ats
<1>13. CASE Restart
  BY <1>13 DEF Restart, States, Ats, Shaped, Working
<1>14. ASSUME NEW r \in Requests, Ends(r) \/ Retry(r) \/ Clear(r)
       PROVE  request' \in [Requests -> States] /\ Shaped'
  BY <1>3, <1>14 DEF Ends, Retry, Clear
<1>15. CASE Tick \/ (\E new \in Plans : ChangePlan(new)) \/ UNCHANGED vars
  BY <1>3, <1>15 DEF Tick, ChangePlan, vars
<1>16. QED
  BY <1>4, <1>5, <1>7, <1>8, <1>9, <1>10, <1>11, <1>12, <1>13, <1>14, <1>15 DEF Next, ServeStep

(* Giving up a lock leaves a table of holders.                             *)
LEMMA UnlockedType ==
    ASSUME TInv, NEW r \in Requests
    PROVE  /\ Unlocked(r) \in [Slots -> Requests \union {NoRequest}]
           /\ \A slot \in Slots : Unlocked(r)[slot] = IF holder[slot] = r THEN NoRequest ELSE holder[slot]
BY DEF TInv, TypeOK, Unlocked

(* The queue of times and the history of it stay queues of times.          *)
LEMMA QueueType == TInv /\ [Next]_vars => window' \in Seq(Nat) /\ admitted' \in Seq(Nat)
<1> SUFFICES ASSUME TInv, [Next]_vars PROVE window' \in Seq(Nat) /\ admitted' \in Seq(Nat)
  OBVIOUS
<1> USE DEF TInv, TypeOK
<1>1. CASE Tick
  <2>1. now' - (Window - MaxStall) \in Int
    BY <1>1 DEF Tick
  <2>2. QED
    BY <1>1, <2>1, SinceType DEF Tick, Late
<1>2. ASSUME NEW r \in Requests, Hit(r) PROVE window' \in Seq(Nat) /\ admitted' \in Seq(Nat)
  <2>1. request[r].stamp \in Nat /\ request[r].stamp - Window \in Int
    BY DEF States
  <2>2. Remaining(request[r].stamp) \in Seq(Nat)
    BY <2>1, SinceType DEF Remaining
  <2>3. /\ \/ window' \in {window, Remaining(request[r].stamp)}
           \/ window' = Append(window, request[r].stamp)
           \/ window' = Append(Remaining(request[r].stamp), request[r].stamp)
        /\ admitted' = admitted \/ admitted' = Append(admitted, now)
    BY <1>2 DEF Hit
  <2>4. /\ Append(window, request[r].stamp) \in Seq(Nat)
        /\ Append(Remaining(request[r].stamp), request[r].stamp) \in Seq(Nat)
        /\ Append(admitted, now) \in Seq(Nat)
    BY <2>1, <2>2
  <2>5. window \in Seq(Nat) /\ admitted \in Seq(Nat)
    OBVIOUS
  <2>6. QED
    BY ONLY <2>2, <2>3, <2>4, <2>5, Zenon
<1>3. CASE Restart
  BY <1>3 DEF Restart
<1>4. CASE UNCHANGED <<window, admitted>>
  BY <1>4
<1>5. QED
  BY <1>1, <1>2, <1>3, <1>4
     DEF Next, vars, ServeStep, Arrive, Lookup, Resolve, Insert, Persist, CreateWorkflow, Record,
         RefuseJob, RefuseWorkflow, Turned, PersistFails, Ends, Retry, Clear, RecordFails, ChangePlan

(* The tables keep their types.                                            *)
LEMMA TableType ==
    TInv /\ [Next]_vars =>
        /\ holder' \in [Slots -> Requests \union {NoRequest}]
        /\ recorded' \in [Slots -> [id : Requests \union {NoRequest}, body : Bodies \union {"none"}]]
        /\ job' \in [Requests -> Jobs]
<1> SUFFICES ASSUME TInv, [Next]_vars
             PROVE  /\ holder' \in [Slots -> Requests \union {NoRequest}]
                    /\ recorded' \in [Slots -> [id : Requests \union {NoRequest}, body : Bodies \union {"none"}]]
                    /\ job' \in [Requests -> Jobs]
  OBVIOUS
<1> USE DEF TInv, TypeOK
<1>1. holder' \in [Slots -> Requests \union {NoRequest}]
  <2>1. ASSUME NEW r \in Requests, Lookup(r) PROVE holder' \in [Slots -> Requests \union {NoRequest}]
    BY <2>1, SlotType DEF Lookup
  <2>2. CASE Restart
    BY <2>2 DEF Restart
  <2>3. CASE holder' = holder \/ \E r \in Requests : holder' = Unlocked(r)
    BY <2>3, UnlockedType
  <2>4. QED
    BY <2>1, <2>2, <2>3
       DEF Next, vars, ServeStep, Tick, Arrive, Hit, Resolve, Insert, Persist, CreateWorkflow, Record,
           RefuseJob, RefuseWorkflow, Turned, PersistFails, Ends, Retry, Clear, RecordFails, ChangePlan
<1>2. recorded' \in [Slots -> [id : Requests \union {NoRequest}, body : Bodies \union {"none"}]]
  <2>1. ASSUME NEW r \in Requests, Record(r)
        PROVE  recorded' \in [Slots -> [id : Requests \union {NoRequest}, body : Bodies \union {"none"}]]
    BY <2>1, SlotType DEF Record
  <2>2. CASE recorded' = recorded
    BY <2>2
  <2>3. QED
    BY <2>1, <2>2
       DEF Next, vars, ServeStep, Tick, Arrive, Hit, Lookup, Resolve, Insert, Persist, CreateWorkflow, Restart,
           RefuseJob, RefuseWorkflow, Turned, PersistFails, Ends, Retry, Clear, RecordFails, ChangePlan
<1>3. job' \in [Requests -> Jobs]
  <2>1. ASSUME NEW r \in Requests, NEW new \in Jobs, job' = [job EXCEPT ![r] = new]
        PROVE  job' \in [Requests -> Jobs]
    BY <2>1
  <2>2. CASE Restart
    BY <2>2 DEF Restart, Jobs
  <2>3. CASE job' = job
    BY <2>3
  <2>4. ASSUME NEW r \in Requests, \/ Insert(r) \/ Persist(r) \/ CreateWorkflow(r)
                                   \/ Ends(r) \/ Retry(r) \/ Clear(r)
        PROVE  job' \in [Requests -> Jobs]
    BY <2>4 DEF Insert, Persist, CreateWorkflow, Ends, Retry, Clear, Jobs
  <2>5. QED
    BY <2>2, <2>3, <2>4
       DEF Next, vars, ServeStep, Tick, Arrive, Hit, Lookup, Resolve, Record,
           RefuseJob, RefuseWorkflow, Turned, PersistFails, RecordFails, ChangePlan
<1>4. QED
  BY <1>1, <1>2, <1>3

(* The laxer of two limits is a limit, and bounds them both.               *)
LEMMA LaxerIsLaxer ==
    ASSUME NEW a \in Nat, NEW b \in Nat
    PROVE  /\ Laxer(a, b) \in Nat
           /\ Laxer(a, b) # 0 => a # 0 /\ b # 0 /\ a <= Laxer(a, b) /\ b <= Laxer(a, b)
BY DEF Laxer

(* TypeOK and Shaped are inductive.                                        *)
LEMMA TypeStep == TInv /\ [Next]_vars => TInv'
<1> SUFFICES ASSUME TInv, [Next]_vars PROVE TInv'
  OBVIOUS
<1>1. now' \in Nat /\ cut' \subseteq Requests /\ retried' \subseteq Requests /\ spent' \in Nat
  <2>1. now' \in {now, now + 1} /\ spent' \in {spent, spent + 1}
    BY DEF Next, vars, ServeStep, Tick, Arrive, Hit, Lookup, Resolve, Insert, Persist,
           CreateWorkflow, Restart, Record, RefuseJob, RefuseWorkflow, Turned, PersistFails, Ends, Retry,
           Clear, RecordFails, ChangePlan, Trouble
  <2>2. \/ cut' = cut \/ \E r \in Requests : cut' = cut \union {r}
        \/ cut' = cut \union {r \in Requests : Working(r) /\ Created(r)}
    BY DEF Next, vars, ServeStep, Tick, Arrive, Hit, Lookup, Resolve, Insert, Persist,
           CreateWorkflow, Restart, Record, RefuseJob, RefuseWorkflow, Turned, PersistFails, Ends, Retry,
           Clear, RecordFails, ChangePlan
  <2>3. retried' = retried \/ \E r \in Requests : retried' = retried \union {r}
    BY DEF Next, vars, ServeStep, Tick, Arrive, Hit, Lookup, Resolve, Insert, Persist,
           CreateWorkflow, Restart, Record, RefuseJob, RefuseWorkflow, Turned, PersistFails, Ends, Retry,
           Clear, RecordFails, ChangePlan
  <2>4. QED
    BY <2>1, <2>2, <2>3 DEF TInv, TypeOK
<1>2. plan' \in Limits /\ peak' \in Limits
  <2>1. ASSUME NEW new \in Plans, ChangePlan(new) PROVE plan' \in Limits /\ peak' \in Limits
    BY <2>1, PlansAreLimits, LaxerIsLaxer DEF ChangePlan, TInv, TypeOK, Limits
  <2>2. CASE UNCHANGED <<plan, peak>>
    BY <2>2 DEF TInv, TypeOK
  <2>3. QED
    BY <2>1, <2>2
       DEF Next, vars, ServeStep, Tick, Arrive, Hit, Lookup, Resolve, Insert, Persist, CreateWorkflow,
           Restart, Record, RefuseJob, RefuseWorkflow, Turned, PersistFails, Ends, Retry, Clear, RecordFails
<1>3. QED
  BY <1>1, <1>2, RequestType, QueueType, TableType DEF TInv, TypeOK

(* At first no thread has arrived and every table is empty.                *)
LEMMA TypeInit == Init => TInv
BY PlansAreLimits, PlanIsKnown, StateTypes
   DEF Init, TInv, TypeOK, Shaped, Slots, Limits, Jobs, Nothing

---------------------------------------------------------------------------
(* The limits.                                                             *)

(* A limit that is no laxer than the laxest there was.                     *)
Within(limit, most) == most # 0 => limit # 0 /\ limit <= most

(* The limits in force, and those a thread still goes by, were in force.   *)
Seen ==
    /\ Within(plan.rate, peak.rate) /\ Within(plan.cap, peak.cap)
    /\ \A r \in Requests :
          /\ request[r].at = "arrived" => Within(request[r].rate, peak.rate)
          /\ request[r].at = "insert" => Within(request[r].cap, peak.cap)

(* The laxest limits only grow laxer, and what was within them stays so.   *)
LEMMA PeakGrows ==
    ASSUME TInv, [Next]_vars, NEW limit \in Nat
    PROVE  /\ Within(limit, peak.rate) => Within(limit, peak'.rate)
           /\ Within(limit, peak.cap) => Within(limit, peak'.cap)
           /\ Within(peak.rate, peak'.rate) /\ Within(peak.cap, peak'.cap)
<1> USE DEF TInv, TypeOK, Limits, Within
<1>1. ASSUME NEW new \in Plans, ChangePlan(new)
      PROVE  Within(peak.rate, peak'.rate) /\ Within(peak.cap, peak'.cap)
  BY <1>1, PlansAreLimits, LaxerIsLaxer DEF ChangePlan
<1>2. CASE peak' = peak
  BY <1>2
<1>3. Within(peak.rate, peak'.rate) /\ Within(peak.cap, peak'.cap)
  BY <1>1, <1>2
     DEF Next, vars, ServeStep, Tick, Arrive, Hit, Lookup, Resolve, Insert, Persist, CreateWorkflow,
         Restart, Record, RefuseJob, RefuseWorkflow, Turned, PersistFails, Ends, Retry, Clear, RecordFails
<1>4. peak.rate \in Nat /\ peak.cap \in Nat /\ peak'.rate \in Nat /\ peak'.cap \in Nat
  BY TypeStep
<1>5. QED
  BY <1>3, <1>4

(* How a thread may move: it arrives and looks at the clock and the rate,  *)
(* or it is under way and goes on; only on the way in it looks at the cap. *)
Moved(old, new) ==
    \/ old.at = "new" /\ new.at = "arrived" /\ new.stamp = now /\ new.rate = plan.rate
    \/ /\ old.at \in {"arrived", "admitted", "submit", "insert", "persist", "record"}
       /\ new.at \notin {"new", "arrived"}
       /\ new.at = "refused" \/ new.shape = old.shape
       /\ new.at \in {"admitted", "submit", "insert", "refused"} => old.at \notin {"persist", "record"}
       /\ new.at = "insert" => new.cap = plan.cap /\ old.shape.kind = "job"
       /\ new.at = "persist" => old.at = "insert"

(* Every thread moves like that, or not at all.                            *)
LEMMA Moves ==
    TInv /\ [Next]_vars => \A r \in Requests : request'[r] = request[r] \/ Moved(request[r], request'[r])
<1> SUFFICES ASSUME TInv, [Next]_vars
             PROVE  \A r \in Requests : request'[r] = request[r] \/ Moved(request[r], request'[r])
  OBVIOUS
<1> USE StateTypes DEF TInv, TypeOK
<1> DEFINE Goal == \A r \in Requests : request'[r] = request[r] \/ Moved(request[r], request'[r])
<1>1. ASSUME NEW r \in Requests, NEW state, Become(r, state), Moved(request[r], state) PROVE Goal
  BY <1>1 DEF Become
<1> HIDE DEF Goal
<1>2. ASSUME NEW r \in Requests, NEW shape \in Shapes, Arrive(r, shape) PROVE Goal
  <2> DEFINE state == [Fresh EXCEPT !.at = "arrived", !.shape = shape, !.stamp = now, !.rate = Allowance]
  <2>1. Moved(request[r], state)
    BY <1>2 DEF Fresh, Allowance, Arrive, Moved
  <2>2. Become(r, state)
    BY <1>2 DEF Arrive
  <2> HIDE DEF state
  <2>3. QED
    BY <1>1, <2>1, <2>2
<1>3. ASSUME NEW r \in Requests, Become(r, Refused), request[r].at \in {"arrived", "admitted", "submit", "insert"}
      PROVE  Goal
  BY <1>1, <1>3 DEF Moved
<1>4. ASSUME NEW r \in Requests, Hit(r) PROVE Goal
  <2> DEFINE state == [Fresh EXCEPT !.at = "admitted", !.shape = request[r].shape]
  <2>1. Moved(request[r], state) /\ request[r].at = "arrived"
    BY <1>4 DEF Fresh, Hit, Moved
  <2>2. Become(r, state) \/ Become(r, Refused)
    BY <1>4 DEF Hit
  <2> HIDE DEF state
  <2>3. QED
    BY <1>1, <1>3, <2>1, <2>2
<1>5. ASSUME NEW r \in Requests, NEW at, Become(r, [request[r] EXCEPT !.at = at]),
             at \in {"submit", "record", "dead"},
             request[r].at \in {"admitted", "submit", "persist", "record"},
             at = "submit" => request[r].at = "admitted"
      PROVE  Goal
  <2>1. Moved(request[r], [request[r] EXCEPT !.at = at])
    BY <1>5 DEF Moved, States
  <2>2. QED
    BY <1>1, <1>5, <2>1
<1>6. ASSUME NEW r \in Requests, NEW id, Become(r, Answer(r, id)), request[r].at \in {"admitted", "record"}
      PROVE  Goal
  <2>1. Moved(request[r], Answer(r, id))
    BY <1>6 DEF Moved, States, Answer
  <2>2. QED
    BY <1>1, <1>6, <2>1
<1>7. ASSUME NEW r \in Requests, Lookup(r) PROVE Goal
  <2>1. /\ request[r].at = "admitted"
        /\ \/ Become(r, [request[r] EXCEPT !.at = "submit"])
           \/ Become(r, Refused)
           \/ Become(r, Answer(r, recorded[Slot(r)].id))
    BY <1>7 DEF Lookup
  <2>2. QED
    BY <1>3, <1>5, <1>6, <2>1
<1>8. ASSUME NEW r \in Requests, Record(r) PROVE Goal
  BY <1>6, <1>8 DEF Record
<1>9. ASSUME NEW r \in Requests, RefuseJob(r) \/ RefuseWorkflow(r) PROVE Goal
  BY <1>3, <1>9 DEF RefuseJob, RefuseWorkflow, Turned
<1>10. ASSUME NEW r \in Requests, Resolve(r) PROVE Goal
  <2> DEFINE state == [request[r] EXCEPT !.at = "insert", !.cap = Cap]
  <2>1. Moved(request[r], state) /\ request[r].at = "submit"
    BY <1>10 DEF States, Moved, Resolve, Cap
  <2>2. Become(r, state) \/ Become(r, Refused)
    BY <1>10 DEF Resolve
  <2> HIDE DEF state
  <2>3. QED
    BY <1>1, <1>3, <2>1, <2>2
<1>11. ASSUME NEW r \in Requests, Insert(r) PROVE Goal
  <2> DEFINE state == [request[r] EXCEPT !.at = "persist", !.cap = 0]
  <2>1. Moved(request[r], state) /\ request[r].at = "insert"
    BY <1>11 DEF States, Moved, Insert
  <2>2. Become(r, state) \/ Become(r, Refused)
    BY <1>11 DEF Insert
  <2> HIDE DEF state
  <2>3. QED
    BY <1>1, <1>3, <2>1, <2>2
<1>12. ASSUME NEW r \in Requests, Persist(r) \/ PersistFails(r) \/ CreateWorkflow(r) \/ RecordFails(r)
       PROVE  Goal
  <2>1. /\ request[r].at \in {"persist", "submit", "record"}
        /\ \E at \in {"record", "dead"} : Become(r, [request[r] EXCEPT !.at = at])
    BY <1>12 DEF Persist, PersistFails, CreateWorkflow, RecordFails
  <2>2. QED
    BY <1>5, <2>1
<1>13. CASE Restart
  BY <1>13 DEF Restart, States, Moved, Working, Goal
<1>14. CASE request' = request
  BY <1>14 DEF Goal
<1>15. QED
  BY <1>2, <1>4, <1>7, <1>8, <1>9, <1>10, <1>11, <1>12, <1>13, <1>14
     DEF Next, ServeStep, Ends, Retry, Clear, Tick, ChangePlan, vars, Goal

(* Every look a thread takes at the limits is at the ones in force.        *)
LEMMA SeenStep == TInv /\ Seen /\ [Next]_vars => Seen'
<1> SUFFICES ASSUME TInv, Seen, [Next]_vars PROVE Seen'
  OBVIOUS
<1> USE DEF TInv, TypeOK, Limits
<1>1. Within(plan'.rate, peak'.rate) /\ Within(plan'.cap, peak'.cap)
  <2>1. ASSUME NEW new \in Plans, ChangePlan(new)
        PROVE  Within(plan'.rate, peak'.rate) /\ Within(plan'.cap, peak'.cap)
    BY <2>1, PlansAreLimits, LaxerIsLaxer DEF ChangePlan, Within
  <2>2. CASE UNCHANGED <<plan, peak>>
    BY <2>2 DEF Seen
  <2>3. QED
    BY <2>1, <2>2
       DEF Next, vars, ServeStep, Tick, Arrive, Hit, Lookup, Resolve, Insert, Persist, CreateWorkflow,
           Restart, Record, RefuseJob, RefuseWorkflow, Turned, PersistFails, Ends, Retry, Clear, RecordFails
<1>2. ASSUME NEW r \in Requests, request'[r].at = "arrived" PROVE Within(request'[r].rate, peak'.rate)
  <2>1. (request[r].at = "arrived" /\ request'[r] = request[r]) \/ request'[r].rate = plan.rate
    BY <1>2, Moves DEF Moved
  <2>2. QED
    BY <2>1, PeakGrows DEF Seen, States
<1>3. ASSUME NEW r \in Requests, request'[r].at = "insert" PROVE Within(request'[r].cap, peak'.cap)
  <2>1. (request[r].at = "insert" /\ request'[r] = request[r]) \/ request'[r].cap = plan.cap
    BY <1>3, Moves DEF Moved
  <2>2. QED
    BY <2>1, PeakGrows DEF Seen, States
<1>4. QED
  BY <1>1, <1>2, <1>3 DEF Seen

---------------------------------------------------------------------------
(* The rate: as long as the history of admissions is within reach of now,  *)
(* the limiter's window still holds an entry for each of them.             *)

(* A thread that looked at the clock is at most a stall behind it.         *)
Stamped ==
    \A r \in Requests :
        request[r].at = "arrived" => request[r].stamp <= now /\ now <= request[r].stamp + MaxStall

(* The history is in order and reaches back a window, less a stall.        *)
Recent ==
    /\ \A i, k \in 1..Len(admitted) : i <= k => admitted[i] <= admitted[k]
    /\ \A k \in 1..Len(admitted) : now - (Window - MaxStall) < admitted[k] /\ admitted[k] <= now

(* Its entries are the last of the window, each stamped a stall before its *)
(* admission at most.                                                      *)
Aligned ==
    /\ Len(admitted) <= Len(window)
    /\ \A k \in 1..Len(admitted) :
          admitted[k] - MaxStall <= window[Len(window) - Len(admitted) + k]

(* And there are no more of them than the laxest rate.                     *)
Counted == peak.rate # 0 => Len(admitted) <= peak.rate

RateInv == TInv /\ Seen /\ Stamped /\ Recent /\ Aligned /\ Counted

(* What is left of a queue when its first d entries go.                    *)
LEMMA Suffix ==
    ASSUME NEW times \in Seq(Nat), NEW d \in 0..Len(times)
    PROVE  /\ Len(SubSeq(times, d + 1, Len(times))) = Len(times) - d
           /\ \A k \in 1..(Len(times) - d) :
                 SubSeq(times, d + 1, Len(times))[k] = times[d + k]
<1>1. d + 1 \in Int /\ Len(times) \in Int /\ \A i \in (d + 1)..Len(times) : times[i] \in Nat
  OBVIOUS
<1> DEFINE left == SubSeq(times, d + 1, Len(times))
<1>2. /\ Len(left) = IF d + 1 <= Len(times) THEN Len(times) - (d + 1) + 1 ELSE 0
      /\ \A i \in 1..(Len(times) - (d + 1) + 1) : left[i] = times[(d + 1) + i - 1]
  BY <1>1, SubSeqProperties
<1> HIDE DEF left
<1>3. Len(left) = Len(times) - d /\ \A i \in 1..(Len(times) - d) : left[i] = times[d + i]
  BY <1>2
<1>4. QED
  BY <1>3 DEF left

(* No stall grows beyond MaxStall: time waits for the slow.                *)
LEMMA StampedStep == TInv /\ Stamped /\ [Next]_vars => Stamped'
<1> SUFFICES ASSUME TInv, Stamped, [Next]_vars, NEW r \in Requests, request'[r].at = "arrived"
             PROVE  request'[r].stamp <= now' /\ now' <= request'[r].stamp + MaxStall
  BY DEF Stamped
<1> USE DEF TInv, TypeOK
<1>1. CASE Tick
  BY SMTT(30), <1>1 DEF Tick, Stamped, States
<1>2. CASE now' = now
  <2>1. (request[r].at = "arrived" /\ request'[r] = request[r]) \/ request'[r].stamp = now
    BY Moves DEF Moved
  <2>2. QED
    BY <1>2, <2>1 DEF Stamped
<1>3. QED
  BY <1>1, <1>2
     DEF Next, vars, ServeStep, Arrive, Hit, Lookup, Resolve, Insert, Persist, CreateWorkflow,
         Restart, Record, RefuseJob, RefuseWorkflow, Turned, PersistFails, Ends, Retry, Clear,
         RecordFails, ChangePlan

(* When time passes the history forgets from its head, the window nothing. *)
LEMMA TickRate == RateInv /\ Tick => Recent' /\ Aligned' /\ Len(admitted') <= Len(admitted)
<1> SUFFICES ASSUME RateInv, Tick PROVE Recent' /\ Aligned' /\ Len(admitted') <= Len(admitted)
  OBVIOUS
<1> DEFINE time == now' - (Window - MaxStall)
           n == Len(admitted)
<1>1. /\ admitted \in Seq(Nat) /\ window \in Seq(Nat) /\ now \in Nat /\ now' = now + 1
      /\ window' = window /\ n \in Nat /\ Len(window) \in Nat /\ time \in Int
      /\ admitted' = Since(admitted, time)
      /\ \A k \in 1..n : admitted[k] \in Nat
  BY SMTT(30) DEF RateInv, TInv, TypeOK, Tick, Late
<1>2. PICK d \in 0..n :
         /\ admitted' = SubSeq(admitted, d + 1, n)
         /\ d < n => admitted[d + 1] > time
  BY <1>1, SinceDrops
<1>3. Len(admitted') = n - d /\ \A k \in 1..(n - d) : admitted'[k] = admitted[d + k]
  BY <1>1, <1>2, Suffix
<1>4. /\ \A i, k \in 1..n : i <= k => admitted[i] <= admitted[k]
      /\ \A k \in 1..n : admitted[k] <= now
  BY DEF RateInv, Recent
<1>5. /\ n <= Len(window)
      /\ \A k \in 1..n : admitted[k] - MaxStall <= window[Len(window) - n + k]
  BY DEF RateInv, Aligned
<1>6. time = now' - (Window - MaxStall)
  OBVIOUS
<1> HIDE DEF n, time
<1>7. \A k \in 1..(n - d) : d + k \in 1..n /\ d + 1 \in 1..n /\ d + 1 <= d + k /\ d < n
  BY <1>1
<1>8. Recent'
  <2>1. \A k \in 1..(n - d) : time < admitted'[k] /\ admitted'[k] <= now'
    <3> TAKE k \in 1..(n - d)
    <3>1. admitted[d + 1] > time /\ admitted[d + 1] <= admitted[d + k] /\ admitted[d + k] <= now
      BY <1>2, <1>4, <1>7
    <3>2. admitted[d + 1] \in Nat /\ admitted[d + k] \in Nat
      BY <1>1, <1>7
    <3>3. admitted'[k] = admitted[d + k] /\ time \in Int /\ now \in Nat /\ now' = now + 1
      BY <1>1, <1>3
    <3>4. QED
      BY <3>1, <3>2, <3>3
  <2>2. \A i, k \in 1..(n - d) : i <= k => admitted'[i] <= admitted'[k]
    BY SMTT(30), <1>3, <1>4, <1>7
  <2>3. QED
    BY <1>3, <1>6, <2>1, <2>2 DEF Recent
<1>9. Aligned'
  <2>1. ASSUME NEW k \in 1..(n - d)
        PROVE  admitted'[k] - MaxStall <= window[Len(window) - (n - d) + k]
    <3>1. Len(window) - (n - d) + k = Len(window) - n + (d + k)
      BY <1>1
    <3>2. QED
      BY <1>3, <1>5, <1>7, <3>1
  <2>2. QED
    BY <1>1, <1>3, <1>5, <2>1 DEF Aligned
<1>10. QED
  BY <1>1, <1>3, <1>8, <1>9 DEF n

(* A hit trims the window at its stamp, which no entry of the history can  *)
(* fall to: it counts all of them before it lets another one in.           *)
LEMMA HitRate ==
    ASSUME RateInv, NEW r \in Requests, Hit(r)
    PROVE  Recent' /\ Aligned' /\ Counted'
<1> DEFINE stamp == request[r].stamp
           rate == request[r].rate
           n == Len(admitted)
           left == IF rate = 0 THEN window ELSE Remaining(stamp)
<1>1. /\ admitted \in Seq(Nat) /\ window \in Seq(Nat) /\ now \in Nat /\ now' = now
      /\ n \in Nat /\ Len(window) \in Nat /\ stamp \in Nat /\ rate \in Nat
      /\ peak' = peak /\ peak.rate \in Nat
      /\ \A k \in 1..n : admitted[k] \in Nat
      /\ \A k \in 1..Len(window) : window[k] \in Nat
  <2>1. /\ admitted \in Seq(Nat) /\ window \in Seq(Nat) /\ now \in Nat
        /\ request[r] \in States /\ peak \in Limits
    BY DEF RateInv, TInv, TypeOK
  <2>2. now' = now /\ peak' = peak
    BY DEF Hit
  <2>3. stamp \in Nat /\ rate \in Nat /\ peak.rate \in Nat
    BY <2>1 DEF States, Limits
  <2>4. QED
    BY <2>1, <2>2, <2>3
<1>2. /\ stamp <= now /\ now <= stamp + MaxStall
      /\ Within(rate, peak.rate)
  BY DEF RateInv, Stamped, Seen, Hit
<1>3. /\ n <= Len(window)
      /\ \A k \in 1..n : admitted[k] - MaxStall <= window[Len(window) - n + k]
      /\ \A k \in 1..n : now - (Window - MaxStall) < admitted[k] /\ admitted[k] <= now
      /\ \A i, k \in 1..n : i <= k => admitted[i] <= admitted[k]
      /\ peak.rate # 0 => n <= peak.rate
  BY DEF RateInv, Aligned, Recent, Counted
<1>4. /\ \/ window' = left /\ admitted' = admitted
         \/ /\ rate # 0 /\ Len(left) < rate
            /\ window' = Append(left, stamp) /\ admitted' = Append(admitted, now)
  BY DEF Hit
<1>5. /\ left \in Seq(Nat) /\ Len(left) \in Nat /\ n <= Len(left)
      /\ \A k \in 1..n : admitted[k] - MaxStall <= left[Len(left) - n + k]
  <2>1. CASE rate = 0
    BY <1>1, <1>3, <2>1
  <2>2. CASE rate # 0
    <3>1. left = Since(window, stamp - Window) /\ stamp - Window \in Int
      BY <1>1, <2>2 DEF Remaining
    <3>2. PICK d \in 0..Len(window) :
             /\ left = SubSeq(window, d + 1, Len(window))
             /\ \A i \in 1..d : window[i] <= stamp - Window
      BY <1>1, <3>1, SinceDrops
    <3>3. /\ left \in Seq(Nat) /\ Len(left) = Len(window) - d
          /\ \A k \in 1..(Len(window) - d) : left[k] = window[d + k]
      BY ZenonT(40), <1>1, <3>1, <3>2, Suffix, SinceType
    <3> HIDE DEF left, n, stamp, rate
    <3>4. n <= Len(window) - d
      <4>1. SUFFICES ASSUME n > Len(window) - d PROVE FALSE
        BY <1>1
      <4>2. 1 \in 1..n /\ Len(window) - n + 1 \in 1..d /\ Len(window) - n + 1 \in 1..Len(window)
        BY <1>1, <1>3, <4>1
      <4>3. /\ window[Len(window) - n + 1] <= stamp - Window
            /\ admitted[1] - MaxStall <= window[Len(window) - n + 1]
            /\ now - (Window - MaxStall) < admitted[1]
        BY <1>3, <3>2, <4>2
      <4>4. window[Len(window) - n + 1] \in Nat /\ admitted[1] \in Nat
        BY <1>1, <4>2
      <4>5. now \in Nat /\ stamp \in Nat /\ stamp <= now /\ Window \in Nat /\ MaxStall \in Nat
        BY <1>1, <1>2
      <4>6. QED
        BY ONLY <4>3, <4>4, <4>5
    <3>5. ASSUME NEW k \in 1..n PROVE admitted[k] - MaxStall <= left[Len(left) - n + k]
      <4>1. Len(left) - n + k \in 1..(Len(window) - d) /\ d + (Len(left) - n + k) = Len(window) - n + k
        BY <1>1, <3>3, <3>4
      <4>2. QED
        BY <1>3, <3>3, <4>1
    <3>6. QED
      BY <1>1, <3>3, <3>4, <3>5
  <2>3. QED
    BY <2>1, <2>2
<1> HIDE DEF left, n, stamp, rate
<1>6. CASE window' = left /\ admitted' = admitted
  BY <1>1, <1>3, <1>5, <1>6 DEF Recent, Aligned, Counted, n
<1>7. CASE /\ rate # 0 /\ Len(left) < rate
           /\ window' = Append(left, stamp) /\ admitted' = Append(admitted, now)
  <2>1. /\ Len(window') = Len(left) + 1 /\ Len(admitted') = n + 1
        /\ \A k \in 1..n : admitted'[k] = admitted[k]
        /\ admitted'[n + 1] = now
        /\ \A k \in 1..Len(left) : window'[k] = left[k]
        /\ window'[Len(left) + 1] = stamp
    BY <1>1, <1>5, <1>7 DEF n
  <2>2. \A k \in 1..(n + 1) : k \in 1..n \/ k = n + 1
    BY <1>1
  <2>3. Recent'
    <3>1. ASSUME NEW i \in 1..(n + 1), NEW k \in 1..(n + 1), i <= k PROVE admitted'[i] <= admitted'[k]
      <4>1. CASE k = n + 1
        <5>1. admitted'[k] = now /\ now \in Nat
          BY <1>1, <2>1, <4>1
        <5>2. i = n + 1 \/ (i \in 1..n /\ admitted'[i] = admitted[i] /\ admitted[i] <= now)
          BY <1>3, <2>1, <2>2
        <5>3. QED
          BY <2>1, <5>1, <5>2
      <4>2. CASE k \in 1..n
        <5>1. i \in 1..n
          BY <1>1, <3>1, <4>2
        <5>2. QED
          BY <1>3, <2>1, <3>1, <4>2, <5>1
      <4>3. QED
        BY <2>2, <4>1, <4>2
    <3>2. ASSUME NEW k \in 1..(n + 1)
          PROVE  now' - (Window - MaxStall) < admitted'[k] /\ admitted'[k] <= now'
      <4>1. CASE k \in 1..n
        BY <1>1, <1>3, <2>1, <4>1
      <4>2. CASE k = n + 1
        BY <1>1, <2>1, <4>2, StallIsShort
      <4>3. QED
        BY <2>2, <4>1, <4>2
    <3>3. QED
      BY <2>1, <3>1, <3>2 DEF Recent
  <2>4. Aligned'
    <3>1. ASSUME NEW k \in 1..n
          PROVE  admitted'[k] - MaxStall <= window'[Len(window') - Len(admitted') + k]
      <4>1. Len(window') - Len(admitted') + k = Len(left) - n + k /\ Len(left) - n + k \in 1..Len(left)
        BY <1>1, <1>5, <2>1
      <4>2. QED
        BY <1>5, <2>1, <4>1
    <3>2. admitted'[n + 1] - MaxStall <= window'[Len(window') - Len(admitted') + (n + 1)]
      <4>1. Len(window') - Len(admitted') + (n + 1) = Len(left) + 1
        BY <1>1, <1>5, <2>1
      <4>2. QED
        BY <1>1, <1>2, <2>1, <4>1
    <3>3. Len(admitted') <= Len(window')
      BY <1>1, <1>5, <2>1
    <3>4. \A k \in 1..Len(admitted') :
             admitted'[k] - MaxStall <= window'[Len(window') - Len(admitted') + k]
      BY <2>1, <2>2, <3>1, <3>2
    <3>5. QED
      BY <3>3, <3>4 DEF Aligned
  <2>5. Counted'
    BY <1>1, <1>2, <1>5, <1>7, <2>1 DEF Counted, Within
  <2>6. QED
    BY <2>3, <2>4, <2>5
<1>8. QED
  BY <1>4, <1>6, <1>7

(* At first nothing is counted.                                            *)
LEMMA RateInit == Init => RateInv
<1> SUFFICES ASSUME Init PROVE RateInv
  OBVIOUS
<1>1. TInv
  BY TypeInit
<1>2. peak = plan /\ plan.rate \in Nat /\ plan.cap \in Nat
  BY <1>1 DEF Init, TInv, TypeOK, Limits
<1>3. \A r \in Requests : request[r].at = "new"
  BY StateTypes DEF Init
<1>4. Len(admitted) = 0 /\ Len(window) = 0
  BY DEF Init
<1>5. QED
  BY <1>1, <1>2, <1>3, <1>4 DEF RateInv, Seen, Within, Stamped, Recent, Aligned, Counted

(* RateInv is inductive.                                                   *)
LEMMA RateStep == RateInv /\ [Next]_vars => RateInv'
<1> SUFFICES ASSUME RateInv, [Next]_vars PROVE RateInv'
  OBVIOUS
<1>1. TInv' /\ Seen' /\ Stamped'
  BY TypeStep, SeenStep, StampedStep DEF RateInv
<1>2. Recent' /\ Aligned' /\ Counted'
  <2>0. peak.rate \in Nat /\ peak'.rate \in Nat /\ Within(peak.rate, peak'.rate)
        /\ Len(admitted) \in Nat /\ Len(admitted') \in Nat
    BY SMTT(30), <1>1, PeakGrows DEF RateInv, TInv, TypeOK, Limits
  <2>1. CASE Tick
    <3>1. Recent' /\ Aligned' /\ Len(admitted') <= Len(admitted)
      BY <2>1, TickRate
    <3>2. Counted'
      BY <2>0, <3>1 DEF RateInv, Counted, Within
    <3>3. QED
      BY <3>1, <3>2
  <2>2. ASSUME NEW r \in Requests, Hit(r) PROVE Recent' /\ Aligned' /\ Counted'
    BY <2>2, HitRate
  <2>3. CASE Restart
    <3>1. Len(admitted') = 0 /\ Len(window') = 0
      BY <2>3 DEF Restart
    <3>2. QED
      BY <2>0, <3>1 DEF Recent, Aligned, Counted
  <2>4. CASE UNCHANGED <<now, window, admitted>>
    <3>1. Recent' /\ Aligned'
      BY <2>4 DEF RateInv, Recent, Aligned
    <3>2. Counted'
      BY <2>0, <2>4 DEF RateInv, Counted, Within
    <3>3. QED
      BY <3>1, <3>2
  <2>5. QED
    BY <2>1, <2>2, <2>3, <2>4
       DEF Next, vars, ServeStep, Arrive, Lookup, Resolve, Insert, Persist, CreateWorkflow, Record,
           RefuseJob, RefuseWorkflow, Turned, PersistFails, Ends, Retry, Clear, RecordFails, ChangePlan
<1>3. QED
  BY <1>1, <1>2 DEF RateInv

(* A stretch of the history has no more entries than the history.          *)
LEMMA RateFollows == RateInv => RateHeld
<1> SUFFICES ASSUME RateInv, peak.rate # 0, NEW i \in DOMAIN admitted
             PROVE  Cardinality({k \in DOMAIN admitted : /\ admitted[k] > admitted[i] - (Window - MaxStall)
                                                         /\ admitted[k] <= admitted[i]}) <= peak.rate
  BY DEF RateHeld
<1> DEFINE some == {k \in DOMAIN admitted : /\ admitted[k] > admitted[i] - (Window - MaxStall)
                                           /\ admitted[k] <= admitted[i]}
           n == Len(admitted)
<1>1. n \in Nat /\ n <= peak.rate /\ peak.rate \in Nat /\ DOMAIN admitted = 1..n
  BY DEF RateInv, Counted, TInv, TypeOK, Limits
<1>2. some \in SUBSET (1..n)
  BY <1>1
<1> HIDE DEF some, n
<1>3. IsFiniteSet(1..n) /\ Cardinality(1..n) = n
  BY <1>1, FS_Interval
<1>4. Cardinality(some) <= n /\ Cardinality(some) \in Nat
  BY <1>2, <1>3, FS_Subset, FS_CardinalityType
<1>5. Cardinality(some) <= peak.rate
  BY <1>1, <1>4
<1>6. QED
  BY <1>5 DEF some

(* The limiter keeps its promise for every window, stall and set of plans: *)
(* RateHeld is an invariant of Gateway (request_limiter.py).               *)
THEOREM RateIsHeld == Spec => []RateHeld
<1>1. Init => RateInv
  BY RateInit
<1>2. RateInv /\ [Next]_vars => RateInv'
  BY RateStep
<1>3. RateInv => RateHeld
  BY RateFollows
<1>4. QED
  BY <1>1, <1>2, <1>3, PTL DEF Spec

---------------------------------------------------------------------------
(* The cap.                                                                *)

(* Nothing exists before it is created, and a workflow neither fails nor   *)
(* is cleared away.                                                        *)
Born ==
    \A r \in Requests :
        /\ request[r].at \in {"new", "arrived", "admitted", "submit", "insert", "refused"} => job[r] = "none"
        /\ request[r].shape.kind = "workflow" => job[r] \in {"none", "live"}
        /\ request[r].at \in {"insert", "persist"} => request[r].shape.kind = "job"

(* How a job may change: it is created by its own thread, or it exists.    *)
LEMMA JobMoves ==
    TInv /\ [Next]_vars => \A r \in Requests :
        \/ job'[r] = job[r]
        \/ Insert(r) /\ request'[r].at = "persist" /\ job'[r] = "memory"
        \/ CreateWorkflow(r) /\ job'[r] = "live"
        \/ /\ job[r] # "none" /\ job'[r] # "none"
           /\ job[r] = "memory" \/ request[r].shape.kind = "job"
           /\ job'[r] \in {"memory", "live"} => job[r] \in {"memory", "live"} \/ r \in retried'
<1> SUFFICES ASSUME TInv, [Next]_vars, NEW r \in Requests, job'[r] # job[r]
             PROVE  \/ Insert(r) /\ request'[r].at = "persist" /\ job'[r] = "memory"
                    \/ CreateWorkflow(r) /\ job'[r] = "live"
                    \/ /\ job[r] # "none" /\ job'[r] # "none"
                       /\ job[r] = "memory" \/ request[r].shape.kind = "job"
                       /\ job'[r] \in {"memory", "live"} => job[r] \in {"memory", "live"} \/ r \in retried'
  OBVIOUS
<1> USE DEF TInv, TypeOK
<1>1. ASSUME NEW s \in Requests, NEW new, job' = [job EXCEPT ![s] = new] PROVE s = r /\ job'[r] = new
  BY <1>1
<1>2. ASSUME NEW s \in Requests, Insert(s) PROVE Insert(r) /\ request'[r].at = "persist" /\ job'[r] = "memory"
  <2>1. s = r /\ job'[r] = "memory" /\ Become(s, [request[s] EXCEPT !.at = "persist", !.cap = 0])
    BY <1>1, <1>2 DEF Insert
  <2>2. QED
    BY <1>2, <2>1 DEF Become, States
<1>3. ASSUME NEW s \in Requests, CreateWorkflow(s) PROVE CreateWorkflow(r) /\ job'[r] = "live"
  <2>1. s = r /\ job'[r] = "live"
    BY <1>1, <1>3 DEF CreateWorkflow
  <2>2. QED
    BY <1>3, <2>1
<1>4. ASSUME NEW s \in Requests, Persist(s) PROVE job[r] = "memory" /\ job'[r] = "live"
  BY <1>4 DEF Persist
<1>5. ASSUME NEW s \in Requests, Ends(s) \/ Clear(s)
      PROVE  /\ job[r] \in {"memory", "live", "failed"} /\ job'[r] \in {"failed", "over", "gone"}
             /\ request[r].shape.kind = "job"
  BY <1>1, <1>5 DEF Ends, Clear
<1>6. ASSUME NEW s \in Requests, Retry(s)
      PROVE  /\ job[r] = "failed" /\ job'[r] \in {"memory", "live"} /\ r \in retried'
             /\ request[r].shape.kind = "job"
  BY <1>1, <1>6 DEF Retry
<1>7. CASE Restart
  BY <1>7 DEF Restart
<1>8. QED
  BY ZenonT(40), <1>2, <1>3, <1>4, <1>5, <1>6, <1>7
     DEF Next, vars, ServeStep, Tick, Arrive, Hit, Lookup, Resolve, Record, RefuseJob, RefuseWorkflow, Turned,
         PersistFails, RecordFails, ChangePlan

(* Born is inductive.                                                      *)
LEMMA BornStep == TInv /\ Born /\ [Next]_vars => Born'
<1> SUFFICES ASSUME TInv, Born, [Next]_vars, NEW r \in Requests
             PROVE  /\ request'[r].at \in {"new", "arrived", "admitted", "submit", "insert", "refused"} => job'[r] = "none"
                    /\ request'[r].shape.kind = "workflow" => job'[r] \in {"none", "live"}
                    /\ request'[r].at \in {"insert", "persist"} => request'[r].shape.kind = "job"
  BY DEF Born
<1>1. request'[r] = request[r] \/ Moved(request[r], request'[r])
  BY Moves
<1>2. CreateWorkflow(r) => request[r].at = "submit" /\ request'[r].at = "record"
  BY DEF CreateWorkflow, Become, TInv, TypeOK, States
<1>3. Insert(r) => request[r].at = "insert"
  BY DEF Insert
<1>4. request'[r].at \in {"new", "arrived", "admitted", "submit", "insert", "refused"} => job'[r] = "none"
  <2> SUFFICES ASSUME request'[r].at \in {"new", "arrived", "admitted", "submit", "insert", "refused"}
               PROVE  job'[r] = "none"
    OBVIOUS
  <2>1. job[r] = "none"
    BY <1>1 DEF Born, Moved
  <2>2. QED
    BY <1>2, <2>1, JobMoves
<1>5. request'[r].at \in {"insert", "persist"} => request'[r].shape.kind = "job"
  BY <1>1 DEF Born, Moved
<1>6. request'[r].shape.kind = "workflow" => job'[r] \in {"none", "live"}
  <2> SUFFICES ASSUME request'[r].shape.kind = "workflow", job'[r] # "none" PROVE job'[r] = "live"
    OBVIOUS
  <2>1. request'[r].shape = request[r].shape
    BY <1>1, <1>4 DEF Moved
  <2>2. job[r] \in {"none", "live"}
    BY <2>1 DEF Born
  <2>3. ~Insert(r)
    BY <1>3, <2>1 DEF Born
  <2>4. QED
    BY <2>1, <2>2, <2>3, JobMoves
<1>7. QED
  BY <1>4, <1>5, <1>6

CapInv == TInv /\ Seen /\ Born /\ CapHeld

(* A job that comes to count was let in under jobs_lock in this step.      *)
LEMMA Joins ==
    ASSUME TInv, Born, [Next]_vars, NEW r \in InFlight' \ retried'
    PROVE  r \in InFlight \ retried \/ (Insert(r) /\ request'[r].at = "persist")
<1>1. r \in Requests /\ request'[r].shape.kind = "job" /\ job'[r] \in {"memory", "live"} /\ r \notin retried'
  BY DEF InFlight
<1>2. r \notin retried
  BY ZenonT(40), <1>1 DEF Next, vars, ServeStep, Tick, Arrive, Hit, Lookup, Resolve, Insert, Persist,
           CreateWorkflow, Restart, Record, RefuseJob, RefuseWorkflow, Turned, PersistFails, Ends, Retry,
           Clear, RecordFails, ChangePlan
<1>3. request'[r].at \notin {"new", "arrived", "admitted", "submit", "insert", "refused"}
  BY <1>1, BornStep DEF Born
<1>4. request'[r].shape = request[r].shape
  BY <1>1, <1>3, Moves DEF Moved
<1>5. CreateWorkflow(r) => request[r].shape.kind = "workflow"
  BY DEF CreateWorkflow
<1>6. job[r] \in {"memory", "live"} \/ (Insert(r) /\ request'[r].at = "persist")
  BY <1>1, <1>4, <1>5, JobMoves
<1>7. QED
  BY <1>1, <1>2, <1>4, <1>6 DEF InFlight

(* CapInv is inductive: whoever joins found room under the cap it had      *)
(* looked up, and only one joins in a step.                                *)
LEMMA CapStep == CapInv /\ [Next]_vars => CapInv'
<1> SUFFICES ASSUME CapInv, [Next]_vars PROVE CapInv'
  OBVIOUS
<1>1. TInv /\ Seen /\ Born
  BY DEF CapInv
<1>2. TInv' /\ Seen' /\ Born'
  BY <1>1, TypeStep, SeenStep, BornStep
<1>3. IsFiniteSet(InFlight) /\ IsFiniteSet(InFlight')
  <2>1. InFlight \in SUBSET Requests /\ InFlight' \in SUBSET Requests
    BY DEF InFlight
  <2>2. QED
    BY <2>1, FS_Subset
<1>4. peak.cap \in Nat /\ peak'.cap \in Nat /\ Within(peak.cap, peak'.cap)
  BY <1>1, <1>2, PeakGrows DEF TInv, TypeOK, Limits
<1>5. /\ IsFiniteSet(InFlight \ retried) /\ IsFiniteSet(InFlight' \ retried')
      /\ Cardinality(InFlight \ retried) \in Nat /\ Cardinality(InFlight' \ retried') \in Nat
      /\ Cardinality(InFlight) \in Nat
  <2>1. InFlight \ retried \in SUBSET InFlight /\ InFlight' \ retried' \in SUBSET InFlight'
    OBVIOUS
  <2>2. IsFiniteSet(InFlight \ retried) /\ IsFiniteSet(InFlight' \ retried')
    BY <1>3, <2>1, FS_Subset
  <2>3. QED
    BY <1>3, <2>2, FS_CardinalityType
<1>6. CASE InFlight' \ retried' \subseteq InFlight \ retried
  <2>1. Cardinality(InFlight' \ retried') <= Cardinality(InFlight \ retried)
    BY <1>5, <1>6, FS_Subset
  <2>2. QED
    BY <1>2, <1>4, <1>5, <2>1 DEF CapInv, CapHeld, Within
<1>7. ASSUME NEW r \in InFlight' \ retried', Insert(r), request'[r].at = "persist" PROVE CapHeld'
  <2>1. SUFFICES ASSUME peak'.cap # 0 PROVE Cardinality(InFlight' \ retried') <= peak'.cap
    BY DEF CapHeld
  <2>2. r \in Requests /\ request[r] \in States
    BY <1>1 DEF InFlight, TInv, TypeOK
  <2>3. request[r].at = "insert" /\ HasRoom(request[r].cap) /\ peak' = peak
    BY <1>7, <2>2, StateTypes DEF Insert, Become, TInv, TypeOK, CapInv
  <2>4. /\ request[r].cap \in Nat /\ request[r].cap # 0 /\ request[r].cap <= peak.cap
        /\ Cardinality(InFlight) < request[r].cap
    BY <1>1, <2>1, <2>2, <2>3 DEF Seen, Within, HasRoom, States
  <2>5. InFlight' \ retried' \in SUBSET (InFlight \union {r})
    <3>1. ASSUME NEW s \in InFlight' \ retried', s # r PROVE s \in InFlight
      <4>1. s \in Requests /\ request'[s] = request[s]
        BY <1>7, <2>2, <3>1 DEF Insert, Become, InFlight, CapInv, TInv, TypeOK
      <4>2. ~(Insert(s) /\ request'[s].at = "persist")
        BY <4>1 DEF Insert
      <4>3. QED
        BY <1>1, <4>2, Joins
    <3>2. QED
      BY <3>1
  <2>6. /\ IsFiniteSet(InFlight \union {r})
        /\ Cardinality(InFlight \union {r}) \in {Cardinality(InFlight), Cardinality(InFlight) + 1}
    BY <1>3, FS_AddElement
  <2>7. Cardinality(InFlight' \ retried') <= Cardinality(InFlight \union {r})
    BY <2>5, <2>6, FS_Subset
  <2>8. QED
    BY <1>4, <1>5, <2>3, <2>4, <2>6, <2>7
<1>8. CapHeld'
  BY <1>1, <1>6, <1>7, Joins DEF CapInv
<1>9. QED
  BY <1>2, <1>8 DEF CapInv

(* At first no job exists.                                                 *)
LEMMA CapInit == Init => CapInv
<1> SUFFICES ASSUME Init PROVE CapInv
  OBVIOUS
<1>1. TInv /\ Seen
  BY RateInit DEF RateInv
<1>2. \A r \in Requests : request[r].at = "new" /\ job[r] = "none"
  BY StateTypes DEF Init
<1>3. InFlight = {}
  BY <1>2 DEF InFlight
<1>4. Cardinality(InFlight \ retried) = 0 /\ peak.cap \in Nat
  BY <1>1, <1>3, FS_EmptySet DEF TInv, TypeOK, Limits
<1>5. QED
  BY <1>1, <1>2, <1>4 DEF CapInv, Born, CapHeld

(* However many submissions race, for every number of requests and every   *)
(* set of plans: CapHeld is an invariant of Gateway (submit_job).          *)
THEOREM CapIsHeld == Spec => []CapHeld
<1>1. Init => CapInv
  BY CapInit
<1>2. CapInv /\ [Next]_vars => CapInv'
  BY CapStep
<1>3. CapInv => CapHeld
  BY DEF CapInv
<1>4. QED
  BY <1>1, <1>2, <1>3, PTL DEF Spec

---------------------------------------------------------------------------
(* The key.                                                                *)

(* A thread between taking a key's lock and leaving it.                    *)
InBlock(r) == request[r].at \in {"submit", "insert", "persist", "record"} /\ HasKey(r)

(* It is the only one there, and the key is not recorded yet.              *)
Locked ==
    \A r \in Requests : InBlock(r) => holder[Slot(r)] = r /\ recorded[Slot(r)].id = NoRequest

(* What is recorded was created under the key.                             *)
RecordedIsHis ==
    \A slot \in Slots : recorded[slot].id # NoRequest =>
        request[recorded[slot].id].at = "answered" /\ Slot(recorded[slot].id) = slot

(* Every answer to a keyed request is what is recorded for its key.        *)
AnswerIsRecorded ==
    \A r \in Requests : request[r].at = "answered" /\ HasKey(r) =>
        /\ recorded[Slot(r)].id = request[r].answer
        /\ recorded[Slot(r)].id # NoRequest
        /\ recorded[Slot(r)].body = request[r].shape.body

(* What was created under a key is being recorded, is recorded, or its     *)
(* thread was cut short.                                                   *)
CreatedIsKnown ==
    \A r \in Requests : Created(r) /\ HasKey(r) /\ r \notin cut =>
        InBlock(r) \/ (request[r].at = "answered" /\ recorded[Slot(r)].id = r)

KeyInv == Locked /\ RecordedIsHis /\ AnswerIsRecorded /\ CreatedIsKnown

(* What a thread is asked, and its slot, are those of its state.           *)
LEMMA SameState ==
    ASSUME NEW r \in Requests, request'[r] = request[r]
    PROVE  HasKey(r)' = HasKey(r) /\ Slot(r)' = Slot(r) /\ InBlock(r)' = InBlock(r)
BY DEF HasKey, Slot, InBlock

(* The same when only the place in the code changed.                       *)
LEMMA SameShape ==
    ASSUME NEW r \in Requests, request'[r].shape = request[r].shape
    PROVE  HasKey(r)' = HasKey(r) /\ Slot(r)' = Slot(r)
BY DEF HasKey, Slot

(* A step that neither records nor creates, and after which whoever is in  *)
(* the block was in it and still has the lock, keeps KeyInv.               *)
LEMMA KeyFrame ==
    ASSUME TInv, Born, KeyInv, [Next]_vars, recorded' = recorded,
           \A r \in Requests : InBlock(r)' =>
               InBlock(r) /\ request'[r].shape = request[r].shape /\ holder'[Slot(r)] = r,
           \A r \in Requests : request'[r].at = "answered" => request'[r] = request[r],
           \A r \in Requests : Created(r)' /\ r \notin cut' => Created(r) /\ r \notin cut,
           \A r \in Requests : Created(r) /\ InBlock(r) /\ ~InBlock(r)' => r \in cut'
    PROVE  KeyInv'
<1>1. Locked'
  BY SameShape DEF KeyInv, Locked
<1>2. \A r \in Requests : request[r].at = "answered" => request'[r] = request[r]
  BY Moves DEF Moved
<1>3. RecordedIsHis'
  BY <1>2, SameState DEF KeyInv, RecordedIsHis, TInv, TypeOK
<1>4. AnswerIsRecorded'
  BY SameState DEF KeyInv, AnswerIsRecorded
<1>5. CreatedIsKnown'
  <2> SUFFICES ASSUME NEW r \in Requests, Created(r)', HasKey(r)', r \notin cut', ~InBlock(r)'
               PROVE  request'[r].at = "answered" /\ recorded'[Slot(r)'] = recorded[Slot(r)] /\ recorded[Slot(r)].id = r
    BY DEF CreatedIsKnown
  <2>1. Created(r) /\ r \notin cut /\ ~InBlock(r)
    OBVIOUS
  <2>2. job'[r] # "none" /\ job[r] # "none"
    BY <2>1 DEF Created
  <2>3. request'[r].shape = request[r].shape
    BY <2>2, BornStep, Moves DEF Born, Moved
  <2>4. HasKey(r)
    BY <2>3, SameShape
  <2>5. request[r].at = "answered" /\ recorded[Slot(r)].id = r
    BY <2>1, <2>4 DEF KeyInv, CreatedIsKnown
  <2>6. QED
    BY <1>2, <2>5, SameState
<1>6. QED
  BY <1>1, <1>3, <1>4, <1>5 DEF KeyInv

(* One thread moves: the others are where they were.                       *)
LEMMA Others ==
    ASSUME TInv, NEW r \in Requests, NEW state, Become(r, state)
    PROVE  /\ request'[r] = state
           /\ \A s \in Requests : s # r => /\ request'[s] = request[s] /\ HasKey(s)' = HasKey(s)
                                         /\ Slot(s)' = Slot(s) /\ InBlock(s)' = InBlock(s)
BY DEF Become, TInv, TypeOK, HasKey, Slot, InBlock

(* Refusing a request that created nothing.                                *)
LEMMA KeyRefused ==
    ASSUME TInv, Born, KeyInv, [Next]_vars, NEW r \in Requests,
           request[r].at \in {"arrived", "admitted", "submit", "insert"}, Become(r, Refused),
           holder' \in {holder, Unlocked(r)}, recorded' = recorded, job' = job, cut' = cut
    PROVE  KeyInv'
<1>1. /\ request'[r].at = "refused"
      /\ \A s \in Requests : s # r => /\ request'[s] = request[s] /\ InBlock(s)' = InBlock(s)
  BY Others, StateTypes
<1>2. ~InBlock(r)' /\ ~Created(r)
  BY <1>1 DEF InBlock, Born, Created
<1>3. ASSUME NEW s \in Requests, InBlock(s), s # r PROVE holder'[Slot(s)] = s
  <2>1. Slot(s) \in Slots /\ holder[Slot(s)] = s
    BY <1>3, SlotType DEF InBlock, KeyInv, Locked
  <2>2. QED
    BY <1>3, <2>1, UnlockedType
<1>4. \A s \in Requests : Created(s)' = Created(s)
  BY DEF Created
<1>5. QED
  BY <1>1, <1>2, <1>3, <1>4, KeyFrame

(* Going on inside the block, and creating in it.                          *)
LEMMA KeyGoesOn ==
    ASSUME TInv, Born, KeyInv, [Next]_vars, NEW r \in Requests,
           request[r].at \in {"submit", "insert", "persist"}, NEW state, Become(r, state),
           state.at \in {"insert", "persist", "record"}, state.shape = request[r].shape,
           UNCHANGED <<holder, recorded, cut>>,
           \A s \in Requests : s # r => job'[s] = job[s]
    PROVE  KeyInv'
<1>1. /\ request'[r] = state
      /\ \A s \in Requests : s # r => /\ request'[s] = request[s] /\ HasKey(s)' = HasKey(s)
                                     /\ Slot(s)' = Slot(s) /\ InBlock(s)' = InBlock(s)
  BY Others
<1>2. /\ HasKey(r)' <=> HasKey(r)
      /\ InBlock(r)' <=> HasKey(r)
      /\ InBlock(r) <=> HasKey(r)
      /\ Slot(r)' = Slot(r)
  BY <1>1 DEF InBlock, HasKey, Slot
<1>3. Locked'
  BY <1>1, <1>2 DEF KeyInv, Locked
<1>4. RecordedIsHis'
  <2>1. \A slot \in Slots : recorded[slot].id # NoRequest =>
           recorded[slot].id \in Requests /\ recorded[slot].id # r
    BY DEF KeyInv, RecordedIsHis, TInv, TypeOK
  <2>2. QED
    BY <1>1, <2>1 DEF KeyInv, RecordedIsHis
<1>5. AnswerIsRecorded'
  BY <1>1 DEF KeyInv, AnswerIsRecorded
<1>6. CreatedIsKnown'
  BY <1>1, <1>2 DEF KeyInv, CreatedIsKnown, Created
<1>7. QED
  BY <1>3, <1>4, <1>5, <1>6 DEF KeyInv

(* The lookup: a recorded key is answered or refused, so whoever takes the *)
(* lock finds its key unrecorded.                                          *)
LEMMA KeyLookup ==
    ASSUME TInv, Born, KeyInv, [Next]_vars, NEW r \in Requests, Lookup(r)
    PROVE  KeyInv'
<1> DEFINE known == recorded[Slot(r)]
<1>1. /\ request[r].at = "admitted" /\ request[r] \in States
      /\ UNCHANGED <<recorded, job, cut>>
  BY DEF Lookup, TInv, TypeOK
<1>2. ~InBlock(r) /\ ~Created(r) /\ \A s \in Requests : Created(s)' = Created(s)
  BY <1>1 DEF InBlock, Born, Created
<1>3. CASE ~HasKey(r)
  <2> DEFINE state == [request[r] EXCEPT !.at = "submit"]
  <2>1. Become(r, state) /\ holder' = holder
    BY <1>3 DEF Lookup
  <2>2. state.at = "submit" /\ state.shape = request[r].shape
    BY <1>1 DEF States
  <2> HIDE DEF state
  <2>3. /\ request'[r] = state
        /\ \A s \in Requests : s # r => request'[s] = request[s] /\ InBlock(s)' = InBlock(s)
    BY <2>1, Others
  <2>4. ~InBlock(r)'
    BY <1>3, <2>2, <2>3 DEF InBlock, HasKey
  <2>5. QED
    BY <1>1, <1>2, <2>1, <2>2, <2>3, <2>4, KeyFrame DEF KeyInv, Locked
<1>4. CASE HasKey(r)
  <2>1. Slot(r) \in Slots /\ known.id \in Requests \union {NoRequest} /\ holder[Slot(r)] = NoRequest
    BY <1>1, <1>4, SlotType DEF TInv, TypeOK, Lookup
  <2>2. ASSUME known.id # NoRequest PROVE Replays(r)
    <3>1. /\ known.id \in Requests /\ Slot(known.id) = Slot(r) /\ request[known.id].at = "answered"
      BY <2>1, <2>2 DEF KeyInv, RecordedIsHis
    <3>2. request[known.id].shape.kind = request[r].shape.kind
      BY <3>1 DEF Slot
    <3>3. request[r].shape.kind \in Kinds
      BY <1>1, ShapesAreRecords DEF TInv, Shaped
    <3>4. QED
      BY <2>2, <3>1, <3>2, <3>3 DEF Replays, Kinds, Born
  <2>3. CASE Become(r, Refused) /\ holder' = holder
    BY <1>1, <2>3, KeyRefused
  <2>4. CASE /\ known.id # NoRequest /\ known.body = request[r].shape.body
             /\ Become(r, Answer(r, known.id)) /\ holder' = holder
    <3> DEFINE state == Answer(r, known.id)
    <3>1. state.at = "answered" /\ state.shape = request[r].shape /\ state.answer = known.id
      BY <1>1 DEF Answer, States
    <3>2. Become(r, state)
      BY <2>4
    <3> HIDE DEF state, known
    <3>3. /\ request'[r] = state
          /\ \A s \in Requests : s # r => /\ request'[s] = request[s] /\ HasKey(s)' = HasKey(s)
                                         /\ Slot(s)' = Slot(s) /\ InBlock(s)' = InBlock(s)
      BY <3>2, Others
    <3>4. Slot(r)' = Slot(r) /\ ~InBlock(r)'
      BY <3>1, <3>3 DEF Slot, InBlock
    <3>5. Locked' /\ CreatedIsKnown'
      BY <1>1, <1>2, <2>4, <3>3, <3>4 DEF KeyInv, Locked, CreatedIsKnown
    <3>6. RecordedIsHis'
      <4>1. \A slot \in Slots : recorded[slot].id # NoRequest =>
               recorded[slot].id \in Requests /\ recorded[slot].id # r
        BY <1>1 DEF KeyInv, RecordedIsHis, TInv, TypeOK
      <4>2. QED
        BY <1>1, <3>3, <4>1 DEF KeyInv, RecordedIsHis
    <3>7. AnswerIsRecorded'
      BY <1>1, <2>4, <3>1, <3>3, <3>4 DEF KeyInv, AnswerIsRecorded, known
    <3>8. QED
      BY <3>5, <3>6, <3>7 DEF KeyInv
  <2>5. CASE /\ known.id = NoRequest
             /\ Become(r, [request[r] EXCEPT !.at = "submit"])
             /\ holder' = [holder EXCEPT ![Slot(r)] = r]
    <3> DEFINE state == [request[r] EXCEPT !.at = "submit"]
    <3>1. state.at = "submit" /\ state.shape = request[r].shape
      BY <1>1 DEF States
    <3>2. Become(r, state)
      BY <2>5
    <3> HIDE DEF state
    <3>3. /\ request'[r] = state
          /\ \A s \in Requests : s # r => /\ request'[s] = request[s] /\ HasKey(s)' = HasKey(s)
                                         /\ Slot(s)' = Slot(s) /\ InBlock(s)' = InBlock(s)
      BY <3>2, Others
    <3>4. Slot(r)' = Slot(r) /\ holder'[Slot(r)] = r
          /\ \A slot \in Slots : slot # Slot(r) => holder'[slot] = holder[slot]
      BY <2>1, <2>5, <3>1, <3>3 DEF Slot, TInv, TypeOK
    <3>5. ASSUME NEW s \in Requests, s # r, InBlock(s)
          PROVE  holder'[Slot(s)] = s /\ recorded[Slot(s)].id = NoRequest
      <4>1. Slot(s) \in Slots /\ holder[Slot(s)] = s /\ recorded[Slot(s)].id = NoRequest
        BY <3>5, SlotType DEF InBlock, KeyInv, Locked
      <4>2. Slot(s) # Slot(r)
        BY <2>1, <4>1
      <4>3. QED
        BY <3>4, <4>1, <4>2
    <3>6. Locked'
      BY <1>1, <2>5, <3>3, <3>4, <3>5 DEF Locked
    <3>7. CreatedIsKnown' /\ AnswerIsRecorded'
      BY <1>1, <1>2, <3>1, <3>3 DEF KeyInv, CreatedIsKnown, AnswerIsRecorded
    <3>8. RecordedIsHis'
      <4>1. \A slot \in Slots : recorded[slot].id # NoRequest =>
               recorded[slot].id \in Requests /\ recorded[slot].id # r
        BY <1>1 DEF KeyInv, RecordedIsHis, TInv, TypeOK
      <4>2. QED
        BY <1>1, <3>3, <4>1 DEF KeyInv, RecordedIsHis
    <3>9. QED
      BY <3>6, <3>7, <3>8 DEF KeyInv
  <2>6. QED
    BY <1>4, <2>2, <2>3, <2>4, <2>5 DEF Lookup, Replays
<1>5. QED
  BY <1>3, <1>4

(* The key is recorded for whoever holds its lock.                         *)
LEMMA KeyRecord ==
    ASSUME TInv, Born, KeyInv, [Next]_vars, NEW r \in Requests, Record(r)
    PROVE  KeyInv'
<1> DEFINE state == Answer(r, r)
<1>1. /\ request[r].at = "record" /\ request[r] \in States /\ Become(r, state)
      /\ UNCHANGED <<job, cut>> /\ holder' = Unlocked(r)
  BY DEF Record, TInv, TypeOK
<1>2. state.at = "answered" /\ state.shape = request[r].shape /\ state.answer = r
  BY <1>1 DEF Answer, States
<1> HIDE DEF state
<1>3. /\ request'[r] = state
      /\ \A s \in Requests : s # r => /\ request'[s] = request[s] /\ HasKey(s)' = HasKey(s)
                                     /\ Slot(s)' = Slot(s) /\ InBlock(s)' = InBlock(s)
  BY <1>1, Others
<1>4. /\ HasKey(r)' <=> HasKey(r)
      /\ InBlock(r) <=> HasKey(r)
      /\ Slot(r)' = Slot(r) /\ ~InBlock(r)'
  BY <1>1, <1>2, <1>3 DEF HasKey, Slot, InBlock
<1>5. \A s \in Requests : Created(s)' = Created(s)
  BY <1>1 DEF Created
<1>6. ASSUME NEW s \in Requests, s # r, InBlock(s)
      PROVE  holder'[Slot(s)] = s /\ recorded[Slot(s)].id = NoRequest /\ (HasKey(r) => Slot(s) # Slot(r))
  <2>1. Slot(s) \in Slots /\ holder[Slot(s)] = s /\ recorded[Slot(s)].id = NoRequest
    BY <1>6, SlotType DEF InBlock, KeyInv, Locked
  <2>2. HasKey(r) => holder[Slot(r)] = r
    BY <1>4 DEF KeyInv, Locked
  <2>3. QED
    BY <1>1, <1>6, <2>1, <2>2, UnlockedType
<1>7. CASE ~HasKey(r)
  <2>1. recorded' = recorded
    BY <1>7 DEF Record
  <2>2. Locked'
    BY <1>3, <1>4, <1>6, <2>1 DEF Locked
  <2>3. AnswerIsRecorded' /\ CreatedIsKnown'
    BY <1>1, <1>3, <1>4, <1>5, <1>7, <2>1 DEF KeyInv, AnswerIsRecorded, CreatedIsKnown
  <2>4. RecordedIsHis'
    <3>1. \A slot \in Slots : recorded[slot].id # NoRequest =>
             recorded[slot].id \in Requests /\ recorded[slot].id # r
      BY <1>1 DEF KeyInv, RecordedIsHis, TInv, TypeOK
    <3>2. QED
      BY <1>3, <2>1, <3>1 DEF KeyInv, RecordedIsHis
  <2>5. QED
    BY <2>2, <2>3, <2>4 DEF KeyInv
<1>8. CASE HasKey(r)
  <2>1. Slot(r) \in Slots /\ recorded[Slot(r)].id = NoRequest
    BY <1>1, <1>4, <1>8, SlotType DEF KeyInv, Locked
  <2>2. /\ recorded'[Slot(r)].id = r /\ recorded'[Slot(r)].body = request[r].shape.body
        /\ \A slot \in Slots : slot # Slot(r) => recorded'[slot] = recorded[slot]
    BY <1>8, <2>1 DEF Record, TInv, TypeOK
  <2>3. Locked'
    <3>1. ASSUME NEW s \in Requests, s # r, InBlock(s) PROVE Slot(s) \in Slots
      BY <3>1, SlotType DEF InBlock
    <3>2. QED
      BY <1>3, <1>4, <1>6, <1>8, <2>2, <3>1 DEF Locked
  <2>4. RecordedIsHis'
    <3>1. \A slot \in Slots : recorded[slot].id # NoRequest =>
             recorded[slot].id \in Requests /\ recorded[slot].id # r
      BY <1>1 DEF KeyInv, RecordedIsHis, TInv, TypeOK
    <3>2. QED
      BY <1>2, <1>3, <1>4, <2>2, <3>1 DEF KeyInv, RecordedIsHis
  <2>5. ASSUME NEW s \in Requests, s # r, request[s].at = "answered", HasKey(s)
        PROVE  Slot(s) \in Slots /\ Slot(s) # Slot(r)
    BY <2>1, <2>5, SlotType DEF KeyInv, AnswerIsRecorded
  <2>6. AnswerIsRecorded'
    <3>1. ASSUME NEW s \in Requests, s # r, request'[s].at = "answered", HasKey(s)'
          PROVE  /\ recorded'[Slot(s)'].id = request'[s].answer /\ recorded'[Slot(s)'].id # NoRequest
                 /\ recorded'[Slot(s)'].body = request'[s].shape.body
      BY <1>3, <2>2, <2>5, <3>1 DEF KeyInv, AnswerIsRecorded
    <3>2. QED
      BY <1>2, <1>3, <1>4, <2>2, <3>1 DEF AnswerIsRecorded
  <2>7. CreatedIsKnown'
    <3>1. ASSUME NEW s \in Requests, s # r, Created(s)', HasKey(s)', s \notin cut'
          PROVE  InBlock(s)' \/ (request'[s].at = "answered" /\ recorded'[Slot(s)'].id = s)
      BY <1>1, <1>3, <1>5, <2>2, <2>5, <3>1 DEF KeyInv, CreatedIsKnown
    <3>2. QED
      BY <1>2, <1>3, <1>4, <2>2, <3>1 DEF CreatedIsKnown
  <2>8. QED
    BY <2>3, <2>4, <2>6, <2>7 DEF KeyInv
<1>9. QED
  BY <1>7, <1>8

(* KeyInv is inductive.                                                    *)
LEMMA KeyStep == TInv /\ Born /\ KeyInv /\ [Next]_vars => KeyInv'
<1> SUFFICES ASSUME TInv, Born, KeyInv, [Next]_vars PROVE KeyInv'
  OBVIOUS
<1>0. \A r \in Requests : request[r] \in States
  BY DEF TInv, TypeOK
<1>1. ASSUME UNCHANGED <<request, holder, recorded, cut>>,
             \A r \in Requests : job'[r] # "none" => job[r] # "none"
      PROVE  KeyInv'
  <2>1. \A r \in Requests : InBlock(r)' = InBlock(r)
    BY <1>1, SameState
  <2>2. \A r \in Requests : Created(r)' => Created(r)
    BY <1>1 DEF Created
  <2>3. QED
    BY <1>1, <2>1, <2>2, KeyFrame DEF KeyInv, Locked
<1>2. ASSUME NEW r \in Requests, Ends(r) \/ Retry(r) \/ Clear(r) PROVE KeyInv'
  <2>1. UNCHANGED <<request, holder, recorded, cut>> /\ \A s \in Requests : job'[s] # "none" => job[s] # "none"
    BY <1>2 DEF Ends, Retry, Clear, TInv, TypeOK
  <2>2. QED
    BY <1>1, <2>1
<1>3. CASE Tick \/ (\E new \in Plans : ChangePlan(new)) \/ UNCHANGED vars
  BY <1>1, <1>3 DEF Tick, ChangePlan, vars
<1>4. ASSUME NEW r \in Requests, NEW state, Become(r, state), UNCHANGED <<holder, recorded, job, cut>>,
             ~Created(r), ~InBlock(r), state.at \in {"arrived", "admitted"}
      PROVE  KeyInv'
  <2>1. /\ request'[r] = state
        /\ \A s \in Requests : s # r => request'[s] = request[s] /\ InBlock(s)' = InBlock(s)
    BY <1>4, Others
  <2>2. ~InBlock(r)' /\ \A s \in Requests : Created(s)' = Created(s)
    BY <1>4, <2>1 DEF InBlock, Created
  <2>3. QED
    BY <1>4, <2>1, <2>2, KeyFrame DEF KeyInv, Locked
<1>5. ASSUME NEW r \in Requests, NEW shape \in Shapes, Arrive(r, shape) PROVE KeyInv'
  <2> DEFINE state == [Fresh EXCEPT !.at = "arrived", !.shape = shape, !.stamp = now, !.rate = Allowance]
  <2>1. state.at = "arrived"
    BY DEF Fresh
  <2>2. Become(r, state) /\ UNCHANGED <<holder, recorded, job, cut>> /\ ~Created(r) /\ ~InBlock(r)
    BY <1>5 DEF Arrive, Born, Created, InBlock
  <2> HIDE DEF state
  <2>3. QED
    BY <1>4, <2>1, <2>2
<1>6. ASSUME NEW r \in Requests, Hit(r) PROVE KeyInv'
  <2> DEFINE state == [Fresh EXCEPT !.at = "admitted", !.shape = request[r].shape]
  <2>1. state.at = "admitted" /\ request[r].at = "arrived"
    BY <1>6 DEF Fresh, Hit
  <2>2. /\ Become(r, state) \/ Become(r, Refused)
        /\ UNCHANGED <<holder, recorded, job, cut>>
    BY <1>6 DEF Hit
  <2>3. ~Created(r) /\ ~InBlock(r)
    BY <2>1 DEF Born, Created, InBlock
  <2> HIDE DEF state
  <2>4. QED
    BY <1>4, <2>1, <2>2, <2>3, KeyRefused
<1>7. ASSUME NEW r \in Requests, RefuseJob(r) \/ RefuseWorkflow(r) PROVE KeyInv'
  BY <1>7, KeyRefused DEF RefuseJob, RefuseWorkflow, Turned
<1>8. ASSUME NEW r \in Requests, Resolve(r) PROVE KeyInv'
  <2> DEFINE state == [request[r] EXCEPT !.at = "insert", !.cap = Cap]
  <2>1. state.at = "insert" /\ state.shape = request[r].shape /\ request[r].at = "submit"
    BY <1>0, <1>8 DEF States, Resolve
  <2>2. /\ \/ Become(r, state) /\ holder' = holder
           \/ Become(r, Refused) /\ holder' = Unlocked(r)
        /\ UNCHANGED <<recorded, job, cut>>
    BY <1>8 DEF Resolve
  <2> HIDE DEF state
  <2>3. QED
    BY <2>1, <2>2, KeyRefused, KeyGoesOn
<1>9. ASSUME NEW r \in Requests, Insert(r) PROVE KeyInv'
  <2> DEFINE state == [request[r] EXCEPT !.at = "persist", !.cap = 0]
  <2>1. state.at = "persist" /\ state.shape = request[r].shape /\ request[r].at = "insert"
    BY <1>0, <1>9 DEF States, Insert
  <2>2. /\ \/ Become(r, state) /\ holder' = holder /\ job' = [job EXCEPT ![r] = "memory"]
           \/ Become(r, Refused) /\ holder' = Unlocked(r) /\ job' = job
        /\ UNCHANGED <<recorded, cut>>
    BY <1>9 DEF Insert
  <2>3. \A s \in Requests : s # r => job'[s] = job[s]
    BY <2>2 DEF TInv, TypeOK
  <2> HIDE DEF state
  <2>4. QED
    BY <2>1, <2>2, <2>3, KeyRefused, KeyGoesOn
<1>10. ASSUME NEW r \in Requests, Persist(r) \/ PersistFails(r) \/ CreateWorkflow(r) PROVE KeyInv'
  <2> DEFINE state == [request[r] EXCEPT !.at = "record"]
  <2>1. /\ state.at = "record" /\ state.shape = request[r].shape
        /\ request[r].at \in {"submit", "persist"}
    BY <1>0, <1>10 DEF States, Persist, PersistFails, CreateWorkflow
  <2>2. /\ Become(r, state) /\ UNCHANGED <<holder, recorded, cut>>
        /\ \A s \in Requests : s # r => job'[s] = job[s]
    BY <1>10 DEF Persist, PersistFails, CreateWorkflow, TInv, TypeOK
  <2> HIDE DEF state
  <2>3. QED
    BY <2>1, <2>2, KeyGoesOn
<1>11. ASSUME NEW r \in Requests, RecordFails(r) PROVE KeyInv'
  <2> DEFINE state == [request[r] EXCEPT !.at = "dead"]
  <2>1. state.at = "dead"
    BY <1>0 DEF States
  <2>2. /\ Become(r, state) /\ UNCHANGED <<recorded, job>> /\ holder' = Unlocked(r)
        /\ cut' = cut \union {r}
    BY <1>11 DEF RecordFails
  <2> HIDE DEF state
  <2>3. /\ request'[r] = state
        /\ \A s \in Requests : s # r => request'[s] = request[s] /\ InBlock(s)' = InBlock(s)
    BY <2>2, Others
  <2>4. ~InBlock(r)' /\ \A s \in Requests : Created(s)' = Created(s)
    BY <2>1, <2>2, <2>3 DEF InBlock, Created
  <2>5. ASSUME NEW s \in Requests, InBlock(s), s # r PROVE holder'[Slot(s)] = s
    <3>1. Slot(s) \in Slots /\ holder[Slot(s)] = s
      BY <2>5, SlotType DEF InBlock, KeyInv, Locked
    <3>2. QED
      BY <2>2, <2>5, <3>1, UnlockedType
  <2>6. QED
    BY <2>1, <2>2, <2>3, <2>4, <2>5, KeyFrame
<1>12. CASE Restart
  <2>1. /\ recorded' = recorded
        /\ cut' = cut \union {r \in Requests : Working(r) /\ Created(r)}
        /\ \A r \in Requests : job'[r] # "none" => job[r] # "none"
    BY <1>12 DEF Restart, TInv, TypeOK
  <2>2. \A r \in Requests : request'[r] = IF Working(r) THEN [request[r] EXCEPT !.at = "dead"] ELSE request[r]
    BY <1>12 DEF Restart
  <2>3. \A r \in Requests : ~InBlock(r)' /\ (request'[r].at = "answered" => request'[r] = request[r])
    BY <1>0, <2>2 DEF InBlock, Working, States
  <2>4. \A r \in Requests : InBlock(r) => Working(r)
    BY DEF InBlock, Working
  <2>5. QED
    BY <2>1, <2>3, <2>4, KeyFrame DEF Created
<1>13. QED
  BY <1>2, <1>3, <1>5, <1>6, <1>7, <1>8, <1>9, <1>10, <1>11, <1>12, KeyLookup, KeyRecord DEF Next, ServeStep

(* What is recorded for a key is one thing, and its two creators would     *)
(* both hold its lock, or both be recorded, or one find it recorded.       *)
LEMMA KeyFollows == TInv /\ KeyInv => OneMeaning
<1> SUFFICES ASSUME TInv, KeyInv, NEW r \in Requests, NEW s \in Requests, SameKey(r, s)
             PROVE  /\ request[r].at = "answered" /\ request[s].at = "answered" =>
                           /\ request[r].answer = request[s].answer
                           /\ request[r].shape.body = request[s].shape.body
                    /\ Created(r) /\ Created(s) => r \in cut \/ s \in cut
  BY DEF OneMeaning
<1>1. r # s /\ HasKey(r) /\ HasKey(s) /\ Slot(r) = Slot(s)
  BY DEF SameKey, HasKey, Slot
<1>2. request[r].at = "answered" /\ request[s].at = "answered" =>
         request[r].answer = request[s].answer /\ request[r].shape.body = request[s].shape.body
  BY <1>1 DEF KeyInv, AnswerIsRecorded
<1>3. Created(r) /\ Created(s) => r \in cut \/ s \in cut
  BY <1>1 DEF KeyInv, CreatedIsKnown, Locked
<1>4. QED
  BY <1>2, <1>3

(* At first no key is recorded.                                            *)
LEMMA KeyInit == Init => KeyInv
<1> SUFFICES ASSUME Init PROVE KeyInv
  OBVIOUS
<1>1. \A r \in Requests : request[r].at = "new" /\ job[r] = "none"
  BY StateTypes DEF Init
<1>2. \A slot \in Slots : recorded[slot].id = NoRequest
  BY DEF Init, Nothing, Slots
<1>3. QED
  BY <1>1, <1>2 DEF KeyInv, Locked, RecordedIsHis, AnswerIsRecorded, CreatedIsKnown, InBlock, Created

(* An Idempotency-Key means one thing, whatever requests race or are cut   *)
(* short, for every number of requests, keys and bodies: OneMeaning is an  *)
(* invariant of Gateway (_idempotency_lock, submit_job, submit_workflow).  *)
THEOREM KeysMeanOneThing == Spec => []OneMeaning
<1> DEFINE Inv == CapInv /\ KeyInv
<1>1. Init => Inv
  BY CapInit, KeyInit
<1>2. Inv /\ [Next]_vars => Inv'
  BY CapStep, KeyStep DEF CapInv
<1>3. Inv => OneMeaning
  BY KeyFollows DEF CapInv
<1> HIDE DEF Inv
<1>4. QED
  BY <1>1, <1>2, <1>3, PTL DEF Spec
=============================================================================
