--------------------------- MODULE WorkflowProofs ---------------------------
(* For any workflow, any cap and any number of races, retries, restarts    *)
(* and crashes: no job is submitted before all its parents have completed. *)
(* Up to the first race, the first crash in the middle of a call and the   *)
(* second restart: at rest the engine and the coordinator agree on every   *)
(* job, and a ready job waits only for room under the cap.                 *)
EXTENDS Workflow, WellFoundedInduction, FiniteSetTheorems, TLAPS

USE WorkflowAssumption

ParentsDone(j) == \A p \in Parents[j] : job[p] = "completed"

(* What job states say about the jobs of the coordinator.                  *)
Truthful(s) == \A j \in Jobs : /\ s[j] = "COMPLETED" => job[j] = "completed"
                               /\ s[j] = "READY" => ParentsDone(j)

(* A callback carries the status its job ended with, a job in hand was     *)
(* ready, and a job whose dispatch raised is not yet given its status.     *)
HonestRec(t, th) ==
    /\ th.pc = "mark" => /\ th.how \in {"completed", "failed", "cancelled"} /\ th.job \in Jobs
                         /\ th.how = "completed" => job[th.job] = "completed"
    /\ \A i \in 1 .. Len(th.todo) : ParentsDone(th.todo[i])
    /\ th.raised => t \in Jobs /\ job[t] = "live"
    /\ th.pc = "record" => th.raised
    /\ th.pc = "running" => th.todo # <<>>
Honest(t) == HonestRec(t, thread[t])

OrderInv ==
    /\ TypeOK /\ Truthful(state) /\ Truthful(saved.state) /\ \A t \in Threads : Honest(t)

-----------------------------------------------------------------------------
(* The naturals are well ordered: what an induction over them rests on.    *)
LEMMA Least ==
    ASSUME NEW T \in SUBSET Nat, T # {}
    PROVE  \E x \in T : \A y \in T : x <= y
<1> DEFINE R == {ss \in Nat \X Nat : ss[1] < ss[2]}
<1>1. IsWellFoundedOn(R, Nat)
  BY NatLessThanWellFounded DEF OpToRel
<1>2. \A x, y \in Nat : ~(<<y, x>> \in R) => x <= y
  OBVIOUS
<1> HIDE DEF R
<1>3. PICK x \in T : \A y \in T : ~(<<y, x>> \in R)
  BY <1>1, WFMin
<1>4. QED
  BY <1>2, <1>3

(* The recursion of ReadyOfFirst has a solution, so it is one.             *)
LEMMA ReadyRecursion ==
    /\ ReadyOfFirst[0] = <<>>
    /\ \A k \in 1 .. Len(Order) : ReadyOfFirst[k] =
          IF state[Order[k]] = "READY" THEN Append(ReadyOfFirst[k - 1], Order[k])
          ELSE ReadyOfFirst[k - 1]
<1> DEFINE n == Len(Order)
           Next1(q, k) == IF state[Order[k]] = "READY" THEN Append(q, Order[k]) ELSE q
           Solves(f, m) == f = [k \in 0 .. m |-> IF k = 0 THEN <<>> ELSE Next1(f[k - 1], k)]
           Bad == {m \in 0 .. n : ~\E f : Solves(f, m)}
<1>1. n \in Nat
  OBVIOUS
<1> HIDE DEF n
<1>2. Bad = {}
  <2> SUFFICES ASSUME Bad # {} PROVE FALSE
    OBVIOUS
  <2>0. Bad \in SUBSET Nat
    BY <1>1
  <2>1. PICK m \in Bad : \A y \in Bad : m <= y
    <3> HIDE DEF Bad
    <3>1. QED
      BY <2>0, Least
  <2>2. m \in 0 .. n /\ ~\E f : Solves(f, m)
    OBVIOUS
  <2>3. m # 0
    <3>1. Solves([k \in 0 .. 0 |-> <<>>], 0)
      OBVIOUS
    <3>2. QED
      BY <2>2, <3>1
  <2>4. PICK f : Solves(f, m - 1)
    <3>1. m - 1 \in 0 .. n /\ ~(m <= m - 1)
      BY <1>1, <2>2, <2>3
    <3>2. m - 1 \notin Bad
      <4> HIDE DEF Bad
      <4>1. QED
        BY <2>1, <3>1
    <3> HIDE DEF Solves
    <3>3. QED
      BY <3>1, <3>2
  <2> DEFINE g == [k \in 0 .. m |-> IF k = m THEN Next1(f[m - 1], m) ELSE f[k]]
  <2>5. Solves(g, m)
    <3>1. ASSUME NEW k \in 0 .. m PROVE g[k] = IF k = 0 THEN <<>> ELSE Next1(g[k - 1], k)
      <4>1. CASE k = m
        <5>1. g[k] = Next1(f[m - 1], m) /\ g[m - 1] = f[m - 1]
          BY <2>2, <2>3, <4>1
        <5>2. QED
          BY <2>3, <4>1, <5>1
      <4>2. CASE k # m
        <5>1. k \in 0 .. (m - 1) /\ g[k] = f[k] /\ (k # 0 => g[k - 1] = f[k - 1])
          BY <2>2, <4>2
        <5>2. f[k] = IF k = 0 THEN <<>> ELSE Next1(f[k - 1], k)
          BY <2>4, <5>1
        <5>3. QED
          BY <5>1, <5>2
      <4>3. QED
        BY <4>1, <4>2
    <3>2. QED
      BY <3>1
  <2>6. QED
    BY <2>2, <2>5
<1>3. PICK f : Solves(f, n)
  <2>1. n \in 0 .. n
    BY <1>1
  <2> HIDE DEF Solves
  <2>2. QED
    BY <1>2, <2>1
<1>4. Solves(ReadyOfFirst, n)
  BY <1>3 DEF ReadyOfFirst, n
<1>5. ReadyOfFirst[0] = <<>>
  BY <1>1, <1>4
<1>6. ASSUME NEW k \in 1 .. n PROVE ReadyOfFirst[k] = Next1(ReadyOfFirst[k - 1], k)
  <2>1. k \in 0 .. n /\ k # 0
    BY <1>1
  <2>2. QED
    BY <1>4, <2>1
<1>7. QED
  BY <1>5, <1>6 DEF n

(* Only ready jobs are in the list.                                        *)
LEMMA ReadyListIs ==
    /\ ReadyList \in Seq(Jobs)
    /\ \A i \in 1 .. Len(ReadyList) : state[ReadyList[i]] = "READY"
<1> DEFINE n == Len(Order)
           Good(q) == q \in Seq(Jobs) /\ \A i \in 1 .. Len(q) : state[q[i]] = "READY"
           Bad == {m \in 0 .. n : ~Good(ReadyOfFirst[m])}
<1>1. n \in Nat /\ \A k \in 1 .. n : Order[k] \in Jobs
  OBVIOUS
<1>2. Good(<<>>)
  OBVIOUS
<1>3. ASSUME NEW q, Good(q), NEW k \in 1 .. n, state[Order[k]] = "READY"
      PROVE  Good(Append(q, Order[k]))
  <2>1. Order[k] \in Jobs /\ q \in Seq(Jobs)
    BY <1>1, <1>3
  <2>2. QED
    BY <1>3, <2>1
<1>4. ASSUME NEW k \in 1 .. n, Good(ReadyOfFirst[k - 1]) PROVE Good(ReadyOfFirst[k])
  <2>1. \/ state[Order[k]] = "READY" /\ ReadyOfFirst[k] = Append(ReadyOfFirst[k - 1], Order[k])
        \/ ReadyOfFirst[k] = ReadyOfFirst[k - 1]
    BY ReadyRecursion
  <2> HIDE DEF Good, n
  <2>2. QED
    BY <1>3, <1>4, <2>1
<1>5. Bad = {}
  <2> SUFFICES ASSUME Bad # {} PROVE FALSE
    OBVIOUS
  <2> HIDE DEF n, Good
  <2>1. Bad \in SUBSET Nat
    BY <1>1
  <2>2. PICK m \in Bad : \A y \in Bad : m <= y
    <3> HIDE DEF Bad
    <3>1. QED
      BY <2>1, Least
  <2>3. m \in 0 .. n /\ ~Good(ReadyOfFirst[m])
    OBVIOUS
  <2>4. m # 0
    BY <1>2, <2>3, ReadyRecursion
  <2>5. m \in 1 .. n /\ m - 1 \in 0 .. n /\ ~(m <= m - 1)
    BY <1>1, <2>3, <2>4
  <2>6. m - 1 \notin Bad
    <3> HIDE DEF Bad
    <3>1. QED
      BY <2>2, <2>5
  <2>7. Good(ReadyOfFirst[m - 1])
    BY <2>5, <2>6
  <2>8. QED
    BY <1>4, <2>3, <2>5, <2>7
<1>6. n \in 0 .. n /\ n \notin Bad
  BY <1>1, <1>5
<1>7. Good(ReadyOfFirst[n])
  <2> HIDE DEF Good
  <2>1. QED
    BY <1>6
<1>8. QED
  BY <1>7 DEF ReadyList

-----------------------------------------------------------------------------
(* _recompute_blocked neither completes a job nor makes it ready.          *)
LEMMA BlockedKeeps ==
    ASSUME NEW s \in [Jobs -> JobStates]
    PROVE  /\ Blocked(s) \in [Jobs -> JobStates]
           /\ \A j \in Jobs : Blocked(s)[j] \in {"COMPLETED", "READY"} => Blocked(s)[j] = s[j]
BY DEF Blocked, JobStates

LEMMA IdleIs ==
    /\ Idle \in ThreadRecs /\ Idle.pc = "idle" /\ Idle.todo = <<>> /\ Idle.raised = FALSE
    /\ \A pc \in PCs, j \in Threads, how \in Hows, raised \in BOOLEAN :
          [Idle EXCEPT !.pc = pc, !.job = j, !.how = how, !.raised = raised] \in ThreadRecs
<1>1. <<>> \in Seq(Jobs) /\ {} \in SUBSET Jobs
  OBVIOUS
<1>2. QED
  BY <1>1 DEF Idle, ThreadRecs, PCs, Hows, Threads

(* A thread only moves on.                                                 *)
LEMMA ThreadTypes ==
    ASSUME TypeOK, NEW t \in Threads
    PROVE  /\ thread[t] \in ThreadRecs /\ thread[t].todo \in Seq(Jobs)
           /\ \A pc \in PCs : [thread[t] EXCEPT !.pc = pc] \in ThreadRecs
           /\ \A pc \in PCs, q \in Seq(Jobs) : [thread[t] EXCEPT !.pc = pc, !.todo = q] \in ThreadRecs
           /\ \A pc \in PCs, how \in Hows, q \in Seq(Jobs) :
                 [thread[t] EXCEPT !.pc = pc, !.how = how, !.todo = q] \in ThreadRecs
           /\ \A q \in Seq(Jobs) : [thread[t] EXCEPT !.todo = q] \in ThreadRecs
           /\ \A pc \in PCs, how \in Hows : [thread[t] EXCEPT !.pc = pc, !.how = how] \in ThreadRecs
<1>1. thread[t] \in ThreadRecs
  BY DEF TypeOK
<1>2. QED
  BY <1>1 DEF ThreadRecs

(* A job that has completed stays so, and a thread does not mark the job   *)
(* of another.                                                             *)
LastingJobs(t) ==
    /\ \A j \in Jobs : job[j] = "completed" => job'[j] = "completed"
    /\ \A u \in Threads : u # t /\ thread[u].raised => job'[u] = "live"

(* One thread takes a step, and what it writes of the job states is true.  *)
LEMMA OneStep ==
    ASSUME OrderInv, TypeOK', NEW t \in Threads, NEW r \in ThreadRecs, LastingJobs(t),
           thread' = [thread EXCEPT ![t] = r],
           r.pc = "mark" => /\ r.how \in {"completed", "failed", "cancelled"} /\ r.job \in Jobs
                            /\ r.how = "completed" => job'[r.job] = "completed",
           \A i \in 1 .. Len(r.todo) : \/ \A p \in Parents[r.todo[i]] : job'[p] = "completed"
                                       \/ ParentsDone(r.todo[i]),
           r.raised => t \in Jobs /\ job'[t] = "live",
           r.pc = "record" => r.raised,
           r.pc = "running" => r.todo # <<>>,
           \A j \in Jobs : /\ state'[j] = "COMPLETED" => state[j] = "COMPLETED" \/ job'[j] = "completed"
                           /\ state'[j] = "READY" => state[j] = "READY" \/ ParentsDone(j),
           saved' = saved \/ saved'.state = state'
    PROVE  OrderInv'
<1>1. \A j \in Jobs : Parents[j] \subseteq Jobs
  BY DEF Parents, Predecessors, Dag
<1>2. \A j \in Jobs : ParentsDone(j) => ParentsDone(j)'
  BY <1>1 DEF ParentsDone, LastingJobs
<1>3. Truthful(state)'
  BY <1>2 DEF OrderInv, Truthful, LastingJobs
<1>4. Truthful(saved.state)'
  <2>1. CASE saved' = saved
    BY <1>2, <2>1 DEF OrderInv, Truthful, LastingJobs
  <2>2. CASE saved'.state = state'
    BY <1>3, <2>2 DEF Truthful
  <2>3. QED
    BY <2>1, <2>2
<1>5. ASSUME NEW u \in Threads PROVE Honest(u)'
  <2>1. CASE u = t
    <3>1. thread'[u] = r
      BY <2>1 DEF OrderInv, TypeOK
    <3>2. \A i \in 1 .. Len(r.todo) : r.todo[i] \in Jobs
      BY DEF ThreadRecs
    <3>3. \A i \in 1 .. Len(r.todo) : ParentsDone(r.todo[i])'
      BY <1>2, <3>2 DEF ParentsDone
    <3>4. QED
      BY <2>1, <3>1, <3>3 DEF Honest, HonestRec
  <2>2. CASE u # t
    <3>1. thread'[u] = thread[u] /\ thread[u] \in ThreadRecs
      BY <2>2 DEF OrderInv, TypeOK
    <3>2. \A i \in 1 .. Len(thread[u].todo) : thread[u].todo[i] \in Jobs
      BY <3>1 DEF ThreadRecs
    <3>3. HonestRec(u, thread[u])
      BY DEF OrderInv, Honest
    <3>4. \A i \in 1 .. Len(thread[u].todo) : ParentsDone(thread[u].todo[i])
      BY <3>3 DEF HonestRec
    <3>5. \A i \in 1 .. Len(thread'[u].todo) : ParentsDone(thread[u].todo[i])'
      BY SMTT(30), <1>2, <3>1, <3>2, <3>4 DEF ParentsDone
    <3>6. thread[u].pc = "mark" /\ thread[u].how = "completed" => job'[thread[u].job] = "completed"
      BY <3>3 DEF HonestRec, LastingJobs
    <3>7. QED
      BY <2>2, <3>1, <3>3, <3>5, <3>6 DEF Honest, HonestRec, LastingJobs
  <2>3. QED
    BY <2>1, <2>2
<1>6. QED
  BY <1>3, <1>4, <1>5 DEF OrderInv
-----------------------------------------------------------------------------
LEMMA TailIs ==
    ASSUME NEW q \in Seq(Jobs), q # <<>>
    PROVE  /\ Head(q) \in Jobs /\ Head(q) = q[1] /\ 1 \in 1 .. Len(q)
           /\ Tail(q) \in Seq(Jobs)
           /\ \A i \in 1 .. Len(Tail(q)) : i + 1 \in 1 .. Len(q) /\ Tail(q)[i] = q[i + 1]
<1>1. Len(q) \in Nat /\ Len(q) # 0
  OBVIOUS
<1>2. Head(q) = q[1] /\ Tail(q) \in Seq(Jobs) /\ Len(Tail(q)) = Len(q) - 1
  BY <1>1
<1>3. \A i \in 1 .. Len(Tail(q)) : i + 1 \in 1 .. Len(q) /\ Tail(q)[i] = q[i + 1]
  BY <1>1, <1>2
<1>4. QED
  BY <1>1, <1>2, <1>3

(* What a thread may rely on.                                              *)
LEMMA HonestIs ==
    ASSUME OrderInv, NEW t \in Threads
    PROVE  /\ HonestRec(t, thread[t]) /\ thread[t] \in ThreadRecs
           /\ \A i \in 1 .. Len(thread[t].todo) : ParentsDone(thread[t].todo[i])
           /\ thread[t].raised => t \in Jobs /\ job[t] = "live"
BY DEF OrderInv, Honest, HonestRec, TypeOK

LEMMA JobsAsTheyWere ==
    ASSUME OrderInv, job' = job, NEW t \in Threads
    PROVE  LastingJobs(t)
BY HonestIs DEF LastingJobs

(* The states that a thread puts in hand are those of ready jobs.          *)
LEMMA InHand ==
    ASSUME OrderInv
    PROVE  /\ ReadyList \in Seq(Jobs)
           /\ \A i \in 1 .. Len(ReadyList) : ParentsDone(ReadyList[i])
<1>1. \A i \in 1 .. Len(ReadyList) : ReadyList[i] \in Jobs /\ state[ReadyList[i]] = "READY"
  BY ReadyListIs
<1>2. QED
  BY <1>1, ReadyListIs DEF OrderInv, Truthful

(* A thread that changes no job and takes none in hand.                    *)
LEMMA MovesOn ==
    ASSUME OrderInv, TypeOK', NEW t \in Threads, job' = job,
           NEW pc \in PCs \ {"mark", "record", "running"}, Goto(t, pc),
           \A j \in Jobs : /\ state'[j] = "COMPLETED" => state[j] = "COMPLETED" \/ job'[j] = "completed"
                           /\ state'[j] = "READY" => state[j] = "READY" \/ ParentsDone(j),
           saved' = saved \/ saved'.state = state'
    PROVE  OrderInv'
<1> DEFINE r == [thread[t] EXCEPT !.pc = pc]
<1>1. r \in ThreadRecs /\ r.pc = pc /\ r.todo = thread[t].todo /\ r.raised = thread[t].raised
  BY ThreadTypes DEF OrderInv, ThreadRecs
<1>2. thread' = [thread EXCEPT ![t] = r]
  BY DEF Goto
<1>3. LastingJobs(t)
  BY JobsAsTheyWere
<1>4. /\ \A i \in 1 .. Len(r.todo) : ParentsDone(r.todo[i])
      /\ r.raised => t \in Jobs /\ job'[t] = "live"
      /\ r.pc # "mark" /\ r.pc # "record" /\ r.pc # "running"
  BY <1>1, HonestIs
<1> HIDE DEF r
<1>5. QED
  BY <1>1, <1>2, <1>3, <1>4, OneStep

(* A thread that drops what it had in hand.                                *)
LEMMA Rests ==
    ASSUME OrderInv, TypeOK', NEW t \in Threads, LastingJobs(t), NEW r \in ThreadRecs,
           thread' = [thread EXCEPT ![t] = r],
           r.todo = <<>>, r.raised = FALSE, r.pc \notin {"mark", "record", "running"},
           \A j \in Jobs : /\ state'[j] = "COMPLETED" => state[j] = "COMPLETED" \/ job'[j] = "completed"
                           /\ state'[j] = "READY" => state[j] = "READY" \/ ParentsDone(j),
           saved' = saved \/ saved'.state = state'
    PROVE  OrderInv'
<1>1. \A i \in 1 .. Len(r.todo) : FALSE
  OBVIOUS
<1>2. QED
  BY <1>1, OneStep

-----------------------------------------------------------------------------
LEMMA SubmitKeeps ==
    ASSUME OrderInv, Submit
    PROVE  OrderInv'
<1> DEFINE r == [thread[Main] EXCEPT !.pc = "lock", !.how = "submit"]
<1>0. Main \in Threads /\ "lock" \in PCs /\ "submit" \in Hows
  BY DEF Threads, PCs, Hows
<1>1. r \in ThreadRecs /\ r.pc = "lock" /\ r.todo = thread[Main].todo /\ r.raised = thread[Main].raised
  BY <1>0, ThreadTypes DEF OrderInv, ThreadRecs
<1>2. thread' = [thread EXCEPT ![Main] = r] /\ job' = job /\ saved' = saved
  BY DEF Submit, engine, jobs
<1>3. TypeOK'
  <2>1. thread' \in [Threads -> ThreadRecs]
    <3> HIDE DEF r
    <3>1. QED
      BY <1>0, <1>1, <1>2 DEF OrderInv, TypeOK
  <2>2. QED
    BY <2>1 DEF OrderInv, TypeOK, Submit, engine, jobs, bounds, JobStates, WorkflowStatus
<1>4. LastingJobs(Main)
  BY <1>0, <1>2, JobsAsTheyWere
<1>5. \A j \in Jobs : /\ state'[j] # "COMPLETED"
                      /\ state'[j] = "READY" => ParentsDone(j)
  BY DEF Submit, ParentsDone
<1>6. /\ \A i \in 1 .. Len(r.todo) : ParentsDone(r.todo[i])
      /\ r.raised => Main \in Jobs /\ job'[Main] = "live"
  BY <1>0, <1>1, <1>2, HonestIs
<1> HIDE DEF r
<1>7. QED
  BY <1>0, <1>1, <1>2, <1>3, <1>4, <1>5, <1>6, OneStep

LEMMA FinishKeeps ==
    ASSUME OrderInv, NEW j \in Jobs, NEW how \in {"completed", "failed", "cancelled"},
           NEW raised \in BOOLEAN, Finish(j, how, raised)
    PROVE  OrderInv'
<1> DEFINE r == [Idle EXCEPT !.pc = "mark", !.job = j, !.how = how, !.raised = raised]
<1>0. j \in Threads /\ "mark" \in PCs /\ how \in Hows
  BY DEF Threads, PCs, Hows
<1>1. r \in ThreadRecs
  BY <1>0, IdleIs
<1>2. /\ r.pc = "mark" /\ r.todo = <<>> /\ r.raised = raised /\ r.job = j /\ r.how = how
      /\ thread' = [thread EXCEPT ![j] = r] /\ state' = state /\ saved' = saved
  BY DEF Finish, Idle, wf, engine
<1>3. /\ job[j] = "live"
      /\ raised => how = "failed"
      /\ job' = IF raised THEN job ELSE [job EXCEPT ![j] = how]
      /\ job \in [Jobs -> {"absent", "live", "completed", "failed", "cancelled", "success"}]
  BY DEF Finish, OrderInv, TypeOK
<1>4. TypeOK'
  <2>1. thread' \in [Threads -> ThreadRecs]
    <3> HIDE DEF r
    <3>1. QED
      BY <1>0, <1>1, <1>2 DEF OrderInv, TypeOK
  <2>2. job' \in [Jobs -> {"absent", "live", "completed", "failed", "cancelled", "success"}]
    BY <1>3
  <2>3. races' \in Nat
    BY DEF Finish, Race, OrderInv, TypeOK
  <2>4. QED
    BY <2>1, <2>2, <2>3 DEF OrderInv, TypeOK, Finish, wf, engine
<1>5. /\ \A i \in Jobs : job[i] = "completed" => job'[i] = "completed"
      /\ \A u \in Jobs : u # j /\ job[u] = "live" => job'[u] = "live"
      /\ how = "completed" => job'[j] = "completed"
      /\ raised => job'[j] = "live"
  <2>1. CASE raised
    BY <1>3, <2>1
  <2>2. CASE ~raised
    <3>1. job' = [job EXCEPT ![j] = how]
      BY <1>3, <2>2
    <3>2. job'[j] = how /\ \A i \in Jobs : i # j => job'[i] = job[i]
      BY <1>3, <3>1
    <3>3. QED
      BY <1>3, <2>2, <3>2
  <2>3. QED
    BY <2>1, <2>2
<1>6. LastingJobs(j)
  BY <1>5, HonestIs DEF LastingJobs
<1>7. \A i \in 1 .. Len(r.todo) : FALSE
  BY <1>2
<1> HIDE DEF r
<1>8. QED
  BY <1>0, <1>1, <1>2, <1>4, <1>5, <1>6, <1>7, OneStep

LEMMA ExhaustKeeps ==
    ASSUME OrderInv, NEW j \in Jobs, Exhaust(j)
    PROVE  OrderInv'
<1>1. /\ job' = [job EXCEPT ![j] = "failed"] /\ job[j] = "live" /\ thread[j] = Idle
      /\ state' = state /\ saved' = saved /\ thread' = thread /\ j \in Threads
      /\ job \in [Jobs -> {"absent", "live", "completed", "failed", "cancelled", "success"}]
  BY DEF Exhaust, wf, engine, OrderInv, TypeOK, Threads
<1>2. /\ job' \in [Jobs -> {"absent", "live", "completed", "failed", "cancelled", "success"}]
      /\ \A i \in Jobs : i # j => job'[i] = job[i]
  BY <1>1
<1>3. TypeOK'
  BY <1>1, <1>2 DEF OrderInv, TypeOK, Exhaust, wf, engine, bounds
<1>4. LastingJobs(j)
  BY <1>1, <1>2, HonestIs DEF LastingJobs
<1>5. thread' = [thread EXCEPT ![j] = thread[j]] /\ thread[j] \in ThreadRecs
  BY <1>1 DEF OrderInv, TypeOK
<1>6. /\ thread[j].raised = FALSE /\ thread[j].pc = "idle"
      /\ \A i \in 1 .. Len(thread[j].todo) : ParentsDone(thread[j].todo[i])
  BY <1>1, IdleIs, HonestIs
<1> HIDE DEF Idle
<1>7. QED
  BY <1>1, <1>3, <1>4, <1>5, <1>6, OneStep

LEMMA MarkKeeps ==
    ASSUME OrderInv, NEW t \in Threads, Mark(t)
    PROVE  OrderInv'
<1>0. {"retry", "ready", "block"} \subseteq PCs \ {"mark", "record", "running"}
  BY DEF PCs
<1>1. HonestRec(t, thread[t]) /\ thread[t].pc = "mark"
  BY HonestIs DEF Mark
<1>2. PICK pc \in {"retry", "ready", "block"} : Goto(t, pc)
  BY DEF Mark
<1>3. /\ thread[t].how \in {"completed", "failed", "cancelled"} /\ thread[t].job \in Jobs
      /\ thread[t].how = "completed" => job[thread[t].job] = "completed"
  BY <1>1 DEF HonestRec
<1>4. MarkOf(thread[t].how) \in JobStates \ {"READY"}
      /\ (MarkOf(thread[t].how) = "COMPLETED" => thread[t].how = "completed")
  BY <1>3 DEF MarkOf, JobStates
<1>5. state' = state \/ state' = [state EXCEPT ![thread[t].job] = MarkOf(thread[t].how)]
  BY DEF Mark
<1>6. job' = job /\ saved' = saved
  BY DEF Mark, engine, jobs
<1>7. TypeOK'
  <2>1. thread' \in [Threads -> ThreadRecs]
    BY <1>0, <1>2, ThreadTypes DEF OrderInv, TypeOK, Goto
  <2>2. state' \in [Jobs -> JobStates]
    BY <1>4, <1>5 DEF OrderInv, TypeOK
  <2>3. QED
    BY <2>1, <2>2 DEF OrderInv, TypeOK, Mark, engine, jobs, bounds
<1>8. \A j \in Jobs : /\ state'[j] = "COMPLETED" => state[j] = "COMPLETED" \/ job'[j] = "completed"
                      /\ state'[j] = "READY" => state[j] = "READY"
  BY <1>3, <1>4, <1>5, <1>6 DEF OrderInv, TypeOK
<1>9. QED
  BY <1>0, <1>2, <1>6, <1>7, <1>8, MovesOn

LEMMA UpdateReadyKeeps ==
    ASSUME OrderInv, NEW t \in Threads, UpdateReady(t)
    PROVE  OrderInv'
<1>0. "lock" \in PCs \ {"mark", "record", "running"}
  BY DEF PCs
<1>1. Goto(t, "lock") /\ job' = job /\ saved' = saved
  BY DEF UpdateReady, engine, jobs
<1>2. TypeOK'
  <2>1. thread' \in [Threads -> ThreadRecs]
    BY <1>0, <1>1, ThreadTypes DEF OrderInv, TypeOK, Goto
  <2>2. state' \in [Jobs -> JobStates]
    BY DEF UpdateReady, OrderInv, TypeOK, JobStates
  <2>3. QED
    BY <2>1, <2>2 DEF OrderInv, TypeOK, UpdateReady, engine, jobs, bounds
<1>3. \A j \in Jobs : j \in NewlyReady => ParentsDone(j)
  <2>1. \A j \in Jobs : Parents[j] \subseteq Jobs
    BY DEF Parents, Predecessors, Dag
  <2>2. QED
    BY <2>1 DEF OrderInv, Truthful, NewlyReady, ParentsDone
<1>4. \A j \in Jobs : state'[j] = IF j \in NewlyReady THEN "READY" ELSE state[j]
  BY DEF UpdateReady
<1>5. QED
  BY <1>0, <1>1, <1>2, <1>3, <1>4, MovesOn

(* process_failed_job and process_cancelled_job complete no job and make   *)
(* none ready.                                                             *)
LEMMA BrokenKeeps ==
    ASSUME OrderInv, NEW s \in [Jobs -> JobStates], NEW how, Broken(s, how),
           \A j \in Jobs : s[j] \in {"COMPLETED", "READY"} => s[j] = state[j]
    PROVE  /\ state' \in [Jobs -> JobStates] /\ status' \in WorkflowStatus /\ over' \in BOOLEAN
           /\ saved' \in Saved /\ saved'.state = state'
           /\ \A j \in Jobs : state'[j] \in {"COMPLETED", "READY"} => state'[j] = state[j]
<1>1. state' = Blocked(s) /\ status' \in {"FAILED", "CANCELLED"}
  BY DEF Broken
<1>2. state' \in [Jobs -> JobStates] /\ \A j \in Jobs : state'[j] \in {"COMPLETED", "READY"} => state'[j] = state[j]
  BY <1>1, BlockedKeeps
<1>3. over' \in BOOLEAN
  BY DEF Broken, Settled, OrderInv, TypeOK
<1>4. saved' = [state |-> state', status |-> status', over |-> over']
  BY DEF Broken, Persist
<1>5. QED
  BY <1>1, <1>2, <1>3, <1>4 DEF WorkflowStatus, Saved

LEMMA BlockKeeps ==
    ASSUME OrderInv, NEW t \in Threads, Block(t)
    PROVE  OrderInv'
<1>0. AfterDag(t) \in PCs \ {"mark", "record", "running"}
  BY DEF PCs, AfterDag
<1>1. Goto(t, AfterDag(t)) /\ job' = job /\ Broken(state, thread[t].how)
  BY DEF Block, jobs
<1>2. state \in [Jobs -> JobStates]
  BY DEF OrderInv, TypeOK
<1>3. /\ state' \in [Jobs -> JobStates] /\ status' \in WorkflowStatus /\ over' \in BOOLEAN
      /\ saved' \in Saved /\ saved'.state = state'
      /\ \A j \in Jobs : state'[j] \in {"COMPLETED", "READY"} => state'[j] = state[j]
  BY <1>1, <1>2, BrokenKeeps
<1>4. TypeOK'
  <2>1. thread' \in [Threads -> ThreadRecs]
    BY <1>0, <1>1, ThreadTypes DEF OrderInv, TypeOK, Goto
  <2>2. QED
    BY <2>1, <1>3 DEF OrderInv, TypeOK, Block, jobs, bounds
<1>5. QED
  BY <1>0, <1>1, <1>3, <1>4, MovesOn

LEMMA ScheduleKeeps ==
    ASSUME OrderInv, NEW t \in Threads, Schedule(t)
    PROVE  OrderInv'
<1> DEFINE r == [thread[t] EXCEPT !.pc = "submit", !.todo = ReadyList]
<1>0. "submit" \in PCs
  BY DEF PCs
<1>1. /\ r \in ThreadRecs /\ r.pc = "submit" /\ r.todo = ReadyList /\ r.raised = thread[t].raised
  BY ZenonT(40), <1>0, ThreadTypes, InHand DEF OrderInv, ThreadRecs
<1>2. thread' = [thread EXCEPT ![t] = r] /\ job' = job /\ saved' = saved /\ state' = state
  BY DEF Schedule, wf, jobs
<1>3. TypeOK'
  <2>1. thread' \in [Threads -> ThreadRecs]
    <3> HIDE DEF r
    <3>1. QED
      BY <1>1, <1>2 DEF OrderInv, TypeOK
  <2>2. QED
    BY <2>1 DEF OrderInv, TypeOK, Schedule, wf, jobs, bounds
<1>4. LastingJobs(t)
  BY <1>2, JobsAsTheyWere
<1>5. /\ \A i \in 1 .. Len(r.todo) : ParentsDone(r.todo[i])
      /\ r.raised => t \in Jobs /\ job'[t] = "live"
  BY <1>1, <1>2, InHand, HonestIs
<1> HIDE DEF r
<1>6. QED
  BY <1>1, <1>2, <1>3, <1>4, <1>5, OneStep
(* A call ends: the thread rests, or has yet to record that its job failed *)
LEMMA CallEnds ==
    ASSUME OrderInv, NEW t \in Threads, job' = job,
           thread' = [thread EXCEPT ![t] =
                         IF @.raised THEN [@ EXCEPT !.pc = "record"] ELSE Idle],
           TypeOK' \/ thread' \notin [Threads -> ThreadRecs],
           state' = state, saved' = saved \/ saved'.state = state'
    PROVE  OrderInv'
<1> DEFINE r == IF thread[t].raised THEN [thread[t] EXCEPT !.pc = "record"] ELSE Idle
<1>1. thread' = [thread EXCEPT ![t] = r]
  OBVIOUS
<1>2. LastingJobs(t)
  BY JobsAsTheyWere
<1>3. CASE thread[t].raised
  <2>1. "record" \in PCs
    BY DEF PCs
  <2>2. r = [thread[t] EXCEPT !.pc = "record"]
    BY <1>3
  <2>3. r \in ThreadRecs /\ r.pc = "record" /\ r.todo = thread[t].todo /\ r.raised = thread[t].raised
    <3>1. thread[t] \in ThreadRecs /\ [thread[t] EXCEPT !.pc = "record"] \in ThreadRecs
      BY <2>1, ThreadTypes DEF OrderInv
    <3>2. QED
      BY <2>2, <3>1 DEF ThreadRecs
  <2>4. /\ \A i \in 1 .. Len(r.todo) : ParentsDone(r.todo[i])
        /\ r.raised => t \in Jobs /\ job'[t] = "live"
    BY <2>3, HonestIs
  <2> HIDE DEF r
  <2>5. TypeOK'
    BY <1>1, <2>3 DEF OrderInv, TypeOK
  <2>6. QED
    BY <1>1, <1>2, <1>3, <2>3, <2>4, <2>5, OneStep
<1>4. CASE ~thread[t].raised
  <2>1. r = Idle
    BY <1>4
  <2>2. r \in ThreadRecs /\ r.pc = "idle" /\ r.todo = <<>> /\ r.raised = FALSE
    BY <2>1, IdleIs
  <2> HIDE DEF r
  <2>3. TypeOK'
    BY <1>1, <2>2 DEF OrderInv, TypeOK
  <2>4. QED
    BY <1>1, <1>2, <2>2, <2>3, Rests
<1>5. QED
  BY <1>3, <1>4

LEMMA RetryDeferredKeeps ==
    ASSUME OrderInv, NEW t \in Threads, RetryDeferred(t)
    PROVE  OrderInv'
<1>0. job' = job /\ saved' = saved /\ state' = state
  BY DEF RetryDeferred, wf, jobs
<1>1. CASE deferred /\ ReadyList # <<>>
  <2> DEFINE r == [thread[t] EXCEPT !.pc = "submit", !.how = "retry", !.todo = ReadyList]
  <2>0. "submit" \in PCs /\ "retry" \in Hows
    BY DEF PCs, Hows
  <2>1. /\ r \in ThreadRecs /\ r.pc = "submit" /\ r.todo = ReadyList /\ r.raised = thread[t].raised
    BY <2>0, ThreadTypes, InHand DEF OrderInv, ThreadRecs
  <2>2. thread' = [thread EXCEPT ![t] = r] /\ lock' = t /\ deferred' = deferred
    BY <1>1 DEF RetryDeferred
  <2>3. TypeOK'
    <3>1. thread' \in [Threads -> ThreadRecs]
      <4> HIDE DEF r
      <4>1. QED
        BY <2>1, <2>2 DEF OrderInv, TypeOK
    <3>2. QED
      BY <2>2, <3>1 DEF OrderInv, TypeOK, RetryDeferred, wf, jobs, bounds
  <2>4. LastingJobs(t)
    BY <1>0, JobsAsTheyWere
  <2>5. /\ \A i \in 1 .. Len(r.todo) : ParentsDone(r.todo[i])
        /\ r.raised => t \in Jobs /\ job'[t] = "live"
    BY <1>0, <2>1, InHand, HonestIs
  <2> HIDE DEF r
  <2>6. QED
    BY <1>0, <2>1, <2>2, <2>3, <2>4, <2>5, OneStep
<1>2. CASE ~(deferred /\ ReadyList # <<>>)
  <2>1. /\ thread' = [thread EXCEPT ![t] =
                         IF @.raised THEN [@ EXCEPT !.pc = "record"] ELSE Idle]
        /\ deferred' = FALSE /\ lock' = lock
    BY <1>2 DEF RetryDeferred
  <2>2. TypeOK' \/ thread' \notin [Threads -> ThreadRecs]
    BY <2>1 DEF OrderInv, TypeOK, RetryDeferred, wf, jobs, bounds
  <2>3. QED
    BY <1>0, <2>1, <2>2, CallEnds
<1>3. QED
  BY <1>1, <1>2

(* The job at hand is ready to be submitted.                               *)
LEMMA HeadIsReady ==
    ASSUME OrderInv, NEW t \in Threads, thread[t].todo # <<>>
    PROVE  /\ thread[t].todo \in Seq(Jobs)
           /\ Head(thread[t].todo) \in Jobs /\ ParentsDone(Head(thread[t].todo))
           /\ Tail(thread[t].todo) \in Seq(Jobs)
           /\ \A i \in 1 .. Len(Tail(thread[t].todo)) : ParentsDone(Tail(thread[t].todo)[i])
<1> DEFINE q == thread[t].todo
<1>1. q \in Seq(Jobs) /\ q # <<>> /\ \A i \in 1 .. Len(q) : ParentsDone(q[i])
  BY ThreadTypes, HonestIs DEF OrderInv
<1> HIDE DEF q
<1>2. /\ Head(q) \in Jobs /\ Head(q) = q[1] /\ 1 \in 1 .. Len(q)
      /\ Tail(q) \in Seq(Jobs)
      /\ \A i \in 1 .. Len(Tail(q)) : i + 1 \in 1 .. Len(q) /\ Tail(q)[i] = q[i + 1]
  BY <1>1, TailIs
<1>3. ParentsDone(Head(q))
  BY <1>1, <1>2
<1>4. \A i \in 1 .. Len(Tail(q)) : ParentsDone(Tail(q)[i])
  BY <1>1, <1>2
<1>5. QED
  BY <1>1, <1>2, <1>3, <1>4 DEF q

LEMMA AcceptKeeps ==
    ASSUME OrderInv, NEW t \in Threads, Accept(t)
    PROVE  OrderInv'
<1> DEFINE r == [thread[t] EXCEPT !.pc = "running"]
           x == Head(thread[t].todo)
<1>0. "running" \in PCs
  BY DEF PCs
<1>1. /\ r \in ThreadRecs /\ r.pc = "running" /\ r.todo = thread[t].todo
      /\ r.raised = thread[t].raised
  BY <1>0, ThreadTypes DEF OrderInv, ThreadRecs
<1>2. /\ thread' = [thread EXCEPT ![t] = r] /\ saved' = saved /\ state' = state
      /\ thread[t].todo # <<>> /\ job[x] = "absent" /\ job' = [job EXCEPT ![x] = "live"]
  BY DEF Accept, Goto, wf, engine
<1>3. x \in Jobs
  BY <1>2, HeadIsReady
<1>4. /\ job \in [Jobs -> {"absent", "live", "completed", "failed", "cancelled", "success"}]
      /\ job' \in [Jobs -> {"absent", "live", "completed", "failed", "cancelled", "success"}]
  BY <1>2 DEF OrderInv, TypeOK
<1>5. TypeOK'
  <2>1. thread' \in [Threads -> ThreadRecs]
    <3> HIDE DEF r
    <3>1. QED
      BY <1>1, <1>2 DEF OrderInv, TypeOK
  <2>2. QED
    BY <1>4, <2>1 DEF OrderInv, TypeOK, Accept, wf, engine, bounds
<1> HIDE DEF x
<1>6. /\ \A j \in Jobs : job[j] = "completed" => job'[j] = "completed"
      /\ \A j \in Jobs : job[j] = "live" => job'[j] = "live"
  BY <1>2, <1>3, <1>4
<1>7. LastingJobs(t)
  BY <1>6, HonestIs DEF LastingJobs
<1>8. /\ \A i \in 1 .. Len(r.todo) : ParentsDone(r.todo[i])
      /\ r.raised => t \in Jobs /\ job'[t] = "live"
  BY <1>1, <1>6, HonestIs
<1> HIDE DEF r
<1>9. QED
  BY <1>1, <1>2, <1>5, <1>7, <1>8, OneStep

(* The thread goes on to the next job in hand.                             *)
LEMMA NextInHand ==
    ASSUME OrderInv, TypeOK' \/ thread' \notin [Threads -> ThreadRecs], NEW t \in Threads,
           thread[t].todo # <<>>, thread[t].pc \in {"submit", "running"},
           thread' = [thread EXCEPT ![t].pc = "submit", ![t].todo = Tail(@)], job' = job,
           \A j \in Jobs : /\ state'[j] = "COMPLETED" => state[j] = "COMPLETED"
                           /\ state'[j] = "READY" => state[j] = "READY",
           saved' = saved \/ saved'.state = state'
    PROVE  OrderInv'
<1> DEFINE q == Tail(thread[t].todo)
           r == [thread[t] EXCEPT !.pc = "submit", !.todo = q]
<1>0. "submit" \in PCs
  BY DEF PCs
<1>1. q \in Seq(Jobs) /\ \A i \in 1 .. Len(q) : ParentsDone(q[i])
  BY HeadIsReady
<1>2. thread' = [thread EXCEPT ![t] = r]
  OBVIOUS
<1> HIDE DEF q
<1>3. r \in ThreadRecs /\ r.pc = "submit" /\ r.todo = q /\ r.raised = thread[t].raised
  <2>1. thread[t] \in ThreadRecs /\ r \in ThreadRecs
    BY <1>0, <1>1, ThreadTypes DEF OrderInv
  <2>2. QED
    BY <2>1 DEF ThreadRecs
<1>4. /\ \A i \in 1 .. Len(r.todo) : ParentsDone(r.todo[i])
      /\ r.raised => t \in Jobs /\ job'[t] = "live"
  BY <1>1, <1>3, HonestIs
<1> HIDE DEF r
<1>5. TypeOK'
  <2>1. thread' \in [Threads -> ThreadRecs]
    BY <1>2, <1>3 DEF OrderInv, TypeOK
  <2>2. QED
    BY <2>1 DEF OrderInv, TypeOK
<1>6. LastingJobs(t)
  BY JobsAsTheyWere
<1>7. QED
  BY <1>2, <1>3, <1>4, <1>5, <1>6, OneStep

LEMMA HoldBackKeeps ==
    ASSUME OrderInv, NEW t \in Threads, HoldBack(t)
    PROVE  OrderInv'
<1>1. /\ thread[t].todo # <<>> /\ thread[t].pc = "submit" /\ thread[t] \in ThreadRecs
      /\ thread' = [thread EXCEPT ![t].todo = Tail(@)] /\ job' = job
      /\ state' = state /\ saved' = saved
  BY HonestIs DEF HoldBack, wf, engine, jobs
<1>2. thread' = [thread EXCEPT ![t].pc = "submit", ![t].todo = Tail(@)]
  BY <1>1 DEF ThreadRecs, OrderInv, TypeOK
<1>3. TypeOK' \/ thread' \notin [Threads -> ThreadRecs]
  BY DEF OrderInv, TypeOK, HoldBack, wf, engine, jobs, bounds
<1>4. QED
  BY <1>1, <1>2, <1>3, NextInHand

LEMMA RefuseKeeps ==
    ASSUME OrderInv, NEW t \in Threads, Refuse(t)
    PROVE  OrderInv'
<1> DEFINE x == Head(thread[t].todo)
           s == [state EXCEPT ![x] = "FAILED"]
<1>1. /\ thread[t].todo # <<>> /\ thread[t].pc = "submit" /\ thread[t] \in ThreadRecs
      /\ thread' = [thread EXCEPT ![t].todo = Tail(@)] /\ job' = job
      /\ Broken(s, "failed") /\ refused' = refused \cup {x}
  BY HonestIs DEF Refuse
<1>2. thread' = [thread EXCEPT ![t].pc = "submit", ![t].todo = Tail(@)]
  BY <1>1 DEF ThreadRecs, OrderInv, TypeOK
<1>3. x \in Jobs
  BY <1>1, HeadIsReady
<1> HIDE DEF x
<1>4. /\ s \in [Jobs -> JobStates]
      /\ \A j \in Jobs : s[j] \in {"COMPLETED", "READY"} => s[j] = state[j]
  BY <1>3 DEF OrderInv, TypeOK, JobStates
<1> HIDE DEF s
<1>5. /\ state' \in [Jobs -> JobStates] /\ status' \in WorkflowStatus /\ over' \in BOOLEAN
      /\ saved' \in Saved /\ saved'.state = state'
      /\ \A j \in Jobs : state'[j] \in {"COMPLETED", "READY"} => state'[j] = state[j]
  BY <1>1, <1>4, BrokenKeeps
<1>6. TypeOK' \/ thread' \notin [Threads -> ThreadRecs]
  BY <1>1, <1>3, <1>5 DEF OrderInv, TypeOK, Refuse, bounds
<1>7. QED
  BY <1>1, <1>2, <1>5, <1>6, NextInHand

LEMMA MarkRunningKeeps ==
    ASSUME OrderInv, NEW t \in Threads, MarkRunning(t)
    PROVE  OrderInv'
<1> DEFINE x == Head(thread[t].todo)
<1>1. /\ thread[t].pc = "running" /\ HonestRec(t, thread[t])
      /\ thread' = [thread EXCEPT ![t].pc = "submit", ![t].todo = Tail(@)] /\ job' = job
      /\ state' = [state EXCEPT ![x] = "RUNNING"] /\ saved' = saved
  BY HonestIs DEF MarkRunning, engine, jobs
<1>2. thread[t].todo # <<>>
  BY <1>1 DEF HonestRec
<1> HIDE DEF x
<1>3. /\ state' \in [Jobs -> JobStates]
      /\ \A j \in Jobs : state'[j] \in {"COMPLETED", "READY"} => state'[j] = state[j]
  BY <1>1 DEF OrderInv, TypeOK, JobStates
<1>4. TypeOK' \/ thread' \notin [Threads -> ThreadRecs]
  BY <1>3 DEF OrderInv, TypeOK, MarkRunning, engine, jobs, bounds
<1>5. QED
  BY <1>1, <1>2, <1>3, <1>4, NextInHand
(* What is persisted is the workflow as it is.                             *)
LEMMA PersistIs ==
    ASSUME Persist, state' \in [Jobs -> JobStates], status' \in WorkflowStatus, over' \in BOOLEAN
    PROVE  saved' \in Saved /\ saved'.state = state'
BY DEF Persist, Saved

LEMMA EndScheduleKeeps ==
    ASSUME OrderInv, NEW t \in Threads, EndSchedule(t)
    PROVE  OrderInv'
<1>0. "settle" \in PCs \ {"mark", "record", "running"} /\ "boot" \in PCs \ {"mark", "record", "running"}
  BY DEF PCs
<1>1. job' = job /\ deferred' \in BOOLEAN /\ lock' = "free"
  BY DEF EndSchedule, jobs, StaysDeferred
<1>2. state' = state /\ status' = status /\ over' = over
  BY DEF EndSchedule, wf
<1>3. ASSUME NEW pc \in {"settle", "boot"}, Goto(t, pc), saved' = saved PROVE OrderInv'
  <2>1. thread' \in [Threads -> ThreadRecs]
    BY <1>0, <1>3, ThreadTypes DEF OrderInv, TypeOK, Goto
  <2>2. TypeOK'
    BY <1>1, <1>2, <1>3, <2>1 DEF OrderInv, TypeOK, EndSchedule, jobs, bounds
  <2>3. QED
    BY <1>0, <1>1, <1>2, <1>3, <2>2, MovesOn
<1>4. ASSUME Persist,
             thread' = [thread EXCEPT ![t] =
                           IF @.raised THEN [@ EXCEPT !.pc = "record"] ELSE Idle]
      PROVE  OrderInv'
  <2>1. saved' \in Saved /\ saved'.state = state'
    BY <1>2, <1>4, PersistIs DEF OrderInv, TypeOK
  <2>2. TypeOK' \/ thread' \notin [Threads -> ThreadRecs]
    BY <1>1, <1>2, <2>1 DEF OrderInv, TypeOK, EndSchedule, jobs, bounds
  <2>3. QED
    BY <1>1, <1>2, <1>4, <2>1, <2>2, CallEnds
<1>5. QED
  BY <1>3, <1>4 DEF EndSchedule

LEMMA SettleKeeps ==
    ASSUME OrderInv, NEW t \in Threads, Settle(t)
    PROVE  OrderInv'
<1>0. AfterDag(t) \in PCs \ {"mark", "record", "running"}
  BY DEF PCs, AfterDag
<1>1. Goto(t, AfterDag(t)) /\ job' = job /\ state' = state /\ Persist
  BY DEF Settle, jobs
<1>2. state' \in [Jobs -> JobStates] /\ status' \in WorkflowStatus /\ over' \in BOOLEAN
  BY DEF Settle, Settled, OrderInv, TypeOK, WorkflowStatus
<1>3. saved' \in Saved /\ saved'.state = state'
  BY <1>1, <1>2, PersistIs
<1>4. thread' \in [Threads -> ThreadRecs]
  BY <1>0, <1>1, ThreadTypes DEF OrderInv, TypeOK, Goto
<1>5. TypeOK'
  BY <1>2, <1>3, <1>4 DEF OrderInv, TypeOK, Settle, jobs, bounds
<1>6. QED
  BY <1>0, <1>1, <1>3, <1>5, MovesOn

LEMMA RecordKeeps ==
    ASSUME OrderInv, NEW t \in Threads, Record(t)
    PROVE  OrderInv'
<1>1. /\ thread' = [thread EXCEPT ![t] = Idle] /\ job' = [job EXCEPT ![t] = "failed"]
      /\ state' = state /\ saved' = saved
      /\ job \in [Jobs -> {"absent", "live", "completed", "failed", "cancelled", "success"}]
  BY DEF Record, wf, engine, OrderInv, TypeOK
<1>2. t \in Jobs /\ job[t] = "live"
  BY HonestIs DEF Record, HonestRec
<1>3. /\ job' \in [Jobs -> {"absent", "live", "completed", "failed", "cancelled", "success"}]
      /\ \A j \in Jobs : j # t => job'[j] = job[j]
  BY <1>1, <1>2
<1>4. TypeOK'
  BY ZenonT(40), <1>1, <1>3, IdleIs DEF OrderInv, TypeOK, Record, wf, engine, bounds
<1>5. LastingJobs(t)
  BY <1>2, <1>3, HonestIs DEF LastingJobs
<1>6. QED
  BY <1>1, <1>4, <1>5, IdleIs, Rests

LEMMA RetryKeeps ==
    ASSUME OrderInv, NEW j \in Jobs, Retry(j)
    PROVE  OrderInv'
<1> DEFINE r == IF status = "none" THEN Idle ELSE [Idle EXCEPT !.pc = "reopen", !.job = j]
<1>0. Main \in Threads /\ j \in Threads /\ "reopen" \in PCs
  BY DEF Threads, PCs
<1>1. r \in ThreadRecs /\ r.pc \in {"idle", "reopen"} /\ r.todo = <<>> /\ r.raised = FALSE
  <2>1. Idle \in ThreadRecs /\ Idle.pc = "idle" /\ Idle.todo = <<>> /\ Idle.raised = FALSE
    BY IdleIs
  <2>2. QED
    BY <1>0, <2>1 DEF ThreadRecs
<1>2. /\ thread' = [thread EXCEPT ![Main] = r] /\ job' = [job EXCEPT ![j] = "live"]
      /\ state' = state /\ saved' = saved /\ job[j] = "failed"
      /\ job \in [Jobs -> {"absent", "live", "completed", "failed", "cancelled", "success"}]
  BY DEF Retry, wf, engine, OrderInv, TypeOK
<1> HIDE DEF r
<1>3. /\ job' \in [Jobs -> {"absent", "live", "completed", "failed", "cancelled", "success"}]
      /\ job'[j] = "live" /\ \A i \in Jobs : i # j => job'[i] = job[i]
  BY <1>2
<1>4. thread' \in [Threads -> ThreadRecs]
  BY <1>0, <1>1, <1>2 DEF OrderInv, TypeOK
<1>5. races' \in Nat /\ retries' \in Nat
  BY DEF Retry, Race, OrderInv, TypeOK
<1>6. TypeOK'
  BY <1>3, <1>4, <1>5 DEF OrderInv, TypeOK, Retry, wf, engine
<1>7. LastingJobs(Main)
  BY <1>2, <1>3, HonestIs DEF LastingJobs
<1>8. QED
  BY <1>0, <1>1, <1>2, <1>6, <1>7, Rests

LEMMA ReopenKeeps ==
    ASSUME OrderInv, Reopen
    PROVE  OrderInv'
<1> DEFINE s == [state EXCEPT ![thread[Main].job] = "RUNNING"]
<1>0. Main \in Threads
  BY DEF Threads
<1>1. /\ thread' = [thread EXCEPT ![Main] = Idle] /\ job' = job /\ Persist
      /\ state' = Blocked(s)
  BY DEF Reopen
<1>2. /\ s \in [Jobs -> JobStates]
      /\ \A j \in Jobs : s[j] \in {"COMPLETED", "READY"} => s[j] = state[j]
  BY DEF OrderInv, TypeOK, JobStates
<1> HIDE DEF s
<1>3. /\ state' \in [Jobs -> JobStates]
      /\ \A j \in Jobs : state'[j] \in {"COMPLETED", "READY"} => state'[j] = state[j]
  BY <1>1, <1>2, BlockedKeeps
<1>4. status' \in WorkflowStatus /\ over' \in BOOLEAN /\ refused' \subseteq Jobs
  BY DEF Reopen, OrderInv, TypeOK, WorkflowStatus
<1>5. saved' \in Saved /\ saved'.state = state'
  BY <1>1, <1>3, <1>4, PersistIs
<1>6. TypeOK'
  <2>1. /\ retried' \subseteq Jobs /\ untold' \subseteq Jobs /\ cap' \in Nat
        /\ {retries', restarts', races', crashes'} \subseteq Nat
        /\ deferred' \in BOOLEAN /\ lock' \in Threads \cup {"free"}
    BY DEF Reopen, bounds, OrderInv, TypeOK
  <2>2. /\ thread' \in [Threads -> ThreadRecs]
        /\ job' \in [Jobs -> {"absent", "live", "completed", "failed", "cancelled", "success"}]
    BY <1>0, <1>1, IdleIs DEF OrderInv, TypeOK
  <2>3. QED
    BY <1>3, <1>4, <1>5, <2>1, <2>2 DEF TypeOK
<1>7. LastingJobs(Main)
  BY <1>0, <1>1, JobsAsTheyWere
<1>8. QED
  BY <1>0, <1>1, <1>3, <1>5, <1>6, <1>7, IdleIs, Rests

LEMMA ReconcileKeeps ==
    ASSUME OrderInv, Reconcile
    PROVE  OrderInv'
<1> DEFINE th == thread[Main]
<1>0. Main \in Threads /\ "mark" \in PCs /\ "lock" \in PCs /\ "schedule" \in Hows
      /\ {"completed", "failed", "cancelled"} \subseteq Hows
  BY DEF Threads, PCs, Hows
<1>1. job' = job /\ state' = state /\ saved' = saved
  BY DEF Reconcile, wf, engine, jobs
<1>2. LastingJobs(Main)
  BY <1>0, <1>1, JobsAsTheyWere
<1>3. TypeOK' \/ thread' \notin [Threads -> ThreadRecs]
  BY DEF OrderInv, TypeOK, Reconcile, wf, engine, jobs, bounds
<1>4. CASE thread' = [thread EXCEPT ![Main] = Idle]
  <2>1. TypeOK'
    BY <1>0, <1>3, <1>4, IdleIs DEF OrderInv, TypeOK
  <2>2. QED
    BY <1>0, <1>1, <1>2, <1>4, <2>1, IdleIs, Rests
<1>5. ASSUME NEW j \in th.boot, NEW r, thread' = [thread EXCEPT ![Main] = r],
             r = LET rest == [th EXCEPT !.boot = @ \ {j}, !.job = j] IN
                 CASE job[j] \in {"completed", "failed", "cancelled"} ->
                        [rest EXCEPT !.pc = "mark", !.how = job[j]]
                   [] job[j] = "absent" /\ state[j] = "READY" ->
                        [rest EXCEPT !.pc = "lock", !.how = "schedule"]
                   [] OTHER -> rest
      PROVE  OrderInv'
  <2> DEFINE rest == [th EXCEPT !.boot = @ \ {j}, !.job = j]
  <2>1. th \in ThreadRecs /\ th.pc = "boot" /\ th.todo \in Seq(Jobs)
    BY <1>0, ThreadTypes DEF OrderInv, Reconcile
  <2>2. j \in Jobs /\ j \in Threads
    BY <2>1 DEF ThreadRecs, Threads
  <2>3. /\ rest \in ThreadRecs /\ rest.pc = "boot" /\ rest.todo = th.todo /\ rest.raised = th.raised
        /\ rest.job = j
    BY <2>1, <2>2 DEF ThreadRecs
  <2>4. \/ job[j] \in {"completed", "failed", "cancelled"} /\ r = [rest EXCEPT !.pc = "mark", !.how = job[j]]
        \/ r = [rest EXCEPT !.pc = "lock", !.how = "schedule"]
        \/ r = rest
    BY <1>5
  <2>5. \A i \in 1 .. Len(th.todo) : ParentsDone(th.todo[i])
    BY <1>0, HonestIs
  <2>6. th.raised => FALSE
    BY <1>0, HonestIs
  <2> HIDE DEF rest, th
  <2>7. /\ r \in ThreadRecs /\ r.todo = th.todo /\ r.raised = th.raised /\ r.job = j
        /\ \/ r.pc = "mark" /\ r.how = job[j] /\ job[j] \in {"completed", "failed", "cancelled"}
           \/ r.pc \in {"lock", "boot"}
    BY <1>0, <2>3, <2>4 DEF ThreadRecs
  <2>8. TypeOK'
    BY <1>0, <1>3, <1>5, <2>7 DEF OrderInv, TypeOK
  <2>9. r.pc = "mark" => /\ r.how \in {"completed", "failed", "cancelled"} /\ r.job \in Jobs
                         /\ r.how = "completed" => job'[r.job] = "completed"
    BY <1>1, <2>2, <2>7
  <2>10. r.pc # "record" /\ r.pc # "running"
    BY <2>7
  <2>11. \A i \in 1 .. Len(r.todo) : ParentsDone(r.todo[i])
    BY <2>5, <2>7
  <2>12. r.raised => FALSE
    BY <2>6, <2>7
  <2>13. QED
    BY <1>0, <1>1, <1>2, <1>5, <2>7, <2>8, <2>9, <2>10, <2>11, <2>12, OneStep
<1>6. QED
  <2>1. CASE th.boot = {} /\ thread' = [thread EXCEPT ![Main] = Idle]
    BY <1>4, <2>1
  <2>2. ASSUME NEW j \in th.boot,
               LET rest == [th EXCEPT !.boot = @ \ {j}, !.job = j] IN
               thread' = [thread EXCEPT ![Main] =
                CASE job[j] \in {"completed", "failed", "cancelled"} ->
                        [rest EXCEPT !.pc = "mark", !.how = job[j]]
                  [] job[j] = "absent" /\ state[j] = "READY" ->
                        [rest EXCEPT !.pc = "lock", !.how = "schedule"]
                  [] OTHER -> rest]
        PROVE  OrderInv'
    BY <1>5, <2>2
  <2>3. QED
    BY <2>1, <2>2 DEF Reconcile

(* A restart drops all callbacks and goes back to the saved job states,    *)
(* which were true when they were saved, and still are.                    *)
LEMMA RestartKeeps ==
    ASSUME OrderInv, Restart
    PROVE  OrderInv'
<1> DEFINE boot == IF saved.status \in {"none", "COMPLETED"} THEN Idle
                   ELSE [Idle EXCEPT !.pc = "boot",
                                     !.boot = In(saved.state, {"RUNNING", "READY"})]
<1>0. Main \in Threads /\ "boot" \in PCs
  BY DEF Threads, PCs
<1>1. boot \in ThreadRecs /\ boot.pc \in {"idle", "boot"} /\ boot.todo = <<>> /\ boot.raised = FALSE
  <2>1. Idle \in ThreadRecs /\ Idle.pc = "idle" /\ Idle.todo = <<>> /\ Idle.raised = FALSE
    BY IdleIs
  <2>2. In(saved.state, {"RUNNING", "READY"}) \subseteq Jobs
    BY DEF In
  <2> HIDE DEF Idle
  <2>3. QED
    BY <1>0, <2>1, <2>2 DEF ThreadRecs
<1>2. thread' = [[t \in Threads |-> Idle] EXCEPT ![Main] = boot]
  BY DEF Restart
<1> HIDE DEF boot
<1>3. \A t \in Threads : /\ thread'[t] \in ThreadRecs /\ thread'[t].pc \in {"idle", "boot"}
                         /\ thread'[t].todo = <<>> /\ thread'[t].raised = FALSE
  BY <1>1, <1>2, IdleIs
<1>4. PICK lost \in SUBSET Live, stuck \in SUBSET Live :
          /\ job' = [j \in Jobs |-> IF j \in stuck THEN "success" ELSE IF j \in lost THEN "failed" ELSE job[j]]
          /\ untold' = untold \cup stuck
  <2>1. Answered \subseteq Live /\ retried \cap Live \subseteq Live
    BY DEF Answered
  <2>2. QED
    BY ONLY <2>1, Restart DEF Restart
<1>5. /\ job' \in [Jobs -> {"absent", "live", "completed", "failed", "cancelled", "success"}]
      /\ \A j \in Jobs : job[j] = "completed" => job'[j] = "completed"
  BY <1>4 DEF OrderInv, TypeOK, Live, In
<1>6. TypeOK'
  <2>1. thread' \in [Threads -> ThreadRecs]
    BY <1>1, <1>2, IdleIs
  <2>2. state' \in [Jobs -> JobStates] /\ status' \in WorkflowStatus /\ over' \in BOOLEAN
    BY DEF Restart, OrderInv, TypeOK, Saved
  <2>3. restarts' \in Nat /\ crashes' \in Nat
    BY DEF Restart, OrderInv, TypeOK
  <2>4. untold' \subseteq Jobs
    BY <1>4 DEF Live, In, OrderInv, TypeOK
  <2>5. QED
    BY ZenonT(40), <1>5, <2>1, <2>2, <2>3, <2>4 DEF OrderInv, TypeOK, Restart
<1>7. \A j \in Jobs : ParentsDone(j) => ParentsDone(j)'
  <2>1. \A j \in Jobs : Parents[j] \subseteq Jobs
    BY DEF Parents, Predecessors, Dag
  <2>2. QED
    BY <1>5, <2>1 DEF ParentsDone
<1>8. state' = saved.state /\ saved' = saved
  BY DEF Restart
<1>9. Truthful(state)' /\ Truthful(saved.state)'
  BY <1>5, <1>7, <1>8 DEF OrderInv, Truthful
<1>10. \A t \in Threads : Honest(t)'
  BY <1>3 DEF Honest, HonestRec
<1>11. QED
  BY <1>6, <1>9, <1>10 DEF OrderInv

-----------------------------------------------------------------------------
LEMMA OrderInit == Init => OrderInv
<1> SUFFICES ASSUME Init PROVE OrderInv
  OBVIOUS
<1>1. TypeOK
  <2>1. state \in [Jobs -> JobStates] /\ status \in WorkflowStatus /\ saved \in Saved
    BY DEF Init, Nothing, JobStates, WorkflowStatus, Saved
  <2>2. thread \in [Threads -> ThreadRecs]
    BY IdleIs DEF Init
  <2>3. {cap, retries, restarts, races, crashes} \subseteq Nat
    BY DEF Init
  <2>4. job \in [Jobs -> {"absent", "live", "completed", "failed", "cancelled", "success"}]
    BY DEF Init
  <2>5. /\ over \in BOOLEAN /\ deferred \in BOOLEAN /\ lock \in Threads \cup {"free"}
        /\ refused \subseteq Jobs /\ retried \subseteq Jobs /\ untold \subseteq Jobs
    BY DEF Init
  <2>6. QED
    BY <2>1, <2>2, <2>3, <2>4, <2>5 DEF TypeOK
<1>2. Truthful(state) /\ Truthful(saved.state)
  BY DEF Init, Nothing, Truthful
<1>3. \A t \in Threads : Honest(t)
  <2>1. \A t \in Threads : thread[t] = Idle
    BY DEF Init
  <2>2. \A i \in 1 .. Len(Idle.todo) : FALSE
    <3>1. Len(<<>>) = 0 /\ Idle.todo = <<>>
      BY IdleIs
    <3>2. QED
      BY <3>1
  <2>3. QED
    BY <2>1, <2>2, IdleIs DEF Honest, HonestRec
<1>4. QED
  BY <1>1, <1>2, <1>3 DEF OrderInv

LEMMA OrderStutters ==
    ASSUME OrderInv, UNCHANGED vars
    PROVE  OrderInv'
<1>1. /\ state' = state /\ job' = job /\ saved' = saved /\ thread' = thread
      /\ TypeOK'
  BY DEF vars, wf, engine, jobs, bounds, OrderInv, TypeOK
<1>2. \A j \in Jobs : ParentsDone(j)' = ParentsDone(j)
  BY <1>1 DEF ParentsDone
<1>3. \A t \in Threads : Honest(t)'
  <2> SUFFICES ASSUME NEW t \in Threads PROVE Honest(t)'
    OBVIOUS
  <2>1. HonestRec(t, thread[t])
    BY DEF OrderInv, Honest
  <2>2. thread[t].todo \in Seq(Jobs)
    BY DEF OrderInv, TypeOK, ThreadRecs
  <2>3. \A i \in 1 .. Len(thread[t].todo) : ParentsDone(thread[t].todo[i])'
    BY <1>1, <1>2, <2>1, <2>2 DEF HonestRec
  <2>4. QED
    BY <1>1, <2>1, <2>3 DEF Honest, HonestRec
<1>4. Truthful(state)' /\ Truthful(saved.state)'
  BY <1>1 DEF OrderInv, Truthful, ParentsDone
<1>5. QED
  BY <1>1, <1>3, <1>4 DEF OrderInv

LEMMA OrderNext == OrderInv /\ [Next]_vars => OrderInv'
<1> SUFFICES ASSUME OrderInv, [Next]_vars PROVE OrderInv'
  OBVIOUS
<1>1. CASE Command
  BY <1>1, SubmitKeeps, RetryKeeps, ReopenKeeps DEF Command
<1>2. CASE Restart \/ Reconcile
  BY <1>2, RestartKeeps, ReconcileKeeps
<1>3. ASSUME NEW t \in Threads, Step(t) PROVE OrderInv'
  BY <1>3, MarkKeeps, UpdateReadyKeeps, BlockKeeps, SettleKeeps, RecordKeeps, ScheduleKeeps,
     RetryDeferredKeeps, AcceptKeeps, HoldBackKeeps, RefuseKeeps, MarkRunningKeeps,
     EndScheduleKeeps DEF Step
<1>4. ASSUME NEW j \in Jobs, End(j) \/ Exhaust(j) PROVE OrderInv'
  BY <1>4, FinishKeeps, ExhaustKeeps DEF End
<1>5. CASE UNCHANGED vars
  BY <1>5, OrderStutters
<1>6. QED
  BY <1>1, <1>2, <1>3, <1>4, <1>5 DEF Next

(* Only schedule_ready_jobs submits a job that was not there.              *)
LEMMA OnlyAcceptSubmits ==
    ASSUME OrderInv, [Next]_vars, NEW j \in Jobs, job[j] = "absent", job'[j] # "absent"
    PROVE  \E t \in Threads : Accept(t) /\ j = Head(thread[t].todo) /\ thread[t].todo # <<>>
<1>0. job \in [Jobs -> {"absent", "live", "completed", "failed", "cancelled", "success"}]
  BY DEF OrderInv, TypeOK
<1>1. CASE Command
  <2>1. \A i \in Jobs : ~Retry(i)
    BY <1>0 DEF Retry
  <2>2. QED
    BY <1>1, <2>1 DEF Command, Submit, Reopen, jobs
<1>2. CASE Restart
  BY <1>2 DEF Restart, Answered, Live, In
<1>3. CASE Reconcile
  BY <1>3 DEF Reconcile, jobs
<1>4. ASSUME NEW t \in Threads, Step(t) PROVE Accept(t) /\ j = Head(thread[t].todo) /\ thread[t].todo # <<>>
  <2>1. ~Record(t)
    <3>1. Record(t) => job[t] = "live" /\ t \in Jobs /\ job' = [job EXCEPT ![t] = "failed"]
      BY HonestIs DEF Record, HonestRec
    <3>2. QED
      BY <1>0, <3>1
  <2>2. Accept(t)
    BY <1>4, <2>1 DEF Step, Mark, UpdateReady, Block, Settle, Schedule, RetryDeferred, HoldBack,
       Refuse, MarkRunning, EndSchedule, jobs
  <2>3. /\ thread[t].todo # <<>>
        /\ job' = [job EXCEPT ![Head(thread[t].todo)] = "live"]
    BY <2>2 DEF Accept
  <2>4. QED
    BY <1>0, <2>2, <2>3
<1>5. ASSUME NEW i \in Jobs, End(i) \/ Exhaust(i) PROVE FALSE
  BY <1>0, <1>5 DEF End, Finish, Exhaust
<1>6. CASE UNCHANGED vars
  BY <1>6 DEF vars, jobs
<1>7. QED
  BY <1>1, <1>2, <1>3, <1>4, <1>5, <1>6 DEF Next

(* For every workflow, cap, number of races, retries, restarts and crashes *)
(* in the middle of a call: the engine submits a job only when all its     *)
(* parents have completed, though the WorkflowState that several callbacks *)
(* write is not locked and what they took in hand may be out of date.      *)
THEOREM ParentsComeFirst == Spec => ParentsFirst
<1> DEFINE First == \A j \in Jobs : job[j] = "absent" /\ job'[j] # "absent" =>
                        \A p \in Parents[j] : job[p] = "completed"
<1>1. OrderInv /\ [Next]_vars => First
  BY OnlyAcceptSubmits, HeadIsReady DEF ParentsDone
<1>2. OrderInv /\ [Next]_vars => [First]_vars
  BY <1>1
<1> HIDE DEF First
<1>3. Spec => [][First]_vars
  BY <1>2, OrderInit, OrderNext, PTL DEF Spec
<1>4. QED
  BY <1>3 DEF ParentsFirst, First

-----------------------------------------------------------------------------
(* All that lies above a job does so through one of its parents.           *)
LEMMA LastEdge ==
    ASSUME NEW j \in Jobs, NEW a \in Above[j]
    PROVE  a \in Parents[j] \/ \E p \in Parents[j] : a \in Above[p]
<1> SUFFICES ASSUME a \notin Parents[j], \A p \in Parents[j] : a \notin Above[p] PROVE FALSE
  OBVIOUS
<1> DEFINE S == Below[a] \ {j}
           Next1 == AllSuccessors(Dag, S)
<1>1. a \in Jobs /\ j \in Below[a] /\ Below[a] \subseteq Jobs
  BY DEF Above, Below
<1>2. \A x \in Jobs : j \in Successors(Dag, x) => x \in Parents[j]
  BY DEF Successors, Parents, Predecessors, Dag
<1>3. \A x \in Parents[j] : x \notin Below[a]
  BY <1>1 DEF Above, Parents, Predecessors, Dag
<1>4. Successors(Dag, a) \subseteq Below[a]
  BY <1>1 DEF Below, Successors, Dag
<1>5. \A x \in Below[a] : Successors(Dag, x) \subseteq Below[a]
  <2> SUFFICES ASSUME NEW x \in Below[a], NEW y \in Successors(Dag, x),
                      NEW T \in SUBSET Jobs, Successors(Dag, a) \subseteq T,
                      AllSuccessors(Dag, T) \subseteq T
               PROVE  y \in T
    BY <1>1 DEF Below, Successors, Dag
  <2>1. x \in T
    BY <1>1 DEF Below
  <2>2. QED
    BY <2>1 DEF AllSuccessors
<1>6. Successors(Dag, a) \subseteq S
  BY <1>1, <1>2, <1>4
<1>7. AllSuccessors(Dag, S) \subseteq S
  BY <1>1, <1>2, <1>3, <1>5 DEF AllSuccessors
<1>8. j \in S
  <2>1. S \in SUBSET Jobs
    BY <1>1
  <2> HIDE DEF S
  <2>2. QED
    BY <1>1, <1>6, <1>7, <2>1 DEF Below
<1>9. QED
  BY <1>8

-----------------------------------------------------------------------------
(* What the job states alone say. A job that was ever made ready has only  *)
(* completed jobs above it, and a blocked job has a broken one.            *)
Broke == {"FAILED", "CANCELLED"}
Ended == {"completed", "failed", "cancelled"}
Waiting == {"none", "PENDING", "BLOCKED"}
HasBroken(s, j) == \E a \in Above[j] : s[a] \in Broke
Rooted(s) == \A j \in Jobs : s[j] \notin Waiting => \A a \in Above[j] : s[a] = "COMPLETED"
BlockedWhy(s) == \A j \in Jobs : s[j] = "BLOCKED" => HasBroken(s, j)

LEMMA AboveIn == \A j \in Jobs : Above[j] \subseteq Jobs /\ Parents[j] \subseteq Jobs
BY DEF Above, Parents, Predecessors, Dag

(* _recompute_blocked, job by job.                                         *)
LEMMA BlockedIs ==
    ASSUME NEW s \in [Jobs -> JobStates], NEW j \in Jobs
    PROVE  Blocked(s)[j] =
              IF HasBroken(s, j) /\ s[j] \in {"PENDING", "READY"} THEN "BLOCKED"
              ELSE IF s[j] = "BLOCKED" /\ ~HasBroken(s, j) THEN "PENDING"
              ELSE s[j]
<1> DEFINE should == UNION {Below[b] : b \in In(s, Broke)}
<1>1. j \in should <=> HasBroken(s, j)
  <2>1. j \in should <=> \E b \in In(s, Broke) : j \in Below[b]
    OBVIOUS
  <2>2. QED
    BY <2>1 DEF HasBroken, In, Above
<1>2. Blocked(s)[j] =
        IF j \in should /\ s[j] \in {"PENDING", "READY"} THEN "BLOCKED"
        ELSE IF s[j] = "BLOCKED" /\ j \notin should THEN "PENDING"
        ELSE s[j]
  BY DEF Blocked, Broke
<1> HIDE DEF should
<1>3. QED
  BY <1>1, <1>2

(* It only blocks jobs that were pending.                                  *)
LEMMA BlockedMoves ==
    ASSUME NEW s \in [Jobs -> JobStates], Rooted(s), BlockedWhy(s), NEW j \in Jobs
    PROVE  Blocked(s)[j] = IF s[j] = "PENDING" /\ HasBroken(s, j) THEN "BLOCKED" ELSE s[j]
<1>1. s[j] = "READY" => ~HasBroken(s, j)
  BY DEF Rooted, HasBroken, Waiting, Broke
<1>2. s[j] = "BLOCKED" => HasBroken(s, j)
  BY DEF BlockedWhy
<1>3. QED
  BY <1>1, <1>2, BlockedIs

(* Two assignments of states with the same broken and completed jobs.      *)
LEMMA SameBroken ==
    ASSUME NEW s, NEW r, NEW j \in Jobs,
           \A i \in Jobs : s[i] \in Broke <=> r[i] \in Broke
    PROVE  HasBroken(s, j) <=> HasBroken(r, j)
BY AboveIn DEF HasBroken

LEMMA BlockedRooted ==
    ASSUME NEW s \in [Jobs -> JobStates], Rooted(s)
    PROVE  /\ Rooted(Blocked(s)) /\ BlockedWhy(Blocked(s))
           /\ \A j \in Jobs : Blocked(s)[j] = "PENDING" => ~HasBroken(Blocked(s), j)
<1> DEFINE r == Blocked(s)
<1>1. \A j \in Jobs : r[j] = IF HasBroken(s, j) /\ s[j] \in {"PENDING", "READY"} THEN "BLOCKED"
                             ELSE IF s[j] = "BLOCKED" /\ ~HasBroken(s, j) THEN "PENDING"
                             ELSE s[j]
  BY BlockedIs
<1> HIDE DEF r
<1>2. \A i \in Jobs : (s[i] \in Broke <=> r[i] \in Broke) /\ (s[i] = "COMPLETED" <=> r[i] = "COMPLETED")
                      /\ (r[i] \notin Waiting => s[i] \notin Waiting)
  BY <1>1 DEF Broke, Waiting
<1>3. \A j \in Jobs : HasBroken(s, j) <=> HasBroken(r, j)
  BY <1>2, SameBroken
<1>4. Rooted(r)
  BY <1>2, AboveIn DEF Rooted
<1>5. BlockedWhy(r) /\ \A j \in Jobs : r[j] = "PENDING" => ~HasBroken(r, j)
  BY <1>1, <1>3 DEF BlockedWhy
<1>6. QED
  BY <1>4, <1>5 DEF r

(* A job that has begun and not completed has nothing above it in its way, *)
(* and nothing below it has begun.                                         *)
LEMMA RootedExcept ==
    ASSUME NEW s \in [Jobs -> JobStates], Rooted(s), NEW x \in Jobs, s[x] \notin Waiting,
           s[x] # "COMPLETED", NEW v \in JobStates
    PROVE  Rooted([s EXCEPT ![x] = v])
<1>1. \A j \in Jobs : s[j] \notin Waiting => x \notin Above[j]
  BY DEF Rooted
<1>2. \A j \in Jobs : j # x => [s EXCEPT ![x] = v][j] = s[j]
  OBVIOUS
<1>3. \A j \in Jobs : s[j] \notin Waiting => \A a \in Above[j] : [s EXCEPT ![x] = v][a] = "COMPLETED"
  BY <1>1, <1>2, AboveIn DEF Rooted
<1>4. QED
  BY <1>2, <1>3 DEF Rooted

LEMMA WhyExcept ==
    ASSUME NEW s \in [Jobs -> JobStates], BlockedWhy(s), NEW x \in Jobs, s[x] \notin Broke,
           NEW v \in JobStates \ {"BLOCKED"}
    PROVE  BlockedWhy([s EXCEPT ![x] = v])
<1>1. \A j \in Jobs : HasBroken(s, j) => HasBroken([s EXCEPT ![x] = v], j)
  BY AboveIn DEF HasBroken
<1>2. QED
  BY <1>1 DEF BlockedWhy

(* A job whose parents all completed may become ready.                     *)
LEMMA RootedReady ==
    ASSUME NEW s \in [Jobs -> JobStates], Rooted(s), NEW r \in [Jobs -> JobStates],
           \A j \in Jobs : \/ r[j] = s[j]
                           \/ s[j] \in Waiting /\ \A p \in Parents[j] : s[p] = "COMPLETED"
    PROVE  Rooted(r)
<1> SUFFICES ASSUME NEW j \in Jobs, r[j] \notin Waiting, NEW a \in Above[j]
             PROVE  r[a] = "COMPLETED"
  BY DEF Rooted
<1>1. \A i \in Jobs : s[i] = "COMPLETED" => r[i] = "COMPLETED"
  BY DEF Waiting
<1>2. CASE r[j] = s[j]
  BY <1>1, <1>2, AboveIn DEF Rooted
<1>3. CASE \A p \in Parents[j] : s[p] = "COMPLETED"
  <2>1. CASE a \in Parents[j]
    BY <1>1, <1>3, <2>1, AboveIn
  <2>2. CASE \E p \in Parents[j] : a \in Above[p]
    <3>1. PICK p \in Parents[j] : a \in Above[p]
      BY <2>2
    <3>2. p \in Jobs /\ s[p] = "COMPLETED" /\ a \in Jobs
      BY <1>3, <3>1, AboveIn
    <3>3. s[a] = "COMPLETED"
      BY <3>1, <3>2 DEF Rooted, Waiting
    <3>4. QED
      BY <1>1, <3>2, <3>3
  <2>3. QED
    BY <2>1, <2>2, LastEdge
<1>4. QED
  BY <1>2, <1>3

(* Below a broken job no job has all its parents completed.                *)
LEMMA BrokenAbove ==
    ASSUME NEW s, Rooted(s), NEW j \in Jobs, NEW a \in Above[j], s[a] # "COMPLETED"
    PROVE  \E p \in Parents[j] : s[p] # "COMPLETED"
<1> SUFFICES ASSUME \A p \in Parents[j] : s[p] = "COMPLETED" PROVE FALSE
  OBVIOUS
<1>1. PICK p \in Parents[j] : a \in Above[p]
  BY LastEdge
<1>2. p \in Jobs /\ s[p] = "COMPLETED"
  BY AboveIn
<1>3. QED
  BY <1>1, <1>2 DEF Rooted, Waiting
-----------------------------------------------------------------------------
Distinct(q) == \A i, k \in 1 .. Len(q) : q[i] = q[k] => i = k

(* schedule_ready_jobs takes every ready job in hand, each of them once.   *)
LEMMA ReadyListHas ==
    /\ Distinct(ReadyList)
    /\ \A j \in Jobs : state[j] = "READY" => \E i \in 1 .. Len(ReadyList) : ReadyList[i] = j
<1> DEFINE n == Len(Order)
           Good(q, k) == /\ q \in Seq(Jobs) /\ Distinct(q)
                         /\ \A i \in 1 .. Len(q) : \E m \in 1 .. k : q[i] = Order[m]
                         /\ \A m \in 1 .. k : state[Order[m]] = "READY" => \E i \in 1 .. Len(q) : q[i] = Order[m]
           Bad == {m \in 0 .. n : ~Good(ReadyOfFirst[m], m)}
<1>1. n \in Nat /\ \A k \in 1 .. n : Order[k] \in Jobs
  OBVIOUS
<1>2. Good(<<>>, 0)
  BY DEF Distinct
<1>3. ASSUME NEW q, NEW k \in 1 .. n, Good(q, k - 1), state[Order[k]] = "READY"
      PROVE  Good(Append(q, Order[k]), k)
  <2> DEFINE x == Order[k]
             r == Append(q, x)
  <2>1. x \in Jobs /\ q \in Seq(Jobs) /\ Len(q) \in Nat
    BY <1>1, <1>3
  <2>2. /\ r \in Seq(Jobs) /\ Len(r) = Len(q) + 1 /\ r[Len(q) + 1] = x
        /\ \A i \in 1 .. Len(q) : r[i] = q[i]
    BY <2>1
  <2>3. \A i \in 1 .. Len(q) : q[i] # x
    <3>1. \A m \in 1 .. (k - 1) : Order[m] # x
      BY <1>1, NamesAssumption
    <3>2. QED
      BY <1>3, <3>1
  <2> HIDE DEF r
  <2>4. Distinct(r)
    <3>1. \A i \in 1 .. Len(r) : i \in 1 .. Len(q) \/ i = Len(q) + 1
      BY <2>1, <2>2
    <3>2. \A i, m \in 1 .. Len(q) : q[i] = q[m] => i = m
      BY <1>3 DEF Distinct
    <3>3. QED
      BY <2>2, <2>3, <3>1, <3>2 DEF Distinct
  <2>5. \A i \in 1 .. Len(r) : \E m \in 1 .. k : r[i] = Order[m]
    BY <1>1, <1>3, <2>1, <2>2
  <2>6. \A m \in 1 .. k : state[Order[m]] = "READY" => \E i \in 1 .. Len(r) : r[i] = Order[m]
    <3>1. \A m \in 1 .. k : m \in 1 .. (k - 1) \/ m = k
      BY <1>1
    <3>2. \A i \in 1 .. Len(q) : i \in 1 .. Len(r)
      BY <2>1, <2>2
    <3>3. Len(q) + 1 \in 1 .. Len(r)
      BY <2>1, <2>2
    <3>4. QED
      BY <1>3, <2>2, <3>1, <3>2, <3>3
  <2>7. QED
    BY <2>2, <2>4, <2>5, <2>6 DEF r
<1>4. ASSUME NEW q, NEW k \in 1 .. n, Good(q, k - 1), state[Order[k]] # "READY"
      PROVE  Good(q, k)
  <2>1. \A m \in 1 .. k : m \in 1 .. (k - 1) \/ m = k
    BY <1>1
  <2>2. \A m \in 1 .. (k - 1) : m \in 1 .. k
    BY <1>1
  <2>3. QED
    BY <1>4, <2>1, <2>2
<1>5. ASSUME NEW k \in 1 .. n, Good(ReadyOfFirst[k - 1], k - 1) PROVE Good(ReadyOfFirst[k], k)
  <2>1. ReadyOfFirst[k] = IF state[Order[k]] = "READY" THEN Append(ReadyOfFirst[k - 1], Order[k])
                          ELSE ReadyOfFirst[k - 1]
    BY ReadyRecursion
  <2> HIDE DEF Good, n
  <2>2. QED
    BY <1>3, <1>4, <1>5, <2>1
<1>6. Bad = {}
  <2> SUFFICES ASSUME Bad # {} PROVE FALSE
    OBVIOUS
  <2> HIDE DEF n, Good
  <2>1. Bad \in SUBSET Nat
    BY <1>1
  <2>2. PICK m \in Bad : \A y \in Bad : m <= y
    <3> HIDE DEF Bad
    <3>1. QED
      BY <2>1, Least
  <2>3. m \in 0 .. n /\ ~Good(ReadyOfFirst[m], m)
    OBVIOUS
  <2>4. m # 0
    BY <1>2, <2>3, ReadyRecursion
  <2>5. m \in 1 .. n /\ m - 1 \in 0 .. n /\ ~(m <= m - 1)
    BY <1>1, <2>3, <2>4
  <2>6. m - 1 \notin Bad
    <3> HIDE DEF Bad
    <3>1. QED
      BY <2>2, <2>5
  <2>7. Good(ReadyOfFirst[m - 1], m - 1)
    BY <2>5, <2>6
  <2>8. QED
    BY <1>5, <2>3, <2>5, <2>7
<1>7. Good(ReadyList, n)
  <2>1. n \in 0 .. n /\ n \notin Bad
    BY <1>1, <1>6
  <2> HIDE DEF Good
  <2>2. QED
    BY <2>1 DEF ReadyList
<1>8. \A j \in Jobs : \E m \in 1 .. n : j = Order[m]
  BY DEF Jobs, Range
<1>9. Distinct(ReadyList)
  BY <1>7
<1>10. ASSUME NEW j \in Jobs, state[j] = "READY"
       PROVE  \E i \in 1 .. Len(ReadyList) : ReadyList[i] = j
  <2>1. PICK m \in 1 .. n : j = Order[m]
    BY <1>8
  <2>2. QED
    BY <1>7, <1>10, <2>1
<1>11. QED
  BY <1>9, <1>10
-----------------------------------------------------------------------------
(* Where each job is, in the workflow and in the coordinator: they only    *)
(* differ while some thread has the job in hand.                           *)
Ending(j) ==
    \/ thread[j].pc = "mark"
    \/ thread[Main].pc = "mark" /\ thread[Main].job = j
    \/ j \in thread[Main].boot
Taken(j) == \E t \in Threads : thread[t].pc = "running" /\ Head(thread[t].todo) = j
Failing(j) == thread[j].raised \/ (thread[Main].pc = "reopen" /\ thread[Main].job = j)

Place(j) ==
    /\ state[j] \in Waiting => job[j] = "absent" /\ j \notin refused
    /\ state[j] = "READY" => j \notin refused /\ (job[j] = "absent" \/ (job[j] = "live" /\ Taken(j)))
    /\ state[j] = "RUNNING" => j \notin refused /\ (job[j] = "live" \/ (job[j] \in Ended /\ Ending(j)))
    /\ state[j] = "COMPLETED" => j \notin refused /\ job[j] = "completed"
    /\ state[j] = "CANCELLED" => j \notin refused /\ job[j] = "cancelled"
    /\ state[j] = "FAILED" => \/ job[j] = "failed" /\ j \notin refused
                              \/ job[j] = "absent" /\ j \in refused
                              \/ job[j] = "live" /\ j \notin refused /\ Failing(j)

(* What the thread of a job may be at.                                     *)
JobWork(j) ==
    /\ thread[j].pc \notin {"reopen", "boot"} /\ thread[j].how # "schedule"
    /\ thread[j].pc = "mark" =>
          /\ thread[j].job = j /\ state[j] = "RUNNING"
          /\ IF thread[j].raised THEN job[j] = "live" /\ thread[j].how = "failed"
             ELSE job[j] = thread[j].how
    /\ thread[j].raised /\ thread[j].pc # "mark" => state[j] = "FAILED"

(* What the thread of the commands and of restore may be at.               *)
MainWork ==
    /\ thread[Main].pc \notin {"retry", "record"} /\ thread[Main].how # "retry"
    /\ thread[Main].pc = "mark" =>
          /\ thread[Main].job \in Jobs \ thread[Main].boot
          /\ state[thread[Main].job] = "RUNNING" /\ job[thread[Main].job] = thread[Main].how
    /\ thread[Main].pc = "reopen" =>
          /\ thread[Main].job \in Jobs /\ thread[Main].how = "none"
          /\ state[thread[Main].job] = "FAILED" /\ job[thread[Main].job] = "live"
          /\ thread[thread[Main].job].pc = "idle"
    /\ \A j \in thread[Main].boot :
          state[j] \in {"RUNNING", "READY"} \/ (state[j] = "FAILED" /\ job[j] = "absent")
    /\ thread[Main].boot # {} => Booting
    /\ thread[Main].pc \in {"mark", "ready", "block", "settle"} => Booting
    /\ Booting => restarts # 0 /\ \A j \in Jobs : thread[j].pc = "idle"

Works(t) ==
    /\ thread[t].pc = "idle" => thread[t] = Idle
    /\ thread[t].pc # "idle" => status # "none"
    /\ thread[t].pc \in {"submit", "running"} =>
          /\ lock = t /\ Distinct(thread[t].todo)
          /\ \A i \in 1 .. Len(thread[t].todo) : state[thread[t].todo[i]] = "READY"
    /\ thread[t].pc = "running" => job[Head(thread[t].todo)] = "live"

StatusIs ==
    /\ \A j \in Jobs : state[j] = "none" <=> status = "none"
    /\ status = "COMPLETED" => \A j \in Jobs : state[j] = "COMPLETED"

(* A pending job is looked at again when something above it broke, or when *)
(* all its parents have completed.                                         *)
BlockDue ==
    \A j \in Jobs : state[j] = "PENDING" /\ HasBroken(state, j)
        => \E t \in Threads : thread[t].pc = "block"
ReadyDue ==
    \A j \in Jobs : state[j] = "PENDING" /\ (\A p \in Parents[j] : state[p] = "COMPLETED")
        => \E t \in Threads : thread[t].pc = "ready"

(* Until the first restart, what is saved is what is known, unless a call  *)
(* is half done.                                                           *)
Busy == {"ready", "block", "lock", "submit", "running", "settle"}
Matches == saved = [state |-> state, status |-> status, over |-> over]
Clean == restarts = 0 => Matches \/ \E t \in Threads : thread[t].pc \in Busy

AgreeInv ==
    /\ \A j \in Jobs : Place(j)
    /\ \A j \in Jobs : JobWork(j)
    /\ MainWork
    /\ \A t \in Threads : Works(t)
    /\ StatusIs /\ Rooted(state) /\ BlockedWhy(state)
    /\ BlockDue /\ ReadyDue /\ Clean

-----------------------------------------------------------------------------
LEMMA OneThread ==
    ASSUME OrderInv, NEW t \in Threads, NEW r, thread' = [thread EXCEPT ![t] = r]
    PROVE  /\ thread'[t] = r /\ \A u \in Threads : u # t => thread'[u] = thread[u]
           /\ Main \in Threads /\ \A j \in Jobs : j \in Threads /\ j # Main
           /\ t \in Jobs \/ t = Main
BY DEF OrderInv, TypeOK, Threads

LEMMA IdleFields ==
    /\ Idle.pc = "idle" /\ Idle.job = Main /\ Idle.how = "none" /\ Idle.raised = FALSE
    /\ Idle.todo = <<>> /\ Idle.boot = {}
BY DEF Idle

(* The thread of a job is idle while restore goes on.                      *)
LEMMA NotBooting ==
    ASSUME AgreeInv, NEW j \in Jobs, thread[j].pc # "idle"
    PROVE  ~Booting
BY DEF AgreeInv, MainWork

(* A step that changes neither the jobs nor their states, between the ends *)
(* of a call.                                                              *)
LEMMA Quiet ==
    ASSUME OrderInv, AgreeInv, NEW t \in Threads, NEW r, thread' = [thread EXCEPT ![t] = r],
           state' = state, job' = job, refused' = refused, restarts' = restarts,
           thread[t].pc \in {"lock", "retry", "submit", "settle"},
           r.pc \in {"submit", "settle", "boot", "record", "idle", "retry"},
           r.pc = "idle" => r = Idle /\ ~thread[t].raised /\ (t = Main => thread[t].boot = {}),
           r.pc # "idle" => /\ r.raised = thread[t].raised /\ r.boot = thread[t].boot
                            /\ r.how = thread[t].how \/ (t \in Jobs /\ r.how = "retry"),
           t \in Jobs => r.pc # "boot",
           t = Main => r.pc \notin {"retry", "record"} /\ (r.pc \in {"boot", "settle"} => Booting),
           r.pc = "submit" => /\ lock' = t /\ Distinct(r.todo)
                              /\ \A i \in 1 .. Len(r.todo) : state[r.todo[i]] = "READY",
           lock' = lock \/ lock \in {"free", t},
           \/ status' = status
           \/ status' = "COMPLETED" /\ status # "none" /\ \A j \in Jobs : state[j] = "COMPLETED",
           Clean'
    PROVE  AgreeInv'
<1> USE IdleFields
<1> HIDE DEF Idle
<1>1. /\ thread'[t] = r /\ \A u \in Threads : u # t => thread'[u] = thread[u]
      /\ Main \in Threads /\ \A j \in Jobs : j \in Threads /\ j # Main
      /\ t \in Jobs \/ t = Main
  BY OneThread
<1>2. Booting' => Booting
  BY <1>1 DEF Booting
<1>3. t \in Jobs => ~Booting
  BY NotBooting
<1>4. ASSUME NEW j \in Jobs PROVE Place(j)'
  <2>1. /\ Taken(j) => Taken(j)'
        /\ Ending(j) => Ending(j)'
        /\ Failing(j) => Failing(j)'
    BY <1>1 DEF Taken, Ending, Failing
  <2>2. Place(j)
    BY DEF AgreeInv
  <2> HIDE DEF Taken, Ending, Failing
  <2>3. QED
    BY <2>1, <2>2 DEF Place
<1>5. ASSUME NEW j \in Jobs PROVE JobWork(j)'
  <2>1. JobWork(j)
    BY DEF AgreeInv
  <2>2. QED
    BY <1>1, <2>1 DEF JobWork
<1>6. MainWork'
  <2>1. MainWork
    BY DEF AgreeInv
  <2>2. CASE t = Main
    <3>1. /\ thread'[Main] = r /\ r.pc \notin {"mark", "reopen", "retry", "record"}
          /\ r.how = thread[Main].how \/ r.how = "none"
          /\ r.boot = thread[Main].boot \/ (r.boot = {} /\ thread[Main].boot = {})
          /\ \A j \in Jobs : thread'[j] = thread[j]
      BY <1>1, <2>2
    <3>2. r.boot # {} => Booting'
      <4>1. r.boot # {} => r.pc # "idle" /\ Booting
        BY <2>1, <2>2, <3>1 DEF MainWork
      <4>2. QED
        BY <2>2, <3>1, <4>1 DEF Booting
    <3>3. r.pc \in {"ready", "block", "settle"} => Booting'
      BY <2>2, <3>1 DEF Booting
    <3>4. QED
      BY <1>2, <2>1, <3>1, <3>2, <3>3 DEF MainWork
  <2>3. CASE t # Main
    BY <1>1, <1>2, <1>3, <2>1, <2>3 DEF MainWork
  <2>4. QED
    BY <2>2, <2>3
<1>7. ASSUME NEW u \in Threads PROVE Works(u)'
  <2>1. Works(u) /\ Works(t)
    BY DEF AgreeInv
  <2>2. CASE u = t
    BY <1>1, <2>1, <2>2 DEF Works
  <2>3. CASE u # t
    BY <1>1, <2>1, <2>3, NamesAssumption DEF Works
  <2>4. QED
    BY <2>2, <2>3
<1>8. StatusIs'
  BY DEF AgreeInv, StatusIs
<1>9. Rooted(state)' /\ BlockedWhy(state)'
  BY DEF AgreeInv, Rooted, BlockedWhy, HasBroken
<1>10. BlockDue' /\ ReadyDue'
  BY <1>1 DEF AgreeInv, BlockDue, ReadyDue, HasBroken
<1>11. QED
  BY <1>4, <1>5, <1>6, <1>7, <1>8, <1>9, <1>10 DEF AgreeInv
-----------------------------------------------------------------------------
LEMMA DistinctTail ==
    ASSUME NEW q \in Seq(Jobs), q # <<>>, Distinct(q)
    PROVE  /\ Distinct(Tail(q))
           /\ \A i \in 1 .. Len(Tail(q)) : Tail(q)[i] # Head(q)
<1>1. /\ Head(q) = q[1] /\ 1 \in 1 .. Len(q)
      /\ \A i \in 1 .. Len(Tail(q)) : i + 1 \in 1 .. Len(q) /\ Tail(q)[i] = q[i + 1]
      /\ Tail(q) \in Seq(Jobs)
  BY TailIs
<1>2. \A i \in 1 .. Len(Tail(q)) : i \in Nat /\ i + 1 # 1
  BY <1>1
<1>3. ASSUME NEW i \in 1 .. Len(Tail(q)) PROVE Tail(q)[i] # Head(q)
  BY <1>1, <1>2 DEF Distinct
<1>4. ASSUME NEW i \in 1 .. Len(Tail(q)), NEW k \in 1 .. Len(Tail(q)), Tail(q)[i] = Tail(q)[k]
      PROVE  i = k
  <2>1. i + 1 = k + 1
    BY <1>1, <1>4 DEF Distinct
  <2>2. QED
    BY <1>2, <2>1
<1>5. QED
  BY <1>3, <1>4 DEF Distinct

LEMMA CleanKept ==
    ASSUME OrderInv, AgreeInv, NEW t \in Threads, NEW r, thread' = [thread EXCEPT ![t] = r],
           restarts' = restarts, saved' = saved, state' = state, status' = status, over' = over,
           r.pc \in Busy \/ thread[t].pc \notin Busy
    PROVE  Clean'
<1>1. thread'[t] = r /\ \A u \in Threads : u # t => thread'[u] = thread[u]
  BY OneThread
<1>2. Clean
  BY DEF AgreeInv
<1>3. QED
  BY <1>1, <1>2 DEF Clean, Matches

LEMMA CleanSaved == Persist => Clean'
BY DEF Persist, Clean, Matches

LEMMA RecIs ==
    ASSUME OrderInv, NEW t \in Threads
    PROVE  /\ thread[t] \in ThreadRecs
           /\ \A pc : LET r == [thread[t] EXCEPT !.pc = pc] IN
                 /\ r.pc = pc /\ r.job = thread[t].job /\ r.how = thread[t].how
                 /\ r.raised = thread[t].raised /\ r.todo = thread[t].todo /\ r.boot = thread[t].boot
           /\ \A pc, q : LET r == [thread[t] EXCEPT !.pc = pc, !.todo = q] IN
                 /\ r.pc = pc /\ r.job = thread[t].job /\ r.how = thread[t].how
                 /\ r.raised = thread[t].raised /\ r.todo = q /\ r.boot = thread[t].boot
           /\ \A pc, q, how : LET r == [thread[t] EXCEPT !.pc = pc, !.how = how, !.todo = q] IN
                 /\ r.pc = pc /\ r.job = thread[t].job /\ r.how = how
                 /\ r.raised = thread[t].raised /\ r.todo = q /\ r.boot = thread[t].boot
           /\ \A q : LET r == [thread[t] EXCEPT !.todo = q] IN
                 /\ r.pc = thread[t].pc /\ r.job = thread[t].job /\ r.how = thread[t].how
                 /\ r.raised = thread[t].raised /\ r.todo = q /\ r.boot = thread[t].boot
<1>1. thread[t] \in ThreadRecs
  BY ThreadTypes DEF OrderInv
<1>2. QED
  BY <1>1 DEF ThreadRecs

LEMMA ScheduleAgrees ==
    ASSUME OrderInv, AgreeInv, NEW t \in Threads, Schedule(t)
    PROVE  AgreeInv'
<1> DEFINE r == [thread[t] EXCEPT !.pc = "submit", !.todo = ReadyList]
<1>1. /\ thread' = [thread EXCEPT ![t] = r] /\ thread[t].pc = "lock" /\ lock = "free" /\ lock' = t
      /\ state' = state /\ status' = status /\ over' = over /\ saved' = saved
      /\ job' = job /\ refused' = refused /\ restarts' = restarts
  BY DEF Schedule, wf, jobs, bounds
<1>2. /\ r.pc = "submit" /\ r.how = thread[t].how /\ r.raised = thread[t].raised
      /\ r.boot = thread[t].boot /\ r.todo = ReadyList
  BY RecIs
<1>3. Distinct(ReadyList) /\ \A i \in 1 .. Len(ReadyList) : state[ReadyList[i]] = "READY"
  BY ReadyListHas, ReadyListIs
<1> HIDE DEF r
<1>4. Clean'
  BY <1>1, <1>2, CleanKept DEF Busy
<1>5. QED
  BY <1>1, <1>2, <1>3, <1>4, Quiet

LEMMA HoldBackAgrees ==
    ASSUME OrderInv, AgreeInv, NEW t \in Threads, HoldBack(t)
    PROVE  AgreeInv'
<1> DEFINE q == thread[t].todo
           r == [thread[t] EXCEPT !.todo = Tail(q)]
<1>1. /\ thread' = [thread EXCEPT ![t] = r] /\ thread[t].pc = "submit" /\ q # <<>>
      /\ state' = state /\ status' = status /\ over' = over /\ saved' = saved /\ lock' = lock
      /\ job' = job /\ refused' = refused /\ restarts' = restarts
  BY DEF HoldBack, wf, engine, jobs, bounds
<1>2. /\ r.pc = "submit" /\ r.how = thread[t].how /\ r.raised = thread[t].raised
      /\ r.boot = thread[t].boot /\ r.todo = Tail(q)
  BY <1>1, RecIs
<1>3. /\ lock = t /\ Distinct(q) /\ q \in Seq(Jobs)
      /\ \A i \in 1 .. Len(q) : state[q[i]] = "READY"
  BY <1>1, HeadIsReady DEF AgreeInv, Works
<1> HIDE DEF r, q
<1>4. Distinct(Tail(q)) /\ \A i \in 1 .. Len(Tail(q)) : state[Tail(q)[i]] = "READY"
  BY <1>1, <1>3, DistinctTail, TailIs
<1>5. Clean'
  BY <1>1, <1>2, CleanKept DEF Busy
<1>6. QED
  BY <1>1, <1>2, <1>3, <1>4, <1>5, Quiet

LEMMA SettleAgrees ==
    ASSUME OrderInv, AgreeInv, NEW t \in Threads, Settle(t)
    PROVE  AgreeInv'
<1> DEFINE r == [thread[t] EXCEPT !.pc = AfterDag(t)]
<1>1. /\ thread' = [thread EXCEPT ![t] = r] /\ thread[t].pc = "settle"
      /\ state' = state /\ lock' = lock /\ Persist
      /\ job' = job /\ refused' = refused /\ restarts' = restarts
      /\ \/ status' = status
         \/ status' = "COMPLETED" /\ \A j \in Jobs : state[j] = "COMPLETED"
  BY DEF Settle, jobs, bounds, Goto
<1>2. /\ r.pc = AfterDag(t) /\ r.how = thread[t].how /\ r.raised = thread[t].raised
      /\ r.boot = thread[t].boot
  BY RecIs
<1>3. AfterDag(t) = IF t = Main THEN "boot" ELSE "retry"
  BY DEF AfterDag
<1>4. Main \notin Jobs /\ status # "none" /\ (t = Main => Booting)
  BY <1>1 DEF AgreeInv, Works, MainWork
<1> HIDE DEF r
<1>5. QED
  BY <1>1, <1>2, <1>3, <1>4, CleanSaved, Quiet

(* The end of a call that has nothing left to do.                          *)
LEMMA CallEndAgrees ==
    ASSUME OrderInv, AgreeInv, NEW t \in Threads,
           thread[t].pc \in {"retry", "submit"}, t = Main => ~Booting,
           thread' = [thread EXCEPT ![t] =
                         IF @.raised THEN [@ EXCEPT !.pc = "record"] ELSE Idle],
           state' = state, job' = job, refused' = refused, restarts' = restarts,
           status' = status, lock' = lock \/ lock \in {"free", t},
           Persist \/ (saved' = saved /\ over' = over /\ thread[t].pc = "retry")
    PROVE  AgreeInv'
<1> DEFINE r == IF thread[t].raised THEN [thread[t] EXCEPT !.pc = "record"] ELSE Idle
<1>1. thread' = [thread EXCEPT ![t] = r]
  OBVIOUS
<1>2. /\ t = Main => thread[t].boot = {}
      /\ Main \notin Jobs
      /\ thread[t].raised => t \in Jobs
  BY HonestIs DEF AgreeInv, MainWork
<1>3. /\ r.pc \in {"record", "idle"}
      /\ r.pc = "idle" => r = Idle /\ ~thread[t].raised
      /\ r.pc = "record" => /\ thread[t].raised /\ r.raised = thread[t].raised
                            /\ r.boot = thread[t].boot /\ r.how = thread[t].how
  BY RecIs, IdleFields
<1> HIDE DEF r
<1>4. Clean'
  BY <1>1, <1>3, CleanKept, CleanSaved DEF Busy
<1>5. QED
  BY <1>1, <1>2, <1>3, <1>4, Quiet

LEMMA RetryDeferredAgrees ==
    ASSUME OrderInv, AgreeInv, NEW t \in Threads, RetryDeferred(t)
    PROVE  AgreeInv'
<1>0. /\ thread[t].pc = "retry" /\ lock = "free" /\ t # Main /\ t \in Jobs
      /\ state' = state /\ status' = status /\ over' = over /\ saved' = saved
      /\ job' = job /\ refused' = refused /\ restarts' = restarts
  BY DEF RetryDeferred, wf, jobs, bounds, AgreeInv, MainWork, Threads
<1>1. CASE deferred /\ ReadyList # <<>>
  <2> DEFINE r == [thread[t] EXCEPT !.pc = "submit", !.how = "retry", !.todo = ReadyList]
  <2>1. thread' = [thread EXCEPT ![t] = r] /\ lock' = t
    BY <1>1 DEF RetryDeferred
  <2>2. /\ r.pc = "submit" /\ r.how = "retry" /\ r.raised = thread[t].raised
        /\ r.boot = thread[t].boot /\ r.todo = ReadyList
    BY RecIs
  <2>3. Distinct(ReadyList) /\ \A i \in 1 .. Len(ReadyList) : state[ReadyList[i]] = "READY"
    BY ReadyListHas, ReadyListIs
  <2> HIDE DEF r
  <2>4. Clean'
    BY <1>0, <2>1, <2>2, CleanKept DEF Busy
  <2>5. QED
    BY <1>0, <2>1, <2>2, <2>3, <2>4, Quiet
<1>2. CASE ~(deferred /\ ReadyList # <<>>)
  <2>1. /\ thread' = [thread EXCEPT ![t] =
                         IF @.raised THEN [@ EXCEPT !.pc = "record"] ELSE Idle]
        /\ lock' = lock
    BY <1>2 DEF RetryDeferred
  <2>2. QED
    BY <1>0, <2>1, CallEndAgrees
<1>3. QED
  BY <1>1, <1>2

LEMMA EndScheduleAgrees ==
    ASSUME OrderInv, AgreeInv, NEW t \in Threads, EndSchedule(t)
    PROVE  AgreeInv'
<1>0. /\ thread[t].pc = "submit" /\ lock = t /\ lock' = "free"
      /\ job' = job /\ refused' = refused /\ restarts' = restarts
      /\ state' = state /\ status' = status /\ over' = over
  BY DEF EndSchedule, jobs, bounds, wf, AgreeInv, Works
<1>1. CASE thread[t].how \in {"submit", "retry"}
  <2>1. /\ Persist
        /\ thread' = [thread EXCEPT ![t] =
                           IF @.raised THEN [@ EXCEPT !.pc = "record"] ELSE Idle]
    BY <1>1 DEF EndSchedule
  <2>2. t = Main => ~Booting
    BY <1>0, <1>1 DEF Booting, AgreeInv, MainWork
  <2>3. QED
    BY <1>0, <2>1, <2>2, CallEndAgrees
<1>2. CASE thread[t].how \in {"completed", "schedule"}
  <2> DEFINE pc == IF thread[t].how = "completed" THEN "settle" ELSE "boot"
             r == [thread[t] EXCEPT !.pc = pc]
  <2>1. thread' = [thread EXCEPT ![t] = r] /\ saved' = saved
    BY <1>2 DEF EndSchedule, Goto
  <2>2. /\ r.pc = pc /\ r.how = thread[t].how /\ r.raised = thread[t].raised
        /\ r.boot = thread[t].boot
    BY RecIs
  <2>3. /\ t = Main => Booting
        /\ t \in Jobs => pc = "settle"
        /\ Main \notin Jobs /\ (t \in Jobs \/ t = Main)
    BY <1>2 DEF Booting, AgreeInv, JobWork, Threads
  <2> HIDE DEF r
  <2>4. Clean'
    <3>1. CASE pc = "settle"
      BY <1>0, <2>1, <2>2, <3>1, CleanKept DEF Busy
    <3>2. CASE t = Main
      <4>1. restarts # 0
        BY <2>3, <3>2 DEF AgreeInv, MainWork
      <4>2. QED
        BY <1>0, <4>1 DEF Clean
    <3>3. QED
      BY <2>3, <3>1, <3>2
  <2>5. QED
    BY <1>0, <2>1, <2>2, <2>3, <2>4, Quiet
<1>3. QED
  BY <1>1, <1>2 DEF EndSchedule
-----------------------------------------------------------------------------
(* A step of a call that writes the states of the jobs X. Other jobs only  *)
(* go from one way of waiting to another.                                  *)
LEMMA StateStep ==
    ASSUME OrderInv, AgreeInv, NEW t \in Threads, NEW r, thread' = [thread EXCEPT ![t] = r],
           job' = job, lock' = lock, restarts' = restarts, status # "none", status' # "none",
           r.raised = thread[t].raised, r.boot = thread[t].boot, r.how = thread[t].how,
           thread[t].pc \in {"mark", "ready", "block", "submit", "running"},
           r.pc \in {"ready", "block", "lock", "submit", "retry", "boot"},
           t \in Jobs => r.pc # "boot",
           t = Main => r.pc # "retry" /\ (r.pc \in {"ready", "block", "boot"} => Booting),
           NEW X \in SUBSET Jobs,
           \A j \in Jobs \ X : /\ \/ state'[j] = state[j]
                                  \/ /\ state[j] \in {"PENDING", "BLOCKED"}
                                     /\ state'[j] \in {"PENDING", "BLOCKED", "READY"}
                               /\ j \in refused' <=> j \in refused,
           \A j \in X : /\ Place(j)'
                        /\ \/ state[j] = "READY" /\ lock = t
                           \/ state[j] = "RUNNING" /\ t \in {j, Main} /\ thread[t].pc = "mark"
                        /\ t = j /\ thread[t].raised => state'[j] = "FAILED"
                        /\ \/ j \notin thread[Main].boot \/ state'[j] = "RUNNING"
                           \/ state'[j] = "FAILED" /\ job[j] = "absent",
           thread[t].pc = "mark" => thread[t].job \in X,
           thread[t].pc = "running" => Head(thread[t].todo) \in X,
           Works(t)'
    PROVE  /\ \A j \in Jobs : Place(j)' /\ JobWork(j)'
           /\ MainWork'
           /\ \A u \in Threads : Works(u)'
<1> USE IdleFields
<1> HIDE DEF Idle
<1>1. /\ thread'[t] = r /\ \A u \in Threads : u # t => thread'[u] = thread[u]
      /\ Main \in Threads /\ \A j \in Jobs : j \in Threads /\ j # Main
      /\ t \in Jobs \/ t = Main
  BY OneThread
<1>2. /\ Booting' <=> Booting
      /\ t = Main \/ ~Booting
  <2>1. CASE t = Main
    BY <1>1, <2>1 DEF Booting
  <2>2. CASE t # Main
    BY <1>1, <2>2, NotBooting DEF Booting
  <2>3. QED
    BY <2>1, <2>2
<1>3. thread[t].pc = "mark" /\ t \in Jobs => thread[t].job = t
  BY DEF AgreeInv, JobWork
<1>4. ASSUME NEW j \in Jobs PROVE Place(j)'
  <2>1. CASE j \in X
    BY <2>1
  <2>2. CASE j \notin X
    <3>1. Taken(j) => Taken(j)'
      BY <1>1, <2>2 DEF Taken
    <3>2. Ending(j) => Ending(j)'
      BY <1>1, <1>3, <2>2 DEF Ending
    <3>3. Failing(j) => Failing(j)'
      BY <1>1, <2>2 DEF Failing
    <3>4. Place(j)
      BY DEF AgreeInv
    <3>5. /\ \/ state'[j] = state[j]
             \/ state[j] \in {"PENDING", "BLOCKED"} /\ state'[j] \in {"PENDING", "BLOCKED", "READY"}
          /\ j \in refused' <=> j \in refused
      BY <2>2
    <3> HIDE DEF Taken, Ending, Failing
    <3>6. QED
      BY <3>1, <3>2, <3>3, <3>4, <3>5 DEF Place, Waiting
  <2>3. QED
    BY <2>1, <2>2
<1>5. ASSUME NEW j \in Jobs PROVE JobWork(j)'
  <2>1. JobWork(j) /\ Works(j)
    BY <1>1 DEF AgreeInv
  <2>2. CASE j = t
    <3>1. thread[j].raised => state'[j] = "FAILED"
      BY <1>1, <2>1, <2>2 DEF JobWork
    <3>2. QED
      BY <1>1, <2>1, <2>2, <3>1 DEF JobWork
  <2>3. CASE j # t /\ j \in X
    <3>1. thread[j].pc # "mark" /\ ~thread[j].raised
      <4>1. CASE state[j] = "READY"
        BY <2>1, <4>1 DEF JobWork
      <4>2. CASE t = Main /\ thread[t].pc = "mark"
        BY <2>1, <4>2 DEF AgreeInv, MainWork, Works
      <4>3. QED
        BY <2>3, <4>1, <4>2
    <3>2. QED
      BY <1>1, <2>1, <2>3, <3>1 DEF JobWork
  <2>4. CASE j # t /\ j \notin X
    <3>1. state[j] \in {"RUNNING", "FAILED"} => state'[j] = state[j]
      BY <2>4
    <3>2. QED
      BY <1>1, <2>1, <2>4, <3>1 DEF JobWork
  <2>5. QED
    BY <2>2, <2>3, <2>4
<1>6. MainWork'
  <2>1. MainWork
    BY DEF AgreeInv
  <2>2. CASE t = Main
    <3>1. /\ thread'[Main] = r /\ r.boot = thread[Main].boot /\ r.how = thread[Main].how
          /\ r.pc \notin {"mark", "reopen", "retry", "record"}
          /\ r.pc \in {"ready", "block"} => Booting
          /\ r.pc # "settle"
          /\ \A j \in Jobs : thread'[j] = thread[j]
      BY <1>1, <2>2
    <3>2. \A j \in thread[Main].boot :
             state'[j] \in {"RUNNING", "READY"} \/ (state'[j] = "FAILED" /\ job[j] = "absent")
      <4>1. thread[Main].boot \subseteq Jobs
        BY RecIs DEF ThreadRecs, Threads
      <4>2. QED
        BY <2>1, <4>1 DEF MainWork
    <3>3. QED
      BY <1>2, <2>1, <3>1, <3>2 DEF MainWork
  <2>3. CASE t # Main
    <3>1. /\ ~Booting /\ thread[Main].boot = {} /\ thread'[Main] = thread[Main]
          /\ thread[Main].pc \notin {"mark", "ready", "block", "settle"}
      BY <1>1, <1>2, <2>1, <2>3 DEF MainWork
    <3>2. ASSUME thread[Main].pc = "reopen"
          PROVE  LET y == thread[Main].job IN state'[y] = "FAILED" /\ thread'[y].pc = "idle"
      <4>1. LET y == thread[Main].job IN y \in Jobs /\ state[y] = "FAILED" /\ thread[y].pc = "idle"
        BY <2>1, <3>2 DEF MainWork
      <4>2. QED
        BY <1>1, <4>1
    <3>3. QED
      BY <1>2, <2>1, <3>1, <3>2 DEF MainWork
  <2>4. QED
    BY <2>2, <2>3
<1>7. ASSUME NEW u \in Threads, u # t PROVE Works(u)'
  <2>1. Works(u) /\ Works(t) /\ thread'[u] = thread[u] /\ thread[u].todo \in Seq(Jobs)
    BY <1>1, <1>7, ThreadTypes DEF AgreeInv, OrderInv
  <2>2. lock = u => \A j \in Jobs : state[j] = "READY" => state'[j] = "READY"
    BY <1>7
  <2>3. \A i \in 1 .. Len(thread[u].todo) : thread[u].todo[i] \in Jobs
    BY <2>1
  <2>4. thread[u].pc \in {"submit", "running"} =>
          /\ lock = u /\ Distinct(thread[u].todo)
          /\ \A i \in 1 .. Len(thread[u].todo) : state'[thread[u].todo[i]] = "READY"
    BY <2>1, <2>2, <2>3 DEF Works
  <2>5. QED
    BY <2>1, <2>4 DEF Works
<1>8. QED
  BY <1>4, <1>5, <1>6, <1>7
-----------------------------------------------------------------------------
LEMMA MarkAgrees ==
    ASSUME OrderInv, AgreeInv, NEW t \in Threads, Mark(t)
    PROVE  AgreeInv'
<1> DEFINE how == thread[t].how
           pc == IF how = "completed" THEN "ready" ELSE "block"
           r == [thread[t] EXCEPT !.pc = pc]
           v == MarkOf(how)
<1>0. /\ state \in [Jobs -> JobStates] /\ Main \notin Jobs /\ (t \in Jobs \/ t = Main)
      /\ Main \in Threads
  BY DEF OrderInv, TypeOK, Threads
<1>1. /\ thread[t].pc = "mark" /\ status # "none"
      /\ how \in {"completed", "failed", "cancelled"}
  BY HonestIs DEF Mark, HonestRec, AgreeInv, Works
<1> PICK x \in Jobs : x = thread[t].job
  BY HonestIs DEF Mark, HonestRec
<1>2. /\ state' = [state EXCEPT ![x] = v] /\ thread' = [thread EXCEPT ![t] = r]
      /\ job' = job /\ lock' = lock /\ restarts' = restarts /\ status' = status
      /\ refused' = refused
  BY <1>1 DEF Mark, engine, jobs, bounds, Goto
<1>3. /\ r.pc = pc /\ r.how = thread[t].how /\ r.raised = thread[t].raised
      /\ r.boot = thread[t].boot
  BY RecIs
<1>4. /\ state[x] = "RUNNING"
      /\ t \in Jobs => x = t /\ ~Booting
      /\ t = Main => x \notin thread[Main].boot /\ Booting
      /\ \/ job[x] = how
         \/ t = x /\ thread[t].raised /\ job[x] = "live" /\ how = "failed"
      /\ t \in Jobs /\ thread[t].raised => how = "failed"
      /\ ~Booting => thread[Main].boot = {}
  BY <1>0, <1>1, NotBooting DEF AgreeInv, JobWork, MainWork
<1>5. /\ v \in {"COMPLETED", "FAILED", "CANCELLED"}
      /\ how = "completed" <=> v = "COMPLETED"
      /\ how = "failed" <=> v = "FAILED"
      /\ how = "cancelled" <=> v = "CANCELLED"
  BY <1>1 DEF MarkOf
<1> HIDE DEF r, v
<1>6. /\ thread'[t] = r /\ \A u \in Threads : u # t => thread'[u] = thread[u]
  BY <1>2, OneThread
<1>7. state'[x] = v /\ \A j \in Jobs : j # x => state'[j] = state[j]
  BY <1>0, <1>1, <1>2
<1>8. Place(x)'
  <2>1. x \notin refused /\ Place(x)
    BY <1>1, <1>4 DEF AgreeInv, Place
  <2>2. \/ job'[x] = how
        \/ job'[x] = "live" /\ how = "failed" /\ Failing(x)'
    BY <1>2, <1>3, <1>4, <1>6 DEF Failing
  <2>3. QED
    BY <1>2, <1>5, <1>7, <2>1, <2>2 DEF Place, Waiting
<1>9. Works(t)'
  BY <1>2, <1>3, <1>6, <1>1 DEF Works
<1>10. /\ \A j \in Jobs : Place(j)' /\ JobWork(j)'
       /\ MainWork'
       /\ \A u \in Threads : Works(u)'
  <2> DEFINE X == {x}
  <2>1. X \in SUBSET Jobs
    BY <1>1
  <2>2. \A j \in Jobs \ X : state'[j] = state[j]
    BY <1>7
  <2>3. \A j \in X : /\ Place(j)' /\ state[j] = "RUNNING" /\ t \in {j, Main} /\ thread[t].pc = "mark"
                     /\ t = j /\ thread[t].raised => state'[j] = "FAILED"
                     /\ j \notin thread[Main].boot
    BY <1>0, <1>1, <1>4, <1>5, <1>7, <1>8
  <2>4. thread[t].job \in X
    OBVIOUS
  <2>5. /\ r.pc \in {"ready", "block"}
        /\ t \in Jobs => r.pc # "boot"
        /\ t = Main => Booting
    BY <1>3, <1>4
  <2> HIDE DEF X, pc, how
  <2>6. QED
    BY ZenonT(60), <1>1, <1>2, <1>3, <1>9, <2>1, <2>2, <2>3, <2>4, <2>5, StateStep
<1>11. StatusIs'
  BY <1>1, <1>2, <1>4, <1>5, <1>7 DEF AgreeInv, StatusIs
<1>12. Rooted(state)' /\ BlockedWhy(state)'
  <2>1. Rooted(state) /\ BlockedWhy(state) /\ v \in JobStates \ {"BLOCKED"}
    BY <1>5 DEF AgreeInv, JobStates
  <2>2. Rooted([state EXCEPT ![x] = v]) /\ BlockedWhy([state EXCEPT ![x] = v])
    BY <1>0, <1>1, <1>4, <2>1, RootedExcept, WhyExcept DEF Waiting, Broke
  <2>3. QED
    BY <1>2, <2>2
<1>13. BlockDue'
  <2>1. CASE v = "COMPLETED"
    <3>1. \A i \in Jobs : state[i] \in Broke <=> state'[i] \in Broke
      BY <1>4, <1>7, <2>1 DEF Broke
    <3>2. \A j \in Jobs : HasBroken(state', j) => HasBroken(state, j)
      BY <3>1, SameBroken
    <3>3. \A j \in Jobs : state'[j] = "PENDING" => state[j] = "PENDING"
      BY <1>7, <2>1
    <3>4. BlockDue
      BY DEF AgreeInv
    <3>5. (\E u \in Threads : thread[u].pc = "block") => \E u \in Threads : thread'[u].pc = "block"
      BY <1>1, <1>6
    <3>6. QED
      BY <3>2, <3>3, <3>4, <3>5 DEF BlockDue
  <2>2. CASE v # "COMPLETED"
    <3>1. thread'[t].pc = "block"
      BY <1>3, <1>5, <1>6, <2>2
    <3>2. QED
      BY <3>1 DEF BlockDue
  <2>3. QED
    BY <2>1, <2>2
<1>14. ReadyDue'
  <2>1. CASE v # "COMPLETED"
    <3>1. \A i \in Jobs : /\ state'[i] = "COMPLETED" => state[i] = "COMPLETED"
                          /\ state'[i] = "PENDING" => state[i] = "PENDING"
      BY <1>5, <1>7, <2>1
    <3>2. ReadyDue
      BY DEF AgreeInv
    <3>3. (\E u \in Threads : thread[u].pc = "ready") => \E u \in Threads : thread'[u].pc = "ready"
      BY <1>1, <1>6
    <3>4. QED
      BY <3>1, <3>2, <3>3, AboveIn DEF ReadyDue
  <2>2. CASE v = "COMPLETED"
    <3>1. thread'[t].pc = "ready"
      BY <1>3, <1>5, <1>6, <2>2
    <3>2. QED
      BY <3>1 DEF ReadyDue
  <2>3. QED
    BY <2>1, <2>2
<1>15. Clean'
  BY <1>3, <1>6 DEF Clean, Busy
<1>16. QED
  BY <1>10, <1>11, <1>12, <1>13, <1>14, <1>15 DEF AgreeInv

LEMMA UpdateReadyAgrees ==
    ASSUME OrderInv, OrderInv', AgreeInv, NEW t \in Threads, UpdateReady(t)
    PROVE  AgreeInv'
<1> DEFINE r == [thread[t] EXCEPT !.pc = "lock"]
<1>0. /\ state \in [Jobs -> JobStates] /\ state' \in [Jobs -> JobStates] /\ Main \notin Jobs
      /\ t \in Jobs \/ t = Main
      /\ Main \in Threads
  BY DEF OrderInv, TypeOK, Threads
<1>1. /\ thread[t].pc = "ready" /\ status # "none" /\ thread' = [thread EXCEPT ![t] = r]
      /\ job' = job /\ lock' = lock /\ restarts' = restarts /\ status' = status
      /\ refused' = refused
  BY DEF UpdateReady, AgreeInv, Works, engine, jobs, bounds, Goto
<1>2. /\ r.pc = "lock" /\ r.how = thread[t].how /\ r.raised = thread[t].raised
      /\ r.boot = thread[t].boot
  BY RecIs
<1>3. \A j \in Jobs : \/ state'[j] = state[j] /\ j \notin NewlyReady
                      \/ state[j] = "PENDING" /\ state'[j] = "READY"
                         /\ \A p \in Parents[j] : state[p] = "COMPLETED"
  BY DEF UpdateReady, NewlyReady
<1> HIDE DEF r
<1>4. /\ thread'[t] = r /\ \A u \in Threads : u # t => thread'[u] = thread[u]
  BY <1>1, OneThread
<1>5. Works(t)'
  BY <1>1, <1>2, <1>4 DEF Works
<1>6. /\ \A j \in Jobs : Place(j)' /\ JobWork(j)'
      /\ MainWork'
      /\ \A u \in Threads : Works(u)'
  <2> DEFINE X == {}
  <2>1. X \in SUBSET Jobs /\ \A j \in X : FALSE
    OBVIOUS
  <2>2. \A j \in Jobs \ X : /\ \/ state'[j] = state[j]
                                  \/ /\ state[j] \in {"PENDING", "BLOCKED"}
                                     /\ state'[j] \in {"PENDING", "BLOCKED", "READY"}
                            /\ j \in refused' <=> j \in refused
    BY <1>1, <1>3
  <2> HIDE DEF X
  <2>3. QED
    BY <1>1, <1>2, <1>5, <2>1, <2>2, StateStep
<1>7. StatusIs'
  BY <1>1, <1>3 DEF AgreeInv, StatusIs
<1>8. Rooted(state)'
  <2>1. Rooted(state)
    BY DEF AgreeInv
  <2>2. \A j \in Jobs : \/ state'[j] = state[j]
                        \/ state[j] \in Waiting /\ \A p \in Parents[j] : state[p] = "COMPLETED"
    BY <1>3 DEF Waiting
  <2>3. QED
    BY <1>0, <2>1, <2>2, RootedReady
<1>9. \A i \in Jobs : /\ state[i] \in Broke <=> state'[i] \in Broke
                      /\ state[i] = "COMPLETED" <=> state'[i] = "COMPLETED"
                      /\ state'[i] = "BLOCKED" => state[i] = "BLOCKED"
                      /\ state'[i] = "PENDING" => state[i] = "PENDING"
  BY <1>3 DEF Broke
<1>10. \A j \in Jobs : HasBroken(state', j) <=> HasBroken(state, j)
  BY <1>9, SameBroken
<1>11. BlockedWhy(state)'
  BY <1>9, <1>10 DEF AgreeInv, BlockedWhy
<1>12. BlockDue'
  <2>1. (\E u \in Threads : thread[u].pc = "block") => \E u \in Threads : thread'[u].pc = "block"
    BY <1>1, <1>4
  <2>2. QED
    BY <1>9, <1>10, <2>1 DEF AgreeInv, BlockDue
<1>13. ReadyDue'
  <2>1. ASSUME NEW j \in Jobs, state'[j] = "PENDING", \A p \in Parents[j] : state'[p] = "COMPLETED"
        PROVE  FALSE
    <3>1. state[j] = "PENDING" /\ \A p \in Parents[j] : state[p] = "COMPLETED"
      BY <1>9, <2>1, AboveIn
    <3>2. j \in NewlyReady
      BY <3>1 DEF NewlyReady
    <3>3. QED
      BY <1>3, <2>1, <3>2
  <2>2. QED
    BY <2>1 DEF ReadyDue
<1>14. Clean'
  BY <1>2, <1>4 DEF Clean, Busy
<1>15. QED
  BY <1>6, <1>7, <1>8, <1>11, <1>12, <1>13, <1>14 DEF AgreeInv

(* A pending job below a broken one is blocked, and nothing else changes.  *)
LEMMA BrokenMoves ==
    ASSUME NEW s \in [Jobs -> JobStates], Rooted(s), BlockedWhy(s), state' = Blocked(s)
    PROVE  /\ \A j \in Jobs : \/ state'[j] = s[j]
                              \/ s[j] = "PENDING" /\ state'[j] = "BLOCKED"
           /\ Rooted(state)' /\ BlockedWhy(state)' /\ BlockDue'
<1>1. \A j \in Jobs : \/ state'[j] = s[j]
                      \/ s[j] = "PENDING" /\ state'[j] = "BLOCKED"
  BY BlockedMoves
<1>2. /\ Rooted(Blocked(s)) /\ BlockedWhy(Blocked(s))
      /\ \A j \in Jobs : Blocked(s)[j] = "PENDING" => ~HasBroken(Blocked(s), j)
  BY BlockedRooted
<1>3. QED
  BY <1>1, <1>2 DEF BlockDue

LEMMA BlockAgrees ==
    ASSUME OrderInv, AgreeInv, NEW t \in Threads, Block(t)
    PROVE  AgreeInv'
<1> DEFINE r == [thread[t] EXCEPT !.pc = AfterDag(t)]
<1>0. /\ state \in [Jobs -> JobStates] /\ Main \notin Jobs
      /\ t \in Jobs \/ t = Main
      /\ Main \in Threads
  BY DEF OrderInv, TypeOK, Threads
<1>1. /\ thread[t].pc = "block" /\ status # "none" /\ thread' = [thread EXCEPT ![t] = r]
      /\ job' = job /\ lock' = lock /\ restarts' = restarts /\ status' \in Broke
      /\ refused' = refused /\ state' = Blocked(state) /\ Persist
      /\ t = Main => Booting
  BY DEF Block, Broken, Broke, AgreeInv, Works, MainWork, jobs, bounds, Goto
<1>2. /\ r.pc = AfterDag(t) /\ r.how = thread[t].how /\ r.raised = thread[t].raised
      /\ r.boot = thread[t].boot
  BY RecIs
<1>3. AfterDag(t) = IF t = Main THEN "boot" ELSE "retry"
  BY DEF AfterDag
<1>4. /\ \A j \in Jobs : \/ state'[j] = state[j]
                         \/ state[j] = "PENDING" /\ state'[j] = "BLOCKED"
      /\ Rooted(state)' /\ BlockedWhy(state)' /\ BlockDue'
  BY <1>0, <1>1, BrokenMoves DEF AgreeInv
<1> HIDE DEF r
<1>5. /\ thread'[t] = r /\ \A u \in Threads : u # t => thread'[u] = thread[u]
  BY <1>1, OneThread
<1>6. status' # "none" /\ status' # "COMPLETED"
  BY <1>1 DEF Broke
<1>7. Works(t)'
  BY <1>2, <1>3, <1>5, <1>6 DEF Works
<1>8. /\ \A j \in Jobs : Place(j)' /\ JobWork(j)'
      /\ MainWork'
      /\ \A u \in Threads : Works(u)'
  <2> DEFINE X == {}
  <2>1. X \in SUBSET Jobs /\ \A j \in X : FALSE
    OBVIOUS
  <2>2. \A j \in Jobs \ X : /\ \/ state'[j] = state[j]
                                  \/ /\ state[j] \in {"PENDING", "BLOCKED"}
                                     /\ state'[j] \in {"PENDING", "BLOCKED", "READY"}
                            /\ j \in refused' <=> j \in refused
    BY <1>1, <1>4
  <2>3. /\ r.pc \in {"retry", "boot"}
        /\ t \in Jobs => r.pc # "boot"
        /\ t = Main => r.pc # "retry"
    BY <1>0, <1>2, <1>3
  <2> HIDE DEF X
  <2>4. QED
    BY <1>1, <1>2, <1>6, <1>7, <2>1, <2>2, <2>3, StateStep
<1>9. StatusIs'
  BY <1>1, <1>4, <1>6 DEF AgreeInv, StatusIs
<1>10. ReadyDue'
  <2>1. \A i \in Jobs : /\ state'[i] = "COMPLETED" => state[i] = "COMPLETED"
                        /\ state'[i] = "PENDING" => state[i] = "PENDING"
    BY <1>4
  <2>2. (\E u \in Threads : thread[u].pc = "ready") => \E u \in Threads : thread'[u].pc = "ready"
    BY <1>1, <1>5
  <2>3. QED
    BY <2>1, <2>2, AboveIn DEF AgreeInv, ReadyDue
<1>11. QED
  BY <1>1, <1>4, <1>8, <1>9, <1>10, CleanSaved DEF AgreeInv

(* The job that the loop of schedule_ready_jobs has come to.               *)
LEMMA AtHand ==
    ASSUME OrderInv, AgreeInv, NEW t \in Threads, thread[t].pc \in {"submit", "running"},
           thread[t].todo # <<>>
    PROVE  LET x == Head(thread[t].todo) IN
           /\ x \in Jobs /\ state[x] = "READY" /\ x \notin refused /\ lock = t
           /\ thread[t].pc = "submit" => job[x] = "absent"
           /\ thread[t].pc = "running" => job[x] = "live"
           /\ Tail(thread[t].todo) \in Seq(Jobs) /\ Distinct(Tail(thread[t].todo))
           /\ \A i \in 1 .. Len(Tail(thread[t].todo)) :
                 /\ Tail(thread[t].todo)[i] \in Jobs /\ Tail(thread[t].todo)[i] # x
                 /\ state[Tail(thread[t].todo)[i]] = "READY"
<1> DEFINE q == thread[t].todo
           x == Head(q)
<1>1. /\ lock = t /\ Distinct(q) /\ q \in Seq(Jobs) /\ q # <<>>
      /\ \A i \in 1 .. Len(q) : state[q[i]] = "READY"
      /\ thread[t].pc = "running" => job[x] = "live"
  BY HeadIsReady DEF AgreeInv, Works
<1> HIDE DEF q
<1>2. /\ x \in Jobs /\ x = q[1] /\ 1 \in 1 .. Len(q) /\ Tail(q) \in Seq(Jobs)
      /\ \A i \in 1 .. Len(Tail(q)) : i + 1 \in 1 .. Len(q) /\ Tail(q)[i] = q[i + 1]
  BY <1>1, TailIs
<1>3. state[x] = "READY" /\ \A i \in 1 .. Len(Tail(q)) : state[Tail(q)[i]] = "READY"
  BY <1>1, <1>2
<1>4. Distinct(Tail(q)) /\ \A i \in 1 .. Len(Tail(q)) : Tail(q)[i] # Head(q)
  BY <1>1, DistinctTail
<1>5. x \notin refused /\ (job[x] = "absent" \/ Taken(x))
  BY <1>2, <1>3 DEF AgreeInv, Place
<1>6. thread[t].pc = "submit" => ~Taken(x)
  <2>1. \A u \in Threads : thread[u].pc = "running" => lock = u
    BY DEF AgreeInv, Works
  <2>2. QED
    BY <1>1, <2>1 DEF Taken
<1>7. \A i \in 1 .. Len(Tail(q)) : Tail(q)[i] \in Jobs
  BY <1>2
<1>8. QED
  BY <1>1, <1>2, <1>3, <1>4, <1>5, <1>6, <1>7 DEF q

LEMMA MarkRunningAgrees ==
    ASSUME OrderInv, AgreeInv, NEW t \in Threads, MarkRunning(t)
    PROVE  AgreeInv'
<1> DEFINE q == Tail(thread[t].todo)
           r == [thread[t] EXCEPT !.pc = "submit", !.todo = q]
<1>0. /\ state \in [Jobs -> JobStates] /\ Main \notin Jobs
      /\ t \in Jobs \/ t = Main
      /\ Main \in Threads
  BY DEF OrderInv, TypeOK, Threads
<1>1. /\ thread[t].pc = "running" /\ status # "none" /\ thread' = [thread EXCEPT ![t] = r]
      /\ job' = job /\ lock' = lock /\ restarts' = restarts /\ status' = status
      /\ refused' = refused /\ thread[t].todo # <<>>
      /\ state' = [state EXCEPT ![Head(thread[t].todo)] = "RUNNING"]
  <2>1. thread[t].pc = "running" /\ thread[t].todo # <<>>
    BY HonestIs DEF MarkRunning, HonestRec
  <2>2. status # "none"
    BY <2>1 DEF AgreeInv, Works
  <2>3. QED
    BY <2>1, <2>2 DEF MarkRunning, engine, jobs, bounds
<1>2. /\ r.pc = "submit" /\ r.how = thread[t].how /\ r.raised = thread[t].raised
      /\ r.boot = thread[t].boot /\ r.todo = q
  BY RecIs
<1> PICK x \in Jobs : x = Head(thread[t].todo)
  BY <1>1, AtHand
<1>3. /\ state[x] = "READY" /\ x \notin refused /\ lock = t /\ job[x] = "live" /\ Distinct(q)
      /\ \A i \in 1 .. Len(q) : q[i] \in Jobs /\ q[i] # x /\ state[q[i]] = "READY"
  BY <1>1, AtHand
<1>4. state' = [state EXCEPT ![x] = "RUNNING"]
  BY <1>1
<1>5. state'[x] = "RUNNING" /\ \A j \in Jobs : j # x => state'[j] = state[j]
  BY <1>0, <1>4
<1>6. /\ thread'[t] = r /\ \A u \in Threads : u # t => thread'[u] = thread[u]
  BY <1>1, OneThread
<1> HIDE DEF r, q
<1>7. Works(t)'
  BY <1>1, <1>2, <1>3, <1>5, <1>6 DEF Works
<1>8. Place(x)'
  BY <1>1, <1>3, <1>5 DEF Place, Waiting
<1>9. ~(t = x /\ thread[t].raised)
  BY <1>1, <1>3 DEF AgreeInv, JobWork
<1>10. /\ \A j \in Jobs : Place(j)' /\ JobWork(j)'
       /\ MainWork'
       /\ \A u \in Threads : Works(u)'
  <2> DEFINE X == {x}
  <2>1. X \in SUBSET Jobs /\ Head(thread[t].todo) \in X
    OBVIOUS
  <2>2. \A j \in Jobs \ X : state'[j] = state[j] /\ (j \in refused' <=> j \in refused)
    BY <1>1, <1>5
  <2>3. \A j \in X : /\ Place(j)' /\ state[j] = "READY" /\ lock = t
                     /\ ~(t = j /\ thread[t].raised)
                     /\ state'[j] = "RUNNING"
    BY <1>3, <1>5, <1>8, <1>9
  <2> HIDE DEF X
  <2>4. QED
    BY ZenonT(60), <1>1, <1>2, <1>7, <2>1, <2>2, <2>3, StateStep
<1>11. StatusIs'
  BY <1>1, <1>3, <1>5 DEF AgreeInv, StatusIs
<1>12. Rooted(state)' /\ BlockedWhy(state)'
  <2>1. Rooted(state) /\ BlockedWhy(state) /\ "RUNNING" \in JobStates \ {"BLOCKED"}
    BY DEF AgreeInv, JobStates
  <2>2. Rooted([state EXCEPT ![x] = "RUNNING"]) /\ BlockedWhy([state EXCEPT ![x] = "RUNNING"])
    BY <1>0, <1>3, <2>1, RootedExcept, WhyExcept DEF Waiting, Broke
  <2>3. QED
    BY <1>4, <2>2
<1>13. \A i \in Jobs : /\ state[i] \in Broke <=> state'[i] \in Broke
                       /\ state[i] = "COMPLETED" <=> state'[i] = "COMPLETED"
                       /\ state'[i] = "PENDING" => state[i] = "PENDING"
  BY <1>3, <1>5 DEF Broke
<1>14. \A pc \in {"block", "ready"} :
          (\E u \in Threads : thread[u].pc = pc) => \E u \in Threads : thread'[u].pc = pc
  BY <1>1, <1>6
<1>15. BlockDue'
  <2>1. \A j \in Jobs : HasBroken(state', j) <=> HasBroken(state, j)
    BY <1>13, SameBroken
  <2>2. QED
    BY <1>13, <1>14, <2>1 DEF AgreeInv, BlockDue
<1>16. ReadyDue'
  BY <1>13, <1>14, AboveIn DEF AgreeInv, ReadyDue
<1>17. Clean'
  BY <1>2, <1>6 DEF Clean, Busy
<1>18. QED
  BY <1>10, <1>11, <1>12, <1>15, <1>16, <1>17 DEF AgreeInv

LEMMA RefuseAgrees ==
    ASSUME OrderInv, AgreeInv, NEW t \in Threads, Refuse(t)
    PROVE  AgreeInv'
<1> DEFINE q == Tail(thread[t].todo)
           r == [thread[t] EXCEPT !.todo = q]
<1>0. /\ state \in [Jobs -> JobStates] /\ Main \notin Jobs
      /\ t \in Jobs \/ t = Main
      /\ Main \in Threads
  BY DEF OrderInv, TypeOK, Threads
<1>1. /\ thread[t].pc = "submit" /\ status # "none" /\ thread' = [thread EXCEPT ![t] = r]
      /\ job' = job /\ lock' = lock /\ restarts' = restarts /\ thread[t].todo # <<>>
  BY DEF Refuse, AgreeInv, Works, bounds
<1>2. /\ r.pc = "submit" /\ r.how = thread[t].how /\ r.raised = thread[t].raised
      /\ r.boot = thread[t].boot /\ r.todo = q
  BY <1>1, RecIs
<1> PICK x \in Jobs : x = Head(thread[t].todo)
  BY <1>1, AtHand
<1> DEFINE s == [state EXCEPT ![x] = "FAILED"]
<1>3. /\ state[x] = "READY" /\ x \notin refused /\ lock = t /\ job[x] = "absent" /\ Distinct(q)
      /\ \A i \in 1 .. Len(q) : q[i] \in Jobs /\ q[i] # x /\ state[q[i]] = "READY"
  BY <1>1, AtHand
<1>4. /\ refused' = refused \cup {x} /\ state' = Blocked(s) /\ status' = "FAILED" /\ Persist
  BY DEF Refuse, Broken
<1>5. s \in [Jobs -> JobStates] /\ s[x] = "FAILED" /\ \A j \in Jobs : j # x => s[j] = state[j]
  BY <1>0 DEF JobStates
<1>6. Rooted(s) /\ BlockedWhy(s)
  <2>1. Rooted(state) /\ BlockedWhy(state) /\ "FAILED" \in JobStates \ {"BLOCKED"}
    BY DEF AgreeInv, JobStates
  <2>2. QED
    BY <1>0, <1>3, <2>1, RootedExcept, WhyExcept DEF Waiting, Broke
<1> HIDE DEF s
<1>7. /\ \A j \in Jobs : state'[j] = s[j] \/ (s[j] = "PENDING" /\ state'[j] = "BLOCKED")
      /\ Rooted(state)' /\ BlockedWhy(state)' /\ BlockDue'
  BY <1>4, <1>5, <1>6, BrokenMoves
<1>8. /\ state'[x] = "FAILED"
      /\ \A j \in Jobs : j # x => state'[j] = state[j] \/ (state[j] = "PENDING" /\ state'[j] = "BLOCKED")
  BY <1>5, <1>7
<1>9. /\ thread'[t] = r /\ \A u \in Threads : u # t => thread'[u] = thread[u]
  BY <1>1, OneThread
<1> HIDE DEF r, q
<1>10. Works(t)'
  <2>1. \A i \in 1 .. Len(q) : state'[q[i]] = "READY"
    BY <1>3, <1>8
  <2>2. QED
    BY <1>1, <1>2, <1>3, <1>4, <1>9, <2>1 DEF Works
<1>11. Place(x)'
  BY <1>1, <1>3, <1>4, <1>8 DEF Place, Waiting
<1>12. /\ \A j \in Jobs : Place(j)' /\ JobWork(j)'
       /\ MainWork'
       /\ \A u \in Threads : Works(u)'
  <2> DEFINE X == {x}
  <2>1. X \in SUBSET Jobs
    OBVIOUS
  <2>2. \A j \in Jobs \ X : /\ \/ state'[j] = state[j]
                               \/ /\ state[j] \in {"PENDING", "BLOCKED"}
                                  /\ state'[j] \in {"PENDING", "BLOCKED", "READY"}
                            /\ j \in refused' <=> j \in refused
    BY <1>4, <1>8
  <2>3. \A j \in X : /\ Place(j)' /\ state[j] = "READY" /\ lock = t
                     /\ state'[j] = "FAILED" /\ job[j] = "absent"
    BY <1>3, <1>8, <1>11
  <2>4. status' # "none"
    BY <1>4
  <2> HIDE DEF X
  <2>5. QED
    BY <1>1, <1>2, <1>10, <2>1, <2>2, <2>3, <2>4, StateStep
<1>13. StatusIs'
  BY <1>1, <1>3, <1>4, <1>8 DEF AgreeInv, StatusIs
<1>14. ReadyDue'
  <2>1. \A i \in Jobs : /\ state'[i] = "COMPLETED" => state[i] = "COMPLETED"
                        /\ state'[i] = "PENDING" => state[i] = "PENDING"
    BY <1>8
  <2>2. (\E u \in Threads : thread[u].pc = "ready") => \E u \in Threads : thread'[u].pc = "ready"
    BY <1>1, <1>9
  <2>3. QED
    BY <2>1, <2>2, AboveIn DEF AgreeInv, ReadyDue
<1>15. QED
  BY <1>4, <1>7, <1>12, <1>13, <1>14, CleanSaved DEF AgreeInv
-----------------------------------------------------------------------------
(* A step that changes the coordinator's status of the job x, and no state *)
(* of the workflow.                                                        *)
LEMMA JobStep ==
    ASSUME OrderInv, AgreeInv, NEW t \in Threads, NEW r, thread' = [thread EXCEPT ![t] = r],
           state' = state, status' = status, refused' = refused, lock' = lock,
           NEW x \in Jobs, \A j \in Jobs : j # x => job'[j] = job[j],
           thread[t].pc \notin {"mark", "running", "reopen", "ready", "block"},
           t \in Jobs /\ thread[t].raised => t = x \/ r.raised,
           t = Main => thread[t].boot \subseteq r.boot,
           thread[x].pc # "mark" \/ t = x,
           state[x] # "READY" \/ lock = t,
           Place(x)', t \in Jobs => JobWork(t)', MainWork', Works(t)', Clean'
    PROVE  AgreeInv'
<1>1. /\ thread'[t] = r /\ \A u \in Threads : u # t => thread'[u] = thread[u]
      /\ Main \in Threads /\ \A j \in Jobs : j \in Threads /\ j # Main
      /\ t \in Jobs \/ t = Main
  BY OneThread
<1>2. ASSUME NEW j \in Jobs, j # x PROVE Place(j)'
  <2>1. Taken(j) => Taken(j)'
    BY <1>1 DEF Taken
  <2>2. Ending(j) => Ending(j)'
    <3>1. thread[j].pc = "mark" => thread'[j].pc = "mark"
      BY <1>1
    <3>2. thread[Main].pc = "mark" => thread'[Main] = thread[Main]
      BY <1>1
    <3>3. thread[Main].boot \subseteq thread'[Main].boot
      BY <1>1
    <3>4. QED
      BY <3>1, <3>2, <3>3 DEF Ending
  <2>3. Failing(j) => Failing(j)'
    <3>1. thread[j].raised => thread'[j].raised
      BY <1>1, <1>2
    <3>2. thread[Main].pc = "reopen" => thread'[Main] = thread[Main]
      BY <1>1
    <3>3. QED
      BY <3>1, <3>2 DEF Failing
  <2>4. Place(j) /\ job'[j] = job[j]
    BY <1>2 DEF AgreeInv
  <2> HIDE DEF Taken, Ending, Failing
  <2>5. QED
    BY <2>1, <2>2, <2>3, <2>4 DEF Place
<1>3. ASSUME NEW j \in Jobs, j # t PROVE JobWork(j)'
  <2>1. JobWork(j) /\ thread'[j] = thread[j] /\ (thread[j].pc = "mark" => job'[j] = job[j])
    BY <1>1, <1>3 DEF AgreeInv
  <2>2. QED
    BY <2>1 DEF JobWork
<1>4. ASSUME NEW u \in Threads, u # t PROVE Works(u)'
  <2>1. Works(u) /\ thread'[u] = thread[u]
    BY <1>1, <1>4 DEF AgreeInv
  <2>2. ASSUME thread[u].pc = "running" PROVE job'[Head(thread[u].todo)] = job[Head(thread[u].todo)]
    <3>1. thread[u].todo # <<>>
      BY <2>2, HonestIs DEF HonestRec
    <3>2. LET y == Head(thread[u].todo) IN y \in Jobs /\ state[y] = "READY" /\ lock = u
      BY <2>2, <3>1, AtHand
    <3>3. QED
      BY <1>4, <3>2
  <2>3. QED
    BY <2>1, <2>2 DEF Works
<1>5. StatusIs' /\ Rooted(state)' /\ BlockedWhy(state)'
  BY DEF AgreeInv, StatusIs, Rooted, BlockedWhy, HasBroken
<1>6. BlockDue' /\ ReadyDue'
  <2>1. \A pc \in {"block", "ready"} :
          (\E u \in Threads : thread[u].pc = pc) => \E u \in Threads : thread'[u].pc = pc
    BY <1>1
  <2>2. QED
    BY <2>1 DEF AgreeInv, BlockDue, ReadyDue, HasBroken
<1>7. QED
  BY <1>2, <1>3, <1>4, <1>5, <1>6 DEF AgreeInv

LEMMA AcceptAgrees ==
    ASSUME OrderInv, AgreeInv, NEW t \in Threads, Accept(t)
    PROVE  AgreeInv'
<1> DEFINE r == [thread[t] EXCEPT !.pc = "running"]
<1>0. /\ job \in [Jobs -> {"absent", "live", "completed", "failed", "cancelled", "success"}]
      /\ t \in Jobs \/ t = Main
      /\ Main \in Threads /\ Main \notin Jobs
  BY DEF OrderInv, TypeOK, Threads
<1>1. /\ thread[t].pc = "submit" /\ thread[t].todo # <<>> /\ thread' = [thread EXCEPT ![t] = r]
      /\ job' = [job EXCEPT ![Head(thread[t].todo)] = "live"]
      /\ state' = state /\ status' = status /\ over' = over /\ saved' = saved /\ lock' = lock
      /\ refused' = refused /\ restarts' = restarts
  BY DEF Accept, Goto, wf, engine, bounds
<1>2. /\ r.pc = "running" /\ r.how = thread[t].how /\ r.raised = thread[t].raised
      /\ r.boot = thread[t].boot /\ r.todo = thread[t].todo
  BY RecIs
<1> PICK x \in Jobs : x = Head(thread[t].todo)
  BY <1>1, AtHand
<1>3. /\ state[x] = "READY" /\ x \notin refused /\ lock = t /\ job[x] = "absent"
  BY <1>1, AtHand
<1>4. job'[x] = "live" /\ \A j \in Jobs : j # x => job'[j] = job[j]
  BY <1>0, <1>1
<1>5. /\ thread'[t] = r /\ \A u \in Threads : u # t => thread'[u] = thread[u]
  BY <1>1, OneThread
<1> HIDE DEF r
<1>6. Place(x)'
  <2>1. Taken(x)'
    BY <1>2, <1>5 DEF Taken
  <2>2. QED
    BY <1>1, <1>3, <1>4, <2>1 DEF Place, Waiting
<1>7. Works(t)'
  <2>1. Works(t)
    BY DEF AgreeInv
  <2>2. QED
    BY <1>1, <1>2, <1>3, <1>4, <1>5, <2>1 DEF Works
<1>8. t \in Jobs => JobWork(t)'
  BY <1>1, <1>2, <1>5 DEF AgreeInv, JobWork
<1>9. thread[x].pc # "mark"
  BY <1>3 DEF AgreeInv, JobWork
<1>10. MainWork'
  <2>1. MainWork
    BY DEF AgreeInv
  <2>2. /\ Booting' <=> Booting
        /\ t = Main \/ ~Booting
    BY <1>0, <1>1, <1>2, <1>5, NotBooting DEF Booting
  <2>3. CASE t = Main
    <3>1. /\ thread'[Main].pc = "running" /\ thread'[Main].boot = thread[Main].boot
          /\ thread'[Main].how = thread[Main].how
          /\ \A j \in Jobs : thread'[j] = thread[j]
      BY <1>0, <1>2, <1>5, <2>3 DEF Threads
    <3>2. \A j \in thread[Main].boot : j = x \/ job'[j] = job[j]
      <4>1. thread[Main].boot \subseteq Jobs
        BY <1>0, RecIs DEF ThreadRecs
      <4>2. QED
        BY <1>4, <4>1
    <3>3. QED
      BY <1>1, <1>3, <2>1, <2>2, <3>1, <3>2 DEF MainWork
  <2>4. CASE t # Main
    <3>1. /\ ~Booting /\ thread[Main].boot = {} /\ thread'[Main] = thread[Main]
          /\ thread[Main].pc \notin {"mark", "ready", "block", "settle"}
      BY <1>0, <1>5, <2>1, <2>2, <2>4 DEF MainWork
    <3>2. ASSUME thread[Main].pc = "reopen"
          PROVE  LET y == thread[Main].job IN job'[y] = "live" /\ thread'[y].pc = "idle"
      <4>1. LET y == thread[Main].job IN
            y \in Jobs /\ y \in Threads /\ state[y] = "FAILED" /\ thread[y].pc = "idle" /\ job[y] = "live"
        BY <2>1, <3>2 DEF MainWork, Threads
      <4>2. QED
        BY <1>1, <1>3, <1>4, <1>5, <4>1
    <3>3. QED
      BY <1>1, <2>1, <2>2, <3>1, <3>2 DEF MainWork
  <2>5. QED
    BY <2>3, <2>4
<1>11. Clean'
  BY <1>2, <1>5 DEF Clean, Busy
<1>12. QED
  BY <1>1, <1>2, <1>3, <1>4, <1>6, <1>7, <1>8, <1>9, <1>10, <1>11, JobStep

LEMMA FinishAgrees ==
    ASSUME OrderInv, AgreeInv, races' = 0, NEW j \in Jobs,
           NEW how \in {"completed", "failed", "cancelled"}, NEW raised \in BOOLEAN,
           Finish(j, how, raised)
    PROVE  AgreeInv'
<1> DEFINE r == [Idle EXCEPT !.pc = "mark", !.job = j, !.how = how, !.raised = raised]
<1>0. /\ job \in [Jobs -> {"absent", "live", "completed", "failed", "cancelled", "success"}]
      /\ j \in Threads /\ Main \in Threads /\ j # Main /\ races \in Nat
  BY DEF OrderInv, TypeOK, Threads
<1>1. /\ job[j] = "live" /\ thread[j].pc = "idle" /\ ~Booting /\ state[j] = "RUNNING"
      /\ raised => how = "failed"
      /\ job' = IF raised THEN job ELSE [job EXCEPT ![j] = how]
      /\ thread' = [thread EXCEPT ![j] = r]
      /\ state' = state /\ status' = status /\ over' = over /\ saved' = saved /\ lock' = lock
      /\ refused' = refused /\ restarts' = restarts
  BY <1>0 DEF Finish, Race, wf, engine
<1>2. /\ r.pc = "mark" /\ r.job = j /\ r.how = how /\ r.raised = raised /\ r.boot = {}
      /\ r.todo = <<>>
  BY DEF Idle
<1>3. /\ job'[j] = IF raised THEN "live" ELSE how
      /\ \A i \in Jobs : i # j => job'[i] = job[i]
  BY <1>0, <1>1
<1>4. /\ thread'[j] = r /\ \A u \in Threads : u # j => thread'[u] = thread[u]
  BY <1>0, <1>1, OneThread
<1> HIDE DEF r
<1>5. Place(j)'
  <2>1. Ending(j)'
    BY <1>2, <1>4 DEF Ending
  <2>2. j \notin refused
    BY <1>1 DEF AgreeInv, Place
  <2>3. QED
    BY <1>1, <1>3, <2>1, <2>2 DEF Place, Ended, Waiting
<1>6. JobWork(j)'
  BY <1>1, <1>2, <1>3, <1>4 DEF JobWork
<1>7. Works(j)'
  <2>1. status # "none"
    BY <1>1 DEF AgreeInv, StatusIs
  <2>2. QED
    BY <1>1, <1>2, <1>4, <2>1 DEF Works
<1>8. MainWork'
  <2>1. MainWork /\ thread'[Main] = thread[Main]
    BY <1>0, <1>4 DEF AgreeInv
  <2>2. ~Booting' /\ thread[Main].boot = {}
        /\ thread[Main].pc \notin {"mark", "ready", "block", "settle"}
    BY <1>1, <2>1 DEF MainWork, Booting
  <2>3. ASSUME thread[Main].pc = "reopen"
        PROVE  LET y == thread[Main].job IN job'[y] = "live" /\ thread'[y].pc = "idle"
    <3>1. LET y == thread[Main].job IN
          y \in Jobs /\ y \in Threads /\ state[y] = "FAILED" /\ thread[y].pc = "idle" /\ job[y] = "live"
      BY <2>1, <2>3 DEF MainWork, Threads
    <3>2. QED
      BY <1>1, <1>3, <1>4, <3>1
  <2>4. QED
    BY <1>1, <2>1, <2>2, <2>3 DEF MainWork
<1>9. Clean'
  BY <1>0, <1>1, CleanKept DEF Busy
<1>10. QED
  BY <1>0, <1>1, <1>3, <1>5, <1>6, <1>7, <1>8, <1>9, JobStep

LEMMA RecordAgrees ==
    ASSUME OrderInv, AgreeInv, NEW t \in Threads, Record(t)
    PROVE  AgreeInv'
<1>0. /\ job \in [Jobs -> {"absent", "live", "completed", "failed", "cancelled", "success"}]
      /\ Main \in Threads /\ Main \notin Jobs
  BY DEF OrderInv, TypeOK, Threads
<1>1. /\ thread[t].pc = "record" /\ thread[t].raised /\ t \in Jobs /\ job[t] = "live"
      /\ thread' = [thread EXCEPT ![t] = Idle] /\ job' = [job EXCEPT ![t] = "failed"]
      /\ state' = state /\ status' = status /\ over' = over /\ saved' = saved /\ lock' = lock
      /\ refused' = refused /\ restarts' = restarts
  BY HonestIs DEF Record, HonestRec, wf, engine, bounds
<1>2. state[t] = "FAILED"
  BY <1>1 DEF AgreeInv, JobWork
<1>3. job'[t] = "failed" /\ \A i \in Jobs : i # t => job'[i] = job[i]
  BY <1>0, <1>1
<1>4. /\ thread'[t] = Idle /\ \A u \in Threads : u # t => thread'[u] = thread[u]
  BY <1>1, OneThread
<1> HIDE DEF Idle
<1>5. Place(t)'
  BY <1>1, <1>2, <1>3 DEF AgreeInv, Place, Waiting
<1>6. JobWork(t)' /\ Works(t)'
  BY <1>4, IdleFields DEF JobWork, Works
<1>7. MainWork'
  <2>1. MainWork /\ thread'[Main] = thread[Main] /\ ~Booting
    BY <1>0, <1>1, <1>4, NotBooting DEF AgreeInv
  <2>2. ~Booting' /\ thread[Main].boot = {}
        /\ thread[Main].pc \notin {"mark", "ready", "block", "settle"}
    BY <1>1, <2>1 DEF MainWork, Booting
  <2>3. ASSUME thread[Main].pc = "reopen"
        PROVE  LET y == thread[Main].job IN job'[y] = "live" /\ thread'[y].pc = "idle"
    <3>1. LET y == thread[Main].job IN
          y \in Jobs /\ y \in Threads /\ state[y] = "FAILED" /\ thread[y].pc = "idle" /\ job[y] = "live"
      BY <2>1, <2>3 DEF MainWork, Threads
    <3>2. QED
      BY <1>1, <1>3, <1>4, <3>1
  <2>4. QED
    BY <1>1, <2>1, <2>2, <2>3 DEF MainWork
<1>8. Clean'
  BY <1>1, CleanKept DEF Busy
<1>9. QED
  BY <1>0, <1>1, <1>2, <1>3, <1>5, <1>6, <1>7, <1>8, JobStep

LEMMA RetryAgrees ==
    ASSUME OrderInv, AgreeInv, races' = 0, NEW j \in Jobs, Retry(j)
    PROVE  AgreeInv'
<1> DEFINE r == [Idle EXCEPT !.pc = "reopen", !.job = j]
<1>0. /\ job \in [Jobs -> {"absent", "live", "completed", "failed", "cancelled", "success"}]
      /\ state \in [Jobs -> JobStates]
      /\ j \in Threads /\ Main \in Threads /\ j # Main /\ Main \notin Jobs /\ races \in Nat
  BY DEF OrderInv, TypeOK, Threads
<1>1. /\ job[j] = "failed" /\ thread[j].pc = "idle" /\ thread[Main].pc = "idle"
      /\ job' = [job EXCEPT ![j] = "live"]
      /\ state' = state /\ status' = status /\ over' = over /\ saved' = saved /\ lock' = lock
      /\ refused' = refused /\ restarts' = restarts
  BY <1>0 DEF Retry, Race, wf, engine
<1>2. thread[Main] = Idle /\ thread[j] = Idle
  BY <1>0, <1>1 DEF AgreeInv, Works
<1>3. state[j] = "FAILED" /\ j \notin refused
  <2>1. Place(j) /\ ~Ending(j)
    BY <1>1, <1>2, IdleFields DEF AgreeInv, Ending
  <2>2. QED
    BY <1>0, <1>1, <2>1 DEF Place, JobStates, Waiting
<1>4. status # "none"
  BY <1>3 DEF AgreeInv, StatusIs
<1>5. thread' = [thread EXCEPT ![Main] = r]
  BY <1>4 DEF Retry
<1>6. /\ r.pc = "reopen" /\ r.job = j /\ r.how = "none" /\ r.raised = FALSE /\ r.boot = {}
      /\ r.todo = <<>>
  BY DEF Idle
<1>7. job'[j] = "live" /\ \A i \in Jobs : i # j => job'[i] = job[i]
  BY <1>0, <1>1
<1>8. /\ thread'[Main] = r /\ \A u \in Threads : u # Main => thread'[u] = thread[u]
  BY <1>0, <1>5, OneThread
<1> HIDE DEF r, Idle
<1>9. Place(j)'
  <2>1. Failing(j)'
    BY <1>6, <1>8 DEF Failing
  <2>2. QED
    BY <1>1, <1>3, <1>7, <2>1 DEF Place, Waiting
<1>10. Works(Main)'
  BY <1>1, <1>4, <1>6, <1>8 DEF Works
<1>11. MainWork'
  <2>1. ~Booting'
    BY <1>6, <1>8 DEF Booting
  <2>2. QED
    BY <1>0, <1>1, <1>3, <1>6, <1>7, <1>8, <2>1 DEF MainWork
<1>12. Clean'
  BY <1>0, <1>1, <1>5, CleanKept DEF Busy
<1>13. QED
  BY <1>0, <1>1, <1>2, <1>3, <1>5, <1>6, <1>7, <1>9, <1>10, <1>11, <1>12, IdleFields, JobStep

(* reopen_job opens the failed job again, and what it alone had blocked.   *)
LEMMA ReopenMoves ==
    ASSUME OrderInv, AgreeInv, Reopen, NEW x \in Jobs, x = thread[Main].job
    PROVE  /\ state[x] = "FAILED" /\ state'[x] = "RUNNING"
           /\ \A j \in Jobs : j # x => \/ state'[j] = state[j]
                                       \/ state[j] = "PENDING" /\ state'[j] = "BLOCKED"
                                       \/ state[j] = "BLOCKED" /\ state'[j] = "PENDING"
           /\ Rooted(state)' /\ BlockedWhy(state)'
           /\ \A j \in Jobs : state'[j] = "PENDING" => ~HasBroken(state', j)
<1> DEFINE s == [state EXCEPT ![x] = "RUNNING"]
<1>1. /\ state \in [Jobs -> JobStates] /\ state[x] = "FAILED" /\ state' = Blocked(s)
  BY DEF OrderInv, TypeOK, AgreeInv, MainWork, Reopen
<1>2. s \in [Jobs -> JobStates] /\ s[x] = "RUNNING" /\ \A j \in Jobs : j # x => s[j] = state[j]
  BY <1>1 DEF JobStates
<1>3. Rooted(s)
  <2>1. Rooted(state) /\ "RUNNING" \in JobStates
    BY DEF AgreeInv, JobStates
  <2>2. QED
    BY <1>1, <2>1, RootedExcept DEF Waiting
<1> HIDE DEF s
<1>4. \A j \in Jobs : s[j] = "READY" => ~HasBroken(s, j)
  BY <1>3 DEF Rooted, HasBroken, Waiting, Broke
<1>5. \A j \in Jobs : state'[j] =
              IF HasBroken(s, j) /\ s[j] \in {"PENDING", "READY"} THEN "BLOCKED"
              ELSE IF s[j] = "BLOCKED" /\ ~HasBroken(s, j) THEN "PENDING"
              ELSE s[j]
  BY <1>1, <1>2, BlockedIs
<1>6. Rooted(state') /\ BlockedWhy(state')
      /\ \A j \in Jobs : state'[j] = "PENDING" => ~HasBroken(state', j)
  BY <1>1, <1>2, <1>3, BlockedRooted
<1>7. Rooted(state)' /\ BlockedWhy(state)'
  BY <1>6 DEF Rooted, BlockedWhy, HasBroken
<1>8. QED
  BY <1>1, <1>2, <1>4, <1>5, <1>6, <1>7

LEMMA ReopenAgrees ==
    ASSUME OrderInv, AgreeInv, Reopen
    PROVE  AgreeInv'
<1>0. /\ state \in [Jobs -> JobStates] /\ Main \in Threads /\ Main \notin Jobs
      /\ \A j \in Jobs : j \in Threads /\ j # Main
  BY DEF OrderInv, TypeOK, Threads
<1>1. thread[Main].pc = "reopen"
  BY DEF Reopen
<1>2. PICK x \in Jobs : x = thread[Main].job
  BY <1>1 DEF AgreeInv, MainWork
<1>3. /\ refused' = refused \ {x} /\ Persist
      /\ status' \in {"FAILED", "RUNNING", "CANCELLED"}
      /\ thread' = [thread EXCEPT ![Main] = Idle] /\ lock' = lock /\ job' = job
      /\ restarts' = restarts
  BY <1>2 DEF Reopen, bounds
<1>4. /\ state[x] = "FAILED" /\ job[x] = "live" /\ thread[x] = Idle /\ thread[Main].how = "none"
      /\ ~Booting /\ thread[Main].boot = {} /\ status # "none" /\ x \notin refused
  <2>1. /\ state[x] = "FAILED" /\ job[x] = "live" /\ thread[x].pc = "idle"
        /\ thread[Main].how = "none"
    BY <1>1, <1>2 DEF AgreeInv, MainWork
  <2>2. thread[x] = Idle /\ status # "none"
    BY <1>0, <1>1, <2>1 DEF AgreeInv, Works
  <2>3. ~Booting /\ thread[Main].boot = {}
    BY <1>1, <2>1 DEF AgreeInv, MainWork, Booting
  <2>4. x \notin refused
    BY <2>1 DEF AgreeInv, Place
  <2>5. QED
    BY <2>1, <2>2, <2>3, <2>4
<1>7. /\ state'[x] = "RUNNING"
      /\ \A j \in Jobs : j # x => \/ state'[j] = state[j]
                                  \/ state[j] = "PENDING" /\ state'[j] = "BLOCKED"
                                  \/ state[j] = "BLOCKED" /\ state'[j] = "PENDING"
  BY <1>2, ReopenMoves
<1>8. /\ Rooted(state)' /\ BlockedWhy(state)'
      /\ \A j \in Jobs : state'[j] = "PENDING" => ~HasBroken(state', j)
  BY <1>2, ReopenMoves
<1>9. thread'[Main] = Idle /\ \A u \in Threads : u # Main => thread'[u] = thread[u]
  BY <1>0, <1>3, OneThread
<1> HIDE DEF Idle
<1> USE IdleFields
<1>10. ASSUME NEW j \in Jobs PROVE Place(j)'
  <2>1. CASE j = x
    BY <1>3, <1>4, <1>7, <2>1 DEF Place, Waiting
  <2>2. CASE j # x
    <3>1. Taken(j) => Taken(j)'
      BY <1>1, <1>9 DEF Taken
    <3>2. Ending(j) => Ending(j)'
      BY <1>0, <1>1, <1>4, <1>9 DEF Ending
    <3>3. Failing(j) => Failing(j)'
      BY <1>0, <1>2, <1>9, <2>2 DEF Failing
    <3>4. Place(j) /\ job'[j] = job[j] /\ (j \in refused' <=> j \in refused)
      BY <1>3, <2>2 DEF AgreeInv
    <3>5. \/ state'[j] = state[j]
          \/ state[j] \in {"PENDING", "BLOCKED"} /\ state'[j] \in {"PENDING", "BLOCKED"}
      BY <1>7, <2>2
    <3> HIDE DEF Taken, Ending, Failing
    <3>6. QED
      BY <3>1, <3>2, <3>3, <3>4, <3>5 DEF Place, Waiting
  <2>3. QED
    BY <2>1, <2>2
<1>11. ASSUME NEW j \in Jobs PROVE JobWork(j)'
  <2>1. JobWork(j) /\ thread'[j] = thread[j] /\ job'[j] = job[j]
    BY <1>0, <1>3, <1>9 DEF AgreeInv
  <2>2. CASE j = x
    BY <1>4, <2>1, <2>2 DEF JobWork
  <2>3. CASE j # x
    <3>1. state[j] \in {"RUNNING", "FAILED"} => state'[j] = state[j]
      BY <1>7, <2>3
    <3>2. QED
      BY <2>1, <3>1 DEF JobWork
  <2>4. QED
    BY <2>2, <2>3
<1>12. MainWork'
  <2>1. ~Booting'
    BY <1>9 DEF Booting
  <2>2. QED
    BY <1>9, <2>1 DEF MainWork
<1>13. ASSUME NEW u \in Threads PROVE Works(u)'
  <2>1. CASE u = Main
    BY <1>9, <2>1 DEF Works
  <2>2. CASE u # Main
    <3>1. Works(u) /\ thread'[u] = thread[u] /\ thread[u].todo \in Seq(Jobs)
      BY <1>9, <2>2, ThreadTypes DEF AgreeInv, OrderInv
    <3>2. \A i \in 1 .. Len(thread[u].todo) : thread[u].todo[i] \in Jobs
      BY <3>1
    <3>3. \A j \in Jobs : state[j] = "READY" => state'[j] = "READY"
      BY <1>4, <1>7
    <3>4. thread[u].pc \in {"submit", "running"} =>
            \A i \in 1 .. Len(thread[u].todo) : state'[thread[u].todo[i]] = "READY"
      BY <3>1, <3>2, <3>3 DEF Works
    <3>5. QED
      BY <1>3, <3>1, <3>4 DEF Works
  <2>3. QED
    BY <2>1, <2>2
<1>14. StatusIs'
  <2>1. \A j \in Jobs : state[j] # "none"
    BY <1>4 DEF AgreeInv, StatusIs
  <2>2. \A j \in Jobs : state'[j] # "none"
    BY <1>7, <2>1
  <2>3. QED
    BY <1>3, <2>2 DEF StatusIs
<1>15. BlockDue'
  BY <1>8 DEF BlockDue, HasBroken
<1>16. ReadyDue'
  <2> SUFFICES ASSUME NEW j \in Jobs, state'[j] = "PENDING",
                      \A p \in Parents[j] : state'[p] = "COMPLETED"
               PROVE  \E u \in Threads : thread'[u].pc = "ready"
    BY DEF ReadyDue
  <2>1. \A p \in Parents[j] : state[p] = "COMPLETED"
    BY <1>7, AboveIn
  <2>2. state[j] # "BLOCKED"
    <3> SUFFICES ASSUME state[j] = "BLOCKED" PROVE FALSE
      OBVIOUS
    <3>1. Rooted(state) /\ HasBroken(state, j)
      BY DEF AgreeInv, BlockedWhy
    <3>2. PICK a \in Above[j] : state[a] \in Broke
      BY <3>1 DEF HasBroken
    <3>3. QED
      BY <2>1, <3>1, <3>2, BrokenAbove DEF Broke
  <2>3. state[j] = "PENDING"
    BY <1>7, <2>2
  <2>4. PICK u \in Threads : thread[u].pc = "ready"
    BY <2>1, <2>3 DEF AgreeInv, ReadyDue
  <2>5. u # Main
    BY <1>1, <2>4
  <2>6. QED
    BY <1>9, <2>4, <2>5
<1>17. QED
  BY <1>3, <1>8, <1>10, <1>11, <1>12, <1>13, <1>14, <1>15, <1>16, CleanSaved DEF AgreeInv
-----------------------------------------------------------------------------
LEMMA SubmitAgrees ==
    ASSUME OrderInv, AgreeInv, Submit
    PROVE  AgreeInv'
<1> DEFINE r == [thread[Main] EXCEPT !.pc = "lock", !.how = "submit"]
<1>0. Main \in Threads /\ Main \notin Jobs /\ \A j \in Jobs : j \in Threads /\ j # Main
  BY DEF Threads
<1>1. /\ status = "none" /\ status' = "RUNNING" /\ thread' = [thread EXCEPT ![Main] = r]
      /\ state' = [j \in Jobs |-> IF Parents[j] = {} THEN "READY" ELSE "PENDING"]
      /\ job' = job /\ refused' = refused /\ lock' = lock
  BY DEF Submit, jobs, engine
<1>2. \A t \in Threads : thread[t] = Idle
  BY <1>1 DEF AgreeInv, Works
<1>3. /\ r.pc = "lock" /\ r.how = "submit" /\ r.boot = {} /\ r.raised = FALSE
  BY <1>0, <1>2 DEF Idle
<1>4. thread'[Main] = r /\ \A u \in Threads : u # Main => thread'[u] = Idle
  BY <1>0, <1>1, <1>2, OneThread
<1> HIDE DEF r, Idle
<1> USE IdleFields
<1>5. \A j \in Jobs : /\ state'[j] = IF Parents[j] = {} THEN "READY" ELSE "PENDING"
                      /\ job'[j] = "absent" /\ j \notin refused'
  <2>1. \A j \in Jobs : job[j] = "absent" /\ j \notin refused
    BY <1>1 DEF AgreeInv, StatusIs, Place, Waiting
  <2>2. QED
    BY <1>1, <2>1
<1>6. \A j \in Jobs : Place(j)' /\ JobWork(j)'
  BY <1>0, <1>4, <1>5 DEF Place, JobWork, Waiting
<1>7. MainWork'
  <2>1. ~Booting'
    BY <1>3, <1>4 DEF Booting
  <2>2. QED
    BY <1>3, <1>4, <2>1 DEF MainWork
<1>8. \A u \in Threads : Works(u)'
  BY <1>1, <1>3, <1>4 DEF Works
<1>9. StatusIs' /\ BlockedWhy(state)' /\ BlockDue'
  BY <1>1, <1>5, AboveIn DEF StatusIs, BlockedWhy, BlockDue, HasBroken, Broke
<1>10. Rooted(state)'
  <2>1. \A j \in Jobs : Parents[j] = {} => Above[j] = {}
    BY LastEdge
  <2>2. QED
    BY <1>5, <2>1 DEF Rooted, Waiting
<1>11. ReadyDue'
  BY <1>5, AboveIn DEF ReadyDue
<1>12. Clean'
  BY <1>0, <1>3, <1>4 DEF Clean, Busy
<1>13. QED
  BY <1>6, <1>7, <1>8, <1>9, <1>10, <1>11, <1>12 DEF AgreeInv

(* A step of _reconcile: the thread of restore turns to a job of its list. *)
LEMMA ReconcileAgrees ==
    ASSUME OrderInv, AgreeInv, Reconcile
    PROVE  AgreeInv'
<1> DEFINE th == thread[Main]
           rest(j) == [th EXCEPT !.boot = @ \ {j}, !.job = j]
           rec(j) == CASE job[j] \in {"completed", "failed", "cancelled"} ->
                             [rest(j) EXCEPT !.pc = "mark", !.how = job[j]]
                       [] job[j] = "absent" /\ state[j] = "READY" ->
                             [rest(j) EXCEPT !.pc = "lock", !.how = "schedule"]
                       [] OTHER -> rest(j)
<1>0. /\ Main \in Threads /\ Main \notin Jobs /\ \A j \in Jobs : j \in Threads /\ j # Main
      /\ job \in [Jobs -> {"absent", "live", "completed", "failed", "cancelled", "success"}]
  BY DEF OrderInv, TypeOK, Threads
<1>1. /\ th.pc = "boot" /\ Booting /\ restarts # 0 /\ \A j \in Jobs : thread[j].pc = "idle"
      /\ status # "none" /\ th \in ThreadRecs /\ th.how # "retry"
  BY <1>0, RecIs DEF Reconcile, AgreeInv, MainWork, Works, Booting
<1>2. \A j \in Jobs : thread[j] = Idle
  BY <1>0, <1>1 DEF AgreeInv, Works
<1>3. /\ state' = state /\ status' = status /\ job' = job /\ refused' = refused
      /\ restarts' = restarts /\ lock' = lock
  BY DEF Reconcile, wf, engine, jobs, bounds
<1>4. PICK r : /\ thread' = [thread EXCEPT ![Main] = r]
               /\ \/ th.boot = {} /\ r = Idle
                  \/ \E j \in th.boot : r = rec(j)
  BY DEF Reconcile
<1>5. thread'[Main] = r /\ \A u \in Threads : u # Main => thread'[u] = Idle
  BY <1>0, <1>2, <1>4, OneThread DEF Threads
<1> HIDE DEF Idle
<1> USE IdleFields
<1>6. /\ \A j \in Jobs : ~Taken(j) /\ ~Failing(j) /\ (Ending(j) <=> j \in th.boot)
      /\ \A j \in Jobs : Place(j) /\ MainWork
  <2>1. \A t \in Threads : thread[t].pc \in {"idle", "boot"}
    BY <1>0, <1>1 DEF Threads
  <2>2. QED
    BY <1>0, <1>1, <1>2, <2>1 DEF Taken, Failing, Ending, AgreeInv
<1>7. \A j \in Jobs : JobWork(j)'
  BY <1>0, <1>5 DEF JobWork
<1>8. \A u \in Threads : u # Main => Works(u)'
  BY <1>5 DEF Works
<1>9. StatusIs' /\ Rooted(state)' /\ BlockedWhy(state)' /\ Clean'
  BY <1>1, <1>3 DEF AgreeInv, StatusIs, Rooted, BlockedWhy, HasBroken, Clean
<1>10. BlockDue' /\ ReadyDue'
  <2>1. \A t \in Threads : thread[t].pc \notin {"block", "ready"}
    BY <1>0, <1>1 DEF Threads
  <2>2. QED
    BY <1>3, <2>1 DEF AgreeInv, BlockDue, ReadyDue, HasBroken
<1>11. (\A j \in Jobs : Place(j)') /\ MainWork' /\ Works(Main)'
  <2>1. CASE th.boot = {} /\ r = Idle
    <3>1. ~Booting'
      BY <1>5, <2>1 DEF Booting
    <3>2. \A j \in Jobs : Place(j)'
      <4> SUFFICES ASSUME NEW j \in Jobs PROVE Place(j)'
        OBVIOUS
      <4>1. Place(j) /\ ~Taken(j) /\ ~Failing(j) /\ ~Ending(j)
        BY <1>6, <2>1
      <4> HIDE DEF Taken, Failing, Ending
      <4>2. QED
        BY <1>3, <4>1 DEF Place
    <3>3. QED
      BY <1>5, <2>1, <3>1, <3>2 DEF MainWork, Works
  <2>2. CASE \E j \in th.boot : r = rec(j)
    <3>1. PICK x \in th.boot : r = rec(x)
      BY <2>2
    <3>2. x \in Jobs /\ th.boot \subseteq Jobs
      BY <1>1 DEF ThreadRecs
    <3>3. /\ r.boot = th.boot \ {x} /\ r.job = x
          /\ \/ r.pc = "mark" /\ r.how = job[x] /\ job[x] \in Ended
             \/ r.pc = "lock" /\ r.how = "schedule" /\ job[x] = "absent"
             \/ r.pc = "boot" /\ r.how = th.how /\ job[x] \notin Ended
      <4>1. /\ rest(x).boot = th.boot \ {x} /\ rest(x).job = x
            /\ rest(x).pc = "boot" /\ rest(x).how = th.how
        BY <1>1 DEF ThreadRecs
      <4>2. \A p, h : LET q == [rest(x) EXCEPT !.pc = p, !.how = h] IN
               q.boot = th.boot \ {x} /\ q.job = x /\ q.pc = p /\ q.how = h
        BY <1>1 DEF ThreadRecs
      <4> HIDE DEF rest
      <4>3. CASE job[x] \in Ended
        BY <3>1, <4>2, <4>3 DEF Ended
      <4>4. CASE job[x] = "absent" /\ state[x] = "READY"
        <5>1. job[x] \notin {"completed", "failed", "cancelled"}
          BY <4>4
        <5>2. r = [rest(x) EXCEPT !.pc = "lock", !.how = "schedule"]
          BY <3>1, <4>4, <5>1
        <5>3. QED
          BY <4>2, <4>4, <5>2
      <4>5. CASE job[x] \notin Ended /\ ~(job[x] = "absent" /\ state[x] = "READY")
        BY <1>0, <3>1, <3>2, <4>1, <4>5 DEF Ended
      <4>6. QED
        BY <4>3, <4>4, <4>5
    <3> HIDE DEF rec
    <3>4. job[x] \in Ended => state[x] = "RUNNING"
      BY <1>6, <3>2 DEF MainWork, Place, Ended
    <3>5. Booting'
      BY <1>5, <3>3 DEF Booting, Ended
    <3>6. ASSUME NEW j \in Jobs PROVE Place(j)'
      <4>1. Place(j) /\ ~Taken(j) /\ ~Failing(j) /\ (Ending(j) => j \in th.boot)
        BY <1>6
      <4>2. Ending(j) /\ (j # x \/ job[x] \in Ended) => Ending(j)'
        BY <1>5, <3>3, <4>1 DEF Ending, Ended
      <4>3. j # x \/ job[x] \in Ended \/ job[j] \notin Ended
        OBVIOUS
      <4> HIDE DEF Taken, Failing, Ending
      <4>4. QED
        BY <1>3, <4>1, <4>2, <4>3 DEF Place
    <3>7. MainWork'
      <4>1. \A j \in r.boot : state'[j] \in {"RUNNING", "READY"} \/ (state'[j] = "FAILED" /\ job'[j] = "absent")
        BY <1>3, <1>6, <3>2, <3>3 DEF MainWork
      <4>2. \A j \in Jobs : thread'[j].pc = "idle"
        BY <1>0, <1>5
      <4>3. r.pc \in {"mark", "lock", "boot"} /\ r.how # "retry"
        BY <1>1, <3>3 DEF Ended
      <4>4. r.pc = "mark" => r.job \in Jobs \ r.boot /\ state[r.job] = "RUNNING" /\ job[r.job] = r.how
        BY <3>2, <3>3, <3>4
      <4>5. QED
        BY <1>1, <1>3, <1>5, <3>5, <4>1, <4>2, <4>3, <4>4 DEF MainWork
    <3>8. Works(Main)'
      BY <1>1, <1>3, <1>5, <3>3 DEF Works
    <3>9. QED
      BY <3>6, <3>7, <3>8
  <2>3. QED
    BY <1>4, <2>1, <2>2
<1>12. QED
  BY <1>7, <1>8, <1>9, <1>10, <1>11 DEF AgreeInv

(* The first restart, between two calls: what was saved is what was known. *)
LEMMA FirstRestart ==
    ASSUME OrderInv, AgreeInv, crashes' = 0, restarts' <= 1, Restart
    PROVE  /\ BetweenCalls /\ restarts' = 1
           /\ saved.state = state /\ saved.status = status /\ saved.over = over
<1>0. restarts \in Nat /\ crashes \in Nat
  BY DEF OrderInv, TypeOK
<1>1. BetweenCalls /\ restarts = 0 /\ restarts' = 1
  <2>1. crashes' # crashes + 1
    BY <1>0
  <2>2. BetweenCalls /\ restarts' = restarts + 1
    BY <2>1 DEF Restart
  <2>3. QED
    BY <1>0, <2>2
<1>2. saved.state = state /\ saved.status = status /\ saved.over = over
  <2>1. Matches
    BY <1>1 DEF AgreeInv, Clean, BetweenCalls, Busy
  <2>2. QED
    BY <2>1 DEF Matches
<1>3. QED
  BY <1>1, <1>2

LEMMA RestartAgrees ==
    ASSUME OrderInv, AgreeInv, untold' = {}, crashes' = 0, restarts' <= 1, Restart
    PROVE  AgreeInv'
<1> DEFINE r == IF status \in {"none", "COMPLETED"} THEN Idle
                ELSE [Idle EXCEPT !.pc = "boot", !.boot = In(state, {"RUNNING", "READY"})]
<1>0. /\ Main \in Threads /\ Main \notin Jobs /\ \A j \in Jobs : j \in Threads /\ j # Main
      /\ state \in [Jobs -> JobStates]
  BY DEF OrderInv, TypeOK, Threads
<1>2. /\ BetweenCalls /\ restarts' = 1
      /\ saved.state = state /\ saved.status = status /\ saved.over = over
  BY FirstRestart
<1>3. /\ state' = state /\ status' = status /\ refused' = refused
      /\ thread' = [[t \in Threads |-> Idle] EXCEPT ![Main] = r]
  BY <1>2 DEF Restart
<1>4. thread'[Main] = r /\ \A u \in Threads : u # Main => thread'[u] = Idle
  BY <1>0, <1>3
<1>5. /\ r.how = "none" /\ r.raised = FALSE /\ r.todo = <<>>
      /\ \/ r = Idle /\ status \in {"none", "COMPLETED"}
         \/ /\ r.pc = "boot" /\ r.boot = In(state, {"RUNNING", "READY"})
            /\ status \notin {"none", "COMPLETED"}
  BY DEF Idle
<1> HIDE DEF r, Idle
<1> USE IdleFields
<1>6. PICK lost \in SUBSET (retried \cap Live) :
        \A j \in Jobs : job'[j] = IF j \in lost THEN "failed" ELSE job[j]
  <2>1. PICK lost \in SUBSET (retried \cap Live), stuck \in SUBSET Answered :
            /\ job' = [j \in Jobs |-> IF j \in stuck THEN "success"
                                      ELSE IF j \in lost THEN "failed" ELSE job[j]]
            /\ untold' = untold \cup stuck
    BY DEF Restart
  <2>2. stuck = {}
    BY <2>1
  <2>3. QED
    BY <2>1, <2>2
<1>7. \A j \in Jobs : Place(j) /\ ~Taken(j) /\ ~Failing(j)
  <2>1. thread[Main] = Idle
    BY <1>0, <1>2 DEF BetweenCalls, AgreeInv, Works
  <2>2. \A t \in Threads : thread[t].pc # "running" /\ ~thread[t].raised
    BY <1>2 DEF BetweenCalls, AgreeInv, Works
  <2>3. QED
    BY <1>0, <2>1, <2>2 DEF Taken, Failing, AgreeInv
<1>8. ASSUME NEW j \in Jobs PROVE Place(j)'
  <2>1. Place(j) /\ ~Taken(j) /\ ~Failing(j)
    BY <1>7
  <2> HIDE DEF Taken, Failing, Ending
  <2>2. j \in lost => job[j] = "live"
    BY DEF Live, In
  <2>3. job[j] = "live" => state[j] = "RUNNING"
    BY <1>0, <2>1 DEF Place, Waiting, JobStates
  <2>4. state[j] = "RUNNING" => Ending(j)'
    <3>1. state[j] = "RUNNING" => status \notin {"none", "COMPLETED"} /\ j \in In(state, {"RUNNING"})
      BY DEF AgreeInv, StatusIs, In
    <3>2. QED
      BY <1>4, <1>5, <3>1 DEF Ending, In
  <2>5. job'[j] = job[j] \/ (state[j] = "RUNNING" /\ job'[j] \in Ended)
    BY <1>6, <2>2, <2>3 DEF Ended
  <2>6. QED
    BY <1>3, <2>1, <2>4, <2>5 DEF Place, Waiting
<1>9. \A j \in Jobs : JobWork(j)'
  BY <1>0, <1>4 DEF JobWork
<1>10. MainWork'
  <2>1. \A j \in r.boot : state'[j] \in {"RUNNING", "READY"}
    BY <1>3, <1>5 DEF In
  <2>2. r.pc \in {"idle", "boot"} /\ (r.boot # {} => r.pc = "boot")
    BY <1>5
  <2>3. Booting' <=> r.pc = "boot"
    BY <1>4, <1>5 DEF Booting
  <2>4. QED
    BY <1>0, <1>2, <1>4, <1>5, <2>1, <2>2, <2>3 DEF MainWork
<1>11. \A u \in Threads : Works(u)'
  BY <1>3, <1>4, <1>5 DEF Works
<1>12. StatusIs' /\ Rooted(state)' /\ BlockedWhy(state)' /\ Clean'
  BY <1>2, <1>3 DEF AgreeInv, StatusIs, Rooted, BlockedWhy, HasBroken, Clean
<1>13. BlockDue' /\ ReadyDue'
  <2>1. \A t \in Threads : thread[t].pc \notin {"block", "ready"}
    BY <1>2 DEF BetweenCalls
  <2>2. QED
    BY <1>3, <2>1 DEF AgreeInv, BlockDue, ReadyDue, HasBroken
<1>14. QED
  BY <1>8, <1>9, <1>10, <1>11, <1>12, <1>13 DEF AgreeInv

LEMMA AgreeInit == Init => AgreeInv
<1> SUFFICES ASSUME Init PROVE AgreeInv
  OBVIOUS
<1> HIDE DEF Idle
<1> USE IdleFields
<1>1. /\ Main \in Threads /\ \A j \in Jobs : j \in Threads
      /\ \A t \in Threads : thread[t] = Idle
      /\ \A j \in Jobs : state[j] = "none" /\ job[j] = "absent"
      /\ status = "none" /\ refused = {}
  BY DEF Init, Nothing, Threads
<1>2. ~Booting
  BY <1>1 DEF Booting
<1>3. \A j \in Jobs : Place(j) /\ JobWork(j)
  BY <1>1 DEF Place, JobWork
<1>4. MainWork /\ \A t \in Threads : Works(t)
  BY <1>1, <1>2 DEF MainWork, Works
<1>5. StatusIs /\ Rooted(state) /\ BlockedWhy(state) /\ BlockDue /\ ReadyDue
  BY <1>1 DEF StatusIs, Rooted, BlockedWhy, BlockDue, ReadyDue, Waiting
<1>6. Clean
  BY DEF Init, Clean, Matches, Nothing
<1>7. QED
  BY <1>3, <1>4, <1>5, <1>6 DEF AgreeInv

LEMMA AgreeStutters == AgreeInv /\ UNCHANGED vars => AgreeInv'
<1> SUFFICES ASSUME AgreeInv, UNCHANGED vars PROVE AgreeInv'
  OBVIOUS
<1>1. /\ state' = state /\ status' = status /\ over' = over /\ saved' = saved /\ lock' = lock
      /\ job' = job /\ refused' = refused /\ thread' = thread /\ restarts' = restarts
  BY DEF vars, wf, engine, jobs, bounds
<1>2. \A j \in Jobs : Place(j)' /\ JobWork(j)'
  BY <1>1 DEF AgreeInv, Place, JobWork, Taken, Ending, Failing
<1>3. MainWork'
  BY <1>1 DEF AgreeInv, MainWork, Booting
<1>4. \A t \in Threads : Works(t)'
  BY <1>1 DEF AgreeInv, Works
<1>5. StatusIs' /\ Rooted(state)' /\ BlockedWhy(state)'
  BY <1>1 DEF AgreeInv, StatusIs, Rooted, BlockedWhy, HasBroken
<1>6. BlockDue' /\ ReadyDue' /\ Clean'
  BY <1>1 DEF AgreeInv, BlockDue, ReadyDue, HasBroken, Clean, Matches
<1>7. QED
  BY <1>2, <1>3, <1>4, <1>5, <1>6 DEF AgreeInv

LEMMA AgreeNext ==
    ASSUME OrderInv, OrderInv', AgreeInv, [Next]_vars, untold' = {},
           races' = 0, crashes' = 0, restarts' <= 1
    PROVE  AgreeInv'
<1>1. CASE UNCHANGED vars
  BY <1>1, AgreeStutters
<1>2. CASE Command
  BY <1>2, SubmitAgrees, RetryAgrees, ReopenAgrees DEF Command
<1>3. CASE Restart
  BY <1>3, RestartAgrees
<1>4. CASE Reconcile
  BY <1>4, ReconcileAgrees
<1>5. ASSUME NEW t \in Threads, Step(t) PROVE AgreeInv'
  <2>1. CASE Mark(t) \/ UpdateReady(t) \/ Block(t) \/ Settle(t) \/ Record(t)
    BY <2>1, MarkAgrees, UpdateReadyAgrees, BlockAgrees, SettleAgrees, RecordAgrees
  <2>2. CASE Schedule(t) \/ RetryDeferred(t) \/ EndSchedule(t)
    BY <2>2, ScheduleAgrees, RetryDeferredAgrees, EndScheduleAgrees
  <2>3. CASE Accept(t) \/ HoldBack(t) \/ Refuse(t) \/ MarkRunning(t)
    BY <2>3, AcceptAgrees, HoldBackAgrees, RefuseAgrees, MarkRunningAgrees
  <2>4. QED
    BY <1>5, <2>1, <2>2, <2>3 DEF Step
<1>6. ASSUME NEW j \in Jobs, End(j) \/ Exhaust(j) PROVE AgreeInv'
  BY <1>6, FinishAgrees DEF End, Exhaust
<1>7. QED
  BY <1>1, <1>2, <1>3, <1>4, <1>5, <1>6 DEF Next

(* At rest no thread has a job in hand, and no look at a pending job is    *)
(* due.                                                                    *)
LEMMA AgreeAtRest == OrderInv /\ AgreeInv => Agreement
<1> SUFFICES ASSUME OrderInv, AgreeInv, status # "none", AtRest, NEW j \in Jobs
             PROVE
        /\ state[j] = "RUNNING" <=> job[j] = "live"
        /\ state[j] = "COMPLETED" <=> job[j] = "completed"
        /\ state[j] = "CANCELLED" <=> job[j] = "cancelled"
        /\ state[j] = "FAILED" <=> job[j] = "failed" \/ j \in refused
        /\ job[j] = "absent" /\ j \notin refused =>
              state[j] = IF \E a \in Above[j] : state[a] \in {"FAILED", "CANCELLED"}
                         THEN "BLOCKED"
                         ELSE IF \A p \in Parents[j] : state[p] = "COMPLETED"
                         THEN "READY" ELSE "PENDING"
  BY DEF Agreement
<1> HIDE DEF Idle
<1>1. /\ Main \in Threads /\ j \in Threads /\ state[j] \in JobStates /\ state[j] # "none"
      /\ job[j] \in {"absent", "live", "completed", "failed", "cancelled", "success"}
      /\ \A t \in Threads : thread[t] = Idle
  BY DEF OrderInv, TypeOK, Threads, AtRest, AgreeInv, Works, StatusIs
<1>2. Place(j) /\ ~Taken(j) /\ ~Failing(j) /\ ~Ending(j)
  BY <1>1, IdleFields DEF AgreeInv, Taken, Failing, Ending
<1>3. /\ state[j] = "BLOCKED" => HasBroken(state, j)
      /\ state[j] = "PENDING" => /\ ~HasBroken(state, j)
                                 /\ ~\A p \in Parents[j] : state[p] = "COMPLETED"
      /\ state[j] = "READY" => \A a \in Above[j] : state[a] = "COMPLETED"
  BY <1>1, IdleFields DEF AgreeInv, BlockedWhy, BlockDue, ReadyDue, Rooted, Waiting
<1>4. Parents[j] \subseteq Above[j]
  BY DEF Parents, Above, Below, Successors, Predecessors, Dag
<1> HIDE DEF Taken, Failing, Ending
<1>5. /\ state[j] = "RUNNING" <=> job[j] = "live"
      /\ state[j] = "COMPLETED" <=> job[j] = "completed"
      /\ state[j] = "CANCELLED" <=> job[j] = "cancelled"
      /\ state[j] = "FAILED" <=> job[j] = "failed" \/ j \in refused
  BY <1>1, <1>2 DEF Place, JobStates, Waiting, Ended
<1>6. job[j] = "absent" /\ j \notin refused => state[j] \in {"PENDING", "READY", "BLOCKED"}
  BY <1>1, <1>2 DEF Place, JobStates, Waiting, Ended
<1>7. state[j] = "READY" => ~HasBroken(state, j) /\ \A p \in Parents[j] : state[p] = "COMPLETED"
  BY <1>3, <1>4 DEF HasBroken, Broke
<1>8. HasBroken(state, j) <=> \E a \in Above[j] : state[a] \in {"FAILED", "CANCELLED"}
  BY DEF HasBroken, Broke
<1> HIDE DEF HasBroken
<1>9. QED
  BY <1>3, <1>5, <1>6, <1>7, <1>8

(* Up to the first end that the workflow is not told of, the first job     *)
(* that ends before the engine knows it runs, the first crash in the       *)
(* middle of a call and the second restart.                                *)
Undisturbed == untold = {} /\ races = 0 /\ crashes = 0 /\ restarts <= 1

LEMMA Counters ==
    ASSUME OrderInv, [Next]_vars, Undisturbed'
    PROVE  Undisturbed
<1>0. races \in Nat /\ crashes \in Nat /\ restarts \in Nat
  BY DEF OrderInv, TypeOK
<1> DEFINE Up == /\ races' \in {races, races + 1} /\ crashes' \in {crashes, crashes + 1}
                 /\ restarts' \in {restarts, restarts + 1} /\ untold \subseteq untold'
<1>1. Up
  <2>1. CASE UNCHANGED bounds
    BY <2>1 DEF bounds
  <2>2. CASE Restart
    BY <2>2 DEF Restart
  <2>3. ASSUME NEW j \in Jobs, End(j) \/ Exhaust(j) \/ Retry(j) PROVE Up
    BY <2>3 DEF End, Exhaust, Finish, Retry, Race
  <2>4. Next => UNCHANGED bounds \/ Restart \/ \E j \in Jobs : End(j) \/ Exhaust(j) \/ Retry(j)
    BY DEF Next, Command, Submit, Reopen, Reconcile, Step, Mark, UpdateReady, Block, Settle, Record,
       Schedule, RetryDeferred, Accept, HoldBack, Refuse, MarkRunning, EndSchedule
  <2>5. UNCHANGED vars => UNCHANGED bounds
    BY DEF vars
  <2> HIDE DEF Up
  <2>6. QED
    BY <2>1, <2>2, <2>3, <2>4, <2>5
<1>2. QED
  BY <1>0, <1>1 DEF Undisturbed

(* For every workflow, cap and number of retries, whatever jobs are        *)
(* refused or raise: whenever no callback is under way the states that     *)
(* process_completed_job, process_failed_job, process_cancelled_job,       *)
(* reopen_job and _reconcile leave behind are those of the coordinator's   *)
(* jobs, and every job that was not submitted is blocked, ready or pending *)
(* as the jobs above it demand, as long as the workflow is told of every   *)
(* end, no job outruns mark_running, no call is cut in two by a crash and  *)
(* there is at most one restart.                                           *)
THEOREM BooksAgree == Spec => [](Undisturbed => Agreement)
<1> DEFINE Inv == OrderInv /\ (Undisturbed => AgreeInv)
<1>1. Init => Inv
  BY OrderInit, AgreeInit
<1>2. Inv /\ [Next]_vars => Inv'
  <2> SUFFICES ASSUME Inv, [Next]_vars PROVE Inv'
    OBVIOUS
  <2>1. OrderInv'
    BY OrderNext
  <2>2. ASSUME Undisturbed' PROVE AgreeInv'
    <3>1. AgreeInv
      BY <2>2, Counters
    <3>2. QED
      BY <2>1, <2>2, <3>1, AgreeNext DEF Undisturbed
  <2>3. QED
    BY <2>1, <2>2
<1>3. Inv => (Undisturbed => Agreement)
  BY AgreeAtRest
<1> HIDE DEF Inv
<1>4. QED
  BY <1>1, <1>2, <1>3, PTL DEF Spec
-----------------------------------------------------------------------------
(* Room under the cap is used: while there is room and a job is ready,     *)
(* some thread has yet to look. A callback that has not come to its own    *)
(* retry_deferred will; so will a thread before schedule_ready_jobs, and   *)
(* one that still has all ready jobs in hand.                              *)
Room == Cardinality(Live) < cap
SomeReady == \E j \in Jobs : state[j] = "READY"
Later ==
    \/ \E j \in Jobs : thread[j].pc # "idle" /\ thread[j].how # "retry"
    \/ \E t \in Threads : thread[t].pc = "lock"
Holds(s, q) == \A j \in Jobs : s[j] = "READY" => \E i \in 1 .. Len(q) : q[i] = j
Covered == \E t \in Threads : thread[t].pc \in {"submit", "running"} /\ Holds(state, thread[t].todo)
InBoot == \E j \in thread[Main].boot : state[j] = "READY"

(* A ready job that no thread is about to submit was noted as deferred.    *)
Noted ==
    SomeReady /\ ~deferred =>
        InBoot \/ \E t \in Threads : thread[t].pc \in {"lock", "submit", "running"}
Looked ==
    SomeReady /\ Room =>
        Later \/ Covered \/ (InBoot /\ thread[Main].pc \notin {"submit", "running"})
(* No dispatch raised, and retry_deferred is the last thing a call does.   *)
CalmRec(t, th) ==
    /\ ~th.raised
    /\ th.how = "retry" => th.pc \in {"submit", "running"}
    /\ t \in Jobs => th.how # "submit"
RoomInv == Noted /\ Looked /\ \A t \in Threads : CalmRec(t, thread[t])

LEMMA JobsFinite == IsFiniteSet(Jobs)
<1>1. Len(Order) \in Nat /\ Order \in [1 .. Len(Order) -> Jobs] /\ Jobs = {Order[i] : i \in 1 .. Len(Order)}
  BY DEF Jobs, Range
<1>2. Order \in Surjection(1 .. Len(Order), Jobs)
  BY <1>1 DEF Surjection
<1>3. QED
  BY <1>1, <1>2, FS_Interval, FS_Surjection

LEMMA LiveCount ==
    ASSUME OrderInv
    PROVE  Cardinality(Live) \in Nat /\ cap \in Nat
<1>1. IsFiniteSet(Live)
  BY JobsFinite, FS_Subset DEF Live, In
<1>2. QED
  BY <1>1, FS_CardinalityType DEF OrderInv, TypeOK

(* Only the end of a job makes room.                                       *)
LEMMA RoomShrinks ==
    ASSUME OrderInv, cap' = cap, \A j \in Jobs : job[j] = "live" => job'[j] = "live"
    PROVE  Room' => Room
<1>1. Live \subseteq Live' /\ Live' \subseteq Jobs
  BY DEF Live, In
<1>2. IsFiniteSet(Live') /\ IsFiniteSet(Live)
  BY <1>1, JobsFinite, FS_Subset
<1>3. Cardinality(Live) <= Cardinality(Live')
  BY <1>1, <1>2, FS_Subset
<1>4. Cardinality(Live) \in Nat /\ Cardinality(Live') \in Nat /\ cap \in Nat
  BY <1>2, FS_CardinalityType DEF OrderInv, TypeOK
<1>5. Cardinality(Live)' = Cardinality(Live')
  OBVIOUS
<1>6. QED
  BY <1>3, <1>4, <1>5 DEF Room

(* A step of a thread that schedules nothing.                              *)
LEMMA RoomQuiet ==
    ASSUME OrderInv, AgreeInv, RoomInv, NEW t \in Threads, NEW r, thread' = [thread EXCEPT ![t] = r],
           \A j \in Jobs : state'[j] = "READY" <=> state[j] = "READY",
           deferred' = deferred, Room' => Room, CalmRec(t, r),
           thread[t].pc \notin {"lock", "submit", "running"},
           t \in Jobs /\ thread[t].pc # "idle" => r.pc # "idle" /\ r.how # "retry",
           t = Main => r.boot = thread[Main].boot /\ r.pc \notin {"submit", "running"}
    PROVE  RoomInv'
<1>1. /\ thread'[t] = r /\ \A u \in Threads : u # t => thread'[u] = thread[u]
      /\ Main \in Threads /\ \A j \in Jobs : j \in Threads /\ j # Main
      /\ t \in Jobs \/ t = Main
  BY OneThread
<1>2. SomeReady' => SomeReady
  BY DEF SomeReady
<1>3. InBoot => InBoot'
  <2>1. thread'[Main].boot = thread[Main].boot /\ thread[Main].boot \subseteq Jobs
    BY <1>1, RecIs DEF ThreadRecs
  <2>2. QED
    BY <2>1 DEF InBoot
<1>4. Later => Later'
  BY <1>1 DEF Later
<1>5. Covered => Covered'
  <2> SUFFICES ASSUME Covered PROVE Covered'
    OBVIOUS
  <2>1. PICK u \in Threads : thread[u].pc \in {"submit", "running"} /\ Holds(state, thread[u].todo)
    BY DEF Covered
  <2>2. u # t /\ thread'[u] = thread[u]
    BY <1>1, <2>1
  <2>3. Holds(state', thread[u].todo)
    BY <2>1 DEF Holds
  <2>4. QED
    BY <2>1, <2>2, <2>3 DEF Covered
<1>6. Noted'
  <2>1. (\E u \in Threads : thread[u].pc \in {"lock", "submit", "running"})
          => \E u \in Threads : thread'[u].pc \in {"lock", "submit", "running"}
    BY <1>1
  <2>2. QED
    BY <1>2, <1>3, <2>1 DEF RoomInv, Noted
<1>7. Looked'
  <2>1. thread[Main].pc \notin {"submit", "running"} => thread'[Main].pc \notin {"submit", "running"}
    BY <1>1
  <2>2. Looked
    BY DEF RoomInv
  <2> HIDE DEF Room, SomeReady, Later, Covered, InBoot
  <2>3. QED
    BY <1>2, <1>3, <1>4, <1>5, <2>1, <2>2 DEF Looked
<1>8. \A u \in Threads : CalmRec(u, thread[u])'
  BY <1>1 DEF RoomInv, CalmRec
<1>9. QED
  BY <1>6, <1>7, <1>8 DEF RoomInv

(* A step of the loop of schedule_ready_jobs.                              *)
LEMMA RoomLoop ==
    ASSUME OrderInv, AgreeInv, RoomInv, NEW t \in Threads, NEW r, thread' = [thread EXCEPT ![t] = r],
           \A j \in Jobs : state'[j] = "READY" => state[j] = "READY",
           Room' => Room, thread[t].pc \in {"submit", "running"}, r.pc \in {"submit", "running"},
           r.how = thread[t].how, r.raised = thread[t].raised,
           Room' /\ Holds(state, thread[t].todo) => Holds(state', r.todo)
    PROVE  RoomInv'
<1>1. /\ thread'[t] = r /\ \A u \in Threads : u # t => thread'[u] = thread[u]
      /\ Main \in Threads /\ \A j \in Jobs : j \in Threads /\ j # Main
      /\ t \in Jobs \/ t = Main
  BY OneThread
<1>2. Noted'
  BY <1>1 DEF Noted
<1>3. ~(InBoot /\ thread[Main].pc \notin {"submit", "running"})
  <2>1. t = Main \/ ~Booting
    BY <1>1, NotBooting
  <2>2. ~Booting => thread[Main].boot = {}
    BY DEF AgreeInv, MainWork
  <2>3. QED
    BY <2>1, <2>2 DEF InBoot
<1>4. Later => Later'
  BY <1>1 DEF Later
<1>5. Covered /\ Room' => Covered'
  <2>1. \A u \in Threads : thread[u].pc \in {"submit", "running"} => lock = u
    BY DEF AgreeInv, Works
  <2>2. Covered => Holds(state, thread[t].todo)
    BY <2>1 DEF Covered
  <2>3. Holds(state', r.todo) => Covered'
    BY <1>1 DEF Covered, Holds
  <2>4. QED
    BY <2>2, <2>3
<1>6. SomeReady' => SomeReady
  BY DEF SomeReady
<1>7. Looked'
  <2>1. Looked
    BY DEF RoomInv
  <2> HIDE DEF Room, SomeReady, Later, Covered, InBoot
  <2>2. QED
    BY <1>3, <1>4, <1>5, <1>6, <2>1 DEF Looked
<1>8. \A u \in Threads : CalmRec(u, thread[u])'
  BY <1>1 DEF RoomInv, CalmRec
<1>9. QED
  BY <1>2, <1>7, <1>8 DEF RoomInv

(* A thread comes to schedule_ready_jobs.                                  *)
LEMMA RoomLooks ==
    ASSUME OrderInv, RoomInv, NEW t \in Threads, NEW r, thread' = [thread EXCEPT ![t] = r],
           CalmRec(t, r), r.pc = "lock" \/ (r.pc = "submit" /\ Holds(state', r.todo))
    PROVE  RoomInv'
<1>1. thread'[t] = r /\ \A u \in Threads : u # t => thread'[u] = thread[u]
  BY OneThread
<1>2. Noted'
  BY <1>1 DEF Noted
<1>3. Later' \/ Covered'
  BY <1>1 DEF Later, Covered, Holds
<1>4. \A u \in Threads : CalmRec(u, thread[u])'
  BY <1>1 DEF RoomInv, CalmRec
<1>5. QED
  BY <1>2, <1>3, <1>4 DEF RoomInv, Looked

LEMMA UpdateReadyLooks ==
    ASSUME OrderInv, RoomInv, NEW t \in Threads, UpdateReady(t)
    PROVE  RoomInv'
<1> DEFINE r == [thread[t] EXCEPT !.pc = "lock"]
<1>1. thread' = [thread EXCEPT ![t] = r] /\ thread[t].pc = "ready" /\ CalmRec(t, thread[t])
  BY DEF UpdateReady, Goto, RoomInv
<1>2. r.pc = "lock" /\ CalmRec(t, r)
  BY <1>1, RecIs DEF CalmRec
<1> HIDE DEF r
<1>3. QED
  BY <1>1, <1>2, RoomLooks

LEMMA ScheduleLooks ==
    ASSUME OrderInv, RoomInv, NEW t \in Threads, Schedule(t)
    PROVE  RoomInv'
<1> DEFINE r == [thread[t] EXCEPT !.pc = "submit", !.todo = ReadyList]
<1>1. /\ thread' = [thread EXCEPT ![t] = r] /\ thread[t].pc = "lock" /\ CalmRec(t, thread[t])
      /\ state' = state
  BY DEF Schedule, wf, RoomInv
<1>2. r.pc = "submit" /\ r.todo = ReadyList /\ CalmRec(t, r)
  BY <1>1, RecIs DEF CalmRec
<1>3. Holds(state', r.todo)
  BY <1>1, <1>2, ReadyListHas DEF Holds
<1> HIDE DEF r
<1>4. QED
  BY <1>1, <1>2, <1>3, RoomLooks

LEMMA SubmitLooks ==
    ASSUME OrderInv, AgreeInv, RoomInv, Submit
    PROVE  RoomInv'
<1> DEFINE r == [thread[Main] EXCEPT !.pc = "lock", !.how = "submit"]
<1>1. /\ thread' = [thread EXCEPT ![Main] = r] /\ Main \in Threads /\ Main \notin Jobs
      /\ thread[Main].pc = "idle"
  BY DEF Submit, Threads
<1>2. thread[Main] = Idle
  BY <1>1 DEF AgreeInv, Works
<1>3. r.pc = "lock" /\ r.how = "submit" /\ r.raised = FALSE
  BY <1>2 DEF Idle
<1>4. CalmRec(Main, r)
  BY <1>1, <1>3 DEF CalmRec
<1> HIDE DEF r
<1>5. QED
  BY <1>1, <1>3, <1>4, RoomLooks

LEMMA MarkLooks ==
    ASSUME OrderInv, AgreeInv, RoomInv, NEW t \in Threads, Mark(t)
    PROVE  RoomInv'
<1> DEFINE pc == IF thread[t].how = "completed" THEN "ready" ELSE "block"
           r == [thread[t] EXCEPT !.pc = pc]
<1>1. /\ thread[t].pc = "mark" /\ CalmRec(t, thread[t]) /\ status # "none"
      /\ thread[t].how \in {"completed", "failed", "cancelled"} /\ thread[t].job \in Jobs
  BY HonestIs DEF Mark, HonestRec, RoomInv, AgreeInv, Works
<1>2. /\ thread' = [thread EXCEPT ![t] = r] /\ deferred' = deferred /\ job' = job /\ cap' = cap
      /\ state' = [state EXCEPT ![thread[t].job] = MarkOf(thread[t].how)]
  BY <1>1 DEF Mark, Goto, engine, jobs, bounds
<1>3. r.pc = pc /\ r.how = thread[t].how /\ r.boot = thread[t].boot /\ CalmRec(t, r)
  BY <1>1, RecIs DEF CalmRec
<1>4. \A j \in Jobs : state'[j] = "READY" <=> state[j] = "READY"
  <2>1. state[thread[t].job] = "RUNNING"
    BY <1>1 DEF AgreeInv, JobWork, MainWork, Threads
  <2>2. MarkOf(thread[t].how) # "READY"
    BY <1>1 DEF MarkOf
  <2>3. state \in [Jobs -> JobStates]
    BY DEF OrderInv, TypeOK
  <2>4. QED
    BY <1>1, <1>2, <2>1, <2>2, <2>3
<1>5. Room' => Room
  BY <1>2, RoomShrinks
<1> HIDE DEF r
<1>6. QED
  BY <1>1, <1>2, <1>3, <1>4, <1>5, RoomQuiet

LEMMA BlockLooks ==
    ASSUME OrderInv, AgreeInv, RoomInv, NEW t \in Threads, Block(t)
    PROVE  RoomInv'
<1> DEFINE r == [thread[t] EXCEPT !.pc = AfterDag(t)]
<1>0. Main \in Threads /\ Main \notin Jobs /\ state \in [Jobs -> JobStates]
  BY DEF OrderInv, TypeOK, Threads
<1>1. /\ thread[t].pc = "block" /\ CalmRec(t, thread[t])
      /\ thread' = [thread EXCEPT ![t] = r] /\ deferred' = deferred /\ job' = job /\ cap' = cap
      /\ state' = Blocked(state)
  BY DEF Block, Broken, Goto, jobs, bounds, RoomInv
<1>2. /\ r.pc = IF t = Main THEN "boot" ELSE "retry"
      /\ r.how = thread[t].how /\ r.how # "retry" /\ r.boot = thread[t].boot /\ CalmRec(t, r)
  BY <1>1, RecIs DEF CalmRec, AfterDag
<1>3. \A j \in Jobs : state'[j] = "READY" <=> state[j] = "READY"
  BY <1>0, <1>1, BrokenMoves DEF AgreeInv
<1>4. Room' => Room
  BY <1>1, RoomShrinks
<1> HIDE DEF r
<1>5. QED
  BY <1>0, <1>1, <1>2, <1>3, <1>4, RoomQuiet

LEMMA SettleLooks ==
    ASSUME OrderInv, AgreeInv, RoomInv, NEW t \in Threads, Settle(t)
    PROVE  RoomInv'
<1> DEFINE r == [thread[t] EXCEPT !.pc = AfterDag(t)]
<1>0. Main \in Threads /\ Main \notin Jobs
  BY DEF Threads
<1>1. /\ thread[t].pc = "settle" /\ CalmRec(t, thread[t])
      /\ thread' = [thread EXCEPT ![t] = r] /\ deferred' = deferred /\ job' = job /\ cap' = cap
      /\ state' = state
  BY DEF Settle, Goto, jobs, bounds, RoomInv
<1>2. /\ r.pc = IF t = Main THEN "boot" ELSE "retry"
      /\ r.how = thread[t].how /\ r.how # "retry" /\ r.boot = thread[t].boot /\ CalmRec(t, r)
  BY <1>1, RecIs DEF CalmRec, AfterDag
<1>3. Room' => Room
  BY <1>1, RoomShrinks
<1> HIDE DEF r
<1>4. QED
  BY <1>0, <1>1, <1>2, <1>3, RoomQuiet

LEMMA RetryLooks ==
    ASSUME OrderInv, AgreeInv, RoomInv, NEW j \in Jobs, Retry(j)
    PROVE  RoomInv'
<1> DEFINE r == IF status = "none" THEN Idle ELSE [Idle EXCEPT !.pc = "reopen", !.job = j]
<1>0. Main \in Threads /\ Main \notin Jobs /\ job \in [Jobs -> {"absent", "live", "completed", "failed", "cancelled", "success"}]
  BY DEF OrderInv, TypeOK, Threads
<1>1. /\ thread[Main].pc = "idle" /\ thread' = [thread EXCEPT ![Main] = r]
      /\ state' = state /\ deferred' = deferred /\ cap' = cap
      /\ job' = [job EXCEPT ![j] = "live"]
  BY DEF Retry, wf, engine
<1>2. thread[Main].boot = {}
  BY <1>0, <1>1, IdleFields DEF AgreeInv, Works
<1>3. r.pc \in {"idle", "reopen"} /\ r.how = "none" /\ r.raised = FALSE /\ r.boot = {}
  BY DEF Idle
<1>4. Room' => Room
  BY <1>0, <1>1, RoomShrinks
<1> HIDE DEF r
<1>5. CalmRec(Main, r)
  BY <1>0, <1>3 DEF CalmRec
<1>6. QED
  BY <1>0, <1>1, <1>2, <1>3, <1>4, <1>5, RoomQuiet

LEMMA ReopenLooks ==
    ASSUME OrderInv, AgreeInv, RoomInv, Reopen
    PROVE  RoomInv'
<1>0. Main \in Threads /\ Main \notin Jobs
  BY DEF Threads
<1>1. /\ thread[Main].pc = "reopen" /\ thread' = [thread EXCEPT ![Main] = Idle]
      /\ deferred' = deferred /\ job' = job /\ cap' = cap
  BY DEF Reopen, bounds
<1>2. PICK x \in Jobs : x = thread[Main].job
  BY <1>1 DEF AgreeInv, MainWork
<1>3. \A j \in Jobs : state'[j] = "READY" <=> state[j] = "READY"
  BY <1>2, ReopenMoves
<1>4. thread[Main].boot = {}
  BY <1>1 DEF AgreeInv, MainWork, Booting
<1>5. Room' => Room
  BY <1>1, RoomShrinks
<1> HIDE DEF Idle
<1>6. CalmRec(Main, Idle)
  BY <1>0, IdleFields DEF CalmRec
<1>7. QED
  BY <1>0, <1>1, <1>3, <1>4, <1>5, <1>6, IdleFields, RoomQuiet

(* What remains of the list once its first job is dealt with.              *)
LEMMA HoldsTail ==
    ASSUME NEW q \in Seq(Jobs), q # <<>>, Holds(state, q), state'[Head(q)] # "READY",
           \A j \in Jobs : state'[j] = "READY" => state[j] = "READY"
    PROVE  Holds(state', Tail(q))
<1> SUFFICES ASSUME NEW j \in Jobs, state'[j] = "READY"
             PROVE  \E i \in 1 .. Len(Tail(q)) : Tail(q)[i] = j
  BY DEF Holds
<1>1. PICK i \in 1 .. Len(q) : q[i] = j
  BY DEF Holds
<1>2. Head(q) = q[1] /\ Len(Tail(q)) = Len(q) - 1
      /\ \A k \in 1 .. Len(q) - 1 : Tail(q)[k] = q[k + 1]
  OBVIOUS
<1>3. i # 1
  BY <1>1, <1>2
<1>4. i - 1 \in 1 .. Len(q) - 1 /\ (i - 1) + 1 = i
  BY <1>3
<1>5. QED
  BY <1>1, <1>2, <1>4

LEMMA AcceptLooks ==
    ASSUME OrderInv, AgreeInv, RoomInv, NEW t \in Threads, Accept(t)
    PROVE  RoomInv'
<1> DEFINE r == [thread[t] EXCEPT !.pc = "running"]
<1>1. /\ thread[t].pc = "submit" /\ thread' = [thread EXCEPT ![t] = r]
      /\ job' = [job EXCEPT ![Head(thread[t].todo)] = "live"]
      /\ state' = state /\ cap' = cap
  BY DEF Accept, Goto, wf, bounds
<1>2. /\ r.pc = "running" /\ r.how = thread[t].how /\ r.raised = thread[t].raised
      /\ r.todo = thread[t].todo
  BY RecIs
<1>3. Room' => Room
  <2>1. job \in [Jobs -> {"absent", "live", "completed", "failed", "cancelled", "success"}]
    BY DEF OrderInv, TypeOK
  <2>2. QED
    BY <1>1, <2>1, RoomShrinks
<1> HIDE DEF r
<1>4. QED
  BY <1>1, <1>2, <1>3, RoomLoop

LEMMA HoldBackLooks ==
    ASSUME OrderInv, AgreeInv, RoomInv, NEW t \in Threads, HoldBack(t)
    PROVE  RoomInv'
<1> DEFINE q == Tail(thread[t].todo)
           r == [thread[t] EXCEPT !.todo = q]
<1>1. /\ thread[t].pc = "submit" /\ thread' = [thread EXCEPT ![t] = r]
      /\ state' = state /\ cap' = cap /\ job' = job
  BY DEF HoldBack, wf, jobs, bounds
<1>2. r.pc = "submit" /\ r.how = thread[t].how /\ r.raised = thread[t].raised
  BY <1>1, RecIs
<1>3. ~Room /\ (Room' => Room)
  <2>1. Room' => Room
    BY <1>1, RoomShrinks
  <2>2. ~Room
    BY LiveCount DEF HoldBack, Room
  <2>3. QED
    BY <2>1, <2>2
<1> HIDE DEF r
<1>4. QED
  BY <1>1, <1>2, <1>3, RoomLoop

LEMMA RefuseLooks ==
    ASSUME OrderInv, AgreeInv, RoomInv, NEW t \in Threads, Refuse(t)
    PROVE  RoomInv'
<1> DEFINE q == Tail(thread[t].todo)
           r == [thread[t] EXCEPT !.todo = q]
<1>0. state \in [Jobs -> JobStates] /\ thread[t].todo \in Seq(Jobs)
  BY ThreadTypes DEF OrderInv, TypeOK
<1>1. /\ thread[t].pc = "submit" /\ thread[t].todo # <<>> /\ thread' = [thread EXCEPT ![t] = r]
      /\ cap' = cap /\ job' = job
  BY DEF Refuse, bounds
<1>2. /\ r.pc = "submit" /\ r.how = thread[t].how /\ r.raised = thread[t].raised
      /\ r.todo = q
  BY <1>1, RecIs
<1>3. Room' => Room
  BY <1>1, RoomShrinks
<1> PICK x \in Jobs : x = Head(thread[t].todo)
  BY <1>1, AtHand
<1> DEFINE s == [state EXCEPT ![x] = "FAILED"]
<1>4. state[x] = "READY" /\ state' = Blocked(s)
  BY <1>1, AtHand DEF Refuse, Broken
<1>5. s \in [Jobs -> JobStates] /\ s[x] = "FAILED" /\ \A j \in Jobs : j # x => s[j] = state[j]
  BY <1>0 DEF JobStates
<1>6. Rooted(s) /\ BlockedWhy(s)
  <2>1. Rooted(state) /\ BlockedWhy(state) /\ "FAILED" \in JobStates \ {"BLOCKED"}
    BY DEF AgreeInv, JobStates
  <2>2. QED
    BY <1>0, <1>4, <2>1, RootedExcept, WhyExcept DEF Waiting, Broke
<1> HIDE DEF s
<1>7. state'[x] # "READY" /\ \A j \in Jobs : state'[j] = "READY" => state[j] = "READY"
  BY <1>4, <1>5, <1>6, BrokenMoves
<1>8. Holds(state, thread[t].todo) => Holds(state', r.todo)
  BY <1>0, <1>1, <1>2, <1>7, HoldsTail
<1> HIDE DEF r
<1>9. QED
  BY <1>1, <1>2, <1>3, <1>7, <1>8, RoomLoop

LEMMA MarkRunningLooks ==
    ASSUME OrderInv, AgreeInv, RoomInv, NEW t \in Threads, MarkRunning(t)
    PROVE  RoomInv'
<1> DEFINE q == Tail(thread[t].todo)
           r == [thread[t] EXCEPT !.pc = "submit", !.todo = q]
<1>0. state \in [Jobs -> JobStates] /\ thread[t].todo \in Seq(Jobs)
  BY ThreadTypes DEF OrderInv, TypeOK
<1>1. /\ thread[t].pc = "running" /\ thread[t].todo # <<>> /\ thread' = [thread EXCEPT ![t] = r]
      /\ cap' = cap /\ job' = job
      /\ state' = [state EXCEPT ![Head(thread[t].todo)] = "RUNNING"]
  <2>1. thread[t].pc = "running" /\ thread[t].todo # <<>>
    BY HonestIs DEF MarkRunning, HonestRec
  <2>2. QED
    BY <2>1 DEF MarkRunning, jobs, bounds
<1>2. /\ r.pc = "submit" /\ r.how = thread[t].how /\ r.raised = thread[t].raised
      /\ r.todo = q
  BY RecIs
<1>3. Room' => Room
  BY <1>1, RoomShrinks
<1>4. Head(thread[t].todo) \in Jobs
  BY <1>1, AtHand
<1>5. state'[Head(thread[t].todo)] # "READY" /\ \A j \in Jobs : state'[j] = "READY" => state[j] = "READY"
  BY <1>0, <1>1, <1>4
<1>6. Holds(state, thread[t].todo) => Holds(state', r.todo)
  BY <1>0, <1>1, <1>2, <1>5, HoldsTail
<1> HIDE DEF r
<1>7. QED
  BY <1>1, <1>2, <1>3, <1>5, <1>6, RoomLoop

(* A job ends: its callback has yet to come to retry_deferred.             *)
LEMMA FinishLooks ==
    ASSUME OrderInv, AgreeInv, RoomInv, Raisable = {}, NEW j \in Jobs,
           NEW how \in {"completed", "failed", "cancelled"}, NEW raised \in BOOLEAN,
           Finish(j, how, raised)
    PROVE  RoomInv'
<1> DEFINE r == [Idle EXCEPT !.pc = "mark", !.job = j, !.how = how, !.raised = raised]
<1>1. /\ thread[j].pc = "idle" /\ ~raised /\ thread' = [thread EXCEPT ![j] = r]
      /\ state' = state /\ deferred' = deferred
  BY DEF Finish, wf, engine
<1>2. r.pc = "mark" /\ r.how = how /\ r.raised = raised
  BY DEF Idle
<1> HIDE DEF r
<1>3. /\ thread'[j] = r /\ \A u \in Threads : u # j => thread'[u] = thread[u]
      /\ Main \in Threads /\ j # Main /\ j \in Threads
  BY <1>1, OneThread DEF Threads
<1>4. Looked'
  BY <1>2, <1>3 DEF Looked, Later
<1>5. Noted'
  <2>1. (\E u \in Threads : thread[u].pc \in {"lock", "submit", "running"})
          => \E u \in Threads : thread'[u].pc \in {"lock", "submit", "running"}
    BY <1>1, <1>3
  <2>2. QED
    BY <1>1, <1>3, <2>1 DEF RoomInv, Noted, SomeReady, InBoot
<1>6. \A u \in Threads : CalmRec(u, thread[u])'
  BY <1>1, <1>2, <1>3 DEF RoomInv, CalmRec
<1>7. QED
  BY <1>4, <1>5, <1>6 DEF RoomInv

(* A call ends: the ready jobs, if any, are another thread's to look at.   *)
LEMMA RetryDeferredLooks ==
    ASSUME OrderInv, AgreeInv, RoomInv, NEW t \in Threads, RetryDeferred(t)
    PROVE  RoomInv'
<1>0. /\ thread[t].pc = "retry" /\ lock = "free" /\ t # Main /\ t \in Jobs
      /\ state' = state /\ job' = job /\ cap' = cap /\ CalmRec(t, thread[t])
  BY DEF RetryDeferred, wf, jobs, bounds, AgreeInv, MainWork, Threads, RoomInv
<1>1. CASE deferred /\ ReadyList # <<>>
  <2> DEFINE r == [thread[t] EXCEPT !.pc = "submit", !.how = "retry", !.todo = ReadyList]
  <2>1. thread' = [thread EXCEPT ![t] = r]
    BY <1>1 DEF RetryDeferred
  <2>2. r.pc = "submit" /\ r.todo = ReadyList /\ CalmRec(t, r)
    BY <1>0, RecIs DEF CalmRec
  <2>3. Holds(state', r.todo)
    BY <1>0, <2>2, ReadyListHas DEF Holds
  <2> HIDE DEF r
  <2>4. QED
    BY <2>1, <2>2, <2>3, RoomLooks
<1>2. CASE ~(deferred /\ ReadyList # <<>>)
  <2>1. thread' = [thread EXCEPT ![t] = Idle]
    BY <1>0, <1>2 DEF RetryDeferred, CalmRec
  <2>2. /\ thread'[t] = Idle /\ \A u \in Threads : u # t => thread'[u] = thread[u]
        /\ Main \in Threads
    BY <2>1, OneThread
  <2> HIDE DEF Idle
  <2> USE IdleFields
  <2>3. SomeReady => \E u \in Threads : u # t /\ thread[u].pc = "lock"
    <3>1. ReadyList = <<>> => ~SomeReady
      BY ReadyListHas DEF SomeReady
    <3>2. ~InBoot
      <4>1. ~Booting
        BY <1>0, NotBooting
      <4>2. QED
        BY <4>1 DEF AgreeInv, MainWork, InBoot
    <3>3. \A u \in Threads : thread[u].pc \notin {"submit", "running"}
      BY <1>0, NamesAssumption DEF AgreeInv, Works
    <3>4. QED
      BY <1>0, <1>2, <3>1, <3>2, <3>3 DEF RoomInv, Noted
  <2>4. SomeReady' => \E u \in Threads : thread'[u].pc = "lock"
    BY <1>0, <2>2, <2>3 DEF SomeReady
  <2>5. Noted' /\ Looked'
    BY <2>4 DEF Noted, Looked, Later
  <2>6. \A u \in Threads : CalmRec(u, thread[u])'
    BY <2>2 DEF RoomInv, CalmRec
  <2>7. QED
    BY <2>5, <2>6 DEF RoomInv
<1>3. QED
  BY <1>1, <1>2

LEMMA EndScheduleLooks ==
    ASSUME OrderInv, AgreeInv, RoomInv, NEW t \in Threads, EndSchedule(t)
    PROVE  RoomInv'
<1>0. /\ thread[t].pc = "submit" /\ thread[t].todo = <<>> /\ lock = t
      /\ state' = state /\ job' = job /\ cap' = cap /\ deferred' = StaysDeferred
      /\ CalmRec(t, thread[t]) /\ Main \in Threads /\ Main \notin Jobs
      /\ t \in Jobs \/ t = Main
  BY DEF EndSchedule, jobs, bounds, wf, AgreeInv, Works, RoomInv, Threads
<1>1. Noted'
  BY <1>0 DEF Noted, SomeReady, StaysDeferred, In
<1>2. PICK r : /\ thread' = [thread EXCEPT ![t] = r] /\ CalmRec(t, r)
               /\ thread[t].how = "completed" => r.pc = "settle" /\ r.how = "completed"
               /\ thread[t].how \in {"completed", "schedule", "submit", "retry"}
  <2>1. CASE thread[t].how \in {"submit", "retry"}
    <3>1. thread' = [thread EXCEPT ![t] = Idle]
      BY <1>0, <2>1 DEF EndSchedule, CalmRec
    <3>2. CalmRec(t, Idle)
      BY IdleFields DEF CalmRec
    <3>3. QED
      BY <2>1, <3>1, <3>2
  <2>2. CASE thread[t].how \in {"completed", "schedule"}
    <3> DEFINE pc == IF thread[t].how = "completed" THEN "settle" ELSE "boot"
               r == [thread[t] EXCEPT !.pc = pc]
    <3>1. thread' = [thread EXCEPT ![t] = r]
      BY <2>2 DEF EndSchedule, Goto
    <3>2. r.pc = pc /\ r.how = thread[t].how /\ CalmRec(t, r)
      BY <1>0, <2>2, RecIs DEF CalmRec
    <3> HIDE DEF r
    <3>3. QED
      BY <2>2, <3>1, <3>2
  <2>3. QED
    BY <2>1, <2>2 DEF EndSchedule
<1>3. thread'[t] = r /\ \A u \in Threads : u # t => thread'[u] = thread[u]
  BY <1>2, OneThread
<1>4. SomeReady /\ Room => Later
  <2>1. Looked
    BY DEF RoomInv
  <2>2. ~Covered \/ ~SomeReady
    <3>1. \A u \in Threads : thread[u].pc \in {"submit", "running"} => u = t
      BY <1>0 DEF AgreeInv, Works
    <3>2. Holds(state, thread[t].todo) => ~SomeReady
      BY <1>0 DEF Holds, SomeReady
    <3>3. QED
      BY <3>1, <3>2 DEF Covered
  <2>3. ~(InBoot /\ thread[Main].pc \notin {"submit", "running"})
    <3>1. t = Main \/ ~Booting
      BY <1>0, NotBooting
    <3>2. ~Booting => thread[Main].boot = {}
      BY DEF AgreeInv, MainWork
    <3>3. QED
      BY <1>0, <3>1, <3>2 DEF InBoot
  <2> HIDE DEF Room, SomeReady, Later, Covered, InBoot
  <2>4. QED
    BY <2>1, <2>2, <2>3 DEF Looked
<1>5. Later => Later'
  <2>1. t \in Jobs => thread[t].how \in {"completed", "retry"}
    BY <1>0, <1>2 DEF CalmRec, AgreeInv, JobWork
  <2>2. CASE thread[t].how = "completed" /\ t \in Jobs
    BY <1>2, <1>3, <2>2 DEF Later
  <2>3. CASE thread[t].how = "retry" \/ t = Main
    BY <1>0, <1>3, <2>3 DEF Later, Threads
  <2>4. QED
    BY <1>0, <2>1, <2>2, <2>3
<1>6. Looked'
  <2>1. Room' <=> Room
    BY <1>0 DEF Room, Live, In
  <2>2. SomeReady' <=> SomeReady
    BY <1>0 DEF SomeReady
  <2> HIDE DEF Room, SomeReady, Later
  <2>3. QED
    BY <1>4, <1>5, <2>1, <2>2 DEF Looked
<1>7. \A u \in Threads : CalmRec(u, thread[u])'
  BY <1>2, <1>3 DEF RoomInv, CalmRec
<1>8. QED
  BY <1>1, <1>6, <1>7 DEF RoomInv

LEMMA ReconcileLooks ==
    ASSUME OrderInv, AgreeInv, RoomInv, Reconcile
    PROVE  RoomInv'
<1> DEFINE th == thread[Main]
           rest(j) == [th EXCEPT !.boot = @ \ {j}, !.job = j]
<1>0. /\ Main \in Threads /\ Main \notin Jobs /\ \A j \in Jobs : j \in Threads /\ j # Main
      /\ th \in ThreadRecs /\ CalmRec(Main, th)
  BY RecIs DEF Threads, RoomInv
<1>1. /\ th.pc = "boot" /\ \A j \in Jobs : thread[j].pc = "idle"
      /\ state' = state /\ deferred' = deferred /\ job' = job /\ cap' = cap
  BY DEF Reconcile, AgreeInv, MainWork, Booting, wf, engine, jobs, bounds
<1>2. /\ \A t \in Threads : thread[t].pc \in {"idle", "boot"}
      /\ ~Later /\ ~Covered
  <2>1. \A t \in Threads : thread[t].pc \in {"idle", "boot"}
    BY <1>0, <1>1 DEF Threads
  <2>2. QED
    BY <1>1, <2>1 DEF Later, Covered
<1>3. (SomeReady' <=> SomeReady) /\ (Room' <=> Room)
  BY <1>1 DEF SomeReady, Room, Live, In
<1>4. CASE th.boot = {} /\ thread' = [thread EXCEPT ![Main] = Idle]
  <2>1. ~InBoot
    BY <1>4 DEF InBoot
  <2>2. Noted' /\ Looked'
    <3> HIDE DEF Room, SomeReady, Later, Covered, InBoot
    <3>1. Noted /\ Looked
      BY DEF RoomInv
    <3>2. QED
      BY <1>1, <1>2, <1>3, <2>1, <3>1 DEF Noted, Looked
  <2> HIDE DEF Idle
  <2>3. \A u \in Threads : CalmRec(u, thread[u])'
    BY <1>0, <1>4, OneThread, IdleFields DEF RoomInv, CalmRec
  <2>4. QED
    BY <2>2, <2>3 DEF RoomInv
<1>5. ASSUME NEW x \in th.boot, NEW r,
             r = CASE job[x] \in {"completed", "failed", "cancelled"} ->
                        [rest(x) EXCEPT !.pc = "mark", !.how = job[x]]
                   [] job[x] = "absent" /\ state[x] = "READY" ->
                        [rest(x) EXCEPT !.pc = "lock", !.how = "schedule"]
                   [] OTHER -> rest(x),
             thread' = [thread EXCEPT ![Main] = r]
      PROVE  RoomInv'
  <2>1. x \in Jobs /\ th.boot \subseteq Jobs
    BY <1>0 DEF ThreadRecs
  <2>2. state[x] = "READY" => job[x] = "absent"
    <3>1. ~Taken(x)
      BY <1>2 DEF Taken
    <3>2. QED
      BY <2>1, <3>1 DEF AgreeInv, Place
  <2>3. /\ r.boot = th.boot \ {x} /\ r.raised = th.raised
        /\ r.pc \in {"mark", "lock", "boot"} /\ r.how # "retry"
        /\ state[x] = "READY" => r.pc = "lock"
    <3>1. /\ rest(x).boot = th.boot \ {x} /\ rest(x).raised = th.raised
          /\ rest(x).pc = "boot" /\ rest(x).how = th.how
      BY <1>0, <1>1 DEF ThreadRecs
    <3>2. \A p, h : LET q == [rest(x) EXCEPT !.pc = p, !.how = h] IN
             q.boot = th.boot \ {x} /\ q.raised = th.raised /\ q.pc = p /\ q.how = h
      BY <1>0 DEF ThreadRecs
    <3>3. th.how # "retry"
      BY <1>0, <1>1 DEF CalmRec
    <3> HIDE DEF rest
    <3>4. CASE job[x] \in {"completed", "failed", "cancelled"}
      <4>1. r = [rest(x) EXCEPT !.pc = "mark", !.how = job[x]]
        BY <1>5, <3>4
      <4>2. QED
        BY <2>2, <3>2, <3>4, <4>1
    <3>5. CASE job[x] = "absent" /\ state[x] = "READY"
      <4>1. job[x] \notin {"completed", "failed", "cancelled"}
        BY <3>5
      <4>2. r = [rest(x) EXCEPT !.pc = "lock", !.how = "schedule"]
        BY <1>5, <3>5, <4>1
      <4>3. QED
        BY <3>2, <4>2
    <3>6. CASE ~(job[x] \in {"completed", "failed", "cancelled"}) /\ ~(job[x] = "absent" /\ state[x] = "READY")
      <4>1. r = rest(x)
        BY <1>5, <3>6
      <4>2. QED
        BY <2>2, <3>1, <3>3, <3>6, <4>1
    <3>7. QED
      BY <3>4, <3>5, <3>6
  <2>4. thread'[Main] = r /\ \A u \in Threads : u # Main => thread'[u] = thread[u]
    BY <1>0, <1>5, OneThread
  <2>5. InBoot => InBoot' \/ Later'
    <3>1. CASE state[x] = "READY"
      BY <1>0, <2>3, <2>4, <3>1 DEF Later
    <3>2. CASE state[x] # "READY"
      BY <1>1, <2>3, <2>4, <3>2 DEF InBoot
    <3>3. QED
      BY <3>1, <3>2
  <2>6. Later' => \E u \in Threads : thread'[u].pc = "lock"
    BY <1>0, <1>1, <2>4 DEF Later
  <2>7. Noted' /\ Looked'
    <3>1. Noted /\ Looked /\ ~\E t \in Threads : thread[t].pc \in {"lock", "submit", "running"}
      BY <1>2 DEF RoomInv
    <3>2. thread'[Main].pc \notin {"submit", "running"}
      BY <2>3, <2>4
    <3>3. (\E u \in Threads : thread'[u].pc = "lock")
            => \E u \in Threads : thread'[u].pc \in {"lock", "submit", "running"}
      OBVIOUS
    <3> HIDE DEF Room, SomeReady, Later, Covered, InBoot
    <3>4. QED
      BY <1>1, <1>2, <1>3, <2>5, <2>6, <3>1, <3>2, <3>3 DEF Noted, Looked
  <2>8. \A u \in Threads : CalmRec(u, thread[u])'
    BY <1>0, <2>3, <2>4 DEF RoomInv, CalmRec
  <2>9. QED
    BY <2>7, <2>8 DEF RoomInv
<1>6. QED
  BY <1>4, <1>5 DEF Reconcile

(* The ready jobs are among those that _reconcile is given.                *)
LEMMA RestartLooks ==
    ASSUME OrderInv, AgreeInv, crashes' = 0, restarts' <= 1, Restart
    PROVE  RoomInv'
<1> DEFINE r == IF status \in {"none", "COMPLETED"} THEN Idle
                ELSE [Idle EXCEPT !.pc = "boot", !.boot = In(state, {"RUNNING", "READY"})]
<1>0. Main \in Threads /\ Main \notin Jobs
  BY DEF Threads
<1>1. state' = state /\ thread' = [[t \in Threads |-> Idle] EXCEPT ![Main] = r]
  <2>1. saved.state = state /\ saved.status = status
    BY FirstRestart
  <2>2. QED
    BY <2>1 DEF Restart
<1>2. thread'[Main] = r /\ \A u \in Threads : u # Main => thread'[u] = Idle
  BY <1>0, <1>1
<1>3. /\ r.how = "none" /\ r.raised = FALSE /\ r.pc \in {"idle", "boot"}
      /\ status \notin {"none", "COMPLETED"} => r.boot = In(state, {"RUNNING", "READY"})
  BY DEF Idle
<1> HIDE DEF r, Idle
<1>4. SomeReady' => InBoot'
  <2>1. SomeReady => status \notin {"none", "COMPLETED"}
    BY DEF SomeReady, AgreeInv, StatusIs
  <2>2. QED
    BY <1>1, <1>2, <1>3, <2>1 DEF SomeReady, InBoot, In
<1>5. Noted' /\ Looked'
  BY <1>2, <1>3, <1>4 DEF Noted, Looked
<1>6. \A u \in Threads : CalmRec(u, thread[u])'
  BY <1>0, <1>2, <1>3, IdleFields DEF CalmRec
<1>7. QED
  BY <1>5, <1>6 DEF RoomInv

LEMMA RoomStutters == RoomInv /\ UNCHANGED vars => RoomInv'
<1> SUFFICES ASSUME RoomInv, UNCHANGED vars PROVE RoomInv'
  OBVIOUS
<1>1. state' = state /\ job' = job /\ thread' = thread /\ cap' = cap /\ deferred' = deferred
  BY DEF vars, wf, engine, jobs, bounds
<1>2. QED
  BY <1>1 DEF RoomInv, Noted, Looked, CalmRec, SomeReady, Room, Later, Covered, InBoot, Holds, Live, In

LEMMA RoomNext ==
    ASSUME Raisable = {}, OrderInv, AgreeInv, RoomInv, [Next]_vars, untold' = {}, crashes' = 0, restarts' <= 1
    PROVE  RoomInv'
<1>1. CASE UNCHANGED vars
  BY <1>1, RoomStutters
<1>2. CASE Command
  BY <1>2, SubmitLooks, RetryLooks, ReopenLooks DEF Command
<1>3. CASE Restart \/ Reconcile
  BY <1>3, RestartLooks, ReconcileLooks
<1>4. ASSUME NEW t \in Threads, Step(t) PROVE RoomInv'
  <2>1. ~Record(t)
    BY HonestIs DEF Record, HonestRec, RoomInv, CalmRec
  <2>2. CASE Mark(t) \/ UpdateReady(t) \/ Block(t) \/ Settle(t)
    BY <2>2, MarkLooks, UpdateReadyLooks, BlockLooks, SettleLooks
  <2>3. CASE Schedule(t) \/ RetryDeferred(t) \/ EndSchedule(t)
    BY <2>3, ScheduleLooks, RetryDeferredLooks, EndScheduleLooks
  <2>4. CASE Accept(t) \/ HoldBack(t) \/ Refuse(t) \/ MarkRunning(t)
    BY <2>4, AcceptLooks, HoldBackLooks, RefuseLooks, MarkRunningLooks
  <2>5. QED
    BY <1>4, <2>1, <2>2, <2>3, <2>4 DEF Step
<1>5. ASSUME NEW j \in Jobs, End(j) \/ Exhaust(j) PROVE RoomInv'
  BY <1>5, FinishLooks DEF End, Exhaust
<1>6. QED
  BY <1>1, <1>2, <1>3, <1>4, <1>5 DEF Next

LEMMA RoomInit == Init => RoomInv
<1> SUFFICES ASSUME Init PROVE RoomInv
  OBVIOUS
<1> HIDE DEF Idle
<1>1. /\ \A t \in Threads : thread[t] = Idle
      /\ \A j \in Jobs : state[j] = "none"
  BY DEF Init, Nothing, Threads
<1>2. QED
  BY <1>1, IdleFields DEF RoomInv, Noted, Looked, SomeReady, CalmRec

LEMMA RoomAtRest == OrderInv /\ AgreeInv /\ RoomInv => RoomIsUsed
<1> SUFFICES ASSUME OrderInv, AgreeInv, RoomInv, AtRest, In(state, {"READY"}) # {}
             PROVE  Cardinality(Live) >= cap
  BY DEF RoomIsUsed
<1> HIDE DEF Idle
<1>1. /\ Main \in Threads /\ Jobs \subseteq Threads /\ \A t \in Threads : thread[t] = Idle
  BY DEF Threads, AtRest, AgreeInv, Works
<1>2. ~Later /\ ~Covered /\ ~InBoot
  BY <1>1, IdleFields DEF Later, Covered, InBoot
<1>3. ~Room
  BY <1>2 DEF RoomInv, Looked, SomeReady, In
<1>4. Cardinality(Live) \in Nat /\ cap \in Nat
  BY LiveCount
<1>5. QED
  BY <1>3, <1>4 DEF Room

(* For every workflow, cap and number of retries, when no dispatch raises  *)
(* in the coordinator, and as long as the run is undisturbed: at rest a    *)
(* ready job waits only because the organization's cap is full. No end of  *)
(* a job is missed by schedule_ready_jobs and retry_deferred, although a   *)
(* callback looks at a list of ready jobs that others go on changing.      *)
THEOREM RoomStaysUsed ==
    ASSUME Raisable = {}
    PROVE  Spec => [](Undisturbed => RoomIsUsed)
<1> DEFINE Inv == OrderInv /\ (Undisturbed => AgreeInv /\ RoomInv)
<1>1. Init => Inv
  BY OrderInit, AgreeInit, RoomInit
<1>2. Inv /\ [Next]_vars => Inv'
  <2> SUFFICES ASSUME Inv, [Next]_vars PROVE Inv'
    OBVIOUS
  <2>1. OrderInv'
    BY OrderNext
  <2>2. ASSUME Undisturbed' PROVE AgreeInv' /\ RoomInv'
    <3>1. AgreeInv /\ RoomInv
      BY <2>2, Counters
    <3>2. QED
      BY <2>1, <2>2, <3>1, AgreeNext, RoomNext DEF Undisturbed
  <2>3. QED
    BY <2>1, <2>2
<1>3. Inv => (Undisturbed => RoomIsUsed)
  BY RoomAtRest
<1> HIDE DEF Inv
<1>4. QED
  BY <1>1, <1>2, <1>3, PTL DEF Spec
=============================================================================
