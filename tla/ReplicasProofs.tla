-------------------------- MODULE ReplicasProofs --------------------------
(* For any set of workers, number of replicas, outputs and faults: a       *)
(* verdict "agreed" was earned; nothing is stranded; and, unless a group   *)
(* is started while an older one is ending the job, a completed job, its   *)
(* verdict and its receipt are of one group.                               *)
EXTENDS Replicas, FiniteSetTheorems, TLAPS

USE ReplicasAssumption

\* The fields of a group and of its threads, and the types of those that matter.
GroupShape(G) ==
  /\ DOMAIN G = {"pc", "att", "th", "ok", "stale", "agree", "left", "first"}
  /\ DOMAIN G.th = Replicas
  /\ \A i \in Replicas : DOMAIN G.th[i] = {"pc", "node", "cut", "res", "id"}
  /\ G.att \in Nat /\ G.ok \in Seq(Replicas) /\ G.stale \in BOOLEAN /\ G.agree \in BOOLEAN
Receipts == [g : Groups, agree : BOOLEAN]

Shapes ==
  /\ DOMAIN job = {"st", "att", "node", "cancel", "verify", "ver", "verG", "resG"}
  /\ job.verify \in BOOLEAN /\ (job.verify => job.att \in Nat)
  /\ job.verify \/ (~asg.on /\ job.st # "running")
  /\ DOMAIN row = {"st", "ver", "verG", "resG"}
  /\ {job.resG, job.verG, row.resG, row.verG} \subseteq 0 .. MaxGroups
  /\ DOMAIN asg = {"on", "locked", "got"} /\ asg.on \in BOOLEAN /\ asg.got \in Seq(Nodes)
  /\ DOMAIN grp = Groups /\ \A g \in Groups : GroupShape(grp[g])
  /\ receipts \in Seq(Receipts)
  /\ crashes \in Nat /\ races \in Nat

\* Groups are numbered in the order of their dispatch.
InOrder == \E k \in 0 .. MaxGroups : Used = 1 .. k

\* The list of successes holds every replica that ended well, once.
Listed(G) ==
  /\ \A i \in Replicas : G.th[i].pc = "ok" <=> \E k \in 1 .. Len(G.ok) : G.ok[k] = i
  /\ \A k, l \in 1 .. Len(G.ok) : G.ok[k] = G.ok[l] => k = l

\* The group's threads were joined, and nothing changes what they found.
Over(G) == G.pc \notin {"none", "run"} /\ \A i \in Replicas : G.th[i].pc \in {"ok", "fail", "dead"}

\* Earned, of the group's record.
EarnedBy(G) ==
  LET good == {i \in Replicas : G.th[i].pc = "ok" /\ G.th[i].res # "error"}
  IN  Cardinality(good) >= 2 /\ \A i, j \in good : G.th[i].res = G.th[j].res
Proven(g) == g \in Groups /\ Over(grp[g]) /\ EarnedBy(grp[g])

EarnInv ==
  /\ Shapes /\ InOrder /\ \A g \in Groups : Listed(grp[g])
  /\ crashes = 0 =>
       /\ \A g \in Groups : grp[g].pc \notin {"none", "run"} => Over(grp[g])
       /\ \A g \in Groups : grp[g].agree => Proven(g)
       /\ job.ver = "agreed" => Proven(job.verG)
       /\ row.ver = "agreed" => Proven(row.verG)
       /\ \A k \in 1 .. Len(receipts) : receipts[k].agree => Proven(receipts[k].g)

-----------------------------------------------------------------------------
\* What the job or its row says, once completed by a group of G.
Tells(j, G, rs) ==
  j.st = "completed" /\ j.resG # 0 =>
    /\ j.verG = j.resG /\ j.ver # "none" /\ G[j.resG].pc \in {"persist", "done"}
    /\ \A k \in 1 .. Len(rs) : rs[k].g = j.resG /\ ~rs[k].agree => j.ver = "disputed"

\* A group signs nothing before it has compared.
Unheard == \A g \in Groups : grp[g].pc \in {"none", "run", "failing", "compare"} =>
              \A k \in 1 .. Len(receipts) : receipts[k].g # g

\* The attempt numbers tell groups apart, and who decides is of the last one.
Numbered ==
  /\ \A g \in Groups : grp[g].pc # "none" => grp[g].att <= job.att
  /\ \A g, h \in Groups : grp[g].pc # "none" /\ grp[h].pc # "none" /\ grp[g].att = grp[h].att => g = h
  /\ \A g \in Groups : Deciding(g) => grp[g].att = job.att
  /\ \A g \in Groups : grp[g].pc \in {"failing", "final"} => ~grp[g].stale

\* The verdict is of the group that decides, or of the one that completed the job.
OneVoice ==
  /\ job.st = "completed" => /\ job.resG # 0 /\ grp[job.resG].att = job.att
  /\ job.ver = "none" => job.verG = 0
  /\ job.ver # "none" => \/ job.st = "completed"
                         \/ job.verG # 0 /\ Deciding(job.verG) /\ grp[job.verG].pc \in {"sign", "final"}
  /\ primary \in {0, job.verG}
  /\ \A g \in Groups : Deciding(g) /\ grp[g].pc \in {"sign", "final"} =>
        /\ job.verG = g /\ job.ver # "none"
        /\ grp[g].pc = "sign" => job.ver = IF grp[g].agree THEN "agreed" ELSE "disputed"
        /\ \A k \in 1 .. Len(receipts) : receipts[k].g = g /\ ~receipts[k].agree => job.ver = "disputed"

\* A restart ends every group.
Settled == \A g \in Groups : grp[g].pc \in {"none", "done"}

\* After a restart no thread is left, nor a worker's word in the row.
Reloaded ==
  ~job.verify => row.st # "success" /\ \A g \in Groups, i \in Replicas : grp[g].th[i].pc = "none"

StoryInv ==
  /\ Tells(job, grp, receipts) /\ Tells(row, grp, receipts) /\ Unheard
  /\ (job.verify => Numbered /\ OneVoice) /\ (~job.verify => Settled)
-----------------------------------------------------------------------------
\* A thread that has its worker, and the workers they have.
AtWork == {"send", "wait", "answered", "err", "free"}
Has(n) == \E g \in Groups, i \in Replicas : grp[g].th[i].node = n /\ grp[g].th[i].pc \in AtWork

\* The group will still end the job.
Carries(g) == /\ grp[g].pc \in {"run", "failing", "compare", "sign", "final"}
              /\ grp[g].att = job.att /\ ~grp[g].stale

Busy    == \A n \in Nodes : reg[n] = "busy" => Claimed(n) \/ Has(n)
Ended   == \A g \in Groups : grp[g].pc # "run" => \A i \in Replicas : grp[g].th[i].pc \notin AtWork
Carried == job.st = "running" => \E g \in Groups : Carries(g)
Waiting == job.st = "pending" => queued \/ asg.on

StrandInv == /\ DOMAIN reg = Nodes /\ (~asg.on => asg.got = <<>>)
             /\ Busy /\ Ended /\ Carried /\ Waiting
-----------------------------------------------------------------------------
(* Sets with two members.                                                  *)

LEMMA TwoOf ==
  ASSUME NEW S, IsFiniteSet(S), Cardinality(S) >= 2
  PROVE  \E a, b \in S : a # b
<1>1. S # {}
  BY FS_EmptySet
<1>2. PICK a \in S : TRUE
  BY <1>1
<1>3. S # {a}
  BY FS_Singleton
<1>4. QED
  BY <1>2, <1>3

LEMMA TwoIn ==
  ASSUME NEW S, IsFiniteSet(S), NEW a \in S, NEW b \in S, a # b
  PROVE  Cardinality(S) >= 2
<1>1. IsFiniteSet(S \ {a}) /\ Cardinality(S \ {a}) = Cardinality(S) - 1
  BY FS_RemoveElement
<1>2. Cardinality(S \ {a}) # 0
  BY <1>1, FS_EmptySet
<1>3. Cardinality(S) \in Nat /\ Cardinality(S \ {a}) \in Nat
  BY <1>1, FS_CardinalityType
<1>4. QED
  BY <1>1, <1>2, <1>3

(* The next group has never been used.                                     *)
LEMMA NextGroup ==
  ASSUME InOrder, Used # Groups
  PROVE  \E k \in 0 .. MaxGroups : /\ Used = 1 .. k /\ Cardinality(Used) + 1 = k + 1
                                   /\ k + 1 \in Groups /\ grp[k + 1].pc = "none"
<1>1. PICK k \in 0 .. MaxGroups : Used = 1 .. k
  BY DEF InOrder
<1>2. Cardinality(1 .. k) = k
  <2>1. 1 \in Int /\ k \in Int /\ k \in Nat
    OBVIOUS
  <2>2. Cardinality(1 .. k) = IF 1 > k THEN 0 ELSE k - 1 + 1
    BY <2>1, FS_Interval
  <2>3. QED
    BY <2>1, <2>2
<1>3. k + 1 \in Groups /\ k + 1 \notin 1 .. k
  BY <1>1 DEF Groups
<1>4. grp[k + 1].pc = "none"
  BY <1>1, <1>3 DEF Used
<1>5. QED
  BY <1>1, <1>2, <1>3, <1>4

-----------------------------------------------------------------------------
(* compare_results says "agreed" only of outputs that agree.               *)
LEMMA AgreeEarns ==
  ASSUME Shapes, NEW g \in Groups, Listed(grp[g]),
         Agree([k \in Good(g) |-> grp[g].th[grp[g].ok[k]].res])
  PROVE  EarnedBy(grp[g])
<1> DEFINE G == grp[g]
           f == [k \in Good(g) |-> G.th[G.ok[k]].res]
           R == {f[k] : k \in Good(g)}
           good == {i \in Replicas : G.th[i].pc = "ok" /\ G.th[i].res # "error"}
<1>1. /\ G.ok \in Seq(Replicas)
      /\ \A k \in 1 .. Len(G.ok) : G.ok[k] \in Replicas
  BY DEF Shapes, GroupShape
<1>2. Good(g) = {k \in 1 .. Len(G.ok) : G.th[G.ok[k]].res # "error"}
  BY SMTT(30), <1>1 DEF Good
<1>3. IsFiniteSet(Good(g)) /\ IsFiniteSet(R) /\ IsFiniteSet(good)
  <2>1. IsFiniteSet(1 .. Len(G.ok)) /\ IsFiniteSet(Replicas)
    <3>1. Len(G.ok) \in Int /\ N \in Int /\ 1 \in Int
      BY <1>1
    <3>2. QED
      BY <3>1, FS_Interval DEF Replicas
  <2>2. IsFiniteSet(Good(g)) /\ IsFiniteSet(good)
    <3>1. Good(g) \subseteq 1 .. Len(G.ok) /\ good \subseteq Replicas
      BY <1>2
    <3> HIDE DEF good, G
    <3>2. QED
      BY <2>1, <3>1, FS_Subset
  <2>3. IsFiniteSet(R)
    <3>1. f \in Surjection(Good(g), R)
      BY DEF Surjection
    <3> HIDE DEF f, R
    <3>2. QED
      BY <2>2, <3>1, FS_Surjection
  <2>4. QED
    BY <2>2, <2>3
<1>4. Cardinality(Good(g)) >= 2 /\ Cardinality(R) <= 1
  BY DEF Agree
<1>5. \A k \in Good(g) : G.ok[k] \in good
  BY <1>1, <1>2 DEF Listed
<1>6. \A i \in good : \E k \in Good(g) : G.ok[k] = i
  BY <1>2 DEF Listed
<1>7. Cardinality(good) >= 2
  <2>1. PICK k, l \in Good(g) : k # l
    BY <1>3, <1>4, TwoOf
  <2>2. G.ok[k] # G.ok[l] /\ G.ok[k] \in good /\ G.ok[l] \in good
    BY <1>2, <1>5, <2>1 DEF Listed
  <2> HIDE DEF good, G
  <2>3. QED
    BY <1>3, <2>2, TwoIn
<1>8. ASSUME NEW i \in good, NEW j \in good PROVE G.th[i].res = G.th[j].res
  <2>1. PICK k, l \in Good(g) : G.ok[k] = i /\ G.ok[l] = j
    BY <1>6
  <2>2. f[k] \in R /\ f[l] \in R /\ f[k] = G.th[i].res /\ f[l] = G.th[j].res
    BY <2>1
  <2> HIDE DEF R, f, good, G
  <2>3. ~(Cardinality(R) >= 2)
    BY <1>3, <1>4, FS_CardinalityType
  <2>4. f[k] = f[l]
    BY <1>3, <2>2, <2>3, TwoIn
  <2>5. QED
    BY <2>2, <2>4
<1>9. QED
  BY <1>7, <1>8 DEF EarnedBy

(* What the threads found is all that matters.                             *)
LEMMA EarnedSame ==
  ASSUME NEW G, NEW H, \A i \in Replicas : G.th[i].pc = H.th[i].pc /\ G.th[i].res = H.th[i].res
  PROVE  EarnedBy(G) => EarnedBy(H)
<1> DEFINE S(F) == {i \in Replicas : F.th[i].pc = "ok" /\ F.th[i].res # "error"}
<1>2. SUFFICES ASSUME EarnedBy(G) PROVE EarnedBy(H)
  OBVIOUS
<1>3. Cardinality(S(G)) >= 2 /\ \A i, j \in S(G) : G.th[i].res = G.th[j].res
  BY <1>2 DEF EarnedBy
<1>4. S(H) = S(G) /\ S(G) \subseteq Replicas
  OBVIOUS
<1> HIDE DEF S
<1>5. Cardinality(S(H)) >= 2 /\ \A i, j \in S(H) : H.th[i].res = H.th[j].res
  BY <1>3, <1>4
<1>6. QED
  BY <1>5 DEF EarnedBy, S

(* Group g becomes R, and the others stay as they are.                     *)
Becomes(g, R) == /\ DOMAIN grp' = Groups /\ grp'[g] = R /\ \A h \in Groups \ {g} : grp'[h] = grp[h]

(* One group changes, and what was proven stays so.                        *)
LEMMA GroupEarn ==
  ASSUME EarnInv, Shapes', NEW g \in Groups, NEW R, Becomes(g, R),
         Listed(R), R.pc = "none" <=> grp[g].pc = "none", crashes' = crashes,
         crashes = 0 =>
           /\ Over(grp[g]) => Over(R) /\ (EarnedBy(grp[g]) => EarnedBy(R))
           /\ R.pc \notin {"none", "run"} => Over(R)
           /\ R.agree => Over(R) /\ EarnedBy(R)
           /\ job'.ver = "agreed" => Proven(job'.verG) \/ (job'.verG = g /\ Over(R) /\ EarnedBy(R))
           /\ row'.ver = "agreed" => Proven(row'.verG)
           /\ \A k \in 1 .. Len(receipts') : receipts'[k].agree => Proven(receipts'[k].g)
  PROVE  EarnInv'
<1>1. grp'[g] = R /\ \A h \in Groups \ {g} : grp'[h] = grp[h]
  BY DEF Becomes
<1>2. \A h \in Groups : Listed(grp'[h])
  BY <1>1 DEF EarnInv
<1>3. Used' = Used
  BY <1>1 DEF Used
<1>4. InOrder'
  BY <1>3 DEF EarnInv, InOrder
<1>5. ASSUME crashes = 0, NEW h, Proven(h) PROVE h \in Groups /\ Over(grp'[h]) /\ EarnedBy(grp'[h])
  BY <1>1, <1>5 DEF Proven
<1>6. ASSUME crashes = 0 PROVE
       /\ \A h \in Groups : grp'[h].pc \notin {"none", "run"} => Over(grp'[h])
       /\ \A h \in Groups : grp'[h].agree => Over(grp'[h]) /\ EarnedBy(grp'[h])
  BY <1>1, <1>5, <1>6 DEF EarnInv, Proven
<1>7. ASSUME crashes = 0 PROVE
       /\ job'.ver = "agreed" => job'.verG \in Groups /\ Over(grp'[job'.verG]) /\ EarnedBy(grp'[job'.verG])
       /\ row'.ver = "agreed" => row'.verG \in Groups /\ Over(grp'[row'.verG]) /\ EarnedBy(grp'[row'.verG])
       /\ \A k \in 1 .. Len(receipts') : receipts'[k].agree =>
             /\ receipts'[k].g \in Groups /\ Over(grp'[receipts'[k].g]) /\ EarnedBy(grp'[receipts'[k].g])
  BY <1>1, <1>5, <1>7
<1>8. QED
  BY <1>2, <1>4, <1>6, <1>7 DEF EarnInv, Proven

(* No group changes what its threads found.                                *)
LEMMA QuietEarn ==
  ASSUME EarnInv, Shapes', crashes' = crashes, receipts' = receipts,
         \A g \in Groups : /\ grp'[g].pc = grp[g].pc /\ grp'[g].agree = grp[g].agree
                           /\ grp'[g].ok = grp[g].ok
                           /\ \A i \in Replicas : /\ grp'[g].th[i].pc = grp[g].th[i].pc
                                                  /\ grp'[g].th[i].res = grp[g].th[i].res,
         crashes = 0 => /\ job'.ver = "agreed" => Proven(job'.verG)
                        /\ row'.ver = "agreed" => Proven(row'.verG)
  PROVE  EarnInv'
<1>1. Used' = Used
  BY DEF Used
<1>2. InOrder'
  BY <1>1 DEF EarnInv, InOrder
<1>3. \A g \in Groups : Listed(grp'[g])
  BY DEF EarnInv, Listed
<1>4. \A g \in Groups : Over(grp[g]) => Over(grp'[g])
  BY DEF Over
<1>5. \A g \in Groups : EarnedBy(grp[g]) => EarnedBy(grp'[g])
  BY EarnedSame
<1>6. \A h : Proven(h) => h \in Groups /\ Over(grp'[h]) /\ EarnedBy(grp'[h])
  BY <1>4, <1>5 DEF Proven
<1>7. QED
  BY <1>2, <1>3, <1>4, <1>6 DEF EarnInv, Proven

-----------------------------------------------------------------------------
(* The thread of one replica. A thread that is under way takes a step, and *)
(* does not end well by it.                                                *)
LEMMA ThreadEarn ==
  ASSUME EarnInv, Shapes', NEW g \in Groups, NEW i \in Replicas, NEW R, Becomes(g, R),
         grp[g].th[i].pc \notin {"ok", "fail", "dead"}, R.th[i].pc # "ok",
         \A l \in Replicas \ {i} : R.th[l] = grp[g].th[l],
         R.pc = grp[g].pc, R.agree = grp[g].agree, R.ok = grp[g].ok,
         job' = job, receipts' = receipts, crashes' = crashes, row' = row \/ row'.ver = "none"
  PROVE  EarnInv'
<1>1. Listed(R)
  BY DEF EarnInv, Listed
<1>2. ~Over(grp[g])
  BY DEF Over
<1>3. crashes = 0 => grp[g].pc \in {"none", "run"} /\ ~grp[g].agree
  BY <1>2 DEF EarnInv, Proven
<1>4. crashes = 0 => /\ job'.ver = "agreed" => Proven(job'.verG)
                     /\ row'.ver = "agreed" => Proven(row'.verG)
                     /\ \A k \in 1 .. Len(receipts') : receipts'[k].agree => Proven(receipts'[k].g)
  BY DEF EarnInv
<1>5. QED
  BY <1>1, <1>2, <1>3, <1>4, GroupEarn

(* What a step of one thread leaves alone.                                 *)
StepOf(g, i) ==
  /\ GroupShape(grp'[g]) /\ Becomes(g, grp'[g])
  /\ \A l \in Replicas \ {i} : grp'[g].th[l] = grp[g].th[l]
  /\ grp'[g].pc = grp[g].pc /\ grp'[g].agree = grp[g].agree /\ grp'[g].stale = grp[g].stale
  /\ grp'[g].att = grp[g].att

LEMMA StepIs ==
  ASSUME Shapes, NEW g \in Groups, NEW i \in Replicas, NEW pc, Step(g, i, pc)
  PROVE  StepOf(g, i) /\ grp'[g].ok = grp[g].ok /\ grp'[g].th[i].pc = pc
  BY SMTT(30) DEF Shapes, GroupShape, Step, StepOf, Becomes

LEMMA StepOkIs ==
  ASSUME Shapes, NEW g \in Groups, NEW i \in Replicas, NEW pc, NEW q \in Seq(Replicas),
         grp' = [grp EXCEPT ![g].th[i].pc = pc, ![g].ok = q]
  PROVE  StepOf(g, i) /\ grp'[g].ok = q /\ grp'[g].th[i].pc = pc
  BY SMTT(30) DEF Shapes, GroupShape, StepOf, Becomes

(* The shape of the state after a step of one group.                       *)
JobFits == /\ DOMAIN job' = {"st", "att", "node", "cancel", "verify", "ver", "verG", "resG"}
           /\ job'.verify = job.verify /\ job'.att = job.att /\ (job'.st = job.st \/ job'.st # "running")
           /\ job'.resG \in 0 .. MaxGroups /\ job'.verG \in 0 .. MaxGroups
RowFits == /\ DOMAIN row' = {"st", "ver", "verG", "resG"}
           /\ row'.resG \in 0 .. MaxGroups /\ row'.verG \in 0 .. MaxGroups

LEMMA GroupShapes ==
  ASSUME Shapes, NEW g \in Groups, NEW R, Becomes(g, R), GroupShape(R),
         job' = job \/ JobFits, row' = row \/ RowFits,
         receipts' \in Seq(Receipts), asg' = asg, crashes' = crashes, races' = races
  PROVE  Shapes'
<1>1. DOMAIN grp' = Groups /\ \A h \in Groups : GroupShape(grp'[h])
  BY DEF Shapes, Becomes
<1>2. QED
  BY <1>1 DEF Shapes, JobFits, RowFits

LEMMA OneThreadEarn ==
  ASSUME EarnInv, NEW g \in Groups, NEW i \in Replicas, StepOf(g, i),
         grp[g].th[i].pc \notin {"ok", "fail", "dead"}, grp'[g].th[i].pc # "ok", grp'[g].ok = grp[g].ok,
         job' = job, asg' = asg, receipts' = receipts, crashes' = crashes, races' = races,
         row' = row \/ (RowFits /\ row'.ver = "none")
  PROVE  EarnInv'
<1> DEFINE R == grp'[g]
<1>1. Shapes /\ receipts' \in Seq(Receipts) /\ Becomes(g, R) /\ GroupShape(R)
  BY DEF EarnInv, Shapes, StepOf
<1>2. /\ R.th[i].pc # "ok" /\ \A l \in Replicas \ {i} : R.th[l] = grp[g].th[l]
      /\ R.pc = grp[g].pc /\ R.agree = grp[g].agree /\ R.ok = grp[g].ok
  BY DEF StepOf
<1> HIDE DEF R
<1>3. Shapes'
  BY <1>1, GroupShapes
<1>4. QED
  BY <1>1, <1>2, <1>3, ThreadEarn

LEMMA SendEarn ==
  ASSUME EarnInv, NEW g \in Groups, NEW i \in Replicas,
         Send(g, i) \/ Answer(g, i) \/ NoAnswer(g, i) \/ FailOne(g, i)
  PROVE  EarnInv'
<1>1. /\ grp[g].th[i].pc \notin {"ok", "fail", "dead"} /\ job' = job /\ asg' = asg
      /\ receipts' = receipts /\ crashes' = crashes /\ races' = races /\ row' = row
  BY DEF Send, Answer, NoAnswer, FailOne
<1>2. StepOf(g, i) /\ grp'[g].ok = grp[g].ok /\ grp'[g].th[i].pc \in {"wait", "err", "answered", "fail"}
  <2>1. Shapes
    BY DEF EarnInv
  <2>2. CASE Step(g, i, "err")
    BY <2>1, <2>2, StepIs
  <2>3. CASE Step(g, i, "fail")
    BY <2>1, <2>3, StepIs
  <2>4. ASSUME NEW x, grp' = [grp EXCEPT ![g].th[i].pc = "wait", ![g].th[i].id = x] PROVE
          StepOf(g, i) /\ grp'[g].ok = grp[g].ok /\ grp'[g].th[i].pc \in {"wait", "err", "answered", "fail"}
    BY SMTT(30), <2>1, <2>4 DEF Shapes, GroupShape, StepOf, Becomes
  <2>5. ASSUME NEW x, grp' = [grp EXCEPT ![g].th[i].pc = "answered", ![g].th[i].res = x] PROVE
          StepOf(g, i) /\ grp'[g].ok = grp[g].ok /\ grp'[g].th[i].pc \in {"wait", "err", "answered", "fail"}
    BY SMTT(30), <2>1, <2>5 DEF Shapes, GroupShape, StepOf, Becomes
  <2>6. QED
    BY <2>2, <2>3, <2>4, <2>5 DEF Send, Answer, NoAnswer, FailOne
<1>3. QED
  BY <1>1, <1>2, OneThreadEarn

LEMMA StoreEarn ==
  ASSUME EarnInv, NEW g \in Groups, NEW i \in Replicas, Store(g, i)
  PROVE  EarnInv'
<1>1. /\ grp[g].th[i].pc \notin {"ok", "fail", "dead"} /\ job' = job /\ asg' = asg
      /\ receipts' = receipts /\ crashes' = crashes /\ races' = races
  BY DEF Store
<1>2. StepOf(g, i) /\ grp'[g].ok = grp[g].ok /\ grp'[g].th[i].pc = "free"
  BY StepIs DEF Store, EarnInv
<1>3. row' = row \/ (RowFits /\ row'.ver = "none")
  <2>1. DOMAIN row = {"st", "ver", "verG", "resG"} /\ g \in 0 .. MaxGroups /\ 0 \in 0 .. MaxGroups
    BY DEF EarnInv, Shapes, Groups
  <2>2. row' = row \/ \E x : row' = [row EXCEPT !.st = x, !.ver = "none", !.verG = 0, !.resG = g]
    BY DEF Store
  <2>3. QED
    BY <2>1, <2>2 DEF RowFits
<1>4. QED
  BY <1>1, <1>2, <1>3, OneThreadEarn

LEMMA FreeOneEarn ==
  ASSUME EarnInv, NEW g \in Groups, NEW i \in Replicas, FreeOne(g, i)
  PROVE  EarnInv'
<1> DEFINE R == grp'[g]
<1>1. /\ grp[g].th[i].pc = "free" /\ job' = job /\ asg' = asg
      /\ receipts' = receipts /\ crashes' = crashes /\ races' = races /\ row' = row
  BY DEF FreeOne
<1>2. CASE Step(g, i, "dead")
  <2>1. StepOf(g, i) /\ grp'[g].ok = grp[g].ok /\ grp'[g].th[i].pc = "dead"
    BY <1>2, StepIs DEF EarnInv
  <2>2. QED
    BY <1>1, <2>1, OneThreadEarn
<1>3. CASE grp' = [grp EXCEPT ![g].th[i].pc = "ok", ![g].ok = Append(@, i)]
  <2>1. StepOf(g, i) /\ R.ok = Append(grp[g].ok, i) /\ R.th[i].pc = "ok"
    <3> DEFINE q == Append(grp[g].ok, i)
    <3>1. Shapes /\ q \in Seq(Replicas)
      BY DEF EarnInv, Shapes, GroupShape
    <3>2. grp' = [grp EXCEPT ![g].th[i].pc = "ok", ![g].ok = q]
      BY <1>3, <3>1 DEF Shapes, GroupShape
    <3> HIDE DEF q
    <3>3. StepOf(g, i) /\ R.ok = q /\ R.th[i].pc = "ok"
      BY <3>1, <3>2, StepOkIs
    <3>4. QED
      BY <3>3 DEF q
  <2>2. /\ Shapes /\ receipts' \in Seq(Receipts) /\ Becomes(g, R) /\ GroupShape(R)
        /\ \A l \in Replicas \ {i} : R.th[l] = grp[g].th[l]
        /\ R.pc = grp[g].pc /\ R.agree = grp[g].agree
    BY <1>1, <2>1 DEF EarnInv, Shapes, StepOf
  <2> HIDE DEF R
  <2>3. Shapes'
    BY <1>1, <2>2, GroupShapes
  <2>4. Listed(R)
    <3> DEFINE q == grp[g].ok
    <3>1. q \in Seq(Replicas) /\ Listed(grp[g]) /\ R.ok = Append(q, i)
      BY <2>1, <2>2 DEF Shapes, GroupShape, EarnInv
    <3>2. \A k \in 1 .. Len(q) : q[k] # i
      BY <1>1, <3>1 DEF Listed
    <3>3. /\ Len(q) \in Nat /\ Len(R.ok) = Len(q) + 1 /\ R.ok[Len(q) + 1] = i
          /\ \A k \in 1 .. Len(q) : R.ok[k] = q[k]
      BY <3>1
    <3>4. \A k \in 1 .. Len(R.ok) : k \in 1 .. Len(q) \/ k = Len(q) + 1
      BY <3>3
    <3>5. \A l \in Replicas : R.th[l].pc = "ok" <=> \E k \in 1 .. Len(R.ok) : R.ok[k] = l
      <4>1. \A l \in Replicas \ {i} : R.th[l].pc = "ok" <=> \E k \in 1 .. Len(q) : q[k] = l
        BY <2>2, <3>1 DEF Listed
      <4>2. Len(q) + 1 \in 1 .. Len(R.ok) /\ \A k \in 1 .. Len(q) : k \in 1 .. Len(R.ok)
        BY <3>3
      <4> HIDE DEF q
      <4>3. QED
        BY <2>1, <3>3, <3>4, <4>1, <4>2
    <3>6. \A k, l \in 1 .. Len(R.ok) : R.ok[k] = R.ok[l] => k = l
      <4>1. \A k, l \in 1 .. Len(q) : q[k] = q[l] => k = l
        BY <3>1 DEF Listed
      <4> HIDE DEF q
      <4>2. QED
        BY <3>2, <3>3, <3>4, <4>1
    <3>7. QED
      BY <3>5, <3>6 DEF Listed
  <2>5. ~Over(grp[g])
    BY <1>1 DEF Over
  <2>6. crashes = 0 => grp[g].pc \in {"none", "run"} /\ ~grp[g].agree
    BY <2>5 DEF EarnInv, Proven
  <2>7. crashes = 0 => /\ job'.ver = "agreed" => Proven(job'.verG)
                       /\ row'.ver = "agreed" => Proven(row'.verG)
                       /\ \A k \in 1 .. Len(receipts') : receipts'[k].agree => Proven(receipts'[k].g)
    BY <1>1 DEF EarnInv
  <2>8. QED
    BY <1>1, <2>2, <2>3, <2>4, <2>5, <2>6, <2>7, GroupEarn
<1>4. QED
  BY <1>2, <1>3 DEF FreeOne
-----------------------------------------------------------------------------
(* The group after the join: its threads stay as they are.                 *)
GroupStep(g) ==
  /\ GroupShape(grp'[g]) /\ Becomes(g, grp'[g])
  /\ grp'[g].th = grp[g].th /\ grp'[g].ok = grp[g].ok /\ grp'[g].att = grp[g].att

LEMMA AfterEarn ==
  ASSUME EarnInv, NEW g \in Groups, GroupStep(g), grp[g].pc # "none", grp'[g].pc \notin {"none", "run"},
         \/ grp[g].pc # "run"
         \/ \A i \in Replicas : grp[g].th[i].pc \in {"ok", "fail", "dead"},
         grp'[g].agree => grp[g].agree \/ EarnedBy(grp[g]),
         job' = job \/ JobFits, row' = row \/ RowFits,
         job'.ver = "agreed" => \/ job'.ver = job.ver /\ job'.verG = job.verG
                                \/ job'.verG = g /\ EarnedBy(grp[g]),
         row'.ver = "agreed" => \/ row'.ver = row.ver /\ row'.verG = row.verG
                                \/ row'.ver = job.ver /\ row'.verG = job.verG,
         receipts' = receipts \/ receipts' = Append(receipts, [g |-> g, agree |-> grp[g].agree]),
         asg' = asg, crashes' = crashes, races' = races
  PROVE  EarnInv'
<1> DEFINE R == grp'[g]
<1>1. /\ Shapes /\ Becomes(g, R) /\ GroupShape(R) /\ R.th = grp[g].th /\ R.ok = grp[g].ok
      /\ grp[g].agree \in BOOLEAN
  BY DEF EarnInv, Shapes, GroupStep, GroupShape
<1>2. R.pc \notin {"none", "run"} /\ (R.agree => grp[g].agree \/ EarnedBy(grp[g]))
  OBVIOUS
<1> HIDE DEF R
<1>3. receipts \in Seq(Receipts) /\ [g |-> g, agree |-> grp[g].agree] \in Receipts
  BY <1>1 DEF Shapes, Receipts
<1>4. receipts' \in Seq(Receipts)
  BY <1>3
<1>5. Shapes'
  BY <1>1, <1>4, GroupShapes
<1>6. Listed(R)
  BY <1>1 DEF EarnInv, Listed
<1>7. crashes = 0 => \A i \in Replicas : grp[g].th[i].pc \in {"ok", "fail", "dead"}
  BY DEF EarnInv, Over
<1>8. EarnedBy(grp[g]) => EarnedBy(R)
  BY <1>1, EarnedSame
<1>9. crashes = 0 => Over(R)
  BY <1>1, <1>2, <1>7 DEF Over
<1>10. crashes = 0 /\ R.agree => EarnedBy(R)
  BY <1>2, <1>8 DEF EarnInv, Proven
<1>11. crashes = 0 => /\ job'.ver = "agreed" => Proven(job'.verG) \/ (job'.verG = g /\ Over(R) /\ EarnedBy(R))
                      /\ row'.ver = "agreed" => Proven(row'.verG)
  BY <1>8, <1>9 DEF EarnInv
<1>12. crashes = 0 => \A k \in 1 .. Len(receipts') : receipts'[k].agree => Proven(receipts'[k].g)
  <2>1. CASE receipts' = receipts
    BY <2>1 DEF EarnInv
  <2>2. CASE receipts' = Append(receipts, [g |-> g, agree |-> grp[g].agree])
    <3>1. ASSUME crashes = 0, NEW k \in 1 .. Len(receipts'), receipts'[k].agree PROVE Proven(receipts'[k].g)
      <4>1. \/ k \in 1 .. Len(receipts) /\ receipts'[k] = receipts[k]
            \/ receipts'[k] = [g |-> g, agree |-> grp[g].agree]
        BY <1>3, <2>2
      <4>2. QED
        BY <3>1, <4>1 DEF EarnInv
    <3>2. QED
      BY <3>1
  <2>3. QED
    BY <2>1, <2>2
<1>13. QED
  BY <1>1, <1>2, <1>5, <1>6, <1>9, <1>10, <1>11, <1>12, <1>8, GroupEarn

(* What each of its steps does to the group.                               *)
LEMMA JoinIs ==
  ASSUME Shapes, NEW g \in Groups, Join(g)
  PROVE  /\ GroupStep(g) /\ grp'[g].agree = grp[g].agree /\ grp'[g].stale = (job.att # grp[g].att)
         /\ grp'[g].pc = IF Good(g) # {} THEN "compare" ELSE IF job.att # grp[g].att THEN "done" ELSE "failing"
  BY SMTT(30) DEF Join, Shapes, GroupShape, GroupStep, Becomes

LEMMA PcIs ==
  ASSUME Shapes, NEW g \in Groups, NEW pc, grp' = [grp EXCEPT ![g].pc = pc]
  PROVE  /\ GroupStep(g) /\ grp'[g].agree = grp[g].agree /\ grp'[g].stale = grp[g].stale
         /\ grp'[g].pc = pc
  BY DEF Shapes, GroupShape, GroupStep, Becomes

LEMMA ComparedIs ==
  ASSUME Shapes, NEW g \in Groups, NEW a \in BOOLEAN, NEW l,
         grp' = [grp EXCEPT ![g].pc = "sign", ![g].agree = a, ![g].left = l]
  PROVE  GroupStep(g) /\ grp'[g].agree = a /\ grp'[g].stale = grp[g].stale /\ grp'[g].pc = "sign"
  BY SMTT(30) DEF Shapes, GroupShape, GroupStep, Becomes

LEMMA SignIs ==
  ASSUME Shapes, NEW g \in Groups, Sign(g)
  PROVE  /\ GroupStep(g) /\ grp'[g].agree = grp[g].agree /\ grp'[g].stale = grp[g].stale
         /\ grp'[g].pc = grp[g].pc
<1>1. \/ \E l : grp' = [grp EXCEPT ![g].left = l, ![g].first = FALSE]
      \/ \E l : grp' = [grp EXCEPT ![g].left = l]
  BY DEF Sign
<1>2. ASSUME NEW l, grp' = [grp EXCEPT ![g].left = l, ![g].first = FALSE]
      PROVE  /\ GroupStep(g) /\ grp'[g].agree = grp[g].agree /\ grp'[g].stale = grp[g].stale
             /\ grp'[g].pc = grp[g].pc
  BY SMTT(30), <1>2 DEF Shapes, GroupShape, GroupStep, Becomes
<1>3. ASSUME NEW l, grp' = [grp EXCEPT ![g].left = l]
      PROVE  /\ GroupStep(g) /\ grp'[g].agree = grp[g].agree /\ grp'[g].stale = grp[g].stale
             /\ grp'[g].pc = grp[g].pc
  BY <1>3 DEF Shapes, GroupShape, GroupStep, Becomes
<1>4. QED
  BY <1>1, <1>2, <1>3

LEMMA JoinEarn ==
  ASSUME EarnInv, NEW g \in Groups, Join(g)
  PROVE  EarnInv'
<1>1. /\ GroupStep(g) /\ grp'[g].agree = grp[g].agree /\ grp'[g].pc \notin {"none", "run"}
  BY JoinIs DEF EarnInv
<1>2. /\ grp[g].pc = "run" /\ \A i \in Replicas : grp[g].th[i].pc \in {"ok", "fail", "dead"}
      /\ job' = job /\ row' = row /\ receipts' = receipts /\ asg' = asg /\ crashes' = crashes /\ races' = races
  BY DEF Join, Joined
<1>3. QED
  BY <1>1, <1>2, AfterEarn

LEMMA FailGroupEarn ==
  ASSUME EarnInv, NEW g \in Groups, FailGroup(g) \/ Complete(g)
  PROVE  EarnInv'
<1>1. grp' = [grp EXCEPT ![g].pc = "persist"]
  BY DEF FailGroup, Complete
<1>2. GroupStep(g) /\ grp'[g].agree = grp[g].agree /\ grp'[g].pc = "persist"
  BY <1>1, PcIs DEF EarnInv
<1>3. JobFits /\ job'.ver = job.ver /\ job'.verG = job.verG
  <2>1. /\ DOMAIN job = {"st", "att", "node", "cancel", "verify", "ver", "verG", "resG"}
        /\ job.verG \in 0 .. MaxGroups /\ g \in 0 .. MaxGroups
    BY DEF EarnInv, Shapes, Groups
  <2>2. \/ \E x \in {"cancelled", "failed"} : job' = [job EXCEPT !.st = x, !.resG = g]
        \/ \E x : job' = [job EXCEPT !.st = "completed", !.node = x, !.resG = g]
    BY DEF FailGroup, Complete
  <2>3. QED
    BY <2>1, <2>2 DEF JobFits
<1>4. /\ grp[g].pc \notin {"none", "run"}
      /\ row' = row /\ receipts' = receipts /\ asg' = asg /\ crashes' = crashes /\ races' = races
  BY DEF FailGroup, Complete
<1>5. QED
  BY <1>2, <1>3, <1>4, AfterEarn

LEMMA CompareEarn ==
  ASSUME EarnInv, NEW g \in Groups, Compare(g)
  PROVE  EarnInv'
<1> DEFINE a == Agree([k \in Good(g) |-> grp[g].th[grp[g].ok[k]].res])
<1>1. /\ grp[g].pc \notin {"none", "run"}
      /\ row' = row /\ receipts' = receipts /\ asg' = asg /\ crashes' = crashes /\ races' = races
  BY DEF Compare
<1>2. a \in BOOLEAN /\ (a => EarnedBy(grp[g]))
  BY AgreeEarns DEF EarnInv, Agree
<1>3. \/ /\ grp' = [grp EXCEPT ![g].pc = "sign", ![g].agree = a, ![g].left = Good(g)]
         /\ job' = IF grp[g].stale THEN job
                   ELSE [job EXCEPT !.ver = IF a THEN "agreed" ELSE "disputed", !.verG = g]
      \/ /\ grp' = [grp EXCEPT ![g].pc = IF grp[g].stale THEN "done" ELSE "final"]
         /\ job' = IF grp[g].stale \/ job.ver # "none" THEN job ELSE [job EXCEPT !.ver = "unavailable", !.verG = g]
  BY DEF Compare
<1>4. DOMAIN job = {"st", "att", "node", "cancel", "verify", "ver", "verG", "resG"} /\ g \in 0 .. MaxGroups
      /\ {job.resG, job.verG} \subseteq 0 .. MaxGroups /\ Shapes
  BY DEF EarnInv, Shapes, Groups
<1> HIDE DEF a
<1>5. CASE /\ grp' = [grp EXCEPT ![g].pc = "sign", ![g].agree = a, ![g].left = Good(g)]
           /\ job' = IF grp[g].stale THEN job
                     ELSE [job EXCEPT !.ver = IF a THEN "agreed" ELSE "disputed", !.verG = g]
  <2>1. GroupStep(g) /\ grp'[g].agree = a /\ grp'[g].pc = "sign"
    BY <1>2, <1>4, <1>5, ComparedIs
  <2>2. job' = job \/ (JobFits /\ job'.ver = (IF a THEN "agreed" ELSE "disputed") /\ job'.verG = g)
    BY <1>4, <1>5 DEF JobFits
  <2>3. QED
    BY <1>1, <1>2, <2>1, <2>2, AfterEarn
<1>6. CASE /\ grp' = [grp EXCEPT ![g].pc = IF grp[g].stale THEN "done" ELSE "final"]
           /\ job' = IF grp[g].stale \/ job.ver # "none" THEN job ELSE [job EXCEPT !.ver = "unavailable", !.verG = g]
  <2>1. GroupStep(g) /\ grp'[g].agree = grp[g].agree /\ grp'[g].pc \in {"done", "final"}
    BY <1>4, <1>6, PcIs
  <2>2. job' = job \/ (JobFits /\ job'.ver = "unavailable")
    BY <1>4, <1>6 DEF JobFits
  <2>3. QED
    BY <1>1, <2>1, <2>2, AfterEarn
<1>7. QED
  BY <1>3, <1>5, <1>6

LEMMA SignEarn ==
  ASSUME EarnInv, NEW g \in Groups, Sign(g) \/ Signed(g) \/ Persist(g)
  PROVE  EarnInv'
<1>1. GroupStep(g) /\ grp'[g].agree = grp[g].agree /\ grp'[g].pc \in {"sign", "done", "final"}
  <2>1. Shapes
    BY DEF EarnInv
  <2>2. CASE Sign(g)
    BY <2>1, <2>2, SignIs DEF Sign
  <2>3. CASE Signed(g) \/ Persist(g)
    BY <2>1, <2>3, PcIs DEF Signed, Persist
  <2>4. QED
    BY <2>2, <2>3
<1>2. /\ grp[g].pc \notin {"none", "run"} /\ job' = job
      /\ asg' = asg /\ crashes' = crashes /\ races' = races
      /\ receipts' = receipts \/ receipts' = Append(receipts, [g |-> g, agree |-> grp[g].agree])
  BY DEF Sign, Signed, Persist
<1>3. row' = row \/ (RowFits /\ row'.ver = job.ver /\ row'.verG = job.verG)
  BY DEF Sign, Signed, Persist, RowFits, EarnInv, Shapes
<1>4. QED
  BY <1>1, <1>2, <1>3, AfterEarn

-----------------------------------------------------------------------------
(* Everything else.                                                        *)

\* No group changes what its threads found.
Quiet == \A g \in Groups : /\ GroupShape(grp'[g]) /\ grp'[g].pc = grp[g].pc /\ grp'[g].agree = grp[g].agree
                           /\ grp'[g].ok = grp[g].ok /\ grp'[g].att = grp[g].att /\ grp'[g].stale = grp[g].stale
                           /\ \A i \in Replicas : /\ grp'[g].th[i].pc = grp[g].th[i].pc
                                                  /\ grp'[g].th[i].res = grp[g].th[i].res

LEMMA SameIsQuiet ==
  ASSUME Shapes, grp' = grp
  PROVE  Quiet /\ DOMAIN grp' = Groups
  BY DEF Shapes, Quiet

LEMMA IdleIs ==
  /\ DOMAIN Idle = {"on", "locked", "got"} /\ Idle.on \in BOOLEAN /\ Idle.got = <<>> /\ <<>> \in Seq(Nodes)
  /\ DOMAIN [Idle EXCEPT !.on = TRUE] = {"on", "locked", "got"}
  /\ [Idle EXCEPT !.on = TRUE].on = TRUE /\ [Idle EXCEPT !.on = TRUE].got = <<>>
  /\ DOMAIN [Idle EXCEPT !.on = TRUE, !.locked = TRUE] = {"on", "locked", "got"}
  /\ [Idle EXCEPT !.on = TRUE, !.locked = TRUE].on = TRUE /\ [Idle EXCEPT !.on = TRUE, !.locked = TRUE].got = <<>>
  BY DEF Idle

LEMMA AssignEarn ==
  ASSUME EarnInv, Pop \/ Claim \/ Short \/ Removed
  PROVE  EarnInv'
<1>1. /\ grp' = grp /\ job' = job /\ row' = row /\ receipts' = receipts
      /\ crashes' = crashes /\ races' = races
  BY DEF Pop, Claim, Short, Removed
<1>2. DOMAIN asg' = {"on", "locked", "got"} /\ asg'.on \in BOOLEAN /\ asg'.got \in Seq(Nodes)
  <2>1. DOMAIN asg = {"on", "locked", "got"} /\ asg.on \in BOOLEAN /\ asg.got \in Seq(Nodes)
    BY DEF EarnInv, Shapes
  <2>2. CASE Claim
    <3>1. PICK n \in Nodes : asg' = [asg EXCEPT !.got = Append(@, n)]
      BY <2>2 DEF Claim
    <3>2. QED
      BY <2>1, <3>1
  <2>3. CASE Pop \/ Short \/ Removed
    <3>1. asg' \in {asg, Idle, [Idle EXCEPT !.on = TRUE]}
      BY <2>3 DEF Pop, Short, Removed
    <3>2. QED
      BY <2>1, <3>1, IdleIs
  <2>4. QED
    BY <2>2, <2>3
<1>3. job'.verify \/ (~asg'.on /\ job'.st # "running")
  BY <1>1, IdleIs DEF EarnInv, Shapes, Pop, Claim, Short, Removed
<1>4. Shapes'
  BY <1>1, <1>2, <1>3 DEF EarnInv, Shapes
<1>5. QED
  BY <1>1, <1>4, SameIsQuiet, QuietEarn DEF EarnInv, Quiet

LEMMA NodesEarn ==
  ASSUME EarnInv, NEW n \in Nodes, Silent(n) \/ Return(n) \/ Deregister(n)
  PROVE  EarnInv'
<1>1. /\ grp' = grp /\ job' = job /\ row' = row /\ receipts' = receipts /\ asg' = asg
      /\ crashes' = crashes /\ races' = races
  BY DEF Silent, Return, Deregister
<1>2. Shapes'
  BY <1>1 DEF EarnInv, Shapes
<1>3. QED
  BY <1>1, <1>2, SameIsQuiet, QuietEarn DEF EarnInv, Quiet

LEMMA RecoverEarn ==
  ASSUME EarnInv, NEW n \in Nodes, Recover(n)
  PROVE  EarnInv'
<1>0. Shapes
  BY DEF EarnInv
<1>1. /\ grp' = grp /\ receipts' = receipts /\ crashes' = crashes
      /\ races' = races \/ races' = races + 1
  BY DEF Recover
<1>2. /\ DOMAIN job' = {"st", "att", "node", "cancel", "verify", "ver", "verG", "resG"}
      /\ job'.verify = job.verify /\ job'.att = job.att /\ job'.ver = job.ver /\ job'.verG = job.verG
      /\ job'.resG \in 0 .. MaxGroups
  <2>1. \/ job' = job \/ job' = [job EXCEPT !.st = "failed", !.node = None, !.resG = 0]
        \/ job' = [job EXCEPT !.st = "pending", !.node = None]
    BY DEF Recover
  <2>2. 0 \in 0 .. MaxGroups
    OBVIOUS
  <2>3. QED
    BY <1>0, <2>1, <2>2 DEF Shapes
<1>3. /\ DOMAIN row' = {"st", "ver", "verG", "resG"} /\ row'.resG \in 0 .. MaxGroups
      /\ \/ row'.ver = row.ver /\ row'.verG = row.verG
         \/ row'.ver = job.ver /\ row'.verG = job.verG
  BY SMTT(30), <1>0 DEF Recover, Shapes
<1>4. DOMAIN asg' = {"on", "locked", "got"} /\ asg'.on \in BOOLEAN /\ asg'.got \in Seq(Nodes)
  <2>1. asg' = asg \/ asg' = [Idle EXCEPT !.on = TRUE, !.locked = TRUE]
    BY DEF Recover
  <2>2. QED
    BY <1>0, <2>1, IdleIs DEF Shapes
<1>5. Shapes'
  <2>1. job'.verify \/ (~asg'.on /\ job'.st # "running")
    BY <1>0 DEF Shapes, Recover
  <2>2. QED
    BY SMTT(30), <1>0, <1>1, <1>2, <1>3, <1>4, <2>1 DEF Shapes
<1>6. crashes = 0 => (job'.ver = "agreed" => Proven(job'.verG)) /\ (row'.ver = "agreed" => Proven(row'.verG))
  BY <1>2, <1>3 DEF EarnInv
<1>7. QED
  BY <1>0, <1>1, <1>5, <1>6, SameIsQuiet, QuietEarn DEF Quiet

LEMMA CancelEarn ==
  ASSUME EarnInv, Cancel
  PROVE  EarnInv'
<1>0. Shapes
  BY DEF EarnInv
<1>1. /\ grp' = grp /\ receipts' = receipts /\ crashes' = crashes /\ races' = races /\ asg' = asg
  BY DEF Cancel
<1>2. /\ DOMAIN job' = {"st", "att", "node", "cancel", "verify", "ver", "verG", "resG"}
      /\ job'.verify = job.verify /\ job'.att = job.att /\ job'.ver = job.ver /\ job'.verG = job.verG
      /\ job'.resG = job.resG
  BY <1>0 DEF Cancel, Shapes
<1>3. /\ DOMAIN row' = {"st", "ver", "verG", "resG"} /\ row'.resG = row.resG
      /\ row'.ver = row.ver /\ row'.verG = row.verG
  BY <1>0 DEF Cancel, Shapes
<1>5. Shapes'
  <2>1. job'.verify \/ (~asg'.on /\ job'.st # "running")
    BY <1>0, <1>1, <1>2 DEF Shapes, Cancel
  <2>2. QED
    BY <1>0, <1>1, <1>2, <1>3, <2>1 DEF Shapes
<1>6. crashes = 0 => (job'.ver = "agreed" => Proven(job'.verG)) /\ (row'.ver = "agreed" => Proven(row'.verG))
  BY <1>2, <1>3 DEF EarnInv
<1>7. QED
  BY <1>0, <1>1, <1>5, <1>6, SameIsQuiet, QuietEarn DEF Quiet

LEMMA RunPlainEarn ==
  ASSUME EarnInv, RunPlain
  PROVE  EarnInv'
<1>0. Shapes
  BY DEF EarnInv
<1>1. /\ grp' = grp /\ receipts' = receipts /\ crashes' = crashes /\ races' = races /\ asg' = asg
  BY DEF RunPlain
<1>2. /\ DOMAIN job' = {"st", "att", "node", "cancel", "verify", "ver", "verG", "resG"}
      /\ job'.verify = FALSE /\ job'.st # "running" /\ job'.ver = job.ver /\ job'.verG = job.verG /\ job'.resG = 0
      /\ DOMAIN row' = {"st", "ver", "verG", "resG"} /\ row'.resG = 0
      /\ row'.ver = row.ver /\ row'.verG = row.verG /\ job.verify = FALSE
  <2>1. PICK n \in up, s \in {"completed", "failed"} :
             /\ job' = [job EXCEPT !.st = s, !.node = n, !.att = @ + 1, !.resG = 0]
             /\ row' = [row EXCEPT !.st = s, !.resG = 0]
    BY DEF RunPlain
  <2>2. job.verify = FALSE
    BY <1>0 DEF Shapes, RunPlain
  <2>3. QED
    BY <1>0, <2>1, <2>2 DEF Shapes
<1>5. Shapes'
  <2>1. 0 \in 0 .. MaxGroups
    OBVIOUS
  <2>2. {job'.resG, job'.verG, row'.resG, row'.verG} \subseteq 0 .. MaxGroups
    BY <1>0, <1>2, <2>1 DEF Shapes
  <2>3. QED
    BY <1>0, <1>1, <1>2, <2>2 DEF Shapes
<1>6. crashes = 0 => (job'.ver = "agreed" => Proven(job'.verG)) /\ (row'.ver = "agreed" => Proven(row'.verG))
  BY <1>2 DEF EarnInv
<1>7. QED
  BY <1>0, <1>1, <1>5, <1>6, SameIsQuiet, QuietEarn DEF Quiet

LEMMA CutIsQuiet ==
  ASSUME Shapes, NEW n, grp' = Cut(n)
  PROVE  /\ Quiet /\ DOMAIN grp' = Groups
         /\ \A g \in Groups, i \in Replicas : grp'[g].th[i].node = grp[g].th[i].node
<1>1. DOMAIN grp' = Groups
  BY DEF Cut
<1>2. ASSUME NEW g \in Groups
      PROVE  /\ GroupShape(grp'[g]) /\ grp'[g].pc = grp[g].pc /\ grp'[g].agree = grp[g].agree
             /\ grp'[g].ok = grp[g].ok /\ grp'[g].att = grp[g].att /\ grp'[g].stale = grp[g].stale
             /\ \A i \in Replicas : /\ grp'[g].th[i].pc = grp[g].th[i].pc
                                    /\ grp'[g].th[i].res = grp[g].th[i].res
                                    /\ grp'[g].th[i].node = grp[g].th[i].node
  <2> DEFINE T == [i \in Replicas |-> IF grp[g].th[i].node = n /\ grp[g].th[i].pc = "wait"
                                       THEN [grp[g].th[i] EXCEPT !.cut = TRUE] ELSE grp[g].th[i]]
  <2>1. GroupShape(grp[g])
    BY DEF Shapes
  <2>2. grp'[g] = [grp[g] EXCEPT !.th = T]
    BY DEF Cut
  <2>3. /\ DOMAIN T = Replicas
        /\ \A i \in Replicas : /\ T[i].pc = grp[g].th[i].pc /\ T[i].res = grp[g].th[i].res
                               /\ T[i].node = grp[g].th[i].node
                               /\ DOMAIN T[i] = {"pc", "node", "cut", "res", "id"}
    BY <2>1 DEF GroupShape
  <2> HIDE DEF T
  <2>4. QED
    BY <2>1, <2>2, <2>3 DEF GroupShape
<1>3. QED
  BY <1>1, <1>2 DEF Quiet

LEMMA DisconnectEarn ==
  ASSUME EarnInv, NEW n \in Nodes, Disconnect(n)
  PROVE  EarnInv'
<1>1. /\ grp' = Cut(n) /\ job' = job /\ row' = row /\ receipts' = receipts /\ asg' = asg
      /\ crashes' = crashes /\ races' = races
  BY DEF Disconnect
<1>2. Quiet /\ DOMAIN grp' = Groups
  BY <1>1, CutIsQuiet DEF EarnInv
<1>3. Shapes'
  BY <1>1, <1>2 DEF EarnInv, Shapes, Quiet
<1>4. QED
  BY <1>1, <1>2, <1>3, QuietEarn DEF EarnInv, Quiet

(* A dispatch: the next group starts, all of its threads about to send.    *)
LEMMA LaunchIs ==
  ASSUME Shapes, InOrder, Launch
  PROVE  \E g \in Groups :
           /\ Used = 1 .. (g - 1) /\ grp[g].pc = "none" /\ Becomes(g, grp'[g]) /\ GroupShape(grp'[g])
           /\ grp'[g].pc = "run" /\ grp'[g].ok = <<>> /\ grp'[g].agree = FALSE /\ grp'[g].stale = FALSE
           /\ grp'[g].att = job.att + 1
           /\ \A i \in Replicas : grp'[g].th[i].pc = "send" /\ grp'[g].th[i].node = asg.got[i]
<1>1. PICK k \in 0 .. MaxGroups : /\ Used = 1 .. k /\ Cardinality(Used) + 1 = k + 1
                                   /\ k + 1 \in Groups /\ grp[k + 1].pc = "none"
  BY NextGroup DEF Launch
<1> DEFINE g == k + 1
           T == [i \in Replicas |-> [NoThread EXCEPT !.pc = "send", !.node = asg.got[i]]]
           R == [NoGroup EXCEPT !.pc = "run", !.att = job.att + 1, !.th = T]
<1>2. grp' = [grp EXCEPT ![g] = R]
  BY <1>1 DEF Launch
<1>3. /\ DOMAIN T = Replicas
      /\ \A i \in Replicas : /\ T[i].pc = "send" /\ T[i].node = asg.got[i]
                             /\ DOMAIN T[i] = {"pc", "node", "cut", "res", "id"}
  BY DEF NoThread
<1>4. job.att + 1 \in Nat /\ <<>> \in Seq(Replicas) /\ FALSE \in BOOLEAN
  BY SMTT(30) DEF Shapes, Launch
<1> HIDE DEF T
<1>5. /\ GroupShape(R) /\ R.pc = "run" /\ R.ok = <<>> /\ R.agree = FALSE /\ R.stale = FALSE
      /\ R.att = job.att + 1 /\ \A i \in Replicas : R.th[i].pc = "send" /\ R.th[i].node = asg.got[i]
  <2>1. /\ DOMAIN R = {"pc", "att", "th", "ok", "stale", "agree", "left", "first"}
        /\ R.pc = "run" /\ R.ok = <<>> /\ R.agree = FALSE /\ R.stale = FALSE /\ R.att = job.att + 1 /\ R.th = T
    BY DEF NoGroup
  <2> HIDE DEF R
  <2>2. QED
    BY <1>3, <1>4, <2>1 DEF GroupShape
<1> HIDE DEF R
<1>6. Becomes(g, R) /\ grp'[g] = R
  BY <1>1, <1>2 DEF Shapes, Becomes
<1>7. Used = 1 .. (g - 1)
  BY <1>1
<1>8. g \in Groups /\ grp[g].pc = "none"
  BY <1>1
<1> HIDE DEF g
<1>9. QED
  BY <1>5, <1>6, <1>7, <1>8

LEMMA LaunchEarn ==
  ASSUME EarnInv, Launch
  PROVE  EarnInv'
<1>0. Shapes /\ InOrder
  BY DEF EarnInv
<1>1. PICK g \in Groups :
        /\ Used = 1 .. (g - 1) /\ grp[g].pc = "none" /\ Becomes(g, grp'[g]) /\ GroupShape(grp'[g])
        /\ grp'[g].pc = "run" /\ grp'[g].ok = <<>> /\ grp'[g].agree = FALSE /\ grp'[g].stale = FALSE
        /\ grp'[g].att = job.att + 1 /\ \A i \in Replicas : grp'[g].th[i].pc = "send"
  BY <1>0, LaunchIs
<1>2. \A h \in Groups \ {g} : grp'[h] = grp[h]
  BY <1>1 DEF Becomes
<1>3. /\ receipts' = receipts /\ row' = row /\ crashes' = crashes /\ (races' = races \/ races' = races + 1)
      /\ asg' = Idle
  BY DEF Launch
<1>4. /\ DOMAIN job' = {"st", "att", "node", "cancel", "verify", "ver", "verG", "resG"}
      /\ job'.verify = job.verify /\ job'.att = job.att + 1 /\ job'.ver = job.ver /\ job'.verG = job.verG
      /\ job'.resG = job.resG
  <2>1. job' = [job EXCEPT !.st = "running", !.att = @ + 1, !.node = asg.got[1]]
    BY DEF Launch
  <2>2. QED
    BY <1>0, <2>1 DEF Shapes
<1>5. Shapes'
  <2>1. job.verify
    BY <1>0 DEF Launch, Shapes
  <2>2. DOMAIN grp' = Groups /\ \A h \in Groups : GroupShape(grp'[h])
    BY <1>0, <1>1, <1>2 DEF Shapes, Becomes
  <2>3. DOMAIN asg' = {"on", "locked", "got"} /\ asg'.on \in BOOLEAN /\ asg'.got \in Seq(Nodes)
    BY <1>3, IdleIs
  <2>4. job'.verify /\ job'.att \in Nat /\ races' \in Nat
    BY <1>0, <1>3, <1>4, <2>1 DEF Shapes
  <2>5. {job'.resG, job'.verG, row'.resG, row'.verG} \subseteq 0 .. MaxGroups
    BY <1>0, <1>3, <1>4 DEF Shapes
  <2>6. DOMAIN row' = {"st", "ver", "verG", "resG"} /\ receipts' \in Seq(Receipts) /\ crashes' \in Nat
    BY <1>0, <1>3 DEF Shapes
  <2>7. QED
    BY <1>4, <2>2, <2>3, <2>4, <2>5, <2>6 DEF Shapes
<1>6. InOrder'
  <2>1. \A h \in Groups : grp'[h].pc # "none" <=> h \in 1 .. (g - 1) \/ h = g
    BY <1>1, <1>2 DEF Used
  <2>2. g \in 0 .. MaxGroups /\ \A h \in Groups : (h \in 1 .. (g - 1) \/ h = g) <=> h \in 1 .. g
    BY DEF Groups
  <2>3. 1 .. g \subseteq Groups
    BY DEF Groups
  <2>4. Used' = 1 .. g
    BY <2>1, <2>2, <2>3 DEF Used
  <2>5. QED
    BY <2>2, <2>4 DEF InOrder
<1>7. \A h \in Groups : Listed(grp'[h])
  <2>1. Listed(grp'[g])
    BY <1>1 DEF Listed
  <2>2. QED
    BY <1>2, <2>1 DEF EarnInv
<1>8. \A h : Proven(h) => h \in Groups /\ Over(grp'[h]) /\ EarnedBy(grp'[h])
  BY <1>1, <1>2 DEF Proven, Over
<1>9. crashes = 0 => /\ \A h \in Groups : grp'[h].pc \notin {"none", "run"} => Over(grp'[h])
                     /\ \A h \in Groups : grp'[h].agree => Over(grp'[h]) /\ EarnedBy(grp'[h])
  BY <1>1, <1>2, <1>8 DEF EarnInv
<1>10. QED
  BY <1>3, <1>4, <1>5, <1>6, <1>7, <1>8, <1>9 DEF EarnInv, Proven

LEMMA NoGroupIs ==
  /\ GroupShape(NoGroup) /\ Listed(NoGroup) /\ NoGroup.pc = "none" /\ NoGroup.ok = <<>>
  /\ NoGroup.agree = FALSE /\ NoGroup.stale = FALSE
  /\ \A i \in Replicas : NoGroup.th[i].pc = "none"
<1> DEFINE T == [i \in Replicas |-> NoThread]
<1>1. /\ DOMAIN T = Replicas /\ <<>> \in Seq(Replicas) /\ Len(<<>>) = 0
      /\ \A i \in Replicas : T[i].pc = "none" /\ DOMAIN T[i] = {"pc", "node", "cut", "res", "id"}
  BY DEF NoThread
<1>2. /\ DOMAIN NoGroup = {"pc", "att", "th", "ok", "stale", "agree", "left", "first"} /\ NoGroup.pc = "none"
      /\ NoGroup.th = T /\ NoGroup.ok = <<>> /\ NoGroup.att = 0 /\ NoGroup.stale = FALSE /\ NoGroup.agree = FALSE
  BY DEF NoGroup
<1> HIDE DEF T
<1>3. GroupShape(NoGroup)
  <2>1. NoGroup.stale \in BOOLEAN /\ NoGroup.agree \in BOOLEAN
    BY <1>2
  <2>2. NoGroup.att \in Nat /\ NoGroup.ok \in Seq(Replicas)
    BY <1>1, <1>2
  <2>3. DOMAIN NoGroup.th = Replicas /\ \A i \in Replicas : DOMAIN NoGroup.th[i] = {"pc", "node", "cut", "res", "id"}
    BY <1>1, <1>2
  <2>4. QED
    BY <1>2, <2>1, <2>2, <2>3 DEF GroupShape
<1>4. Listed(NoGroup)
  BY <1>1, <1>2 DEF Listed
<1>5. QED
  BY <1>1, <1>2, <1>3, <1>4

LEMMA RestartIs ==
  ASSUME Shapes, Restart
  PROVE  /\ \A g \in Groups : GroupShape(grp'[g])
         /\ \A g \in Groups : /\ grp'[g].pc \in {"none", "done"} /\ (grp'[g].pc = "none" <=> grp[g].pc = "none")
                              /\ grp'[g].ok = <<>> /\ \A i \in Replicas : grp'[g].th[i].pc = "none"
         /\ DOMAIN grp' = Groups
<1> DEFINE D == [NoGroup EXCEPT !.pc = "done"]
<1>1. /\ DOMAIN grp' = Groups
      /\ \A g \in Groups : grp'[g] = IF grp[g].pc # "none" THEN D ELSE NoGroup
  BY DEF Restart, Used
<1>2. GroupShape(D) /\ D.pc = "done" /\ D.ok = <<>> /\ \A i \in Replicas : D.th[i].pc = "none"
  BY NoGroupIs DEF GroupShape
<1> HIDE DEF D
<1>3. QED
  BY <1>1, <1>2, NoGroupIs

LEMMA RestartEarn ==
  ASSUME EarnInv, Restart
  PROVE  EarnInv'
<1>0. Shapes /\ crashes \in Nat
  BY DEF EarnInv, Shapes
<1>1. /\ crashes' # 0 /\ crashes' \in Nat /\ receipts' = receipts /\ races' = races /\ asg' = Idle
  BY <1>0 DEF Restart
<1>2. /\ DOMAIN job' = {"st", "att", "node", "cancel", "verify", "ver", "verG", "resG"}
      /\ job'.verify = FALSE /\ job'.st # "running" /\ job'.verG = row.verG /\ job'.resG = row.resG
  BY DEF Restart
<1>3. DOMAIN row' = {"st", "ver", "verG", "resG"} /\ row'.verG = row.verG /\ row'.resG = row.resG
  BY <1>0 DEF Restart, Shapes
<1>4. Shapes'
  <2>1. {job'.resG, job'.verG, row'.resG, row'.verG} \subseteq 0 .. MaxGroups
    BY <1>0, <1>2, <1>3 DEF Shapes
  <2>2. asg'.on = FALSE
    BY <1>1 DEF Idle
  <2>3. DOMAIN grp' = Groups /\ \A g \in Groups : GroupShape(grp'[g])
    BY <1>0, RestartIs
  <2>4. DOMAIN asg' = {"on", "locked", "got"} /\ asg'.got \in Seq(Nodes)
    BY <1>1, IdleIs
  <2>5. QED
    BY <1>0, <1>1, <1>2, <1>3, <2>1, <2>2, <2>3, <2>4 DEF Shapes
<1>5. Used' = Used
  BY <1>0, RestartIs DEF Used
<1>6. InOrder'
  BY <1>5 DEF EarnInv, InOrder
<1>7. \A g \in Groups : Listed(grp'[g])
  BY <1>0, RestartIs DEF Listed
<1>8. QED
  BY <1>1, <1>4, <1>6, <1>7 DEF EarnInv

LEMMA InitEarn == Init => EarnInv
<1> SUFFICES ASSUME Init PROVE EarnInv
  OBVIOUS
<1>1. <<>> \in Seq(Receipts) /\ <<>> \in Seq(Nodes)
  OBVIOUS
<1>4. DOMAIN grp = Groups /\ \A g \in Groups : grp[g] = NoGroup
  BY DEF Init
<1>5. Shapes
  BY <1>1, <1>4, IdleIs, NoGroupIs DEF Init, Shapes
<1>6. InOrder
  <2>1. Used = 1 .. 0 /\ 0 \in 0 .. MaxGroups
    BY <1>4, NoGroupIs DEF Used
  <2>2. QED
    BY <2>1 DEF InOrder
<1>7. QED
  BY <1>4, <1>5, <1>6, NoGroupIs DEF Init, EarnInv

LEMMA NextEarn ==
  ASSUME EarnInv, [Next]_vars
  PROVE  EarnInv'
<1>1. CASE Pop \/ Claim \/ Short \/ Removed
  BY <1>1, AssignEarn
<1>2. CASE Launch
  BY <1>2, LaunchEarn
<1>3. ASSUME NEW g \in Groups, Runner(g) PROVE EarnInv'
  <2>1. ASSUME NEW i \in Replicas,
               Send(g, i) \/ Answer(g, i) \/ Store(g, i) \/ NoAnswer(g, i) \/ FailOne(g, i) \/ FreeOne(g, i)
        PROVE  EarnInv'
    BY <2>1, SendEarn, StoreEarn, FreeOneEarn
  <2>2. CASE Join(g)
    BY <2>2, JoinEarn
  <2>3. CASE FailGroup(g) \/ Complete(g)
    BY <2>3, FailGroupEarn
  <2>4. CASE Compare(g)
    BY <2>4, CompareEarn
  <2>5. CASE Sign(g) \/ Signed(g) \/ Persist(g)
    BY <2>5, SignEarn
  <2>6. QED
    BY <1>3, <2>1, <2>2, <2>3, <2>4, <2>5 DEF Runner
<1>4. ASSUME NEW n \in Nodes, Recover(n) \/ Disconnect(n) \/ Silent(n) \/ Return(n) \/ Deregister(n)
      PROVE  EarnInv'
  BY <1>4, RecoverEarn, DisconnectEarn, NodesEarn
<1>5. CASE Cancel \/ Restart \/ RunPlain
  BY <1>5, CancelEarn, RestartEarn, RunPlainEarn
<1>6. CASE UNCHANGED vars
  BY <1>6 DEF vars, EarnInv, Shapes, InOrder, Used, Proven
<1>7. QED
  BY <1>1, <1>2, <1>3, <1>4, <1>5, <1>6 DEF Next

(* A job, its row or a receipt that says "agreed" names a group two        *)
(* replicas of which ended well, with one output and no other: whatever    *)
(* was lost, recovered, removed, cancelled or raced (compare_results,      *)
(* _run_replicated_job).                                                   *)
THEOREM AgreementIsEarned == Spec => []AgreedIsEarned
<1>1. EarnInv => AgreedIsEarned
  <2>1. \A g \in Groups : EarnedBy(grp[g]) => Earned(g)
    BY DEF EarnedBy, Earned
  <2>2. EarnInv => DOMAIN receipts = 1 .. Len(receipts)
    BY DEF EarnInv, Shapes
  <2>3. QED
    BY <2>1, <2>2 DEF EarnInv, Proven, AgreedIsEarned
<1>2. EarnInv /\ [Next]_vars => EarnInv'
  BY NextEarn
<1>3. QED
  BY <1>1, <1>2, InitEarn, PTL DEF Spec

-----------------------------------------------------------------------------
(* One story.                                                              *)

\* A group that decides decides alone, of a job nobody has completed.
LEMMA Alone ==
  ASSUME Shapes, StoryInv, job.verify, NEW g \in Groups, Deciding(g)
  PROVE  /\ job.st # "completed" /\ \A h \in Groups : Deciding(h) => h = g
         /\ grp[g].pc \in {"failing", "compare"} => job.ver = "none" /\ job.verG = 0 /\ primary = 0
         /\ grp[g].pc \notin {"none", "run", "persist", "done"} /\ grp[g].att = job.att
<1>1. Numbered /\ OneVoice /\ Tells(job, grp, receipts)
  BY DEF StoryInv
<1>2. grp[g].att = job.att /\ grp[g].pc \notin {"none", "run", "persist", "done"}
  BY <1>1 DEF Numbered, Deciding
<1>3. \A h \in Groups : Deciding(h) => h = g
  BY <1>1, <1>2 DEF Numbered, Deciding
<1>4. job.resG \in 0 .. MaxGroups /\ job.verG \in 0 .. MaxGroups /\ \A x \in 0 .. MaxGroups : x # 0 => x \in Groups
  BY DEF Shapes, Groups
<1>5. job.st # "completed"
  <2>1. SUFFICES ASSUME job.st = "completed" PROVE FALSE
    OBVIOUS
  <2>2. job.resG \in Groups /\ grp[job.resG].att = job.att /\ grp[job.resG].pc \in {"persist", "done"}
    BY <1>1, <1>4, <2>1 DEF OneVoice, Tells
  <2>3. job.resG = g
    BY <1>1, <1>2, <2>2 DEF Numbered
  <2>4. QED
    BY <1>2, <2>2, <2>3
<1>6. grp[g].pc \in {"failing", "compare"} => job.ver = "none" /\ job.verG = 0 /\ primary = 0
  <2>1. ASSUME job.ver # "none" PROVE grp[g].pc \in {"sign", "final"}
    BY <1>1, <1>3, <1>4, <1>5, <2>1 DEF OneVoice
  <2>2. QED
    BY <1>1, <2>1 DEF OneVoice
<1>7. QED
  BY <1>2, <1>3, <1>5, <1>6

\* What was told stays told: of a group that is through, no receipt is new.
LEMMA StillTells ==
  ASSUME NEW j, NEW k, NEW G, NEW H, NEW rs, Tells(j, G, rs), j.resG \in 0 .. MaxGroups,
         k.st = "completed" => k.st = j.st /\ k.ver = j.ver /\ k.verG = j.verG /\ k.resG = j.resG,
         \A h \in Groups : G[h].pc \in {"persist", "done"} => H[h].pc \in {"persist", "done"}
  PROVE  Tells(k, H, rs)
  BY DEF Tells, Groups

\* Nothing the story is about changes.
LEMMA QuietStory ==
  ASSUME Shapes, StoryInv, receipts' = receipts, primary' = primary,
         \A g \in Groups : /\ grp'[g].pc = grp[g].pc /\ grp'[g].att = grp[g].att
                           /\ grp'[g].stale = grp[g].stale /\ grp'[g].agree = grp[g].agree,
         job'.verify = job.verify, job'.att = job.att, job'.ver = job.ver, job'.verG = job.verG,
         \/ job'.st = job.st /\ job'.resG = job.resG
         \/ job'.st # "completed" /\ job.st # "completed",
         row' = row \/ row'.st # "completed"
  PROVE  StoryInv'
<1>0. {job.resG, row.resG, job.verG} \subseteq 0 .. MaxGroups /\ \A x \in 0 .. MaxGroups : x # 0 => x \in Groups
  BY DEF Shapes, Groups
<1>1. Tells(job', grp', receipts') /\ Tells(row', grp', receipts')
  BY <1>0 DEF StoryInv, Tells
<1>2. Unheard'
  BY DEF StoryInv, Unheard
<1>3. \A g \in Groups : Deciding(g)' <=> Deciding(g)
  BY DEF Deciding
<1>4. job.verify => Numbered'
  <2>1. SUFFICES ASSUME Numbered PROVE Numbered'
    BY DEF StoryInv
  <2>2. QED
    BY <2>1, <1>3 DEF Numbered
<1>5. job.verify => OneVoice'
  <2>1. SUFFICES ASSUME OneVoice PROVE OneVoice'
    BY DEF StoryInv
  <2>2. job'.st = "completed" => /\ job'.resG # 0 /\ grp'[job'.resG].att = job'.att
    BY <2>1, <1>0 DEF OneVoice
  <2>3. job'.ver # "none" => \/ job'.st = "completed"
                             \/ job'.verG # 0 /\ Deciding(job.verG)' /\ grp'[job'.verG].pc \in {"sign", "final"}
    BY <2>1, <1>0 DEF OneVoice, Deciding
  <2>4. \A g \in Groups : Deciding(g)' /\ grp'[g].pc \in {"sign", "final"} =>
        /\ job'.verG = g /\ job'.ver # "none"
        /\ grp'[g].pc = "sign" => job'.ver = IF grp'[g].agree THEN "agreed" ELSE "disputed"
        /\ \A k \in 1 .. Len(receipts') : receipts'[k].g = g /\ ~receipts'[k].agree => job'.ver = "disputed"
    BY <2>1, <1>3 DEF OneVoice
  <2>5. QED
    BY <2>1, <2>2, <2>3, <2>4 DEF OneVoice
<1>6. ~job.verify => Settled'
  BY DEF StoryInv, Settled
<1>7. QED
  BY <1>1, <1>2, <1>4, <1>5, <1>6 DEF StoryInv

\* A group that is not putting its verdict on the job takes a step.
LEMMA VoiceStays ==
  ASSUME Shapes, StoryInv, job.verify, NEW g \in Groups, GroupStep(g), job' = job, primary' = primary,
         receipts' = receipts,
         ~(Deciding(g) /\ grp[g].pc \in {"sign", "final"}), ~(Deciding(g)' /\ grp'[g].pc \in {"sign", "final"})
  PROVE  OneVoice'
<1>0. {job.resG, job.verG} \subseteq 0 .. MaxGroups /\ \A x \in 0 .. MaxGroups : x # 0 => x \in Groups
  BY DEF Shapes, Groups
<1>1. OneVoice /\ (\A h \in Groups \ {g} : grp'[h] = grp[h]) /\ grp'[g].att = grp[g].att
  BY DEF StoryInv, GroupStep, Becomes
<1>2. job'.st = "completed" => /\ job'.resG # 0 /\ grp'[job'.resG].att = job'.att
  BY <1>0, <1>1 DEF OneVoice
<1>3. job'.ver # "none" => \/ job'.st = "completed"
                           \/ job'.verG # 0 /\ Deciding(job.verG)' /\ grp'[job'.verG].pc \in {"sign", "final"}
  BY <1>0, <1>1 DEF OneVoice, Deciding
<1>4. \A h \in Groups : Deciding(h)' /\ grp'[h].pc \in {"sign", "final"} =>
        /\ job'.verG = h /\ job'.ver # "none"
        /\ grp'[h].pc = "sign" => job'.ver = IF grp'[h].agree THEN "agreed" ELSE "disputed"
        /\ \A k \in 1 .. Len(receipts') : receipts'[k].g = h /\ ~receipts'[k].agree => job'.ver = "disputed"
  BY <1>1 DEF OneVoice, Deciding
<1>5. QED
  BY <1>1, <1>2, <1>3, <1>4 DEF OneVoice

\* One group takes a step; what is left to show is about the job.
LEMMA GroupStory ==
  ASSUME Shapes, StoryInv, job.verify, NEW g \in Groups, GroupStep(g), receipts' = receipts,
         grp[g].pc # "none", grp'[g].pc # "none",
         grp[g].pc \in {"persist", "done"} => grp'[g].pc \in {"persist", "done"},
         grp'[g].pc \in {"run", "failing", "compare"} => grp[g].pc \in {"run", "failing", "compare"},
         Deciding(g)' => grp[g].att = job.att,
         grp'[g].pc \in {"failing", "final"} => ~grp'[g].stale,
         job'.att = job.att, job'.verify = job.verify,
         Tells(job', grp', receipts'), row' = row \/ Tells(row', grp', receipts'), OneVoice'
  PROVE  StoryInv'
<1>1. (\A h \in Groups \ {g} : grp'[h] = grp[h]) /\ grp'[g].att = grp[g].att
  BY DEF GroupStep, Becomes
<1>2. Tells(row', grp', receipts')
  <2>1. \A h \in Groups : grp[h].pc \in {"persist", "done"} => grp'[h].pc \in {"persist", "done"}
    BY <1>1
  <2>2. row.resG \in 0 .. MaxGroups /\ Tells(row, grp, receipts)
    BY DEF Shapes, StoryInv
  <2>3. QED
    BY <2>1, <2>2, StillTells
<1>3. Unheard'
  BY <1>1 DEF Unheard, StoryInv
<1>4. Numbered'
  <2>1. Numbered
    BY DEF StoryInv
  <2>2. QED
    BY <1>1, <2>1 DEF Numbered, Deciding
<1>5. QED
  BY <1>2, <1>3, <1>4 DEF StoryInv

LEMMA GroupLives ==
  ASSUME Shapes, StoryInv, NEW g \in Groups, grp[g].pc \notin {"none", "done"}
  PROVE  job.verify
  BY DEF Shapes, StoryInv, Settled

LEMMA JoinStory ==
  ASSUME Shapes, StoryInv, NEW g \in Groups, Join(g)
  PROVE  StoryInv'
<1>1. /\ GroupStep(g) /\ grp'[g].stale = (job.att # grp[g].att) /\ grp'[g].pc \in {"compare", "done", "failing"}
      /\ grp'[g].pc = "failing" => ~grp'[g].stale
  BY JoinIs
<1>2. /\ grp[g].pc = "run" /\ job' = job /\ row' = row /\ receipts' = receipts /\ primary' = primary
  BY DEF Join, Joined
<1>3. job.verify
  BY <1>2, GroupLives
<1>4. OneVoice'
  BY <1>1, <1>2, <1>3, VoiceStays
<1>5. Tells(job', grp', receipts')
  <2>1. \A h \in Groups : grp[h].pc \in {"persist", "done"} => grp'[h].pc \in {"persist", "done"}
    BY <1>1, <1>2 DEF GroupStep, Becomes
  <2>2. job.resG \in 0 .. MaxGroups /\ Tells(job, grp, receipts)
    BY DEF Shapes, StoryInv
  <2>3. QED
    BY <1>2, <2>1, <2>2, StillTells
<1>6. QED
  BY <1>1, <1>2, <1>3, <1>4, <1>5, GroupStory DEF Deciding

LEMMA FailGroupStory ==
  ASSUME Shapes, StoryInv, NEW g \in Groups, FailGroup(g)
  PROVE  StoryInv'
<1>1. /\ GroupStep(g) /\ grp'[g].stale = grp[g].stale /\ grp'[g].pc = "persist"
  BY PcIs DEF FailGroup
<1>2. /\ grp[g].pc = "failing" /\ row' = row /\ receipts' = receipts /\ primary' = primary
  BY DEF FailGroup
<1>3. /\ job'.st # "completed" /\ job'.att = job.att /\ job'.verify = job.verify /\ job'.ver = job.ver
      /\ job'.verG = job.verG
  <2>1. \E x \in {"cancelled", "failed"} : job' = [job EXCEPT !.st = x, !.resG = g]
    BY DEF FailGroup
  <2>2. QED
    BY <2>1 DEF Shapes
<1>4. job.verify
  BY <1>2, GroupLives
<1>5. Deciding(g)
  BY <1>2, <1>4 DEF StoryInv, Numbered, Deciding
<1>6. job.ver = "none" /\ job.verG = 0 /\ primary = 0 /\ \A h \in Groups : Deciding(h) => h = g
  BY <1>2, <1>4, <1>5, Alone
<1>7. \A h \in Groups : ~Deciding(h)'
  BY <1>1, <1>6 DEF Deciding, GroupStep, Becomes
<1>8. OneVoice'
  BY <1>2, <1>3, <1>6, <1>7 DEF OneVoice
<1>9. Tells(job', grp', receipts')
  BY <1>3 DEF Tells
<1>10. QED
  BY <1>1, <1>2, <1>3, <1>4, <1>7, <1>8, <1>9, GroupStory

LEMMA CompleteStory ==
  ASSUME Shapes, StoryInv, NEW g \in Groups, Complete(g)
  PROVE  StoryInv'
<1>1. /\ GroupStep(g) /\ grp'[g].stale = grp[g].stale /\ grp'[g].pc = "persist"
  BY PcIs DEF Complete
<1>2. /\ grp[g].pc = "final" /\ row' = row /\ receipts' = receipts /\ primary' = primary
  BY DEF Complete
<1>3. /\ job'.st = "completed" /\ job'.att = job.att /\ job'.verify = job.verify /\ job'.ver = job.ver
      /\ job'.verG = job.verG /\ job'.resG = g
  <2>1. \E x : job' = [job EXCEPT !.st = "completed", !.node = x, !.resG = g]
    BY DEF Complete
  <2>2. QED
    BY <2>1 DEF Shapes
<1>4. job.verify
  BY <1>2, GroupLives
<1>5. Deciding(g)
  BY <1>2, <1>4 DEF StoryInv, Numbered, Deciding
<1>6. /\ grp[g].att = job.att /\ \A h \in Groups : Deciding(h) => h = g
  BY <1>4, <1>5, Alone
<1>7. \A h \in Groups : ~Deciding(h)'
  BY <1>1, <1>6 DEF Deciding, GroupStep, Becomes
<1>8. /\ job.verG = g /\ job.ver # "none" /\ primary \in {0, job.verG} /\ g # 0
      /\ \A k \in 1 .. Len(receipts) : receipts[k].g = g /\ ~receipts[k].agree => job.ver = "disputed"
  BY <1>2, <1>4, <1>5 DEF StoryInv, OneVoice, Groups
<1>9. OneVoice'
  BY <1>1, <1>2, <1>3, <1>6, <1>7, <1>8 DEF OneVoice, GroupStep
<1>10. Tells(job', grp', receipts')
  BY <1>1, <1>2, <1>3, <1>8 DEF Tells
<1>11. QED
  BY <1>1, <1>2, <1>3, <1>4, <1>7, <1>9, <1>10, GroupStory

LEMMA PersistStory ==
  ASSUME Shapes, StoryInv, NEW g \in Groups, Persist(g)
  PROVE  StoryInv'
<1>1. /\ GroupStep(g) /\ grp'[g].pc = "done"
  BY PcIs DEF Persist
<1>2. /\ grp[g].pc = "persist" /\ job' = job /\ receipts' = receipts /\ primary' = primary
      /\ row'.st = job.st /\ row'.ver = job.ver /\ row'.verG = job.verG /\ row'.resG = job.resG
  BY DEF Persist
<1>3. job.verify
  BY <1>2, GroupLives
<1>4. OneVoice'
  BY <1>1, <1>2, <1>3, VoiceStays
<1>5. Tells(job', grp', receipts') /\ Tells(row', grp', receipts')
  <2>1. \A h \in Groups : grp[h].pc \in {"persist", "done"} => grp'[h].pc \in {"persist", "done"}
    BY <1>1, <1>2 DEF GroupStep, Becomes
  <2>2. job.resG \in 0 .. MaxGroups /\ Tells(job, grp, receipts)
    BY DEF Shapes, StoryInv
  <2>3. QED
    BY <1>2, <2>1, <2>2, StillTells
<1>6. QED
  BY <1>1, <1>2, <1>3, <1>4, <1>5, GroupStory DEF Deciding

\* The verdict goes on the job.
LEMMA VerdictStory ==
  ASSUME Shapes, StoryInv, NEW g \in Groups, GroupStep(g), grp[g].pc = "compare", Deciding(g),
         grp'[g].stale = grp[g].stale, grp'[g].pc \in {"sign", "final"},
         row' = row, receipts' = receipts, primary' = primary, job'.st = job.st, job'.att = job.att,
         job'.verify = job.verify, job'.verG = g, job'.ver # "none",
         grp'[g].pc = "sign" => job'.ver = IF grp'[g].agree THEN "agreed" ELSE "disputed"
  PROVE  StoryInv'
<1>1. job.verify
  BY GroupLives
<1>2. /\ job.st # "completed" /\ primary = 0 /\ grp[g].att = job.att /\ g # 0 /\ ~grp[g].stale
      /\ \A h \in Groups : Deciding(h) => h = g
  BY <1>1, Alone DEF Groups, Deciding
<1>3. \A h \in Groups : Deciding(h)' => h = g
  BY <1>2 DEF Deciding, GroupStep, Becomes
<1>4. Deciding(g)'
  BY <1>2 DEF Deciding
<1>5. \A k \in 1 .. Len(receipts') : receipts'[k].g # g
  BY DEF StoryInv, Unheard
<1>6. OneVoice'
  <2>1. Deciding(job.verG)'
    BY <1>4 DEF Deciding
  <2>2. \A h \in Groups : Deciding(h)' /\ grp'[h].pc \in {"sign", "final"} =>
          /\ job'.verG = h /\ job'.ver # "none"
          /\ grp'[h].pc = "sign" => job'.ver = IF grp'[h].agree THEN "agreed" ELSE "disputed"
          /\ \A k \in 1 .. Len(receipts') : receipts'[k].g = h /\ ~receipts'[k].agree => job'.ver = "disputed"
    BY <1>3, <1>5
  <2>3. QED
    BY <1>2, <2>1, <2>2 DEF OneVoice
<1>7. Tells(job', grp', receipts')
  BY <1>2 DEF Tells
<1>8. QED
  BY <1>1, <1>2, <1>6, <1>7, GroupStory

\* A group that was overtaken leaves the job alone.
LEMMA StaleStory ==
  ASSUME Shapes, StoryInv, NEW g \in Groups, GroupStep(g), grp[g].pc \in {"compare", "sign"}, grp[g].stale,
         grp'[g].stale = grp[g].stale, grp'[g].pc \in {"sign", "done"},
         row' = row, receipts' = receipts, primary' = primary, job' = job
  PROVE  StoryInv'
<1>1. job.verify
  BY GroupLives
<1>2. ~Deciding(g) /\ ~Deciding(g)'
  BY DEF Deciding
<1>3. OneVoice'
  BY <1>1, <1>2, VoiceStays
<1>4. Tells(job', grp', receipts')
  <2>1. \A h \in Groups : grp[h].pc \in {"persist", "done"} => grp'[h].pc \in {"persist", "done"}
    BY DEF GroupStep, Becomes
  <2>2. job.resG \in 0 .. MaxGroups /\ Tells(job, grp, receipts)
    BY DEF Shapes, StoryInv
  <2>3. QED
    BY <2>1, <2>2, StillTells
<1>5. QED
  BY <1>1, <1>2, <1>3, <1>4, GroupStory

LEMMA CompareStory ==
  ASSUME Shapes, StoryInv, NEW g \in Groups, Compare(g)
  PROVE  StoryInv'
<1> DEFINE a == Agree([k \in Good(g) |-> grp[g].th[grp[g].ok[k]].res])
<1>1. /\ grp[g].pc = "compare" /\ row' = row /\ receipts' = receipts /\ primary' = primary
  BY DEF Compare
<1>2. a \in BOOLEAN /\ grp[g].stale \in BOOLEAN
  BY DEF Agree, Shapes, GroupShape
<1>3. \/ /\ grp' = [grp EXCEPT ![g].pc = "sign", ![g].agree = a, ![g].left = Good(g)]
         /\ job' = IF grp[g].stale THEN job
                   ELSE [job EXCEPT !.ver = IF a THEN "agreed" ELSE "disputed", !.verG = g]
      \/ /\ grp' = [grp EXCEPT ![g].pc = IF grp[g].stale THEN "done" ELSE "final"]
         /\ job' = IF grp[g].stale \/ job.ver # "none" THEN job ELSE [job EXCEPT !.ver = "unavailable", !.verG = g]
  BY DEF Compare
<1>4. DOMAIN job = {"st", "att", "node", "cancel", "verify", "ver", "verG", "resG"}
  BY DEF Shapes
<1> HIDE DEF a
<1>5. CASE /\ grp' = [grp EXCEPT ![g].pc = "sign", ![g].agree = a, ![g].left = Good(g)]
           /\ job' = IF grp[g].stale THEN job
                     ELSE [job EXCEPT !.ver = IF a THEN "agreed" ELSE "disputed", !.verG = g]
  <2>1. GroupStep(g) /\ grp'[g].agree = a /\ grp'[g].pc = "sign" /\ grp'[g].stale = grp[g].stale
    BY <1>2, <1>5, ComparedIs
  <2>2. CASE grp[g].stale
    BY <1>1, <1>5, <2>1, <2>2, StaleStory
  <2>3. CASE ~grp[g].stale
    <3>1. /\ job'.st = job.st /\ job'.att = job.att /\ job'.verify = job.verify /\ job'.verG = g
          /\ job'.ver = IF a THEN "agreed" ELSE "disputed"
      BY <1>4, <1>5, <2>3
    <3>2. Deciding(g)
      BY <1>1, <2>3 DEF Deciding
    <3>3. QED
      BY <1>1, <2>1, <3>1, <3>2, VerdictStory
  <2>4. QED
    BY <2>2, <2>3
<1>6. CASE /\ grp' = [grp EXCEPT ![g].pc = IF grp[g].stale THEN "done" ELSE "final"]
           /\ job' = IF grp[g].stale \/ job.ver # "none" THEN job ELSE [job EXCEPT !.ver = "unavailable", !.verG = g]
  <2>1. GroupStep(g) /\ grp'[g].pc = (IF grp[g].stale THEN "done" ELSE "final") /\ grp'[g].stale = grp[g].stale
    <3> DEFINE x == IF grp[g].stale THEN "done" ELSE "final"
    <3>1. grp' = [grp EXCEPT ![g].pc = x]
      BY <1>6
    <3> HIDE DEF x
    <3>2. GroupStep(g) /\ grp'[g].pc = x /\ grp'[g].stale = grp[g].stale
      BY <3>1, PcIs
    <3>3. QED
      BY <3>2 DEF x
  <2>2. CASE grp[g].stale
    BY <1>1, <1>6, <2>1, <2>2, StaleStory
  <2>3. CASE ~grp[g].stale
    <3>1. Deciding(g) /\ job.verify
      BY <1>1, <2>3, GroupLives DEF Deciding
    <3>2. job.ver = "none"
      BY <1>1, <3>1, Alone
    <3>3. /\ job'.st = job.st /\ job'.att = job.att /\ job'.verify = job.verify /\ job'.verG = g
          /\ job'.ver = "unavailable"
      BY <1>4, <1>6, <2>3, <3>2
    <3>4. QED
      BY <1>1, <2>1, <2>3, <3>1, <3>3, VerdictStory
  <2>4. QED
    BY <2>2, <2>3
<1>7. QED
  BY <1>3, <1>5, <1>6

LEMMA SignedStory ==
  ASSUME Shapes, StoryInv, NEW g \in Groups, Signed(g)
  PROVE  StoryInv'
<1>1. /\ GroupStep(g) /\ grp'[g].pc = (IF grp[g].stale THEN "done" ELSE "final")
      /\ grp'[g].stale = grp[g].stale /\ grp'[g].agree = grp[g].agree
  <2> DEFINE x == IF grp[g].stale THEN "done" ELSE "final"
  <2>1. grp' = [grp EXCEPT ![g].pc = x]
    BY DEF Signed
  <2> HIDE DEF x
  <2>2. GroupStep(g) /\ grp'[g].pc = x /\ grp'[g].stale = grp[g].stale /\ grp'[g].agree = grp[g].agree
    BY <2>1, PcIs
  <2>3. QED
    BY <2>2 DEF x
<1>2. /\ grp[g].pc = "sign" /\ job' = job /\ row' = row /\ receipts' = receipts /\ primary' = primary
  BY DEF Signed
<1>3. job.verify
  BY <1>2, GroupLives
<1>4. CASE grp[g].stale
  BY <1>1, <1>2, <1>4, StaleStory
<1>5. CASE ~grp[g].stale
  <2>1. Deciding(g) /\ Deciding(g)'
    BY <1>1, <1>2, <1>5 DEF Deciding
  <2>2. /\ job.st # "completed" /\ grp[g].att = job.att /\ \A h \in Groups : Deciding(h) => h = g
    BY <1>3, <2>1, Alone
  <2>3. /\ job.verG = g /\ job.ver # "none" /\ primary \in {0, job.verG} /\ g # 0
        /\ \A k \in 1 .. Len(receipts) : receipts[k].g = g /\ ~receipts[k].agree => job.ver = "disputed"
    BY <1>2, <1>3, <2>1 DEF StoryInv, OneVoice, Groups
  <2>4. \A h \in Groups : Deciding(h)' => h = g
    BY <1>1, <2>2 DEF Deciding, GroupStep, Becomes
  <2>5. Deciding(job.verG)'
    BY <1>2, <2>1, <2>3 DEF Deciding
  <2>6. OneVoice'
    <3>1. \A h \in Groups : Deciding(h)' /\ grp'[h].pc \in {"sign", "final"} =>
            /\ job'.verG = h /\ job'.ver # "none"
            /\ grp'[h].pc = "sign" => job'.ver = IF grp'[h].agree THEN "agreed" ELSE "disputed"
            /\ \A k \in 1 .. Len(receipts') : receipts'[k].g = h /\ ~receipts'[k].agree => job'.ver = "disputed"
      BY <1>1, <1>2, <1>5, <2>3, <2>4
    <3>2. QED
      BY <1>1, <1>2, <1>5, <2>2, <2>3, <2>5, <3>1 DEF OneVoice
  <2>7. Tells(job', grp', receipts')
    BY <1>2, <2>2 DEF Tells
  <2>8. QED
    BY <1>1, <1>2, <1>3, <1>5, <2>2, <2>6, <2>7, GroupStory
<1>6. QED
  BY <1>4, <1>5

LEMMA SignStory ==
  ASSUME Shapes, StoryInv, NEW g \in Groups, Sign(g)
  PROVE  StoryInv'
<1>1. /\ GroupStep(g) /\ grp'[g].pc = grp[g].pc /\ grp'[g].stale = grp[g].stale /\ grp'[g].agree = grp[g].agree
  BY SignIs
<1>2. /\ grp[g].pc = "sign" /\ job' = job /\ row' = row
      /\ primary' = primary \/ (primary' = g /\ ~grp[g].stale)
      /\ receipts' = receipts \/ receipts' = Append(receipts, [g |-> g, agree |-> grp[g].agree])
  BY DEF Sign
<1>3. job.verify
  BY <1>2, GroupLives
<1>4. \A h \in Groups : /\ grp'[h].pc = grp[h].pc /\ grp'[h].stale = grp[h].stale /\ grp'[h].agree = grp[h].agree
                        /\ grp'[h].att = grp[h].att
  BY <1>1 DEF GroupStep, Becomes
<1>5. \A h \in Groups : Deciding(h)' <=> Deciding(h)
  BY <1>4 DEF Deciding
<1>6. \A k \in 1 .. Len(receipts') : \/ k \in 1 .. Len(receipts) /\ receipts'[k] = receipts[k]
                                     \/ receipts'[k].g = g /\ (receipts'[k].agree <=> grp[g].agree)
  <2>1. receipts \in Seq(Receipts)
    BY DEF Shapes
  <2>2. CASE receipts' = receipts
    BY <2>2
  <2>3. CASE receipts' = Append(receipts, [g |-> g, agree |-> grp[g].agree])
    <3>1. [g |-> g, agree |-> grp[g].agree].g = g /\ [g |-> g, agree |-> grp[g].agree].agree = grp[g].agree
      OBVIOUS
    <3>2. \A k \in 1 .. Len(receipts') : \/ k \in 1 .. Len(receipts) /\ receipts'[k] = receipts[k]
                                         \/ receipts'[k] = [g |-> g, agree |-> grp[g].agree]
      BY <2>1, <2>3
    <3>3. QED
      BY <3>1, <3>2
  <2>4. QED
    BY <1>2, <2>2, <2>3
<1>7. /\ {job.resG, row.resG, job.verG} \subseteq 0 .. MaxGroups /\ \A x \in 0 .. MaxGroups : x # 0 => x \in Groups
      /\ g # 0
  BY DEF Shapes, Groups
<1>8. Tells(job', grp', receipts') /\ Tells(row', grp', receipts')
  BY <1>2, <1>4, <1>6, <1>7 DEF Tells, StoryInv
<1>9. Unheard'
  BY <1>2, <1>4, <1>6 DEF Unheard, StoryInv
<1>10. Numbered'
  <2>1. Numbered
    BY <1>3 DEF StoryInv
  <2>2. QED
    BY <1>2, <1>4, <1>5, <2>1 DEF Numbered
<1>11. OneVoice'
  <2>1. OneVoice
    BY <1>3 DEF StoryInv
  <2>2. ~grp[g].stale => /\ Deciding(g) /\ job.verG = g
                         /\ job.ver = IF grp[g].agree THEN "agreed" ELSE "disputed"
    BY <1>2, <2>1 DEF OneVoice, Deciding
  <2>3. job'.st = "completed" => /\ job'.resG # 0 /\ grp'[job'.resG].att = job'.att
    BY <1>2, <1>4, <1>7, <2>1 DEF OneVoice
  <2>4. job'.ver # "none" => \/ job'.st = "completed"
                             \/ job'.verG # 0 /\ Deciding(job.verG)' /\ grp'[job'.verG].pc \in {"sign", "final"}
    BY <1>2, <1>4, <1>7, <2>1 DEF OneVoice, Deciding
  <2>5. primary' \in {0, job'.verG}
    BY <1>2, <2>1, <2>2 DEF OneVoice
  <2>6. ASSUME NEW h \in Groups, Deciding(h)', grp'[h].pc \in {"sign", "final"}
        PROVE  /\ job'.verG = h /\ job'.ver # "none"
               /\ grp'[h].pc = "sign" => job'.ver = IF grp'[h].agree THEN "agreed" ELSE "disputed"
               /\ \A k \in 1 .. Len(receipts') : receipts'[k].g = h /\ ~receipts'[k].agree => job'.ver = "disputed"
    <3>1. /\ job.verG = h /\ job.ver # "none"
          /\ grp[h].pc = "sign" => job.ver = IF grp[h].agree THEN "agreed" ELSE "disputed"
          /\ \A k \in 1 .. Len(receipts) : receipts[k].g = h /\ ~receipts[k].agree => job.ver = "disputed"
          /\ ~grp[h].stale
      BY <1>4, <1>5, <2>1, <2>6 DEF OneVoice, Deciding
    <3>2. QED
      BY <1>2, <1>4, <1>6, <2>2, <3>1
  <2>7. QED
    BY <1>2, <2>1, <2>3, <2>4, <2>5, <2>6 DEF OneVoice
<1>12. QED
  BY <1>2, <1>3, <1>8, <1>9, <1>10, <1>11 DEF StoryInv

\* A dispatch, while nobody is ending the job.
LEMMA LaunchStory ==
  ASSUME MaxRaces = 0, Shapes, InOrder, StoryInv, Launch
  PROVE  StoryInv'
<1>1. PICK g \in Groups :
        /\ Used = 1 .. (g - 1) /\ grp[g].pc = "none" /\ Becomes(g, grp'[g]) /\ GroupShape(grp'[g])
        /\ grp'[g].pc = "run" /\ grp'[g].ok = <<>> /\ grp'[g].agree = FALSE /\ grp'[g].stale = FALSE
        /\ grp'[g].att = job.att + 1 /\ \A i \in Replicas : grp'[g].th[i].pc = "send"
  BY LaunchIs
<1>2. \A h \in Groups \ {g} : grp'[h] = grp[h]
  BY <1>1 DEF Becomes
<1>3. job.verify /\ job.att \in Nat
  BY DEF Launch, Shapes
<1>4. job.st = "pending" /\ \A h \in Groups : ~Deciding(h)
  BY DEF Launch, Shapes
<1>5. receipts' = receipts /\ row' = row /\ primary' = primary
  BY DEF Launch
<1>6. /\ job'.verify = job.verify /\ job'.att = job.att + 1 /\ job'.ver = job.ver /\ job'.verG = job.verG
      /\ job'.st = "running"
  <2>1. job' = [job EXCEPT !.st = "running", !.att = @ + 1, !.node = asg.got[1]]
    BY DEF Launch
  <2>2. QED
    BY <2>1 DEF Shapes
<1>7. /\ {row.resG, job.verG} \subseteq 0 .. MaxGroups /\ \A x \in 0 .. MaxGroups : x # 0 => x \in Groups
  BY DEF Shapes, Groups
<1>8. \A h \in Groups : ~Deciding(h)'
  BY <1>1, <1>2, <1>4 DEF Deciding
<1>9. Tells(job', grp', receipts')
  BY <1>6 DEF Tells
<1>10. Tells(row', grp', receipts')
  <2>1. \A h \in Groups : grp[h].pc \in {"persist", "done"} => grp'[h].pc \in {"persist", "done"}
    BY <1>1, <1>2
  <2>2. row.resG \in 0 .. MaxGroups /\ Tells(row, grp, receipts)
    BY <1>7 DEF StoryInv
  <2>3. QED
    BY <1>5, <2>1, <2>2, StillTells
<1>11. Unheard'
  BY <1>1, <1>2, <1>5 DEF Unheard, StoryInv
<1>12. Numbered'
  <2>1. Numbered /\ \A h \in Groups : grp[h].att \in Nat
    BY <1>3 DEF StoryInv, Shapes, GroupShape
  <2>2. \A h \in Groups \ {g} : grp'[h].pc # "none" => grp'[h].att <= job.att /\ grp'[h].att \in Nat
    BY <1>2, <2>1 DEF Numbered
  <2>3. \A h \in Groups : grp'[h].pc # "none" => grp'[h].att <= job'.att
    BY <1>1, <1>3, <1>6, <2>2
  <2>4. \A h, l \in Groups : grp'[h].pc # "none" /\ grp'[l].pc # "none" /\ grp'[h].att = grp'[l].att => h = l
    <3>1. \A h \in Groups \ {g} : grp'[h].pc # "none" => grp'[h].att # grp'[g].att
      BY <1>1, <1>3, <2>2
    <3>2. QED
      BY <1>2, <2>1, <3>1 DEF Numbered
  <2>5. \A h \in Groups : grp'[h].pc \in {"failing", "final"} => ~grp'[h].stale
    BY <1>1, <1>2, <2>1 DEF Numbered
  <2>6. QED
    BY <1>8, <2>3, <2>4, <2>5 DEF Numbered
<1>13. OneVoice'
  <2>1. OneVoice
    BY <1>3 DEF StoryInv
  <2>2. job.ver = "none"
    BY <1>4, <1>7, <2>1 DEF OneVoice
  <2>3. QED
    BY <1>5, <1>6, <1>8, <2>1, <2>2 DEF OneVoice
<1>14. QED
  BY <1>3, <1>6, <1>9, <1>10, <1>11, <1>12, <1>13 DEF StoryInv

LEMMA RestartStory ==
  ASSUME Shapes, StoryInv, Restart
  PROVE  StoryInv'
<1>1. \A g \in Groups : grp'[g].pc \in {"none", "done"} /\ (grp'[g].pc = "none" <=> grp[g].pc = "none")
  BY RestartIs
<1>2. receipts' = receipts /\ job'.verify = FALSE
  BY DEF Restart
<1>3. /\ job'.st = "completed" => job'.st = row.st
      /\ job'.ver = row.ver /\ job'.verG = row.verG /\ job'.resG = row.resG
  BY DEF Restart
<1>4. /\ row'.st = "completed" => row'.st = row.st
      /\ row'.ver = row.ver /\ row'.verG = row.verG /\ row'.resG = row.resG
  BY DEF Restart, Shapes
<1>5. Tells(job', grp', receipts') /\ Tells(row', grp', receipts')
  <2>1. \A h \in Groups : grp[h].pc \in {"persist", "done"} => grp'[h].pc \in {"persist", "done"}
    BY <1>1
  <2>2. row.resG \in 0 .. MaxGroups /\ Tells(row, grp, receipts)
    BY DEF Shapes, StoryInv
  <2>3. Tells(job', grp', receipts)
    BY <1>3, <2>1, <2>2, StillTells
  <2>4. Tells(row', grp', receipts)
    BY <1>4, <2>1, <2>2, StillTells
  <2>5. QED
    BY <1>2, <2>3, <2>4
<1>6. Unheard'
  BY <1>1, <1>2 DEF Unheard, StoryInv
<1>7. QED
  BY <1>1, <1>2, <1>5, <1>6 DEF StoryInv, Settled

LEMMA RunPlainStory ==
  ASSUME Shapes, StoryInv, RunPlain
  PROVE  StoryInv'
<1>1. PICK n \in up, s \in {"completed", "failed"} :
             /\ job' = [job EXCEPT !.st = s, !.node = n, !.att = @ + 1, !.resG = 0]
             /\ row' = [row EXCEPT !.st = s, !.resG = 0]
  BY DEF RunPlain
<1>2. job'.resG = 0 /\ row'.resG = 0 /\ job.verify = FALSE /\ job'.verify = FALSE
  BY <1>1 DEF Shapes, RunPlain
<1>3. grp' = grp /\ receipts' = receipts
  BY DEF RunPlain
<1>4. QED
  BY <1>2, <1>3 DEF StoryInv, Tells, Unheard, Settled

\* A thread's step, a node's coming and going, a command or a recovery is none of the story.
LEMMA ThreadStory ==
  ASSUME Shapes, StoryInv, NEW g \in Groups, NEW i \in Replicas,
         Send(g, i) \/ Answer(g, i) \/ Store(g, i) \/ NoAnswer(g, i) \/ FailOne(g, i) \/ FreeOne(g, i)
  PROVE  StoryInv'
<1>1. job' = job /\ receipts' = receipts /\ primary' = primary
  BY DEF Send, Answer, Store, NoAnswer, FailOne, FreeOne
<1>2. row' = row \/ row'.st # "completed"
  BY DEF Send, Answer, Store, NoAnswer, FailOne, FreeOne, Shapes
<1> DEFINE Same == \A h \in Groups : /\ grp'[h].pc = grp[h].pc /\ grp'[h].att = grp[h].att
                                    /\ grp'[h].stale = grp[h].stale /\ grp'[h].agree = grp[h].agree
<1>3. Same
  <2>1. \/ \E x : grp' = [grp EXCEPT ![g].th[i].pc = x]
        \/ \E x, y : grp' = [grp EXCEPT ![g].th[i].pc = x, ![g].th[i].id = y]
        \/ \E x, y : grp' = [grp EXCEPT ![g].th[i].pc = x, ![g].th[i].res = y]
        \/ \E q : grp' = [grp EXCEPT ![g].th[i].pc = "ok", ![g].ok = q]
    <3>1. CASE FreeOne(g, i)
      BY <3>1 DEF FreeOne, Step, Shapes, GroupShape
    <3>2. CASE Send(g, i) \/ Answer(g, i) \/ Store(g, i) \/ NoAnswer(g, i) \/ FailOne(g, i)
      BY <3>2 DEF Send, Answer, Store, NoAnswer, FailOne, Step
    <3>3. QED
      BY <3>1, <3>2
  <2>2. /\ DOMAIN grp = Groups /\ DOMAIN grp[g].th = Replicas
        /\ DOMAIN grp[g] = {"pc", "att", "th", "ok", "stale", "agree", "left", "first"}
    BY DEF Shapes, GroupShape
  <2>3. ASSUME NEW x, grp' = [grp EXCEPT ![g].th[i].pc = x] PROVE Same
    BY <2>2, <2>3
  <2>4. ASSUME NEW x, NEW y, grp' = [grp EXCEPT ![g].th[i].pc = x, ![g].th[i].id = y] PROVE Same
    BY <2>2, <2>4
  <2>5. ASSUME NEW x, NEW y, grp' = [grp EXCEPT ![g].th[i].pc = x, ![g].th[i].res = y] PROVE Same
    BY <2>2, <2>5
  <2>6. ASSUME NEW q, grp' = [grp EXCEPT ![g].th[i].pc = "ok", ![g].ok = q] PROVE Same
    BY <2>2, <2>6
  <2>7. QED
    BY <2>1, <2>3, <2>4, <2>5, <2>6
<1>4. QED
  BY <1>1, <1>2, <1>3, QuietStory

LEMMA AroundStory ==
  ASSUME Shapes, StoryInv,
         \/ Pop \/ Claim \/ Short \/ Removed \/ Cancel
         \/ \E n \in Nodes : Recover(n) \/ Disconnect(n) \/ Silent(n) \/ Return(n) \/ Deregister(n)
  PROVE  StoryInv'
<1>1. CASE Pop \/ Claim \/ Short \/ Removed \/ \E n \in Nodes : Silent(n) \/ Return(n) \/ Deregister(n)
  <2>1. job' = job /\ row' = row /\ grp' = grp /\ receipts' = receipts /\ primary' = primary
    BY <1>1 DEF Pop, Claim, Short, Removed, Silent, Return, Deregister
  <2>2. QED
    BY <2>1, QuietStory
<1>2. ASSUME NEW n \in Nodes, Disconnect(n) PROVE StoryInv'
  <2>1. job' = job /\ row' = row /\ grp' = Cut(n) /\ receipts' = receipts /\ primary' = primary
    BY <1>2 DEF Disconnect
  <2>2. Quiet
    BY <2>1, CutIsQuiet
  <2>3. QED
    BY <2>1, <2>2, QuietStory DEF Quiet
<1>3. ASSUME NEW n \in Nodes, Recover(n) PROVE StoryInv'
  <2>1. grp' = grp /\ receipts' = receipts /\ primary' = primary
    BY <1>3 DEF Recover
  <2>2. CASE job' = job /\ row' = row
    BY <2>1, <2>2, QuietStory
  <2>3. CASE job.st = "running" /\ (row' = row \/ row'.st = "failed")
             /\ \/ job' = [job EXCEPT !.st = "failed", !.node = None, !.resG = 0]
                \/ job' = [job EXCEPT !.st = "pending", !.node = None]
    <3>1. /\ job'.verify = job.verify /\ job'.att = job.att /\ job'.ver = job.ver /\ job'.verG = job.verG
          /\ job'.st # "completed" /\ job.st # "completed" /\ (row' = row \/ row'.st # "completed")
      BY <2>3 DEF Shapes
    <3>2. QED
      BY <2>1, <3>1, QuietStory
  <2>4. QED
    BY <1>3, <2>2, <2>3 DEF Recover
<1>4. CASE Cancel
  <2>1. grp' = grp /\ receipts' = receipts /\ primary' = primary
    BY <1>4 DEF Cancel
  <2>2. /\ job'.verify = job.verify /\ job'.att = job.att /\ job'.ver = job.ver /\ job'.verG = job.verG
        /\ job'.st # "completed" /\ job.st # "completed" /\ (row' = row \/ row'.st # "completed")
    BY <1>4 DEF Cancel, Shapes
  <2>3. QED
    BY <2>1, <2>2, QuietStory
<1>5. QED
  BY <1>1, <1>2, <1>3, <1>4

LEMMA NextStory ==
  ASSUME MaxRaces = 0, EarnInv, StoryInv, [Next]_vars
  PROVE  StoryInv'
<1>0. Shapes /\ InOrder
  BY DEF EarnInv
<1>1. CASE \/ Pop \/ Claim \/ Short \/ Removed \/ Cancel
           \/ \E n \in Nodes : Recover(n) \/ Disconnect(n) \/ Silent(n) \/ Return(n) \/ Deregister(n)
  BY <1>0, <1>1, AroundStory
<1>2. CASE Launch
  BY <1>0, <1>2, LaunchStory
<1>3. ASSUME NEW g \in Groups, Runner(g) PROVE StoryInv'
  <2>1. ASSUME NEW i \in Replicas,
               Send(g, i) \/ Answer(g, i) \/ Store(g, i) \/ NoAnswer(g, i) \/ FailOne(g, i) \/ FreeOne(g, i)
        PROVE  StoryInv'
    BY <1>0, <2>1, ThreadStory
  <2>2. CASE Join(g) \/ FailGroup(g) \/ Compare(g)
    BY <1>0, <2>2, JoinStory, FailGroupStory, CompareStory
  <2>3. CASE Sign(g) \/ Signed(g) \/ Complete(g) \/ Persist(g)
    BY <1>0, <2>3, SignStory, SignedStory, CompleteStory, PersistStory
  <2>4. QED
    BY <1>3, <2>1, <2>2, <2>3 DEF Runner
<1>4. CASE Restart \/ RunPlain
  BY <1>0, <1>4, RestartStory, RunPlainStory
<1>5. CASE UNCHANGED vars
  <2>1. job' = job /\ row' = row /\ grp' = grp /\ receipts' = receipts /\ primary' = primary
    BY <1>5 DEF vars
  <2>2. QED
    BY <1>0, <2>1, QuietStory
<1>6. QED
  BY <1>1, <1>2, <1>3, <1>4, <1>5 DEF Next

LEMMA InitStory == Init => StoryInv
<1> SUFFICES ASSUME Init PROVE StoryInv
  OBVIOUS
<1>1. \A g \in Groups : grp[g] = NoGroup
  BY DEF Init
<1>2. /\ job.st = "pending" /\ job.att = 0 /\ job.verify = TRUE /\ job.ver = "none" /\ job.verG = 0
      /\ row.st = "pending" /\ receipts = <<>> /\ primary = 0
  BY DEF Init
<1>3. \A g \in Groups : grp[g].pc = "none" /\ ~Deciding(g)
  BY <1>1, NoGroupIs DEF Deciding
<1>4. Numbered /\ OneVoice
  BY <1>2, <1>3 DEF Numbered, OneVoice
<1>5. QED
  BY <1>2, <1>3, <1>4 DEF StoryInv, Tells, Unheard

LEMMA StoryHolds ==
  ASSUME MaxRaces = 0
  PROVE  Spec => [](EarnInv /\ StoryInv)
<1>1. EarnInv /\ StoryInv /\ [Next]_vars => EarnInv' /\ StoryInv'
  BY NextEarn, NextStory
<1>2. QED
  BY <1>1, InitEarn, InitStory, PTL DEF Spec

(* Unless a group is started while an older one is ending the job: a       *)
(* completed job, its verdict and the receipt shown for it, in memory and  *)
(* in the table, are of one group, whichever groups still run              *)
(* (_run_replicated_job: is_stale).                                        *)
THEOREM OneStoryTold ==
  ASSUME MaxRaces = 0
  PROVE  Spec => []OneStory
<1>1. EarnInv /\ StoryInv => OneStory
  BY DEF EarnInv, Shapes, StoryInv, Tells, OneVoice, OneStory
<1>2. QED
  BY <1>1, StoryHolds, PTL

\* Where the process does not die with a worker's word in the row, a restart
\* leaves none there, and no thread to write one.
LEMMA NextReloaded ==
  ASSUME CrashBeforePersist = FALSE, Shapes, StoryInv, Reloaded, [Next]_vars
  PROVE  Reloaded'
<1>1. CASE Restart
  <2>1. \A g \in Groups, i \in Replicas : grp'[g].th[i].pc = "none"
    BY <1>1, RestartIs
  <2>2. row'.st # "success"
    <3>1. row.st # "success" /\ \E st \in {row.st, "failed", "pending"} : row' = [row EXCEPT !.st = st]
      BY <1>1 DEF Restart
    <3>2. QED
      BY <3>1 DEF Shapes
  <2>3. QED
    BY <2>1, <2>2 DEF Reloaded
<1> SUFFICES ASSUME ~Restart, ~job'.verify PROVE Reloaded'
  BY <1>1 DEF Reloaded
<1>2. ~job.verify
  <2>1. job' = job => job'.verify = job.verify
    OBVIOUS
  <2>2. DOMAIN job = {"st", "att", "node", "cancel", "verify", "ver", "verG", "resG"}
    BY DEF Shapes
  <2>3. ASSUME NEW g \in Groups, Runner(g) PROVE job'.verify = job.verify
    BY <2>2, <2>3 DEF Runner, Send, Answer, Store, NoAnswer, FailOne, FreeOne, Join, FailGroup, Compare, Sign,
       Signed, Complete, Persist
  <2>4. ASSUME NEW n \in Nodes, Recover(n) \/ Disconnect(n) \/ Silent(n) \/ Return(n) \/ Deregister(n)
        PROVE  job'.verify = job.verify
    BY <2>2, <2>4 DEF Recover, Disconnect, Silent, Return, Deregister
  <2>5. CASE Pop \/ Claim \/ Short \/ Removed \/ Launch \/ Cancel \/ RunPlain \/ UNCHANGED vars
    BY <2>2, <2>5 DEF Pop, Claim, Short, Removed, Launch, Cancel, RunPlain, vars
  <2>6. QED
    BY <2>3, <2>4, <2>5 DEF Next
<1>3. /\ ~asg.on /\ job.st # "running" /\ row.st # "success"
      /\ \A g \in Groups : grp[g].pc \in {"none", "done"}
      /\ \A g \in Groups, i \in Replicas : grp[g].th[i].pc = "none"
  BY <1>2 DEF Shapes, StoryInv, Settled, Reloaded
<1>4. ~Launch /\ \A g \in Groups : ~Runner(g)
  <2>1. ASSUME NEW g \in Groups, NEW i \in Replicas
        PROVE  ~(Send(g, i) \/ Answer(g, i) \/ Store(g, i) \/ NoAnswer(g, i) \/ FailOne(g, i) \/ FreeOne(g, i))
    <3>1. grp[g].th[i].pc = "none"
      BY <1>3
    <3>2. QED
      BY <3>1 DEF Send, Answer, Store, NoAnswer, FailOne, FreeOne
  <2>2. ASSUME NEW g \in Groups
        PROVE  ~(Join(g) \/ FailGroup(g) \/ Compare(g) \/ Sign(g) \/ Signed(g) \/ Complete(g) \/ Persist(g))
    <3>1. grp[g].pc \in {"none", "done"}
      BY <1>3
    <3>2. QED
      BY <3>1 DEF Join, Joined, FailGroup, Compare, Sign, Signed, Complete, Persist
  <2>3. ~Launch
    BY <1>3 DEF Launch
  <2>4. QED
    BY <2>1, <2>2, <2>3 DEF Runner
<1>5. CASE Pop \/ Claim \/ Short \/ Removed \/ UNCHANGED vars
           \/ \E n \in Nodes : Recover(n) \/ Silent(n) \/ Return(n) \/ Deregister(n)
  <2>1. row' = row /\ grp' = grp
    BY <1>3, <1>5 DEF Pop, Claim, Short, Removed, Recover, Silent, Return, Deregister, vars
  <2>2. QED
    BY <1>3, <2>1 DEF Reloaded
<1>6. ASSUME NEW n \in Nodes, Disconnect(n) PROVE Reloaded'
  <2>1. row' = row /\ grp' = Cut(n)
    BY <1>6 DEF Disconnect
  <2>2. \A g \in Groups, i \in Replicas : grp'[g].th[i].pc = grp[g].th[i].pc
    BY <2>1, CutIsQuiet DEF Quiet
  <2>3. QED
    BY <1>3, <2>1, <2>2 DEF Reloaded
<1>7. CASE Cancel \/ RunPlain
  <2>1. grp' = grp
    BY <1>7 DEF Cancel, RunPlain
  <2>2. row' = row \/ row'.st \in {"cancelled", "completed", "failed"}
    BY <1>7 DEF Cancel, RunPlain, Shapes
  <2>3. QED
    BY <1>3, <2>1, <2>2 DEF Reloaded
<1>8. QED
  BY <1>4, <1>5, <1>6, <1>7 DEF Next

(* Under the same condition, and where the process does not die between a  *)
(* worker's word in the row and _persist_job_status: a completed row       *)
(* carries its group's verdict, and a job shown as done the dispute that   *)
(* any of its group's receipts records, also after a restart               *)
(* (_persist_job_status, _job_verification).                               *)
THEOREM VerdictsKept ==
  ASSUME MaxRaces = 0, CrashBeforePersist = FALSE
  PROVE  Spec => []VerdictIsKept
<1>1. EarnInv /\ StoryInv /\ Reloaded => VerdictIsKept
  <2>1. EarnInv => DOMAIN receipts = 1 .. Len(receipts) /\ \A k \in DOMAIN receipts : receipts[k].g # 0
    <3>1. EarnInv => receipts \in Seq(Receipts) /\ DOMAIN receipts = 1 .. Len(receipts)
      BY DEF EarnInv, Shapes
    <3>2. \A k \in Receipts : k.g # 0
      BY DEF Receipts, Groups
    <3>3. QED
      BY <3>1, <3>2
  <2>2. QED
    BY <2>1 DEF StoryInv, Tells, Reloaded, ShownDone, VerdictIsKept
<1>2. Init => Reloaded
  BY DEF Init, Reloaded
<1>3. EarnInv /\ StoryInv /\ Reloaded /\ [Next]_vars => Reloaded'
  BY NextReloaded DEF EarnInv
<1>4. QED
  BY <1>1, <1>2, <1>3, StoryHolds, PTL DEF Spec

-----------------------------------------------------------------------------
(* Nothing is stranded.                                                    *)

\* A thread keeps its worker, and gives it back when it ends.
LEMMA ThreadBusy ==
  ASSUME Shapes, StrandInv, NEW g \in Groups, NEW i \in Replicas,
         \A h \in Groups : h # g => grp'[h] = grp[h],
         \A l \in Replicas : l # i => grp'[g].th[l] = grp[g].th[l],
         grp'[g].pc = grp[g].pc, grp'[g].th[i].node = grp[g].th[i].node,
         grp[g].th[i].pc \in AtWork, asg' = asg,
         \/ grp'[g].th[i].pc \in AtWork /\ reg' = reg
         \/ reg' = reg /\ reg[grp[g].th[i].node] = "gone"
         \/ reg' = Mark(reg, grp[g].th[i].node, "idle")
  PROVE  Busy' /\ Ended' /\ DOMAIN reg' = Nodes
<1>1. DOMAIN reg' = Nodes /\ \A n \in Nodes : n # grp[g].th[i].node => reg'[n] = reg[n]
  BY DEF StrandInv, Mark
<1>2. grp'[g].th[i].pc \in AtWork \/ (grp[g].th[i].node \in Nodes => reg'[grp[g].th[i].node] # "busy")
  BY DEF StrandInv, Mark
<1>3. Ended'
  BY DEF StrandInv, Ended
<1>4. ASSUME NEW n \in Nodes, reg'[n] = "busy", Has(n) PROVE Has(n)'
  <2>1. PICK h \in Groups, l \in Replicas : grp[h].th[l].node = n /\ grp[h].th[l].pc \in AtWork
    BY <1>4 DEF Has
  <2>2. grp'[h].th[l].node = n /\ grp'[h].th[l].pc \in AtWork
    BY <1>2, <1>4, <2>1
  <2>3. QED
    BY <2>2 DEF Has
<1>5. ASSUME NEW n \in Nodes, reg'[n] = "busy" PROVE Claimed(n)' \/ Has(n)'
  <2>1. CASE n # grp[g].th[i].node
    BY <1>1, <1>4, <1>5, <2>1 DEF StrandInv, Busy, Claimed
  <2>2. CASE n = grp[g].th[i].node
    BY <1>2, <1>5, <2>2 DEF Has
  <2>3. QED
    BY <2>1, <2>2
<1>6. QED
  BY <1>1, <1>3, <1>5 DEF Busy

\* No thread moves.
LEMMA StillBusy ==
  ASSUME StrandInv,
         \A g \in Groups, i \in Replicas : /\ grp'[g].th[i].pc = grp[g].th[i].pc
                                           /\ grp'[g].th[i].node = grp[g].th[i].node,
         \A n \in Nodes : reg'[n] = "busy" => (reg[n] = "busy" /\ (Claimed(n) => Claimed(n)')) \/ Has(n) \/ Claimed(n)'
  PROVE  Busy'
<1>1. \A n \in Nodes : Has(n) => Has(n)'
  BY DEF Has
<1>2. QED
  BY <1>1 DEF StrandInv, Busy

\* The job is carried on by whom it was.
LEMMA StillCarried ==
  ASSUME StrandInv, job'.st = "running" => job.st = "running",
         \A g \in Groups : Carries(g) => Carries(g)'
  PROVE  Carried'
  BY DEF StrandInv, Carried

LEMMA ThreadStrand ==
  ASSUME Shapes, StrandInv, NEW g \in Groups, NEW i \in Replicas,
         Send(g, i) \/ Answer(g, i) \/ Store(g, i) \/ NoAnswer(g, i) \/ FailOne(g, i) \/ FreeOne(g, i)
  PROVE  StrandInv'
<1>1. job' = job /\ asg' = asg /\ queued' = queued
  BY DEF Send, Answer, Store, NoAnswer, FailOne, FreeOne
<1>2. grp[g].th[i].pc \in AtWork
  BY DEF Send, Answer, Store, NoAnswer, FailOne, FreeOne, AtWork
<1> DEFINE Kept == /\ \A h \in Groups : h # g => grp'[h] = grp[h]
                   /\ \A l \in Replicas : l # i => grp'[g].th[l] = grp[g].th[l]
                   /\ grp'[g].pc = grp[g].pc /\ grp'[g].att = grp[g].att /\ grp'[g].stale = grp[g].stale
                   /\ grp'[g].th[i].node = grp[g].th[i].node
<1>3. /\ DOMAIN grp = Groups /\ DOMAIN grp[g].th = Replicas
      /\ DOMAIN grp[g] = {"pc", "att", "th", "ok", "stale", "agree", "left", "first"}
      /\ DOMAIN grp[g].th[i] = {"pc", "node", "cut", "res", "id"}
  BY DEF Shapes, GroupShape
<1>4. ASSUME NEW x, grp' = [grp EXCEPT ![g].th[i].pc = x] PROVE Kept /\ grp'[g].th[i].pc = x
  BY <1>3, <1>4
<1>5. ASSUME NEW x, NEW y, grp' = [grp EXCEPT ![g].th[i].pc = x, ![g].th[i].id = y]
      PROVE  Kept /\ grp'[g].th[i].pc = x
  BY <1>3, <1>5
<1>6. ASSUME NEW x, NEW y, grp' = [grp EXCEPT ![g].th[i].pc = x, ![g].th[i].res = y]
      PROVE  Kept /\ grp'[g].th[i].pc = x
  BY <1>3, <1>6
<1>7. ASSUME NEW q, grp' = [grp EXCEPT ![g].th[i].pc = "ok", ![g].ok = q] PROVE Kept
  BY <1>3, <1>7
<1>8. /\ Kept
      /\ \/ grp'[g].th[i].pc \in AtWork /\ reg' = reg
         \/ reg' = reg /\ reg[grp[g].th[i].node] = "gone"
         \/ reg' = Mark(reg, grp[g].th[i].node, "idle")
  <2> HIDE DEF Kept
  <2>1. CASE Send(g, i)
    BY <1>4, <1>5, <2>1 DEF Send, Step, AtWork
  <2>2. CASE Answer(g, i)
    BY <1>6, <2>2 DEF Answer, AtWork
  <2>3. CASE Store(g, i) \/ NoAnswer(g, i) \/ FailOne(g, i)
    BY <1>4, <2>3 DEF Store, NoAnswer, FailOne, Step, AtWork
  <2>4. CASE FreeOne(g, i)
    <3>1. CASE Step(g, i, "dead")
      BY <1>4, <2>4, <3>1 DEF FreeOne, Step
    <3>2. CASE ~Step(g, i, "dead")
      <4>1. \E q : grp' = [grp EXCEPT ![g].th[i].pc = "ok", ![g].ok = q]
        BY <1>3, <2>4, <3>2 DEF FreeOne
      <4>2. QED
        BY <1>7, <2>4, <3>2, <4>1 DEF FreeOne
    <3>3. QED
      BY <3>1, <3>2
  <2>5. QED
    BY <2>1, <2>2, <2>3, <2>4
<1>9. Busy' /\ Ended' /\ DOMAIN reg' = Nodes
  BY <1>1, <1>2, <1>8, ThreadBusy
<1>10. Carried'
  BY <1>1, <1>8, StillCarried DEF Carries
<1>11. QED
  BY <1>1, <1>9, <1>10 DEF StrandInv, Waiting

\* One group's own thread moves, after its replicas have ended.
LEMMA GroupStrand ==
  ASSUME StrandInv, NEW g \in Groups, GroupStep(g), \A i \in Replicas : grp[g].th[i].pc \notin AtWork,
         reg' = reg /\ asg' = asg /\ queued' = queued,
         job'.att = job.att, job'.st \in {"running", "pending"} => job'.st = job.st,
         job'.st # "running" \/ (Carries(g) => Carries(g)')
  PROVE  StrandInv'
<1>1. /\ \A h \in Groups \ {g} : grp'[h] = grp[h] /\ (Carries(h) => Carries(h)')
      /\ grp'[g].th = grp[g].th
  BY DEF GroupStep, Becomes, Carries
<1>2. Busy'
  BY <1>1, StillBusy DEF StrandInv, Claimed
<1>3. Ended'
  BY <1>1 DEF StrandInv, Ended
<1>4. Carried'
  BY <1>1 DEF StrandInv, Carried
<1>5. QED
  BY <1>2, <1>3, <1>4 DEF StrandInv, Waiting

LEMMA AfterStrand ==
  ASSUME Shapes, StrandInv, NEW g \in Groups,
         Join(g) \/ FailGroup(g) \/ Compare(g) \/ Sign(g) \/ Signed(g) \/ Complete(g) \/ Persist(g)
  PROVE  StrandInv'
<1>1. reg' = reg /\ asg' = asg /\ queued' = queued
  BY DEF Join, FailGroup, Compare, Sign, Signed, Complete, Persist
<1>2. \A i \in Replicas : grp[g].th[i].pc \notin AtWork
  <2>1. CASE grp[g].pc # "run"
    BY <2>1 DEF StrandInv, Ended
  <2>2. CASE grp[g].pc = "run"
    BY <2>2 DEF Join, Joined, FailGroup, Compare, Sign, Signed, Complete, Persist, AtWork
  <2>3. QED
    BY <2>1, <2>2
<1>3. job'.att = job.att /\ (job'.st \in {"running", "pending"} => job'.st = job.st)
  BY DEF Join, FailGroup, Compare, Sign, Signed, Complete, Persist, Shapes
<1>4. GroupStep(g) /\ (job'.st # "running" \/ (Carries(g) => Carries(g)'))
  <2>1. CASE Join(g)
    <3>1. GroupStep(g) /\ job' = job
      BY <2>1, JoinIs DEF Join
    <3>2. job.att = grp[g].att => grp'[g].stale = FALSE /\ grp'[g].pc \in {"compare", "failing"}
      BY <2>1, JoinIs
    <3>3. QED
      BY <3>1, <3>2 DEF GroupStep, Carries
  <2>2. CASE FailGroup(g) \/ Complete(g)
    <3>1. GroupStep(g)
      BY <2>2, PcIs DEF FailGroup, Complete
    <3>2. job'.st # "running"
      BY <2>2 DEF FailGroup, Complete, Shapes
    <3>3. QED
      BY <3>1, <3>2
  <2>3. CASE Compare(g)
    <3>1. GroupStep(g) /\ grp'[g].stale = grp[g].stale /\ (~grp[g].stale => grp'[g].pc \in {"sign", "final"})
      <4>1. ASSUME NEW pc, grp' = [grp EXCEPT ![g].pc = pc]
            PROVE  GroupStep(g) /\ grp'[g].stale = grp[g].stale /\ grp'[g].pc = pc
        BY <4>1, PcIs
      <4>2. CASE grp' = [grp EXCEPT ![g].pc = IF grp[g].stale THEN "done" ELSE "final"]
        BY <4>1, <4>2
      <4>3. ASSUME NEW a \in BOOLEAN, NEW l, grp' = [grp EXCEPT ![g].pc = "sign", ![g].agree = a, ![g].left = l]
            PROVE  GroupStep(g) /\ grp'[g].stale = grp[g].stale /\ grp'[g].pc = "sign"
        BY <4>3, ComparedIs
      <4>4. CASE grp' = [grp EXCEPT ![g].pc = "sign", ![g].agree = Agree([k \in Good(g) |-> grp[g].th[grp[g].ok[k]].res]),
                                    ![g].left = Good(g)]
        <5>1. Agree([k \in Good(g) |-> grp[g].th[grp[g].ok[k]].res]) \in BOOLEAN
          BY DEF Agree
        <5>2. QED
          BY <4>3, <4>4, <5>1
      <4>5. QED
        BY <2>3, <4>2, <4>4 DEF Compare
    <3>2. QED
      BY <1>3, <3>1 DEF GroupStep, Carries
  <2>4. CASE Sign(g)
    BY <1>3, <2>4, SignIs DEF GroupStep, Carries
  <2>5. CASE Signed(g)
    <3>1. /\ GroupStep(g) /\ grp'[g].stale = grp[g].stale
          /\ grp'[g].pc = IF grp[g].stale THEN "done" ELSE "final"
      <4>1. ASSUME NEW pc, grp' = [grp EXCEPT ![g].pc = pc]
            PROVE  GroupStep(g) /\ grp'[g].stale = grp[g].stale /\ grp'[g].pc = pc
        BY <4>1, PcIs
      <4>2. QED
        BY <2>5, <4>1 DEF Signed
    <3>2. QED
      BY <1>3, <3>1 DEF GroupStep, Carries
  <2>6. CASE Persist(g)
    <3>1. GroupStep(g)
      BY <2>6, PcIs DEF Persist
    <3>2. QED
      BY <2>6, <3>1 DEF Persist, Carries
  <2>7. QED
    BY <2>1, <2>2, <2>3, <2>4, <2>5, <2>6
<1>5. QED
  BY <1>1, <1>2, <1>3, <1>4, GroupStrand

\* An assignment claims workers, or gives them all back.
LEMMA AssignStrand ==
  ASSUME Shapes, StrandInv, Pop \/ Claim \/ Short \/ Removed
  PROVE  StrandInv'
<1>1. grp' = grp /\ job' = job
  BY DEF Pop, Claim, Short, Removed
<1>2. Carried' /\ Ended'
  BY <1>1 DEF StrandInv, Carried, Carries, Ended
<1>3. asg.got \in Seq(Nodes) /\ DOMAIN asg = {"on", "locked", "got"}
  BY DEF Shapes
<1>4. CASE Pop
  <2>1. reg' = reg /\ ~asg.on /\ (asg' = asg \/ asg' = [Idle EXCEPT !.on = TRUE])
    BY <1>4 DEF Pop
  <2>2. asg'.got = asg.got
    BY <2>1, IdleIs DEF StrandInv
  <2>3. Busy'
    BY <1>1, <2>1, <2>2, StillBusy DEF Claimed
  <2>4. Waiting'
    BY <1>1, <1>4, IdleIs DEF Pop, Waiting
  <2>5. QED
    BY <1>2, <2>1, <2>2, <2>3, <2>4 DEF StrandInv
<1>5. CASE Claim
  <2>1. PICK n \in Nodes : reg' = [reg EXCEPT ![n] = "busy"] /\ asg' = [asg EXCEPT !.got = Append(@, n)]
    BY <1>5 DEF Claim
  <2>2. asg'.got = Append(asg.got, n) /\ asg'.on = asg.on /\ asg.on /\ queued' = queued
    BY <1>3, <1>5, <2>1 DEF Claim
  <2>3. /\ \A k \in DOMAIN asg.got : k \in DOMAIN asg'.got /\ asg'.got[k] = asg.got[k]
        /\ Len(asg.got) + 1 \in DOMAIN asg'.got /\ asg'.got[Len(asg.got) + 1] = n
    BY <1>3, <2>2
  <2>4. Claimed(n)' /\ \A m \in Nodes : Claimed(m) => Claimed(m)'
    BY <2>3 DEF Claimed
  <2>5. DOMAIN reg' = Nodes /\ \A m \in Nodes : m # n => reg'[m] = reg[m]
    BY <2>1 DEF StrandInv
  <2>6. Busy'
    BY <1>1, <2>4, <2>5, StillBusy
  <2>7. QED
    BY <1>1, <1>2, <2>2, <2>5, <2>6 DEF StrandInv, Waiting
<1>6. CASE Short \/ Removed
  <2>1. reg' = Released({asg.got[k] : k \in DOMAIN asg.got}) /\ asg' = Idle /\ queued' = TRUE
    BY <1>6 DEF Short, Removed
  <2>2. DOMAIN reg' = Nodes /\ \A n \in Nodes : reg'[n] = "busy" => reg[n] = "busy" /\ ~Claimed(n)
    BY <2>1 DEF Released, Claimed
  <2>3. Busy'
    BY <1>1, <2>2, StillBusy
  <2>4. QED
    BY <1>2, <2>1, <2>2, <2>3, IdleIs DEF StrandInv, Waiting
<1>7. QED
  BY <1>4, <1>5, <1>6

\* A dispatch: every claimed worker gets a thread, and the group carries the job.
LEMMA LaunchStrand ==
  ASSUME Shapes, InOrder, StrandInv, Launch
  PROVE  StrandInv'
<1>1. PICK g \in Groups :
           /\ grp[g].pc = "none" /\ Becomes(g, grp'[g]) /\ grp'[g].pc = "run" /\ grp'[g].stale = FALSE
           /\ grp'[g].att = job.att + 1
           /\ \A i \in Replicas : grp'[g].th[i].pc = "send" /\ grp'[g].th[i].node = asg.got[i]
  BY LaunchIs
<1>2. /\ DOMAIN reg' = Nodes /\ \A n \in Nodes : reg'[n] = IF Claimed(n) THEN "busy" ELSE reg[n]
      /\ asg' = Idle /\ DOMAIN asg.got = Replicas
  BY DEF Launch, Shapes, Replicas
<1>3. job'.st = "running" /\ job'.att = job.att + 1
  BY DEF Launch, Shapes
<1>4. Ended'
  BY <1>1 DEF StrandInv, Ended, Becomes
<1>5. Carried'
  BY <1>1, <1>3 DEF Carried, Carries
<1>6. ASSUME NEW n \in Nodes, Has(n) PROVE Has(n)'
  <2>1. PICK h \in Groups, l \in Replicas : grp[h].th[l].node = n /\ grp[h].th[l].pc \in AtWork
    BY <1>6 DEF Has
  <2>2. h # g
    BY <1>1, <2>1 DEF StrandInv, Ended
  <2>3. QED
    BY <1>1, <2>1, <2>2 DEF Has, Becomes
<1>7. ASSUME NEW n \in Nodes, Claimed(n) PROVE Has(n)'
  <2>1. PICK k \in Replicas : asg.got[k] = n
    BY <1>2, <1>7 DEF Claimed
  <2>2. grp'[g].th[k].node = n /\ grp'[g].th[k].pc \in AtWork
    BY <1>1, <2>1 DEF AtWork
  <2>3. QED
    BY <2>2 DEF Has
<1>8. Busy'
  BY <1>2, <1>6, <1>7 DEF StrandInv, Busy
<1>9. QED
  BY <1>2, <1>3, <1>4, <1>5, <1>8, IdleIs DEF StrandInv, Waiting

\* Workers come and go, a command is given, the job is taken up again.
LEMMA AroundStrand ==
  ASSUME Shapes, StrandInv, NEW n,
         Recover(n) \/ Disconnect(n) \/ Silent(n) \/ Return(n) \/ Deregister(n) \/ Cancel \/ RunPlain
  PROVE  StrandInv'
<1>1. \A g \in Groups : /\ grp'[g].pc = grp[g].pc /\ grp'[g].att = grp[g].att /\ grp'[g].stale = grp[g].stale
                        /\ \A i \in Replicas : /\ grp'[g].th[i].pc = grp[g].th[i].pc
                                               /\ grp'[g].th[i].node = grp[g].th[i].node
  <2>1. CASE Disconnect(n)
    BY <2>1, CutIsQuiet DEF Disconnect, Quiet
  <2>2. CASE ~Disconnect(n)
    BY <2>2 DEF Recover, Silent, Return, Deregister, Cancel, RunPlain
  <2>3. QED
    BY <2>1, <2>2
<1>2. Ended'
  BY <1>1 DEF StrandInv, Ended
<1>3. asg'.got = asg.got /\ (~asg'.on => ~asg.on)
  <2>1. asg' = asg \/ (~asg.on /\ asg' = [Idle EXCEPT !.on = TRUE, !.locked = TRUE])
    BY DEF Recover, Disconnect, Silent, Return, Deregister, Cancel, RunPlain
  <2>2. QED
    BY <2>1, IdleIs DEF StrandInv
<1>4. DOMAIN reg' = Nodes /\ \A m \in Nodes : reg'[m] = "busy" => reg[m] = "busy" \/ Has(m)
  <2>1. CASE Return(n)
    <3>1. OnNode(n) => Has(n)
      BY DEF OnNode, Has, AtWork
    <3>2. QED
      BY <2>1, <3>1 DEF Return, StrandInv
  <2>2. CASE ~Return(n)
    BY <2>2 DEF Recover, Disconnect, Silent, Deregister, Cancel, RunPlain, Mark, StrandInv
  <2>3. QED
    BY <2>1, <2>2
<1>5. Busy'
  BY <1>1, <1>3, <1>4, StillBusy DEF Claimed
<1>6. Carried'
  <2>1. job'.st = "running" => job.st = "running" /\ job'.att = job.att
    BY DEF Recover, Disconnect, Silent, Return, Deregister, Cancel, RunPlain, Shapes
  <2>2. QED
    BY <1>1, <2>1 DEF StrandInv, Carried, Carries
<1>7. Waiting'
  <2>1. CASE Recover(n)
    BY <2>1, IdleIs DEF Recover, StrandInv, Waiting, Shapes
  <2>2. CASE Disconnect(n) \/ Silent(n) \/ Return(n) \/ Deregister(n)
    BY <2>2 DEF Disconnect, Silent, Return, Deregister, StrandInv, Waiting
  <2>3. CASE Cancel \/ RunPlain
    BY <2>3 DEF Cancel, RunPlain, Shapes, StrandInv, Waiting
  <2>4. QED
    BY <2>1, <2>2, <2>3
<1>8. QED
  BY <1>2, <1>3, <1>4, <1>5, <1>6, <1>7 DEF StrandInv

LEMMA RestartStrand ==
  ASSUME Shapes, StrandInv, Restart
  PROVE  StrandInv'
<1>1. DOMAIN reg' = Nodes /\ \A n \in Nodes : reg'[n] # "busy"
  BY DEF Restart
<1>2. Ended'
  BY RestartIs DEF Ended, AtWork
<1>3. job'.st # "running" /\ (job'.st = "pending" => queued')
  BY DEF Restart
<1>4. QED
  BY <1>1, <1>2, <1>3, IdleIs DEF Restart, StrandInv, Busy, Carried, Waiting

LEMMA InitStrand == Init => StrandInv
<1> SUFFICES ASSUME Init PROVE StrandInv
  OBVIOUS
<1>1. \A g \in Groups : grp[g] = NoGroup
  BY DEF Init
<1>2. Ended
  BY <1>1, NoGroupIs DEF Ended, AtWork
<1>3. QED
  BY <1>2, IdleIs DEF Init, StrandInv, Busy, Carried, Waiting

LEMMA NextStrand ==
  ASSUME EarnInv, StrandInv, [Next]_vars
  PROVE  StrandInv'
<1>0. Shapes /\ InOrder
  BY DEF EarnInv
<1>1. CASE Pop \/ Claim \/ Short \/ Removed \/ Launch
  BY <1>0, <1>1, AssignStrand, LaunchStrand
<1>2. ASSUME NEW g \in Groups, Runner(g) PROVE StrandInv'
  <2>1. ASSUME NEW i \in Replicas,
               Send(g, i) \/ Answer(g, i) \/ Store(g, i) \/ NoAnswer(g, i) \/ FailOne(g, i) \/ FreeOne(g, i)
        PROVE  StrandInv'
    BY <1>0, <2>1, ThreadStrand
  <2>2. CASE Join(g) \/ FailGroup(g) \/ Compare(g) \/ Sign(g) \/ Signed(g) \/ Complete(g) \/ Persist(g)
    BY <1>0, <2>2, AfterStrand
  <2>3. QED
    BY <1>2, <2>1, <2>2 DEF Runner
<1>3. ASSUME NEW n \in Nodes, Recover(n) \/ Disconnect(n) \/ Silent(n) \/ Return(n) \/ Deregister(n)
      PROVE  StrandInv'
  BY <1>0, <1>3, AroundStrand
<1>4. CASE Cancel \/ RunPlain
  BY <1>0, <1>4, AroundStrand
<1>5. CASE Restart
  BY <1>0, <1>5, RestartStrand
<1>6. CASE UNCHANGED vars
  BY <1>6 DEF vars, StrandInv, Busy, Ended, Carried, Carries, Waiting, Has, Claimed
<1>7. QED
  BY <1>1, <1>2, <1>3, <1>4, <1>5, <1>6 DEF Next

(* Nothing is stranded: whatever is lost, removed, cancelled, raced or     *)
(* restarted, a busy worker is claimed or has a thread on it, a running    *)
(* job has a group of its own attempt that will still end it, a pending    *)
(* one is on the queue or being assigned (_assign_replicated_job,          *)
(* _run_replicated_job, recover_jobs).                                     *)
THEOREM NothingIsStranded == Spec => []NothingStranded
<1>1. StrandInv => NothingStranded
  <2>1. \A g \in Groups : Carries(g) => Live(g) /\ grp[g].att = job.att /\ ~grp[g].stale
    BY DEF Carries, Live
  <2>2. ASSUME StrandInv, NEW n \in Nodes, Has(n) PROVE OnNode(n)
    <3>1. PICK g \in Groups, i \in Replicas : grp[g].th[i].node = n /\ grp[g].th[i].pc \in AtWork
      BY <2>2 DEF Has
    <3>2. grp[g].pc = "run"
      BY <2>2, <3>1 DEF StrandInv, Ended
    <3>3. QED
      BY <3>1, <3>2 DEF OnNode, Live, AtWork
  <2>3. QED
    BY <2>1, <2>2 DEF StrandInv, Busy, Carried, Waiting, NothingStranded
<1>2. EarnInv /\ StrandInv /\ [Next]_vars => EarnInv' /\ StrandInv'
  BY NextEarn, NextStrand
<1>3. QED
  BY <1>1, <1>2, InitEarn, InitStrand, PTL DEF Spec
=============================================================================
