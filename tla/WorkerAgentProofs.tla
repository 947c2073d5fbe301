------------------------- MODULE WorkerAgentProofs -------------------------
(* What the worker guarantees for any jobs, loads and bounds: its table of *)
(* active jobs is true, a run that had the agent to itself reports what    *)
(* its own command did, and enrollment gives out no certificate too many   *)
(* and leaves no key without its certificate.                              *)
EXTENDS WorkerAgent, FiniteSetTheorems, SequenceTheorems, TLAPS

USE BoundsAreNumbers, SwitchesAreBooleans, JobsHaveIds, CertAssumption

-----------------------------------------------------------------------------
(* The table of active jobs.                                               *)

Envelopes == [kind : {"assign", "cancel"}, job : Jobs, run : Runs \cup {NoRun}]
RunFields == {"job", "session", "at", "on", "result"}

Shapes ==
    /\ DOMAIN run = Runs /\ \A r \in Runs : DOMAIN run[r] = RunFields
    /\ \A r \in Runs : /\ run[r].job \in Jobs \cup {"none"}
                       /\ run[r].job = "none" => run[r].at = "none"
    /\ inbox \in Seq(Envelopes)
    /\ DOMAIN hand = {"at", "run"} /\ hand.at \in {"idle", "track", "hook"}
    /\ hand.run \in Runs \cup {NoRun} /\ (hand.at = "idle" <=> hand.run = NoRun)
    /\ active \in [Jobs -> Runs \cup {NoRun}]
    /\ hooked \subseteq Runs

\* Runs are numbered in the order of their assignment.
Given(k) == {q \in Runs : run[q].job # "none"} = 1 .. k
Numbered == \E k \in 0 .. MaxRuns : Given(k)

\* An assignment on the stream is of a run that has not begun, and is there once.
Assigns(i) == inbox[i].kind = "assign"
Letters ==
    /\ \A i \in 1 .. Len(inbox) : Assigns(i) =>
          /\ inbox[i].run \in Runs
          /\ run[inbox[i].run].at = "none" /\ run[inbox[i].run].job = inbox[i].job
    /\ \A i, l \in 1 .. Len(inbox) : Assigns(i) /\ Assigns(l) /\ i # l => inbox[i].run # inbox[l].run

\* The handler has a run in hand that has begun and has no callback yet.
InHand ==
    /\ hand.run # NoRun => run[hand.run].at # "none" /\ hand.run \notin hooked
    /\ \A r \in hooked : run[r].at # "none"

\* Who will remove an entry: the handler, or the callback.
Leaves(r) == \/ hand.run = r /\ hand.at = "hook"
             \/ r \in hooked /\ run[r].at \notin {"ended", "lost"}
Entries == \A j \in Jobs : active[j] # NoRun =>
              run[active[j]].job = j /\ run[active[j]].at # "none" /\ Leaves(active[j])

InProgress(r) == run[r].at \in {"queued", "begin", "attach", "wait", "pop"}
Entered(r) == active[run[r].job] = r \/ \E q \in Runs \ {r} : run[q].job = run[r].job
Missing == \A r \in Runs : InProgress(r) /\ ~(hand.run = r /\ hand.at = "track") => Entered(r)

TableInv == Shapes /\ Numbered /\ Letters /\ InHand /\ Entries /\ Missing


tableVars == <<run, hooked, active, hand>>

\* What a step may change in a run without anybody looking at the table noticing.
Elsewhere(r) ==
    /\ DOMAIN run' = Runs /\ \A q \in Runs : DOMAIN run'[q] = RunFields
    /\ \A q \in Runs \ {r} : run'[q] = run[q]
    /\ run'[r].job = run[r].job /\ run'[r].session = run[r].session

LEMMA GotoMoves ==
  ASSUME Shapes, NEW r \in Runs, NEW place, Goto(r, place)
  PROVE  Elsewhere(r) /\ run'[r].at = place /\ run'[r].on = run[r].on /\ run'[r].result = run[r].result
BY SMTT(30) DEF Shapes, RunFields, Goto, Elsewhere

LEMMA EndsMoves ==
  ASSUME Shapes, NEW r \in Runs, NEW result, Ends(r, result)
  PROVE  Elsewhere(r) /\ run'[r].at = "pop" /\ run'[r].result = result
BY SMTT(30) DEF Shapes, RunFields, Ends, Elsewhere

LEMMA AttachMoves ==
  ASSUME Shapes, NEW r \in Runs, Attach(r)
  PROVE  Elsewhere(r) /\ run'[r].at = "wait" /\ run'[r].on = agent.process /\ run'[r].result = run[r].result
BY SMTT(30) DEF Shapes, RunFields, Attach, Elsewhere

\* The stream is as it was, or empty.
LEMMA TableQuiet ==
  ASSUME TableInv, UNCHANGED tableVars, inbox' = inbox \/ inbox' = <<>>
  PROVE  TableInv'
<1>1. Shapes'
  <2>1. inbox' \in Seq(Envelopes)
    BY EmptySeq DEF TableInv, Shapes
  <2>2. QED
    BY <2>1 DEF TableInv, Shapes, tableVars, Envelopes
<1>2. Numbered' /\ InHand' /\ Entries' /\ Missing'
  <2>1. Numbered' /\ InHand'
    BY DEF TableInv, tableVars, Numbered, Given, InHand, InProgress
  <2>2. Entries'
    BY DEF TableInv, tableVars, Entries, Leaves, InProgress, Entered
  <2>3. Missing'
    BY DEF TableInv, tableVars, Missing, InProgress, Entered
  <2>4. QED
    BY <2>1, <2>2, <2>3
<1>3. Letters'
  BY DEF TableInv, tableVars, Letters, Assigns
<1>4. QED
  BY <1>1, <1>2, <1>3 DEF TableInv

\* A cancel arrives on the stream, or leaves it.
LEMMA TableCancel ==
  ASSUME TableInv, UNCHANGED tableVars,
         \/ \E j \in Jobs : inbox' = Append(inbox, [kind |-> "cancel", job |-> j, run |-> NoRun])
         \/ inbox # <<>> /\ inbox' = Tail(inbox)
  PROVE  TableInv'
<1>1. inbox' \in Seq(Envelopes)
  <2>1. \A j \in Jobs : [kind |-> "cancel", job |-> j, run |-> NoRun] \in Envelopes
    BY DEF Envelopes
  <2>2. inbox \in Seq(Envelopes)
    BY DEF TableInv, Shapes
  <2>3. \A e \in Envelopes : Append(inbox, e) \in Seq(Envelopes)
    BY <2>2, AppendProperties
  <2>4. inbox # <<>> => Tail(inbox) \in Seq(Envelopes)
    BY <2>2, HeadTailProperties
  <2>5. QED
    BY <2>1, <2>3, <2>4
<1>2. Shapes'
  BY <1>1 DEF TableInv, Shapes, tableVars, Envelopes
<1>3. Numbered' /\ InHand' /\ Entries' /\ Missing'
  BY DEF TableInv, tableVars, Numbered, Given, InHand, Entries, Leaves, Missing, InProgress, Entered
<1>4. Letters'
  <2>1. CASE \E j \in Jobs : inbox' = Append(inbox, [kind |-> "cancel", job |-> j, run |-> NoRun])
    <3>1. PICK j \in Jobs : inbox' = Append(inbox, [kind |-> "cancel", job |-> j, run |-> NoRun])
      BY <2>1
    <3>2. /\ Len(inbox') = Len(inbox) + 1 /\ inbox'[Len(inbox) + 1].kind = "cancel"
          /\ \A i \in 1 .. Len(inbox) : inbox'[i] = inbox[i]
      BY <3>1 DEF TableInv, Shapes
    <3>3. \A i \in 1 .. Len(inbox') : Assigns(i)' => i \in 1 .. Len(inbox) /\ Assigns(i)
      BY <3>2 DEF TableInv, Shapes, Assigns
    <3>4. QED
      BY <3>2, <3>3 DEF TableInv, tableVars, Letters
  <2>2. CASE inbox # <<>> /\ inbox' = Tail(inbox)
    <3>1. /\ Len(inbox') = Len(inbox) - 1 /\ Len(inbox) \in Nat /\ Len(inbox) > 0
          /\ \A i \in 1 .. Len(inbox') : inbox'[i] = inbox[i + 1]
      BY <2>2 DEF TableInv, Shapes
    <3>2. \A i \in 1 .. Len(inbox') : i + 1 \in 1 .. Len(inbox) /\ (Assigns(i)' <=> Assigns(i + 1))
      BY <3>1 DEF Assigns
    <3>3. \A i, l \in 1 .. Len(inbox') : i # l => i + 1 # l + 1
      BY <3>1
    <3>4. \A i \in 1 .. Len(inbox') : Assigns(i)' =>
            /\ inbox'[i].run \in Runs
            /\ run'[inbox'[i].run].at = "none" /\ run'[inbox'[i].run].job = inbox'[i].job
      BY <3>1, <3>2 DEF TableInv, tableVars, Letters
    <3>5. \A i, l \in 1 .. Len(inbox') : Assigns(i)' /\ Assigns(l)' /\ i # l => inbox'[i].run # inbox'[l].run
      BY <3>1, <3>2, <3>3 DEF TableInv, Letters
    <3>6. QED
      BY <3>4, <3>5 DEF Letters
  <2>3. QED
    BY <2>1, <2>2
<1>5. QED
  BY <1>2, <1>3, <1>4 DEF TableInv

\* A step of a run's own thread that leaves the table alone.
LEMMA TableMove ==
  ASSUME TableInv, NEW r \in Runs, Elsewhere(r), UNCHANGED <<hooked, active, hand, inbox>>,
         run[r].at # "none", run'[r].at # "none", run'[r].at # "lost",
         InProgress(r)' => InProgress(r),
         run'[r].at = "ended" => r \notin hooked
  PROVE  TableInv'
<1>1. \A q \in Runs : run'[q].job = run[q].job /\ (run'[q].at = "none" <=> run[q].at = "none")
  BY DEF Elsewhere
<1>2. Shapes'
  BY <1>1 DEF TableInv, Shapes, Elsewhere
<1>3. Numbered'
  BY <1>1 DEF TableInv, Numbered, Given
<1>4. Letters'
  BY <1>1 DEF TableInv, Letters, Assigns
<1>5. InHand'
  BY <1>1 DEF TableInv, InHand, Shapes
<1>6. Entries'
  <2>1. \A q \in Runs : Leaves(q) => Leaves(q)'
    BY DEF Leaves, Elsewhere
  <2>2. QED
    BY <1>1, <2>1 DEF TableInv, Shapes, Entries
<1>7. Missing'
  <2>1. \A q \in Runs : InProgress(q)' => InProgress(q)
    BY DEF InProgress, Elsewhere
  <2>2. QED
    BY <1>1, <2>1 DEF TableInv, Missing, Entered
<1>8. QED
  BY <1>2, <1>3, <1>4, <1>5, <1>6, <1>7 DEF TableInv

\* A thread or a callback takes an entry of its own job out of the table.
LEMMA TableRemove ==
  ASSUME TableInv, NEW r \in Runs, Elsewhere(r), UNCHANGED <<hooked, hand, inbox>>,
         run[r].at # "none", run'[r].at \notin {"none", "lost"}, ~InProgress(r)',
         active' = [active EXCEPT ![run[r].job] = IF @ = r \/ run'[r].at # "ended" THEN NoRun ELSE @]
  PROVE  TableInv'
<1>1. \A q \in Runs : run'[q].job = run[q].job /\ (run'[q].at = "none" <=> run[q].at = "none")
  BY DEF Elsewhere
<1>2. /\ run[r].job \in Jobs /\ active' \in [Jobs -> Runs \cup {NoRun}]
      /\ \A j \in Jobs \ {run[r].job} : active'[j] = active[j]
      /\ active'[run[r].job] \in {NoRun, active[run[r].job]}
      /\ active'[run[r].job] # r
  BY SMTT(30) DEF TableInv, Shapes, NoRun, Runs
<1>3. Shapes'
  BY <1>1, <1>2 DEF TableInv, Shapes, Elsewhere
<1>4. Numbered'
  BY <1>1 DEF TableInv, Numbered, Given
<1>5. Letters'
  BY <1>1 DEF TableInv, Letters, Assigns
<1>6. InHand'
  BY <1>1 DEF TableInv, InHand, Shapes
<1>7. Entries'
  <2>1. \A q \in Runs \ {r} : Leaves(q) => Leaves(q)'
    BY DEF Leaves, Elsewhere
  <2>2. ASSUME NEW j \in Jobs, NEW q, q = active'[j], q # NoRun
        PROVE  run'[q].job = j /\ run'[q].at # "none" /\ Leaves(q)'
    <3>1. q = active[j] /\ q \in Runs
      BY <1>2, <2>2 DEF TableInv, Shapes
    <3>2. run[q].job = j /\ run[q].at # "none" /\ Leaves(q)
      BY <2>2, <3>1 DEF TableInv, Entries
    <3>3. q # r
      BY <1>2, <2>2, <3>2
    <3>4. QED
      BY <1>1, <2>1, <3>1, <3>2, <3>3
  <2>3. QED
    BY <2>2 DEF Entries
<1>8. Missing'
  <2>1. \A q \in Runs : InProgress(q)' => q # r /\ InProgress(q)
    BY DEF InProgress, Elsewhere
  <2>2. SUFFICES ASSUME NEW q \in Runs, InProgress(q)', ~(hand.run = q /\ hand.at = "track")
                 PROVE  Entered(q)'
    BY DEF Missing
  <2>3. Entered(q) /\ q # r
    BY <2>1, <2>2 DEF TableInv, Missing
  <2>4. CASE run[q].job = run[r].job
    BY <1>1, <2>3, <2>4 DEF Entered
  <2>5. CASE run[q].job # run[r].job
    <3>1. run[q].job \in Jobs
      BY <2>1, <2>2 DEF TableInv, Shapes, InProgress
    <3>2. QED
      BY <1>1, <1>2, <2>3, <2>5, <3>1 DEF Entered
  <2>6. QED
    BY <2>4, <2>5
<1>9. QED
  BY <1>3, <1>4, <1>5, <1>6, <1>7, <1>8 DEF TableInv

\* The run that is assigned next is a fresh one.
LEMMA AssignFresh ==
  ASSUME TableInv, NEW r \in Runs, NEW j \in Jobs, Assign(r, j)
  PROVE  run[r].job = "none" /\ run[r].at = "none" /\ Given(r - 1)
<1>1. PICK k \in 0 .. MaxRuns : Given(k)
  BY DEF TableInv, Numbered
<1>2. Cardinality(1 .. k) = k
  <2>1. 1 \in Int /\ k \in Int /\ k \in Nat
    OBVIOUS
  <2>2. Cardinality(1 .. k) = IF 1 > k THEN 0 ELSE k - 1 + 1
    BY <2>1, FS_Interval
  <2>3. QED
    BY <2>1, <2>2
<1>3. r = k + 1
  BY <1>1, <1>2 DEF Assign, Given
<1>4. r \notin 1 .. k /\ r - 1 = k
  BY <1>3
<1>5. run[r].job = "none"
  BY <1>1, <1>4 DEF Given
<1>6. QED
  BY <1>1, <1>4, <1>5 DEF TableInv, Shapes

\* What an assignment changes: the run gets its job and a letter goes out.
LEMMA AssignMoves ==
  ASSUME TableInv, NEW r \in Runs, NEW j \in Jobs, Assign(r, j)
  PROVE  /\ DOMAIN run' = Runs /\ \A q \in Runs : DOMAIN run'[q] = RunFields
         /\ \A q \in Runs \ {r} : run'[q] = run[q]
         /\ run'[r].job = j /\ run'[r].at = "none"
         /\ UNCHANGED <<hooked, active, hand, agent, cmd, work, shared, missed>>
         /\ inbox' = Append(inbox, [kind |-> "assign", job |-> j, run |-> r])
<1>1. run[r].at = "none" /\ DOMAIN run = Runs /\ \A q \in Runs : DOMAIN run[q] = RunFields
  BY AssignFresh DEF TableInv, Shapes
<1>2. run' = [run EXCEPT ![r].job = j, ![r].session = session]
  BY DEF Assign
<1>3. DOMAIN run' = Runs /\ \A q \in Runs : DOMAIN run'[q] = RunFields
  BY <1>1, <1>2, SMTT(30) DEF RunFields
<1>4. (\A q \in Runs \ {r} : run'[q] = run[q]) /\ run'[r].job = j /\ run'[r].at = "none"
  BY <1>1, <1>2, SMTT(30) DEF RunFields
<1>5. QED
  BY <1>3, <1>4 DEF Assign

LEMMA TableAssign ==
  ASSUME TableInv, NEW r \in Runs, NEW j \in Jobs, Assign(r, j)
  PROVE  TableInv'
<1>1. run[r].job = "none" /\ run[r].at = "none" /\ Given(r - 1)
  BY AssignFresh
<1>2. /\ DOMAIN run' = Runs /\ \A q \in Runs : DOMAIN run'[q] = RunFields
      /\ \A q \in Runs \ {r} : run'[q] = run[q]
      /\ run'[r].job = j /\ run'[r].at = "none"
      /\ UNCHANGED <<hooked, active, hand>>
  BY AssignMoves
<1> DEFINE e == [kind |-> "assign", job |-> j, run |-> r]
<1>3. inbox' = Append(inbox, e) /\ e \in Envelopes /\ e.kind = "assign" /\ e.job = j /\ e.run = r
  BY AssignMoves DEF Envelopes
<1> HIDE DEF e
<1>4. inbox \in Seq(Envelopes)
  BY DEF TableInv, Shapes
<1>5. /\ inbox' \in Seq(Envelopes) /\ Len(inbox) \in Nat
      /\ Len(inbox') = Len(inbox) + 1 /\ inbox'[Len(inbox) + 1] = e
      /\ \A i \in 1 .. Len(inbox) : inbox'[i] = inbox[i]
  BY <1>3, <1>4, AppendProperties
<1>6. Shapes'
  <2>1. \A q \in Runs : /\ run'[q].job \in Jobs \cup {"none"}
                        /\ run'[q].job = "none" => run'[q].at = "none"
    BY <1>2 DEF TableInv, Shapes
  <2>2. QED
    BY <1>2, <1>5, <2>1 DEF TableInv, Shapes, Envelopes
<1>7. Numbered'
  <2>1. {q \in Runs : run'[q].job # "none"} = 1 .. r
    <3>1. {q \in Runs : run[q].job # "none"} = 1 .. (r - 1)
      BY <1>1 DEF Given
    <3>2. {q \in Runs : run'[q].job # "none"} = {q \in Runs : run[q].job # "none"} \cup {r}
      BY <1>2
    <3>3. r \in Nat /\ 1 <= r /\ r <= MaxRuns
      BY DEF Runs
    <3>4. QED
      BY <3>1, <3>2, <3>3
  <2>2. r \in 0 .. MaxRuns
    BY DEF Runs
  <2>3. QED
    BY <2>1, <2>2 DEF Numbered, Given
<1>8. Letters'
  <2>1. \A i \in 1 .. Len(inbox) : Assigns(i) => inbox[i].run # r
    <3>1. \A i \in 1 .. Len(inbox) : inbox[i] \in Envelopes
      BY <1>4, ElementOfSeq
    <3>2. \A i \in 1 .. Len(inbox) : inbox[i].job # "none"
      BY <3>1 DEF Envelopes
    <3>3. QED
      BY <1>1, <3>2 DEF TableInv, Letters
  <2>2. \A i \in 1 .. Len(inbox') : \/ i \in 1 .. Len(inbox) /\ inbox'[i] = inbox[i] /\ (Assigns(i)' <=> Assigns(i))
                                    \/ i = Len(inbox) + 1 /\ inbox'[i] = e
    BY <1>5 DEF Assigns
  <2>3. \A i \in 1 .. Len(inbox') : Assigns(i)' =>
          /\ inbox'[i].run \in Runs
          /\ run'[inbox'[i].run].at = "none" /\ run'[inbox'[i].run].job = inbox'[i].job
    BY <1>2, <1>3, <2>1, <2>2 DEF TableInv, Letters
  <2>4. \A i, l \in 1 .. Len(inbox') : Assigns(i)' /\ Assigns(l)' /\ i # l => inbox'[i].run # inbox'[l].run
    BY <1>3, <2>1, <2>2 DEF TableInv, Letters
  <2>5. QED
    BY <2>3, <2>4 DEF Letters
<1>9. InHand'
  BY <1>1, <1>2 DEF TableInv, InHand, Shapes
<1>10. Entries'
  BY <1>1, <1>2 DEF TableInv, Entries, Shapes, Leaves
<1>11. Missing'
  <2>1. SUFFICES ASSUME NEW q \in Runs, InProgress(q)', ~(hand.run = q /\ hand.at = "track")
                 PROVE  Entered(q)'
    BY <1>2 DEF Missing
  <2>2. q # r /\ InProgress(q)
    BY <1>2, <2>1 DEF InProgress
  <2>3. Entered(q) /\ run[q].job # "none"
    BY <2>1, <2>2 DEF TableInv, Missing, Shapes, InProgress
  <2>4. QED
    BY <1>1, <1>2, <2>2, <2>3 DEF Entered
<1>12. QED
  BY <1>6, <1>7, <1>8, <1>9, <1>10, <1>11 DEF TableInv

\* What the handler takes from the stream first is a run that has not begun.
LEMMA SubmitMoves ==
  ASSUME TableInv, Submit
  PROVE  /\ Head(inbox).run \in Runs /\ run[Head(inbox).run].at = "none"
         /\ run[Head(inbox).run].job \in Jobs
         /\ Elsewhere(Head(inbox).run) /\ run'[Head(inbox).run].at = "queued"
         /\ inbox # <<>> /\ inbox' = Tail(inbox) /\ hand' = [at |-> "track", run |-> Head(inbox).run]
         /\ UNCHANGED <<hooked, active, agent, cmd, work, shared, missed>>
<1>1. inbox \in Seq(Envelopes) /\ inbox # <<>> /\ Head(inbox).kind = "assign"
  BY DEF TableInv, Shapes, Submit
<1>2. Head(inbox) = inbox[1] /\ 1 \in 1 .. Len(inbox) /\ Head(inbox) \in Envelopes
  BY <1>1, HeadTailProperties, EmptySeq
<1>3. Head(inbox).run \in Runs /\ run[Head(inbox).run].at = "none" /\ run[Head(inbox).run].job \in Jobs
  BY <1>1, <1>2 DEF TableInv, Letters, Assigns, Envelopes
<1> DEFINE r == Head(inbox).run
<1>4. Elsewhere(r) /\ run'[r].at = "queued"
  <2>1. r \in Runs /\ Goto(r, "queued")
    BY <1>3 DEF Submit, Goto
  <2> HIDE DEF r
  <2>2. QED
    BY <2>1, GotoMoves DEF TableInv
<1>5. QED
  BY <1>1, <1>3, <1>4 DEF Submit

LEMMA TableSubmit ==
  ASSUME TableInv, Submit
  PROVE  TableInv'
<1> DEFINE r == Head(inbox).run
<1>1. /\ r \in Runs /\ run[r].at = "none" /\ run[r].job \in Jobs
      /\ Elsewhere(r) /\ run'[r].at = "queued"
      /\ inbox # <<>> /\ inbox' = Tail(inbox) /\ hand' = [at |-> "track", run |-> r]
      /\ UNCHANGED <<hooked, active>>
  BY SubmitMoves
<1>2. hand'.at = "track" /\ hand'.run = r /\ DOMAIN hand' = {"at", "run"}
  BY <1>1
<1>3. inbox \in Seq(Envelopes)
  BY DEF TableInv, Shapes
<1>4. /\ inbox' \in Seq(Envelopes) /\ Len(inbox) \in Nat /\ Len(inbox) > 0
      /\ Len(inbox') = Len(inbox) - 1
      /\ \A i \in 1 .. Len(inbox') : inbox'[i] = inbox[i + 1]
      /\ inbox[1].run = r /\ inbox[1].kind = "assign"
  BY <1>1, <1>3, HeadTailProperties, EmptySeq DEF Submit
<1>5. NoRun \notin Runs
  BY DEF Runs, NoRun
<1> HIDE DEF r
<1>6. \A q \in Runs : run'[q].job = run[q].job
  BY <1>1 DEF Elsewhere
<1>7. Shapes'
  <2>1. \A q \in Runs : /\ run'[q].job \in Jobs \cup {"none"}
                        /\ run'[q].job = "none" => run'[q].at = "none"
    BY <1>1, <1>6 DEF TableInv, Shapes, Elsewhere
  <2>2. QED
    BY <1>1, <1>2, <1>4, <1>5, <2>1 DEF TableInv, Shapes, Envelopes, Elsewhere
<1>8. Numbered'
  BY <1>6 DEF TableInv, Numbered, Given
<1>9. Letters'
  <2>1. \A i \in 1 .. Len(inbox') : i + 1 \in 1 .. Len(inbox) /\ i + 1 # 1 /\ (Assigns(i)' <=> Assigns(i + 1))
    BY <1>4 DEF Assigns
  <2>2. \A i \in 1 .. Len(inbox') : Assigns(i)' => inbox'[i].run # r
    <3>1. 1 \in 1 .. Len(inbox) /\ Assigns(1)
      BY <1>4 DEF Assigns
    <3>2. QED
      BY <1>4, <2>1, <3>1 DEF TableInv, Letters
  <2>3. \A i \in 1 .. Len(inbox') : Assigns(i)' =>
          /\ inbox'[i].run \in Runs
          /\ run'[inbox'[i].run].at = "none" /\ run'[inbox'[i].run].job = inbox'[i].job
    BY <1>1, <1>4, <2>1, <2>2 DEF TableInv, Letters, Elsewhere
  <2>4. \A i, l \in 1 .. Len(inbox') : i # l => i + 1 # l + 1
    BY <1>4
  <2>5. \A i, l \in 1 .. Len(inbox') : Assigns(i)' /\ Assigns(l)' /\ i # l => inbox'[i].run # inbox'[l].run
    <3>1. \A i, l \in 1 .. Len(inbox) : Assigns(i) /\ Assigns(l) /\ i # l => inbox[i].run # inbox[l].run
      BY DEF TableInv, Letters
    <3>2. \A i \in 1 .. Len(inbox') : inbox'[i] = inbox[i + 1]
      BY <1>4
    <3> TAKE i, l \in 1 .. Len(inbox')
    <3> HAVE Assigns(i)' /\ Assigns(l)' /\ i # l
    <3>3. Assigns(i + 1) /\ Assigns(l + 1) /\ i + 1 # l + 1
      BY <2>1, <2>4
    <3>4. QED
      BY <2>1, <3>1, <3>2, <3>3
  <2>6. QED
    BY <2>3, <2>5 DEF Letters
<1>10. InHand'
  BY <1>1, <1>2 DEF TableInv, InHand, Shapes, Elsewhere
<1>11. Entries'
  <2>1. \A q \in Runs \ {r} : Leaves(q) => Leaves(q)'
    <3>1. hand.at = "idle"
      BY DEF Submit
    <3>2. QED
      BY <1>1, <3>1 DEF Leaves, Elsewhere
  <2>2. QED
    BY <1>1, <2>1 DEF TableInv, Shapes, Entries, Elsewhere
<1>12. Missing'
  <2>1. \A q \in Runs : InProgress(q)' /\ q # r => InProgress(q)
    BY <1>1 DEF InProgress, Elsewhere
  <2>2. hand.run = NoRun
    BY DEF Submit, TableInv, Shapes
  <2>3. QED
    BY <1>1, <1>2, <1>5, <1>6, <2>1, <2>2 DEF TableInv, Missing, Entered
<1>13. QED
  BY <1>7, <1>8, <1>9, <1>10, <1>11, <1>12 DEF TableInv

\* The run in hand gets its entry.
LEMMA TableTrack ==
  ASSUME TableInv, Track
  PROVE  TableInv'
<1>0. PICK r \in Runs : r = hand.run
  BY DEF TableInv, Track, Shapes
<1> DEFINE j == run[r].job
<1>1. r \in Runs /\ run[r].at # "none" /\ j \in Jobs /\ r # NoRun /\ hand.at = "track"
  BY <1>0 DEF TableInv, Track, Shapes, InHand, Runs, NoRun
<1>2. /\ active' \in [Jobs -> Runs \cup {NoRun}] /\ active'[j] = r
      /\ \A l \in Jobs \ {j} : active'[l] = active[l]
  BY <1>0, <1>1 DEF TableInv, Track, Shapes
<1>3. hand'.at = "hook" /\ hand'.run = r /\ DOMAIN hand' = {"at", "run"}
  BY <1>0 DEF TableInv, Track, Shapes
<1>4. UNCHANGED <<run, hooked, inbox>>
  BY DEF Track
<1> HIDE DEF j
<1>5. Shapes'
  BY <1>1, <1>2, <1>3, <1>4 DEF TableInv, Shapes, Envelopes
<1>6. Numbered' /\ Letters'
  BY <1>4 DEF TableInv, Numbered, Given, Letters, Assigns
<1>7. InHand'
  BY <1>0, <1>3, <1>4 DEF TableInv, InHand
<1>8. Entries'
  <2>1. \A q \in Runs : Leaves(q) => Leaves(q)'
    BY <1>1, <1>4 DEF Leaves
  <2>2. Leaves(r)'
    BY <1>3 DEF Leaves
  <2>3. QED
    BY <1>1, <1>2, <1>4, <2>1, <2>2 DEF TableInv, Shapes, Entries, j
<1>9. Missing'
  <2>1. SUFFICES ASSUME NEW q \in Runs, InProgress(q)'
                 PROVE  Entered(q)'
    BY DEF Missing
  <2>2. CASE q = r
    BY <1>2, <1>4, <2>2 DEF Entered, j
  <2>3. CASE q # r
    <3>1. InProgress(q) /\ Entered(q) /\ run[q].job \in Jobs
      BY <1>0, <1>4, <2>1, <2>3 DEF InProgress, TableInv, Missing, Shapes
    <3>2. QED
      BY <1>1, <1>2, <1>4, <2>3, <3>1 DEF Entered, j
  <2>4. QED
    BY <2>2, <2>3
<1>10. QED
  BY <1>5, <1>6, <1>7, <1>8, <1>9 DEF TableInv

\* The run in hand gets its callback, or is over and loses its entry.
LEMMA TableHook ==
  ASSUME TableInv, Hook
  PROVE  TableInv'
<1>0. PICK r \in Runs : r = hand.run
  BY DEF TableInv, Hook, Shapes
<1>1. run[r].at # "none" /\ run[r].job \in Jobs /\ hand.at = "hook" /\ r \notin hooked
  BY <1>0 DEF TableInv, Hook, Shapes, InHand, Runs, NoRun
<1>2. UNCHANGED <<run, inbox>> /\ hand'.at = "idle" /\ hand'.run = NoRun /\ DOMAIN hand' = {"at", "run"}
  BY DEF Hook
<1>3. \/ /\ Over(r) /\ active' = Forgotten(r) /\ hooked' = hooked
      \/ /\ ~Over(r) /\ active' = active /\ hooked' = hooked \cup {r}
  BY <1>0 DEF Hook
<1>4. /\ active' \in [Jobs -> Runs \cup {NoRun}]
      /\ \A l \in Jobs : active'[l] \in {NoRun, active[l]}
      /\ \A l \in Jobs : active'[l] # active[l] => Over(r) /\ active[l] = r
      /\ Over(r) => active'[run[r].job] # r
  BY <1>1, <1>3, SMTT(30) DEF TableInv, Shapes, Forgotten, Runs, NoRun
<1>5. Shapes'
  BY <1>2, <1>3, <1>4 DEF TableInv, Shapes, Envelopes
<1>6. Numbered' /\ Letters'
  BY <1>2 DEF TableInv, Numbered, Given, Letters, Assigns
<1>7. InHand'
  BY <1>1, <1>2, <1>3 DEF TableInv, InHand
<1>8. Entries'
  <2>1. \A q \in Runs \ {r} : Leaves(q) => Leaves(q)'
    BY <1>0, <1>2, <1>3 DEF Leaves
  <2>2. ~Over(r) => Leaves(r)'
    BY <1>2, <1>3 DEF Leaves, Over
  <2>3. ASSUME NEW l \in Jobs, NEW q, q = active'[l], q # NoRun
        PROVE  run'[q].job = l /\ run'[q].at # "none" /\ Leaves(q)'
    <3>1. q = active[l] /\ q \in Runs
      BY <1>4, <2>3 DEF TableInv, Shapes
    <3>2. run[q].job = l /\ run[q].at # "none" /\ Leaves(q)
      BY <2>3, <3>1 DEF TableInv, Entries
    <3>3. q = r => ~Over(r)
      BY <1>4, <2>3, <3>2
    <3>4. QED
      BY <1>2, <2>1, <2>2, <3>1, <3>2, <3>3
  <2>4. QED
    BY <2>3 DEF Entries
<1>9. Missing'
  <2>1. SUFFICES ASSUME NEW q \in Runs, InProgress(q)'
                 PROVE  Entered(q)'
    BY DEF Missing
  <2>2. InProgress(q) /\ Entered(q) /\ run[q].job \in Jobs
    BY <1>0, <1>1, <1>2, <2>1 DEF InProgress, TableInv, Missing, Shapes
  <2>3. active[run[q].job] = q => active'[run[q].job] = q
    BY <1>4, <2>2 DEF InProgress, Over
  <2>4. QED
    BY <1>2, <2>2, <2>3 DEF Entered
<1>10. QED
  BY <1>5, <1>6, <1>7, <1>8, <1>9 DEF TableInv

\* Everything in memory is gone.
LEMMA CrashMoves ==
  ASSUME Shapes, Crash
  PROVE  /\ DOMAIN run' = Runs /\ \A q \in Runs : DOMAIN run'[q] = RunFields
         /\ \A q \in Runs : /\ run'[q].job = run[q].job
                            /\ \/ run[q].at = "none" /\ run'[q].at = "none"
                               \/ run[q].at # "none" /\ run'[q].at = "lost"
BY SMTT(30) DEF Shapes, RunFields, Crash

LEMMA TableCrash ==
  ASSUME TableInv, Crash
  PROVE  TableInv'
<1>1. /\ DOMAIN run' = Runs /\ \A q \in Runs : DOMAIN run'[q] = RunFields
      /\ \A q \in Runs : /\ run'[q].job = run[q].job
                         /\ \/ run[q].at = "none" /\ run'[q].at = "none"
                            \/ run[q].at # "none" /\ run'[q].at = "lost"
  BY CrashMoves DEF TableInv
<1>2. /\ inbox' = <<>> /\ hand'.at = "idle" /\ hand'.run = NoRun /\ DOMAIN hand' = {"at", "run"}
      /\ hooked' = {} /\ active' \in [Jobs -> Runs \cup {NoRun}] /\ \A j \in Jobs : active'[j] = NoRun
  BY DEF Crash
<1>3. inbox' \in Seq(Envelopes)
  BY <1>2, EmptySeq
<1>4. \A q \in Runs : run'[q].job \in Jobs \cup {"none"} /\ (run'[q].job = "none" => run'[q].at = "none")
  BY <1>1 DEF TableInv, Shapes
<1>5. Shapes'
  BY <1>1, <1>2, <1>3, <1>4 DEF Shapes, Envelopes
<1>6. Numbered'
  BY <1>1 DEF TableInv, Numbered, Given
<1>7. Letters'
  BY <1>2 DEF Letters
<1>8. InHand' /\ Entries'
  BY <1>2 DEF InHand, Entries
<1>9. Missing'
  BY <1>1 DEF Missing, InProgress
<1>10. QED
  BY <1>5, <1>6, <1>7, <1>8, <1>9 DEF TableInv

LEMMA TableInit ==
  ASSUME Init
  PROVE  TableInv
<1>1. /\ run = [r \in Runs |-> [job |-> "none", session |-> 0, at |-> "none", on |-> NoRun, result |-> "none"]]
      /\ hooked = {} /\ active = [j \in Jobs |-> NoRun] /\ inbox = <<>> /\ hand = [at |-> "idle", run |-> NoRun]
  BY DEF Init
<1>2. DOMAIN run = Runs /\ \A r \in Runs : DOMAIN run[r] = RunFields /\ run[r].job = "none" /\ run[r].at = "none"
  BY <1>1 DEF RunFields
<1>3. inbox \in Seq(Envelopes)
  BY <1>1, EmptySeq
<1>4. Shapes
  BY <1>1, <1>2, <1>3 DEF Shapes
<1>5. Numbered
  <2>1. {q \in Runs : run[q].job # "none"} = 1 .. 0
    BY <1>2
  <2>2. 0 \in 0 .. MaxRuns
    OBVIOUS
  <2>3. QED
    BY <2>1, <2>2 DEF Numbered, Given
<1>6. Letters /\ InHand /\ Entries
  BY <1>1 DEF Letters, InHand, Entries
<1>7. Missing
  BY <1>2 DEF Missing, InProgress
<1>8. QED
  BY <1>4, <1>5, <1>6, <1>7 DEF TableInv

LEMMA TableThread ==
  ASSUME TableInv, NEW r \in Runs, RunStep(r) \/ Expire(r)
  PROVE  TableInv'
<1>1. Shapes
  BY DEF TableInv
<1>2. CASE Start(r) \/ Spawn(r) \/ Attach(r) \/ Finish(r) \/ Expire(r) \/ Put(r)
  <2>1. UNCHANGED <<hooked, active, hand, inbox>>
    BY <1>2 DEF Start, Spawn, Attach, Finish, Expire, Put, linkVars
  <2>2. Elsewhere(r) /\ run[r].at # "none" /\ run'[r].at \notin {"none", "lost"}
    <3>1. CASE Start(r)
      BY <1>1, <3>1, GotoMoves DEF Start
    <3>2. CASE Spawn(r)
      BY <1>1, <3>2, GotoMoves, EndsMoves DEF Spawn
    <3>3. CASE Attach(r)
      BY <1>1, <3>3, AttachMoves DEF Attach
    <3>4. CASE Finish(r) \/ Expire(r)
      BY <1>1, <3>4, EndsMoves DEF Finish, Expire
    <3>5. CASE Put(r)
      BY <1>1, <3>5, GotoMoves DEF Put
    <3>6. QED
      BY <1>2, <3>1, <3>2, <3>3, <3>4, <3>5
  <2>3. (InProgress(r)' => InProgress(r)) /\ (run'[r].at = "ended" => r \notin hooked)
    <3>1. CASE Start(r)
      BY <1>1, <3>1, GotoMoves DEF Start, InProgress
    <3>2. CASE Spawn(r)
      BY <1>1, <3>2, GotoMoves, EndsMoves DEF Spawn, InProgress
    <3>3. CASE Attach(r)
      BY <1>1, <3>3, AttachMoves DEF Attach, InProgress
    <3>4. CASE Finish(r) \/ Expire(r)
      BY <1>1, <3>4, EndsMoves DEF Finish, Expire, InProgress
    <3>5. CASE Put(r)
      BY <1>1, <3>5, GotoMoves DEF Put, InProgress
    <3>6. QED
      BY <1>2, <3>1, <3>2, <3>3, <3>4, <3>5
  <2>4. QED
    BY <2>1, <2>2, <2>3, TableMove
<1>3. CASE Pop(r) \/ Callback(r)
  <2>1. UNCHANGED <<hooked, hand, inbox>>
    BY <1>3 DEF Pop, Callback, linkVars
  <2>2. /\ Elsewhere(r) /\ run[r].at # "none" /\ run'[r].at \notin {"none", "lost"} /\ ~InProgress(r)'
        /\ \/ Pop(r) /\ run'[r].at = "put"
           \/ Callback(r) /\ run'[r].at = "ended"
    BY <1>1, <1>3, GotoMoves DEF Pop, Callback, InProgress
  <2>3. active' = [active EXCEPT ![run[r].job] = IF @ = r \/ run'[r].at # "ended" THEN NoRun ELSE @]
    BY <2>2 DEF Pop, Callback, Forgotten
  <2>4. QED
    BY <2>1, <2>2, <2>3, TableRemove
<1>4. QED
  BY <1>2, <1>3 DEF RunStep

\* Steps that leave the runs, the agent and what Popen started alone.
Aside == \/ Join \/ Connect \/ EnrollAnswer \/ WriteFiles \/ Dial \/ Register \/ BackOff
         \/ StreamLost \/ Stop \/ Send \/ Outage \/ Lapse
         \/ (\E a \in Asks : EnrollCheck(a) \/ EnrollGive(a))
         \/ (CertNext /\ UNCHANGED <<loop, enrollVars, linkVars, runVars>>)
         \/ (\E j \in Jobs : CancelJob(j))
         \/ UNCHANGED vars

LEMMA TableAside ==
  ASSUME TableInv, Aside
  PROVE  TableInv'
<1>1. CASE \E j \in Jobs : CancelJob(j)
  BY <1>1, TableCancel DEF CancelJob, runVars, tableVars
<1>2. CASE Join \/ Connect \/ EnrollAnswer \/ WriteFiles \/ Dial \/ BackOff
  BY <1>2, TableQuiet DEF Join, Connect, EnrollAnswer, WriteFiles, Dial, BackOff, runVars, linkVars, tableVars
<1>3. CASE Register \/ StreamLost \/ Stop \/ Send \/ Outage \/ Lapse
  BY <1>3, TableQuiet DEF Register, StreamLost, Stop, Send, Outage, Lapse, runVars, linkVars, tableVars
<1>4. CASE \E a \in Asks : EnrollCheck(a) \/ EnrollGive(a)
  BY <1>4, TableQuiet DEF EnrollCheck, EnrollGive, runVars, linkVars, tableVars
<1>5. CASE CertNext /\ UNCHANGED <<loop, enrollVars, linkVars, runVars>>
  BY <1>5, TableQuiet DEF runVars, linkVars, tableVars
<1>6. CASE UNCHANGED vars
  BY <1>6, TableQuiet DEF vars, tableVars
<1>7. QED
  BY <1>1, <1>2, <1>3, <1>4, <1>5, <1>6 DEF Aside

LEMMA TableStep ==
  ASSUME TableInv, [Next]_vars
  PROVE  TableInv'
<1>1. CASE Aside
  BY <1>1, TableAside
<1>2. CASE Crash
  BY <1>2, TableCrash
<1>3. CASE \E r \in Runs, j \in Jobs : Assign(r, j)
  BY <1>3, TableAssign
<1>4. CASE HandStep
  <2>1. CASE Cancel
    BY <2>1, TableCancel DEF Cancel, tableVars
  <2>2. QED
    BY <1>4, <2>1, TableSubmit, TableTrack, TableHook DEF HandStep
<1>5. CASE \E r \in Runs : RunStep(r) \/ Expire(r)
  BY <1>5, TableThread
<1>6. CASE \E r \in Runs, code \in {"ok", "bad"} : Exit(r, code)
  BY <1>6, TableQuiet DEF Exit, linkVars, tableVars
<1>7. QED
  BY <1>1, <1>2, <1>3, <1>4, <1>5, <1>6 DEF Next, Aside

\* The daemon's table of active jobs tells the truth for any jobs, loads and
\* bounds: no entry outlives its run unless its removal is on the way, and a run in
\* progress is listed unless another attempt of its job came to the worker.
THEOREM TableTellsTruth == Spec => []TableIsTrue
<1>1. Init => TableInv
  BY TableInit
<1>2. TableInv /\ [Next]_vars => TableInv'
  BY TableStep
<1>3. TableInv => TableIsTrue
  <2>1. SUFFICES ASSUME TableInv PROVE TableIsTrue
    OBVIOUS
  <2>2. ASSUME NEW j \in Jobs, active[j] # NoRun, Over(active[j])
        PROVE  run[active[j]].at = "callback" \/ hand.run = active[j]
    BY <2>1, <2>2 DEF TableInv, Entries, Leaves, Over
  <2>3. ASSUME NEW r \in Runs, InProgress(r), hand.run # r
        PROVE  active[run[r].job] = r \/ \E q \in Runs \ {r} : run[q].job = run[r].job
    BY <2>1, <2>3 DEF TableInv, Missing, Entered
  <2>4. QED
    BY <2>2, <2>3 DEF TableIsTrue, InProgress
<1>4. QED
  BY <1>1, <1>2, <1>3, PTL DEF Spec

-----------------------------------------------------------------------------
(* A run that has the agent to itself.                                     *)

Commands == {"none", "up", "ok", "bad", "killed"}

\* Two runs inside execute_job share the agent.
Together == \A r, q \in Runs : r # q /\ Inside(r) /\ Inside(q) => r \in shared

Unstarted == \A r \in Runs : run[r].at \in {"none", "queued", "begin"} => cmd[r] = "none" /\ r \notin work

\* What execute_job reads back from the agent is what it put there.
Own == \A r \in Runs \ shared :
         /\ Inside(r) => agent.current = run[r].job
         /\ run[r].at \in {"attach", "wait"} =>
              /\ agent.process = r /\ cmd[r] # "none" /\ (run[r].at = "wait" => run[r].on = r)
              /\ Docker /\ r \in work => cmd[r] = "up" \/ r \in missed

AloneInv ==
    /\ cmd \in [Runs -> Commands] /\ work \subseteq Runs /\ DOMAIN agent = {"process", "current"}
    /\ Together /\ Unstarted /\ Own /\ AloneIsFaithful

aloneVars == <<agent, cmd, work, shared, missed>>

\* What AloneInv says of run r, for every run but r as it was.
Faithful(r) ==
    r \notin shared =>
      /\ Inside(r) => agent.current = run[r].job
      /\ run[r].at \in {"attach", "wait"} =>
           /\ agent.process = r /\ cmd[r] # "none" /\ (run[r].at = "wait" => run[r].on = r)
           /\ Docker /\ r \in work => cmd[r] = "up" \/ r \in missed
      /\ Reported(r) => /\ run[r].result = "success" => cmd[r] = "ok"
                        /\ run[r].result = "failed" => cmd[r] \in {"bad", "killed"}
                        /\ Docker /\ r \in work => r \in missed
Begun(r) == run[r].at \in {"none", "queued", "begin"} => cmd[r] = "none" /\ r \notin work
Kinds == cmd \in [Runs -> Commands] /\ work \subseteq Runs /\ DOMAIN agent = {"process", "current"}

LEMMA AloneParts ==
  AloneInv <=> Kinds /\ Together /\ \A r \in Runs : Begun(r) /\ Faithful(r)
<1>1. Unstarted <=> \A r \in Runs : Begun(r)
  BY DEF Unstarted, Begun
<1>2. Own /\ AloneIsFaithful <=> \A r \in Runs : Faithful(r)
  BY DEF Own, AloneIsFaithful, Faithful, Reported
<1>3. QED
  BY <1>1, <1>2 DEF AloneInv, Kinds

LEMMA AlonePartsNext ==
  ASSUME Kinds', Together', \A r \in Runs : Begun(r)' /\ Faithful(r)'
  PROVE  AloneInv'
<1>1. Unstarted'
  BY DEF Unstarted, Begun
<1>2. Own' /\ AloneIsFaithful'
  BY DEF Own, AloneIsFaithful, Faithful, Reported
<1>3. QED
  BY <1>1, <1>2 DEF AloneInv, Kinds

\* A step that leaves the agent, the commands and the runs' places alone.
LEMMA AloneQuiet ==
  ASSUME AloneInv, UNCHANGED aloneVars,
         \A q \in Runs : /\ run'[q] = run[q] \/ (run[q].at = "none" /\ run'[q].at \in {"none", "queued"})
  PROVE  AloneInv'
<1>1. Kinds' /\ Together'
  BY AloneParts DEF aloneVars, Kinds, Together, Inside
<1>2. ASSUME NEW q \in Runs PROVE Begun(q)' /\ Faithful(q)'
  <2>1. CASE run'[q] = run[q]
    BY <2>1, AloneParts DEF aloneVars, Begun, Faithful, Reported, Inside
  <2>2. CASE run[q].at = "none" /\ run'[q].at \in {"none", "queued"}
    BY <2>2, AloneParts DEF aloneVars, Begun, Faithful, Reported, Inside
  <2>3. QED
    BY <2>1, <2>2
<1>3. QED
  BY <1>1, <1>2, AlonePartsNext

\* The steps of one run's thread change nothing of a run that is alone: either that
\* run is not inside, or it shares the agent with the one that steps.
LEMMA AloneMove ==
  ASSUME AloneInv, NEW r \in Runs, Elsewhere(r), Inside(r), Kinds', shared' = shared, missed \subseteq missed',
         \A q \in Runs \ {r} : /\ cmd[q] # "up" => cmd'[q] = cmd[q]
                               /\ q \in work' => q \in work,
         Begun(r)', Faithful(r)'
  PROVE  AloneInv'
<1>1. Together'
  <2>1. \A q \in Runs : Inside(q)' => Inside(q)
    BY DEF Inside, Elsewhere
  <2>2. QED
    BY <2>1, AloneParts DEF Together
<1>2. ASSUME NEW q \in Runs \ {r} PROVE Begun(q)' /\ Faithful(q)'
  <2>1. run'[q] = run[q] /\ Begun(q) /\ Faithful(q)
    BY <1>2, AloneParts DEF Elsewhere
  <2>2. Begun(q)'
    BY <1>2, <2>1 DEF Begun
  <2>3. CASE q \in shared
    BY <2>2, <2>3 DEF Faithful
  <2>4. CASE ~Inside(q) /\ q \notin shared
    BY <1>2, <2>1, <2>2, <2>4 DEF Faithful, Reported, Inside
  <2>5. CASE Inside(q) /\ q \notin shared
    BY <1>2, <2>5, AloneParts DEF Together
  <2>6. QED
    BY <2>3, <2>4, <2>5
<1>3. QED
  BY <1>1, <1>2, AlonePartsNext

LEMMA AloneStart ==
  ASSUME TableInv, AloneInv, NEW r \in Runs, Start(r)
  PROVE  AloneInv'
<1>1. Elsewhere(r) /\ run'[r].at = "begin" /\ run[r].at = "queued"
  BY GotoMoves DEF TableInv, Start
<1>2. UNCHANGED <<cmd, work, missed>> /\ agent'.current = run[r].job /\ DOMAIN agent' = {"process", "current"}
  BY AloneParts DEF Start, Kinds
<1>3. \A q \in Runs : q # r /\ Inside(q) => q \in shared' /\ r \in shared'
  BY DEF Start
<1>4. shared \subseteq shared' /\ \A q \in Runs \ {r} : q \in shared' => q \in shared \/ Inside(q)
  BY DEF Start
<1>5. Kinds'
  BY <1>2, AloneParts DEF Kinds
<1>6. Together'
  BY <1>1, <1>3, <1>4, AloneParts DEF Together, Inside, Elsewhere
<1>7. Begun(r)' /\ Faithful(r)'
  BY <1>1, <1>2, AloneParts DEF Begun, Faithful, Reported, Inside, Elsewhere
<1>8. ASSUME NEW q \in Runs \ {r} PROVE Begun(q)' /\ Faithful(q)'
  <2>1. run'[q] = run[q] /\ Begun(q) /\ Faithful(q)
    BY <1>1, <1>8, AloneParts DEF Elsewhere
  <2>2. CASE Inside(q)
    BY <1>2, <1>3, <1>8, <2>1, <2>2 DEF Begun, Faithful
  <2>3. CASE ~Inside(q)
    BY <1>2, <1>4, <1>8, <2>1, <2>3 DEF Begun, Faithful, Inside, Reported
  <2>4. QED
    BY <2>2, <2>3
<1>9. QED
  BY <1>5, <1>6, <1>7, <1>8, AlonePartsNext

LEMMA AloneSpawn ==
  ASSUME TableInv, AloneInv, NEW r \in Runs, Spawn(r)
  PROVE  AloneInv'
<1>1. Inside(r) /\ Begun(r) /\ Faithful(r) /\ run[r].at = "begin" /\ Kinds /\ UNCHANGED <<shared, missed>>
  BY AloneParts DEF Spawn, Inside
<1>2. CASE /\ Goto(r, "attach") /\ agent' = [agent EXCEPT !.process = r]
           /\ \/ cmd' = [cmd EXCEPT ![r] = "bad"] /\ UNCHANGED work
              \/ cmd' = [cmd EXCEPT ![r] = "up"] /\ work' = work \union {r}
  <2>1. Elsewhere(r) /\ run'[r].at = "attach"
    BY <1>2, GotoMoves DEF TableInv
  <2>2. agent'.process = r /\ agent'.current = agent.current /\ DOMAIN agent' = {"process", "current"}
    BY <1>1, <1>2 DEF Kinds
  <2>3. /\ cmd' \in [Runs -> Commands] /\ work' \subseteq Runs /\ cmd'[r] \in {"bad", "up"}
        /\ cmd'[r] = "bad" => r \notin work'
        /\ \A q \in Runs \ {r} : cmd'[q] = cmd[q] /\ (q \in work' => q \in work)
    BY <1>1, <1>2 DEF Kinds, Commands, Begun
  <2>4. Kinds' /\ Begun(r)'
    BY <2>1, <2>2, <2>3 DEF Kinds, Begun
  <2>5. Faithful(r)'
    BY <1>1, <2>1, <2>2, <2>3 DEF Faithful, Reported, Inside, Elsewhere
  <2>6. QED
    BY <1>1, <2>1, <2>3, <2>4, <2>5, AloneMove
<1>3. CASE Ends(r, "error") /\ UNCHANGED <<agent, cmd, work>>
  <2>1. Elsewhere(r) /\ run'[r].at = "pop" /\ run'[r].result = "error"
    BY <1>3, EndsMoves DEF TableInv
  <2>2. Kinds' /\ Begun(r)' /\ Faithful(r)'
    BY <1>1, <1>3, <2>1 DEF Kinds, Begun, Faithful, Reported, Inside, Elsewhere
  <2>3. QED
    BY <1>1, <1>3, <2>1, <2>2, AloneMove
<1>4. QED
  BY <1>2, <1>3 DEF Spawn

LEMMA AloneAttach ==
  ASSUME TableInv, AloneInv, NEW r \in Runs, Attach(r)
  PROVE  AloneInv'
<1>1. Inside(r) /\ Begun(r) /\ Faithful(r) /\ run[r].at = "attach" /\ Kinds /\ UNCHANGED aloneVars
  BY AloneParts DEF Attach, Inside, aloneVars
<1>2. Elsewhere(r) /\ run'[r].at = "wait" /\ run'[r].on = agent.process
  BY AttachMoves DEF TableInv
<1>3. Kinds' /\ Begun(r)' /\ Faithful(r)'
  BY <1>1, <1>2 DEF aloneVars, Kinds, Begun, Faithful, Reported, Inside, Elsewhere
<1>4. QED
  BY <1>1, <1>2, <1>3, AloneMove DEF aloneVars

\* The result of a run that waited alone is its own command's.
LEMMA AloneFinish ==
  ASSUME TableInv, AloneInv, NEW r \in Runs, Finish(r)
  PROVE  AloneInv'
<1>1. Inside(r) /\ Begun(r) /\ Faithful(r) /\ run[r].at = "wait" /\ Kinds /\ UNCHANGED aloneVars
  BY AloneParts DEF Finish, Inside, aloneVars
<1>2. Elsewhere(r) /\ run'[r].at = "pop" /\ run'[r].result = Outcome(r)
  BY EndsMoves DEF TableInv, Finish
<1>3. Kinds' /\ Begun(r)'
  BY <1>1, <1>2 DEF aloneVars, Kinds, Begun
<1>4. Faithful(r)'
  <2>1. SUFFICES ASSUME r \notin shared
                 PROVE  /\ agent.current = run[r].job
                        /\ Outcome(r) = "success" => cmd[r] = "ok"
                        /\ Outcome(r) = "failed" => cmd[r] \in {"bad", "killed"}
                        /\ Docker /\ r \in work => r \in missed
    BY <1>1, <1>2 DEF aloneVars, Faithful, Inside, Reported, Elsewhere
  <2>2. /\ agent.current = run[r].job /\ agent.process = r /\ cmd[r] # "none" /\ run[r].on = r
        /\ Docker /\ r \in work => cmd[r] = "up" \/ r \in missed
    BY <1>1, <2>1 DEF Faithful
  <2>3. cmd[r] # "up" /\ (Docker \/ r \notin work)
    BY <2>2 DEF Finish, PipesClosed, Up, Runs, NoRun
  <2>4. cmd[r] \in {"ok", "bad", "killed"}
    BY <1>1, <2>2, <2>3 DEF Kinds, Commands
  <2>5. QED
    BY <2>2, <2>3, <2>4 DEF Outcome
<1>5. QED
  BY <1>1, <1>2, <1>3, <1>4, AloneMove DEF aloneVars

\* What a signal to command p and the death of containers K leave of the commands.
LEMMA AfterSignal ==
  ASSUME Kinds, NEW K, NEW p
  PROVE  /\ CmdAfter(K, p) \in [Runs -> Commands]
         /\ \A q \in Runs : /\ cmd[q] # "up" => CmdAfter(K, p)[q] = cmd[q]
                            /\ cmd[q] = "up" => CmdAfter(K, p)[q] \in {"up", "bad", "killed"}
                            /\ cmd[q] = "up" /\ q \notin K /\ q # p => CmdAfter(K, p)[q] = "up"
<1>1. \A q \in Runs : cmd[q] \in Commands
  BY DEF Kinds
<1>2. \A q \in Runs : /\ cmd[q] # "up" => CmdAfter(K, p)[q] = cmd[q]
                      /\ cmd[q] = "up" => CmdAfter(K, p)[q] \in {"up", "bad", "killed"}
                      /\ cmd[q] = "up" /\ q \notin K /\ q # p => CmdAfter(K, p)[q] = "up"
  BY DEF CmdAfter
<1>3. CmdAfter(K, p) = [q \in Runs |-> CmdAfter(K, p)[q]]
  BY DEF CmdAfter
<1>4. \A q \in Runs : CmdAfter(K, p)[q] \in Commands
  BY <1>1, <1>2 DEF Commands
<1>5. CmdAfter(K, p) \in [Runs -> Commands]
  BY <1>3, <1>4
<1>6. QED
  BY <1>2, <1>5

LEMMA AloneExpire ==
  ASSUME TableInv, AloneInv, NEW r \in Runs, Expire(r)
  PROVE  AloneInv'
<1>0. PICK K \in SUBSET work : /\ KillContainer(run[r].job, K)
                               /\ cmd' = CmdAfter(K, agent.process) /\ work' = work \ K
  BY DEF Expire
<1>1. /\ Inside(r) /\ Begun(r) /\ Faithful(r) /\ run[r].at = "wait" /\ Kinds /\ UNCHANGED <<agent, shared>>
      /\ missed \subseteq missed'
  BY <1>0, AloneParts DEF Expire, Inside, KillContainer
<1>2. Elsewhere(r) /\ run'[r].at = "pop" /\ run'[r].result = "timeout"
  BY EndsMoves DEF TableInv, Expire
<1>3. /\ cmd' \in [Runs -> Commands] /\ \A q \in Runs : cmd[q] # "up" => cmd'[q] = cmd[q]
  BY <1>0, <1>1, AfterSignal
<1>4. Kinds' /\ Begun(r)'
  BY <1>0, <1>1, <1>2, <1>3 DEF Kinds, Begun
<1>5. Docker /\ r \in work' => r \in missed'
  BY <1>0 DEF KillContainer, Containers, Named
<1>6. Faithful(r)'
  BY <1>1, <1>2, <1>5 DEF Faithful, Reported, Inside, Elsewhere
<1>7. QED
  BY <1>0, <1>1, <1>2, <1>3, <1>4, <1>6, AloneMove

\* A cancel reaches whatever the agent holds: of a run that is alone, its own.
LEMMA AloneCancel ==
  ASSUME TableInv, AloneInv, Cancel
  PROVE  AloneInv'
<1>1. UNCHANGED <<run, agent, shared>>
  BY DEF Cancel
<1>2. CASE UNCHANGED <<cmd, work, missed>>
  BY <1>1, <1>2, AloneQuiet DEF aloneVars
<1>3. ASSUME NEW K \in SUBSET work, KillContainer(agent.current, K),
             cmd' = CmdAfter(K, agent.process),
             work' = work \ (K \union (IF Docker THEN {} ELSE {agent.process}))
      PROVE  AloneInv'
  <2>1. /\ cmd' \in [Runs -> Commands]
        /\ \A q \in Runs : /\ cmd[q] # "up" => cmd'[q] = cmd[q]
                           /\ cmd[q] = "up" => cmd'[q] \in {"up", "bad", "killed"}
    BY <1>3, AfterSignal, AloneParts
  <2>2. Kinds' /\ Together'
    BY <1>1, <1>3, <2>1, AloneParts DEF Kinds, Together, Inside
  <2>3. missed \subseteq missed' /\ work' \subseteq work
    BY <1>3 DEF KillContainer
  <2>4. \A q \in work' : Docker => q \in missed' \/ run[q].job # agent.current
    BY <1>3, <2>3 DEF KillContainer, Containers, Named
  <2>5. ASSUME NEW q \in Runs PROVE Begun(q)' /\ Faithful(q)'
    <3>1. Begun(q) /\ Faithful(q)
      BY AloneParts
    <3>2. Begun(q)'
      BY <1>1, <2>1, <2>3, <3>1 DEF Begun
    <3>3. Faithful(q)'
      BY <1>1, <2>1, <2>3, <2>4, <3>1 DEF Faithful, Inside, Reported
    <3>4. QED
      BY <3>2, <3>3
  <2>6. QED
    BY <2>2, <2>5, AlonePartsNext
<1>4. QED
  BY <1>2, <1>3 DEF Cancel

\* Pop, Put and Callback: the run is on its way out.
LEMMA AloneLeave ==
  ASSUME TableInv, AloneInv, NEW r \in Runs, Pop(r) \/ Put(r) \/ Callback(r)
  PROVE  AloneInv'
<1>1. /\ Elsewhere(r) /\ Reported(r) /\ run'[r].at \in {"put", "callback", "ended"}
      /\ run'[r].result = run[r].result
  BY GotoMoves DEF TableInv, Pop, Put, Callback, Reported
<1>2. UNCHANGED aloneVars
  BY DEF Pop, Put, Callback, aloneVars
<1>3. Kinds' /\ Together'
  BY <1>1, <1>2, AloneParts DEF aloneVars, Kinds, Together, Inside, Elsewhere
<1>4. ASSUME NEW q \in Runs PROVE Begun(q)' /\ Faithful(q)'
  <2>1. Begun(q) /\ Faithful(q)
    BY AloneParts
  <2>2. CASE q # r
    BY <1>1, <1>2, <2>1, <2>2 DEF aloneVars, Begun, Faithful, Inside, Reported, Elsewhere
  <2>3. CASE q = r
    BY <1>1, <1>2, <2>1, <2>3 DEF aloneVars, Begun, Faithful, Inside, Reported
  <2>4. QED
    BY <2>2, <2>3
<1>5. QED
  BY <1>3, <1>4, AlonePartsNext

LEMMA AloneExit ==
  ASSUME AloneInv, NEW r \in Runs, NEW code \in {"ok", "bad"}, Exit(r, code)
  PROVE  AloneInv'
<1>1. UNCHANGED <<run, agent, shared, missed>> /\ work' = work \ {r} /\ Kinds /\ r \in work
  BY AloneParts DEF Exit
<1>2. /\ cmd' \in [Runs -> Commands] /\ \A q \in Runs \ {r} : cmd'[q] = cmd[q]
      /\ cmd[r] # "up" => cmd'[r] = cmd[r]
      /\ cmd[r] = "up" => cmd'[r] = code
  BY <1>1, SMTT(30) DEF Exit, Kinds, Commands
<1>3. Kinds' /\ Together'
  BY <1>1, <1>2, AloneParts DEF Kinds, Together, Inside
<1>4. ASSUME NEW q \in Runs PROVE Begun(q)' /\ Faithful(q)'
  <2>1. Begun(q) /\ Faithful(q)
    BY AloneParts
  <2>2. CASE q # r
    BY <1>1, <1>2, <2>1, <2>2 DEF Begun, Faithful, Inside, Reported
  <2>3. CASE q = r
    BY <1>1, <1>2, <2>1, <2>3 DEF Begun, Faithful, Inside, Reported
  <2>4. QED
    BY <2>2, <2>3
<1>5. QED
  BY <1>3, <1>4, AlonePartsNext

LEMMA AloneCrash ==
  ASSUME TableInv, AloneInv, Crash
  PROVE  AloneInv'
<1>1. /\ UNCHANGED <<cmd, work, shared, missed>> /\ DOMAIN agent' = {"process", "current"}
      /\ \A q \in Runs : \/ run[q].at = "none" /\ run'[q].at = "none"
                         \/ run'[q].at = "lost"
  BY CrashMoves DEF TableInv, Crash
<1>2. Kinds' /\ Together'
  BY <1>1, AloneParts DEF Kinds, Together, Inside
<1>3. \A q \in Runs : Begun(q)' /\ Faithful(q)'
  BY <1>1, AloneParts DEF Begun, Faithful, Inside, Reported
<1>4. QED
  BY <1>2, <1>3, AlonePartsNext

LEMMA AloneInit ==
  ASSUME Init
  PROVE  AloneInv
<1>1. /\ run = [r \in Runs |-> [job |-> "none", session |-> 0, at |-> "none", on |-> NoRun, result |-> "none"]]
      /\ cmd = [r \in Runs |-> "none"] /\ work = {} /\ agent = [process |-> NoRun, current |-> "none"]
  BY DEF Init
<1>2. \A r \in Runs : run[r].at = "none" /\ cmd[r] = "none" /\ r \notin work
  BY <1>1
<1>3. Kinds /\ Together
  BY <1>1, <1>2 DEF Kinds, Commands, Together, Inside
<1>4. \A r \in Runs : Begun(r) /\ Faithful(r)
  BY <1>2 DEF Begun, Faithful, Inside, Reported
<1>5. QED
  BY <1>3, <1>4, AloneParts

LEMMA AsideKeepsRuns ==
  ASSUME Aside
  PROVE  UNCHANGED runVars
<1>1. CASE Join \/ Connect \/ EnrollAnswer \/ WriteFiles \/ Dial \/ BackOff
  BY <1>1 DEF Join, Connect, EnrollAnswer, WriteFiles, Dial, BackOff
<1>2. CASE Register \/ StreamLost \/ Stop \/ Send \/ Outage \/ Lapse
  BY <1>2 DEF Register, StreamLost, Stop, Send, Outage, Lapse
<1>3. CASE \E a \in Asks : EnrollCheck(a) \/ EnrollGive(a)
  BY <1>3 DEF EnrollCheck, EnrollGive
<1>4. CASE (CertNext /\ UNCHANGED <<loop, enrollVars, linkVars, runVars>>) \/ \E j \in Jobs : CancelJob(j)
  BY <1>4 DEF CancelJob
<1>5. CASE UNCHANGED vars
  BY <1>5 DEF vars, runVars
<1>6. QED
  BY <1>1, <1>2, <1>3, <1>4, <1>5 DEF Aside

LEMMA AloneStep ==
  ASSUME TableInv, AloneInv, [Next]_vars
  PROVE  AloneInv'
<1>1. CASE Aside
  BY <1>1, AsideKeepsRuns, AloneQuiet DEF runVars, aloneVars
<1>2. CASE Crash
  BY <1>2, AloneCrash
<1>3. CASE \E r \in Runs, j \in Jobs : Assign(r, j)
  <2>1. PICK r \in Runs, j \in Jobs : Assign(r, j)
    BY <1>3
  <2>2. run[r].at = "none"
    BY <2>1, AssignFresh
  <2>3. UNCHANGED aloneVars /\ run'[r].at = "none" /\ \A q \in Runs \ {r} : run'[q] = run[q]
    BY <2>1, AssignMoves DEF aloneVars
  <2>4. QED
    BY <2>2, <2>3, AloneQuiet
<1>4. CASE HandStep
  <2>1. CASE Submit
    BY <2>1, SubmitMoves, AloneQuiet DEF aloneVars, Elsewhere
  <2>2. CASE Track \/ Hook
    BY <2>2, AloneQuiet DEF Track, Hook, aloneVars
  <2>3. QED
    BY <1>4, <2>1, <2>2, AloneCancel DEF HandStep
<1>5. CASE \E r \in Runs : RunStep(r) \/ Expire(r)
  BY <1>5, AloneStart, AloneSpawn, AloneAttach, AloneFinish, AloneExpire, AloneLeave DEF RunStep
<1>6. CASE \E r \in Runs, code \in {"ok", "bad"} : Exit(r, code)
  BY <1>6, AloneExit
<1>7. QED
  BY <1>1, <1>2, <1>3, <1>4, <1>5, <1>6 DEF Next, Aside

\* execute_job reads process and current back from an agent that every thread of the
\* executor writes: a run that never met another one inside it still reports what its
\* own command did, with its container gone unless docker failed to kill it, for any
\* jobs, loads, bounds and backend.
THEOREM AloneStaysFaithful == Spec => []AloneIsFaithful
<1>1. Init => TableInv /\ AloneInv
  BY TableInit, AloneInit
<1>2. TableInv /\ AloneInv /\ [Next]_vars => (TableInv /\ AloneInv)'
  BY TableStep, AloneStep
<1>3. AloneInv => AloneIsFaithful
  BY DEF AloneInv
<1>4. QED
  BY <1>1, <1>2, <1>3, PTL DEF Spec

-----------------------------------------------------------------------------
(* Enrollment.                                                             *)

Granted == {a \in Asks : request[a] = "given"}

EnrollInv ==
    /\ DOMAIN disk = {"key", "cert", "by", "ca"} /\ DOMAIN request = Asks
    /\ uses \in Nat /\ uses <= MaxUses /\ Cardinality(Granted) <= uses
    /\ loop = "join" => disk.cert = 0
    /\ loop \in {"enroll", "key", "cert"} => ~Enrolled
    /\ loop = "cert" => disk.key = ask
    /\ Enrolled \/ loop = "ca" => disk.key = disk.cert

LEMMA GrantedFinite == IsFiniteSet(Granted) /\ Cardinality(Granted) \in Nat
<1>1. Granted \subseteq Asks
  BY DEF Granted
<1>2. QED
  BY <1>1, FS_Subset, FS_CardinalityType

\* Nothing is granted: the token's count stands.
LEMMA NoneGranted ==
  ASSUME EnrollInv, uses' = uses, Granted' \subseteq Granted
  PROVE  uses' \in Nat /\ uses' <= MaxUses /\ Cardinality(Granted') <= uses'
<1>1. Cardinality(Granted') <= Cardinality(Granted) /\ Cardinality(Granted') \in Nat
  BY GrantedFinite, FS_Subset, FS_CardinalityType
<1>2. QED
  BY <1>1, GrantedFinite DEF EnrollInv

\* The handlers of the coordinator: a certificate is given out with its use counted.
LEMMA EnrollHandler ==
  ASSUME EnrollInv, NEW a \in Asks, EnrollCheck(a) \/ EnrollGive(a)
  PROVE  EnrollInv'
<1>1. UNCHANGED <<loop, disk, ask>>
  BY DEF EnrollCheck, EnrollGive
<1>2. CASE EnrollCheck(a)
  <2>1. DOMAIN request' = Asks /\ Granted' \subseteq Granted /\ uses' = uses
    BY <1>2 DEF EnrollCheck, EnrollInv, Granted
  <2>2. QED
    BY <1>1, <2>1, NoneGranted DEF EnrollInv, Enrolled
<1>3. CASE EnrollGive(a) /\ request'[a] # "given"
  <2>1. DOMAIN request' = Asks /\ Granted' \subseteq Granted
    BY <1>3 DEF EnrollGive, EnrollInv, Granted
  <2>2. Cardinality(Granted') <= Cardinality(Granted) /\ Cardinality(Granted') \in Nat
    BY <2>1, GrantedFinite, FS_Subset, FS_CardinalityType
  <2>3. uses' \in Nat /\ uses <= uses' /\ uses' <= MaxUses
    BY <1>3 DEF EnrollGive, Consumes, EnrollInv
  <2>4. Cardinality(Granted') <= uses'
    BY <2>2, <2>3, GrantedFinite DEF EnrollInv
  <2>5. QED
    BY <1>1, <2>1, <2>3, <2>4 DEF EnrollInv, Enrolled
<1>4. CASE EnrollGive(a) /\ request'[a] = "given"
  <2>1. uses' = uses + 1 /\ uses < MaxUses
    BY <1>4 DEF EnrollGive, Consumes, EnrollInv
  <2>2. DOMAIN request' = Asks /\ Granted' = Granted \cup {a} /\ a \notin Granted
    BY <1>4 DEF EnrollGive, EnrollInv, Granted
  <2>3. Cardinality(Granted') = Cardinality(Granted) + 1
    BY <2>2, GrantedFinite, FS_AddElement
  <2>4. uses' \in Nat /\ uses' <= MaxUses /\ Cardinality(Granted') <= uses'
    BY <2>1, <2>3, GrantedFinite DEF EnrollInv
  <2>5. QED
    BY <1>1, <2>2, <2>4 DEF EnrollInv, Enrolled
<1>5. QED
  BY <1>2, <1>3, <1>4

\* The worker's side: the files are written key, certificate, authority.
LEMMA EnrollWorker ==
  ASSUME EnrollInv, Join \/ Connect \/ EnrollAnswer \/ WriteFiles
  PROVE  EnrollInv'
<1>1. DOMAIN request' = Asks /\ Granted' \subseteq Granted /\ uses' = uses
  <2>1. CASE Join \/ EnrollAnswer \/ WriteFiles
    BY <2>1 DEF Join, EnrollAnswer, WriteFiles, enrollVars, EnrollInv, Granted
  <2>2. CASE Connect
    BY <2>2 DEF Connect, EnrollInv, Granted
  <2>3. QED
    BY <2>1, <2>2
<1>2. uses' \in Nat /\ uses' <= MaxUses /\ Cardinality(Granted)' <= uses'
  BY <1>1, NoneGranted
<1>3. DOMAIN disk' = {"key", "cert", "by", "ca"}
  BY DEF EnrollInv, Join, Connect, EnrollAnswer, WriteFiles, enrollVars
<1>4. /\ loop' = "join" => disk'.cert = 0
      /\ loop' \in {"enroll", "key", "cert"} => ~Enrolled'
      /\ loop' = "cert" => disk'.key = ask'
      /\ Enrolled' \/ loop' = "ca" => disk'.key = disk'.cert
  <2>1. CASE Join
    BY <2>1 DEF EnrollInv, Enrolled, Join
  <2>2. CASE Connect
    BY <2>2 DEF EnrollInv, Enrolled, Connect, Raise
  <2>3. CASE EnrollAnswer
    BY <2>3 DEF EnrollInv, Enrolled, EnrollAnswer, Raise, enrollVars
  <2>4. CASE WriteFiles
    BY <2>4 DEF EnrollInv, Enrolled, WriteFiles
  <2>5. QED
    BY <2>1, <2>2, <2>3, <2>4
<1>5. QED
  BY <1>1, <1>2, <1>3, <1>4 DEF EnrollInv

\* Everything else leaves the files, the requests and the token alone, or fails requests.
LEMMA EnrollElse ==
  ASSUME EnrollInv, UNCHANGED <<disk, ask, uses>>,
         request' = request \/ request' = [a \in Asks |-> IF request[a] \in {"asked", "signing"} THEN "refused" ELSE request[a]],
         loop' = loop \/ loop' \notin {"join", "enroll", "key", "cert", "ca"}
  PROVE  EnrollInv'
<1>1. DOMAIN request' = Asks /\ Granted' \subseteq Granted
  BY DEF EnrollInv, Granted
<1>2. uses' \in Nat /\ uses' <= MaxUses /\ Cardinality(Granted)' <= uses'
  BY <1>1, NoneGranted
<1>3. QED
  BY <1>1, <1>2 DEF EnrollInv, Enrolled

LEMMA EnrollStep ==
  ASSUME EnrollInv, [Next]_vars
  PROVE  EnrollInv'
<1>1. CASE Join \/ Connect \/ EnrollAnswer \/ WriteFiles
  BY <1>1, EnrollWorker
<1>2. CASE \E a \in Asks : EnrollCheck(a) \/ EnrollGive(a)
  BY <1>2, EnrollHandler
<1>3. CASE Dial \/ Register \/ BackOff \/ StreamLost \/ Stop \/ Send \/ Crash \/ Lapse
  BY <1>3, EnrollElse DEF Dial, Register, BackOff, StreamLost, Stop, Send, Crash, Lapse, Raise, enrollVars
<1>4. CASE Outage
  BY <1>4, EnrollElse DEF Outage
<1>5. CASE (CertNext /\ UNCHANGED <<loop, enrollVars, linkVars, runVars>>) \/ UNCHANGED vars
  BY <1>5, EnrollElse DEF enrollVars, vars
<1>6. CASE (\E r \in Runs, j \in Jobs : Assign(r, j)) \/ (\E j \in Jobs : CancelJob(j))
  BY <1>6, EnrollElse DEF Assign, CancelJob, enrollVars
<1>7. CASE HandStep
  BY <1>7, EnrollElse DEF HandStep, Submit, Track, Hook, Cancel, enrollVars
<1>8. CASE \E r \in Runs : RunStep(r) \/ Expire(r)
  BY <1>8, EnrollElse DEF RunStep, Start, Spawn, Attach, Finish, Pop, Put, Callback, Expire, enrollVars
<1>9. CASE \E r \in Runs, code \in {"ok", "bad"} : Exit(r, code)
  BY <1>9, EnrollElse DEF Exit, enrollVars
<1>10. QED
  BY <1>1, <1>2, <1>3, <1>4, <1>5, <1>6, <1>7, <1>8, <1>9 DEF Next

LEMMA EnrollInit ==
  ASSUME Init
  PROVE  EnrollInv
<1>1. request = [a \in Asks |-> "none"] /\ uses = 0
  BY DEF Init
<1>2. Granted = {} /\ DOMAIN request = Asks
  BY <1>1 DEF Granted
<1>3. Cardinality(Granted) = 0
  BY <1>2, FS_EmptySet
<1>4. uses \in Nat /\ uses <= MaxUses /\ Cardinality(Granted) <= uses
  BY <1>1, <1>3
<1>5. \/ loop = "connect" /\ disk = [key |-> Provisioned, cert |-> Provisioned, by |-> 1, ca |-> 1]
      \/ loop = "join" /\ disk = [key |-> 0, cert |-> 0, by |-> 0, ca |-> 0]
  BY DEF Init
<1>6. QED
  BY <1>2, <1>4, <1>5 DEF EnrollInv, Enrolled

\* However requests, refusals, timeouts, crashes of the worker and restarts of the
\* coordinator fall: the token's uses bound the certificates that are given out (consume
\* counts before the answer goes out), and the order in which _ensure_enrolled writes its
\* files leaves no worker enrolled with a certificate that is not its key's.
THEOREM EnrollmentIsSafe == Spec => []EnrollmentHolds
<1>1. Init => EnrollInv
  BY EnrollInit
<1>2. EnrollInv /\ [Next]_vars => EnrollInv'
  BY EnrollStep
<1>3. EnrollInv => EnrollmentHolds
  <2>1. Cardinality(Granted) \in Nat
    BY GrantedFinite
  <2>2. QED
    BY <2>1 DEF EnrollInv, EnrollmentHolds, Granted
<1>4. QED
  BY <1>1, <1>2, <1>3, PTL DEF Spec
=============================================================================
