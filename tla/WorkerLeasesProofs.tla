------------------------- MODULE WorkerLeasesProofs -------------------------
(* For any fleet, any organizations and any plans: the registry shows the  *)
(* leases of the database between calls, a worker in the pool carries      *)
(* nothing of its last customer, and what is on a leased worker is its     *)
(* customer's.                                                             *)
EXTENDS WorkerLeases, SequenceTheorems, FiniteSetTheorems, TLAPS

USE LeaseAssumption

(* The call in progress has still to make the write op for worker w.       *)
Due(op, w) == \E i \in DOMAIN call : call[i] = <<op, w>>

(* A call ends, cleans or gives back a lease; what it shows comes with it. *)
Ending == {"ending", "advance"}
CleaningUp == {"sanitizing", "begin", "send", "staff_send"}
GivingBack == {"ended", "hold", "clear", "unhold"}
SamePhase(a, b) == /\ a \in Ending <=> b \in Ending
                   /\ a \in CleaningUp <=> b \in CleaningUp
                   /\ a \in GivingBack <=> b \in GivingBack

(* The order of a call's writes: the state of the lease comes first and is *)
(* shown after it, what may replace the call comes last, nothing but the   *)
(* showing is done twice.                                                  *)
StateFirst ==
    \A i \in DOMAIN call : call[i][1] \in {"ending", "sanitizing", "ended"} =>
        i = 1 /\ Due("show", call[i][2])
ReplacedLast ==
    \A i \in DOMAIN call : call[i][1] \in {"advance", "send", "staff_send"} => i = Len(call)
OnceEach ==
    \A i, k \in DOMAIN call : i # k /\ call[i][1] = call[k][1] => call[i][1] = "show"
OnePhase ==
    \A i, k \in DOMAIN call : call[i][1] # "show" /\ call[k][1] # "show" =>
        SamePhase(call[i][1], call[k][1])
Program == StateFirst /\ ReplacedLast /\ OnceEach /\ OnePhase

-----------------------------------------------------------------------------
(* What may come onto the machine of w: a job of a customer.               *)
Dirty(w) == running[w] # {} \/ residue[w] # {} \/ Claimed(w)

(* Nothing can be claimed on w, in the registry or once it registers.      *)
Quiet(w) == ~Claimed(w) /\ reg[w].state # "active" /\ lease[w].state # "active"

(* The refs on the wire to and from w.                                     *)
OnWire(w, ref) == <<w, ref>> \in inbox \/ \E ok \in BOOLEAN :
                      [worker |-> w, ref |-> ref, ok |-> ok] \in answers

(* An entry that differs from the database is about to be corrected.       *)
ShownOrDue(w) ==
    /\ reg[w].status = "absent" => reg[w] = Absent
    /\ /\ reg[w].status # "absent"
       /\ reg[w].state # lease[w].state \/ reg[w].org # lease[w].org
       => Due("show", w)

(* A claim is hidden from the worker's "idle", and is its customer's.      *)
ClaimsHeld(w) ==
    /\ Open(w) /\ reg[w].state # "none" => reg[w].org = lease[w].org
    /\ \A o \in Orgs : <<w, o>> \in claims =>
          reg[w].status \in {"busy", "offline"} /\ (Open(w) => lease[w].org = o)

(* Whatever could dirty the machine is leased, held, or about to be held.  *)
DirtIsGuarded(w) ==
    Dirty(w) \/ reg[w].state = "active" => Open(w) \/ fleet[w].held \/ Due("hold", w)

(* The lease and the fleet row that the steps of a call find.              *)
StepsFit(w) ==
    /\ Due("ending", w) => lease[w].state = "active"
    /\ Due("advance", w) => \/ Due("ending", w) /\ Due("show", w)
                            \/ /\ lease[w].state = "ending"
                               /\ Due("show", w) \/ reg[w].state # "active"
    /\ Due("sanitizing", w) => lease[w].state = "ending"
    /\ Due("begin", w) => \/ lease[w].state = "sanitizing" \/ Due("sanitizing", w)
                          \/ /\ ~Open(w) /\ refs > 0
                             /\ \A ref \in Nat : OnWire(w, ref) => ref < refs
    /\ Due("send", w) \/ Due("staff_send", w) => Due("begin", w) \/ fleet[w].ref # 0
    /\ Due("ended", w) => Due("hold", w) \/ fleet[w].held \/ (Quiet(w) /\ ~Dirty(w))
    /\ Due("unhold", w) => Quiet(w) /\ ~Dirty(w)

(* Nothing is sent to a worker that is being cleaned.                      *)
CleanedInPeace(w) ==
    /\ \/ lease[w].state = "sanitizing" \/ fleet[w].ref # 0
       \/ \E op \in CleaningUp : Due(op, w)
       => Quiet(w)
    /\ fleet[w].ref # 0 => /\ lease[w].state \notin {"active", "ending"}
                           /\ Open(w) => fleet[w].ref = lease[w].id

(* The answer that is waited for tells the truth, an older one is not      *)
(* mistaken for it.                                                        *)
AnswersTrue(w) ==
    /\ (Open(w) => lease[w].id \in 1 .. refs) /\ fleet[w].ref <= refs
    /\ \A ref \in Nat : OnWire(w, ref) => ref \in 1 .. refs
    /\ lease[w].state \in {"active", "ending"} => ~OnWire(w, lease[w].id)
    /\ \A ref \in Nat :
          /\ [worker |-> w, ref |-> ref, ok |-> TRUE] \in answers
          /\ \/ lease[w].state = "sanitizing" /\ lease[w].id = ref
             \/ ~Open(w) /\ fleet[w].ref = ref
          => ~Dirty(w)

OneCustomer(w) == Open(w) => running[w] \cup residue[w] \subseteq {lease[w].org}

Kept(w) == /\ ClaimsHeld(w) /\ DirtIsGuarded(w) /\ StepsFit(w)
           /\ CleanedInPeace(w) /\ AnswersTrue(w) /\ OneCustomer(w)

ShowInv == TypeOK /\ Program /\ \A w \in Workers : ShownOrDue(w)
LeaseInv == ShowInv /\ \A w \in Workers : Kept(w)

-----------------------------------------------------------------------------
(* Calls as lists of writes.                                               *)

Writes(ops) == {ops[i] : i \in 1 .. Len(ops)}

(* The writes ops are those of one phase, in their order.                  *)
InOrder(ops, phase) ==
    /\ Writes(ops) \subseteq phase \cup {"show"}
    /\ \A i, k \in 1 .. Len(ops) : ops[i] = ops[k] => i = k
    /\ \A i \in 1 .. Len(ops) :
          /\ ops[i] \in {"ending", "sanitizing", "ended"} => i = 1 /\ "show" \in Writes(ops)
          /\ ops[i] \in {"advance", "send", "staff_send"} => i = Len(ops)

(* The list that a manager call leaves behind.                             *)
LEMMA TodoIs ==
    ASSUME NEW w \in Workers, NEW ops \in Seq(Ops), call' = Todo(w, ops),
           NEW phase \in {Ending, CleaningUp, GivingBack}, InOrder(ops, phase)
    PROVE  /\ call' \in Seq(Ops \X Workers) /\ Program'
           /\ \A op, v : Due(op, v)' <=> v = w /\ op \in Writes(ops)
<1>1. DOMAIN ops = 1 .. Len(ops) /\ Len(ops) \in Nat /\ \A i \in 1 .. Len(ops) : ops[i] \in Ops
  OBVIOUS
<1>2. call' = [i \in 1 .. Len(ops) |-> <<ops[i], w>>]
  BY <1>1 DEF Todo
<1>3. call' \in Seq(Ops \X Workers) /\ Len(call') = Len(ops)
  BY <1>1, <1>2
<1>4. DOMAIN call' = 1 .. Len(ops)
      /\ \A i \in 1 .. Len(ops) : call'[i] = <<ops[i], w>> /\ call'[i][1] = ops[i] /\ call'[i][2] = w
  BY <1>2
<1>5. \A op, v : Due(op, v)' <=> v = w /\ op \in Writes(ops)
  <2> TAKE op, v
  <2>1. Due(op, v)' <=> \E i \in 1 .. Len(ops) : <<ops[i], w>> = <<op, v>>
    BY <1>4 DEF Due
  <2>2. op \in Writes(ops) <=> \E i \in 1 .. Len(ops) : ops[i] = op
    BY DEF Writes
  <2>3. QED
    BY <2>1, <2>2
<1>6. StateFirst' /\ ReplacedLast' /\ OnceEach'
  <2>1. ASSUME NEW i \in DOMAIN call', call'[i][1] \in {"ending", "sanitizing", "ended"}
        PROVE  i = 1 /\ Due("show", w)' /\ call'[i][2] = w
    BY <1>4, <1>5, <2>1 DEF InOrder
  <2>2. StateFirst'
    BY <2>1 DEF StateFirst
  <2>3. ReplacedLast'
    BY <1>3, <1>4 DEF ReplacedLast, InOrder
  <2>4. OnceEach'
    BY <1>4 DEF OnceEach, InOrder
  <2>5. QED
    BY <2>2, <2>3, <2>4
<1>7. OnePhase'
  <2>1. \A i \in DOMAIN call' : call'[i][1] = "show" \/ call'[i][1] \in phase
    BY <1>4 DEF InOrder, Writes
  <2>2. QED
    BY <2>1 DEF OnePhase, SamePhase, Ending, CleaningUp, GivingBack
<1>8. QED
  BY <1>3, <1>5, <1>6, <1>7 DEF Program

(* The lists that there are.                                               *)
LEMMA Lists ==
    /\ <<"ending", "show", "advance">> \in Seq(Ops) /\ InOrder(<<"ending", "show", "advance">>, Ending)
       /\ Writes(<<"ending", "show", "advance">>) = {"ending", "show", "advance"}
    /\ <<"advance">> \in Seq(Ops) /\ InOrder(<<"advance">>, Ending)
       /\ Writes(<<"advance">>) = {"advance"}
    /\ <<"sanitizing", "begin", "show", "send">> \in Seq(Ops) /\ InOrder(<<"sanitizing", "begin", "show", "send">>, CleaningUp)
       /\ Writes(<<"sanitizing", "begin", "show", "send">>) = {"sanitizing", "begin", "show", "send"}
    /\ <<"begin", "staff_send">> \in Seq(Ops) /\ InOrder(<<"begin", "staff_send">>, CleaningUp)
       /\ Writes(<<"begin", "staff_send">>) = {"begin", "staff_send"}
    /\ <<"ended", "hold", "show">> \in Seq(Ops) /\ InOrder(<<"ended", "hold", "show">>, GivingBack)
       /\ Writes(<<"ended", "hold", "show">>) = {"ended", "hold", "show"}
    /\ <<"ended", "clear", "show">> \in Seq(Ops) /\ InOrder(<<"ended", "clear", "show">>, GivingBack)
       /\ Writes(<<"ended", "clear", "show">>) = {"ended", "clear", "show"}
    /\ <<"hold">> \in Seq(Ops) /\ InOrder(<<"hold">>, GivingBack)
       /\ Writes(<<"hold">>) = {"hold"}
    /\ <<"clear">> \in Seq(Ops) /\ InOrder(<<"clear">>, GivingBack)
       /\ Writes(<<"clear">>) = {"clear"}
    /\ <<"unhold">> \in Seq(Ops) /\ InOrder(<<"unhold">>, GivingBack)
       /\ Writes(<<"unhold">>) = {"unhold"}
<1>1. ASSUME NEW a PROVE Writes(<<a>>) = {a}
  <2>1. 1 .. Len(<<a>>) = {1}
    OBVIOUS
  <2>2. QED
    BY <2>1 DEF Writes
<1>2. ASSUME NEW a, NEW b PROVE Writes(<<a, b>>) = {a, b}
  <2>1. 1 .. Len(<<a, b>>) = {1, 2}
    OBVIOUS
  <2>2. QED
    BY <2>1 DEF Writes
<1>3. ASSUME NEW a, NEW b, NEW c PROVE Writes(<<a, b, c>>) = {a, b, c}
  <2>1. 1 .. Len(<<a, b, c>>) = {1, 2, 3}
    OBVIOUS
  <2>2. QED
    BY <2>1 DEF Writes
<1>4. ASSUME NEW a, NEW b, NEW c, NEW d PROVE Writes(<<a, b, c, d>>) = {a, b, c, d}
  <2>1. 1 .. Len(<<a, b, c, d>>) = {1, 2, 3, 4}
    OBVIOUS
  <2>2. QED
    BY <2>1 DEF Writes
<1>5. <<"ending", "show", "advance">> \in Seq(Ops) /\ InOrder(<<"ending", "show", "advance">>, Ending)
  <2>1. Writes(<<"ending", "show", "advance">>) = {"ending", "show", "advance"} /\ 1 .. Len(<<"ending", "show", "advance">>) = {1, 2, 3}
    BY <1>3
  <2>2. QED
    BY <2>1 DEF InOrder, Ops, Ending
<1>6. <<"advance">> \in Seq(Ops) /\ InOrder(<<"advance">>, Ending)
  <2>1. Writes(<<"advance">>) = {"advance"} /\ 1 .. Len(<<"advance">>) = {1}
    BY <1>1
  <2>2. QED
    BY <2>1 DEF InOrder, Ops, Ending
<1>7. <<"sanitizing", "begin", "show", "send">> \in Seq(Ops) /\ InOrder(<<"sanitizing", "begin", "show", "send">>, CleaningUp)
  <2>1. Writes(<<"sanitizing", "begin", "show", "send">>) = {"sanitizing", "begin", "show", "send"} /\ 1 .. Len(<<"sanitizing", "begin", "show", "send">>) = {1, 2, 3, 4}
    BY <1>4
  <2>2. QED
    BY <2>1 DEF InOrder, Ops, CleaningUp
<1>8. <<"begin", "staff_send">> \in Seq(Ops) /\ InOrder(<<"begin", "staff_send">>, CleaningUp)
  <2>1. Writes(<<"begin", "staff_send">>) = {"begin", "staff_send"} /\ 1 .. Len(<<"begin", "staff_send">>) = {1, 2}
    BY <1>2
  <2>2. QED
    BY <2>1 DEF InOrder, Ops, CleaningUp
<1>9. <<"ended", "hold", "show">> \in Seq(Ops) /\ InOrder(<<"ended", "hold", "show">>, GivingBack)
  <2>1. Writes(<<"ended", "hold", "show">>) = {"ended", "hold", "show"} /\ 1 .. Len(<<"ended", "hold", "show">>) = {1, 2, 3}
    BY <1>3
  <2>2. QED
    BY <2>1 DEF InOrder, Ops, GivingBack
<1>10. <<"ended", "clear", "show">> \in Seq(Ops) /\ InOrder(<<"ended", "clear", "show">>, GivingBack)
  <2>1. Writes(<<"ended", "clear", "show">>) = {"ended", "clear", "show"} /\ 1 .. Len(<<"ended", "clear", "show">>) = {1, 2, 3}
    BY <1>3
  <2>2. QED
    BY <2>1 DEF InOrder, Ops, GivingBack
<1>11. <<"hold">> \in Seq(Ops) /\ InOrder(<<"hold">>, GivingBack)
  <2>1. Writes(<<"hold">>) = {"hold"} /\ 1 .. Len(<<"hold">>) = {1}
    BY <1>1
  <2>2. QED
    BY <2>1 DEF InOrder, Ops, GivingBack
<1>12. <<"clear">> \in Seq(Ops) /\ InOrder(<<"clear">>, GivingBack)
  <2>1. Writes(<<"clear">>) = {"clear"} /\ 1 .. Len(<<"clear">>) = {1}
    BY <1>1
  <2>2. QED
    BY <2>1 DEF InOrder, Ops, GivingBack
<1>13. <<"unhold">> \in Seq(Ops) /\ InOrder(<<"unhold">>, GivingBack)
  <2>1. Writes(<<"unhold">>) = {"unhold"} /\ 1 .. Len(<<"unhold">>) = {1}
    BY <1>1
  <2>2. QED
    BY <2>1 DEF InOrder, Ops, GivingBack
<1>14. QED
  BY <1>1, <1>2, <1>3, <1>4, <1>5, <1>6, <1>7, <1>8, <1>9, <1>10, <1>11, <1>12, <1>13

(* What is due once a call has begun.                                      *)
LEMMA CallsAre ==
    ASSUME NEW w \in Workers
    PROVE
    /\ call' = Todo(w, <<"ending", "show", "advance">>) =>
          \A op, v : Due(op, v)' <=> v = w /\ op \in {"ending", "show", "advance"}
    /\ call' = Todo(w, <<"advance">>) =>
          \A op, v : Due(op, v)' <=> v = w /\ op \in {"advance"}
    /\ call' = Todo(w, <<"sanitizing", "begin", "show", "send">>) =>
          \A op, v : Due(op, v)' <=> v = w /\ op \in {"sanitizing", "begin", "show", "send"}
    /\ call' = Todo(w, <<"begin", "staff_send">>) =>
          \A op, v : Due(op, v)' <=> v = w /\ op \in {"begin", "staff_send"}
    /\ call' = Todo(w, <<"ended", "hold", "show">>) =>
          \A op, v : Due(op, v)' <=> v = w /\ op \in {"ended", "hold", "show"}
    /\ call' = Todo(w, <<"ended", "clear", "show">>) =>
          \A op, v : Due(op, v)' <=> v = w /\ op \in {"ended", "clear", "show"}
    /\ call' = Todo(w, <<"hold">>) =>
          \A op, v : Due(op, v)' <=> v = w /\ op \in {"hold"}
    /\ call' = Todo(w, <<"clear">>) =>
          \A op, v : Due(op, v)' <=> v = w /\ op \in {"clear"}
    /\ call' = Todo(w, <<"unhold">>) =>
          \A op, v : Due(op, v)' <=> v = w /\ op \in {"unhold"}
<1>1. ASSUME call' = Todo(w, <<"ending", "show", "advance">>)
      PROVE  \A op, v : Due(op, v)' <=> v = w /\ op \in {"ending", "show", "advance"}
  <2>1. PICK ops \in Seq(Ops) : ops = <<"ending", "show", "advance">> /\ InOrder(ops, Ending) /\ Writes(ops) = {"ending", "show", "advance"}
    BY Lists
  <2>2. QED
    BY ZenonT(40), <1>1, <2>1, TodoIs
<1>2. ASSUME call' = Todo(w, <<"advance">>)
      PROVE  \A op, v : Due(op, v)' <=> v = w /\ op \in {"advance"}
  <2>1. PICK ops \in Seq(Ops) : ops = <<"advance">> /\ InOrder(ops, Ending) /\ Writes(ops) = {"advance"}
    BY Lists
  <2>2. QED
    BY <1>2, <2>1, TodoIs
<1>3. ASSUME call' = Todo(w, <<"sanitizing", "begin", "show", "send">>)
      PROVE  \A op, v : Due(op, v)' <=> v = w /\ op \in {"sanitizing", "begin", "show", "send"}
  <2>1. PICK ops \in Seq(Ops) : ops = <<"sanitizing", "begin", "show", "send">> /\ InOrder(ops, CleaningUp) /\ Writes(ops) = {"sanitizing", "begin", "show", "send"}
    BY Lists
  <2>2. QED
    BY ZenonT(40), <1>3, <2>1, TodoIs
<1>4. ASSUME call' = Todo(w, <<"begin", "staff_send">>)
      PROVE  \A op, v : Due(op, v)' <=> v = w /\ op \in {"begin", "staff_send"}
  <2>1. PICK ops \in Seq(Ops) : ops = <<"begin", "staff_send">> /\ InOrder(ops, CleaningUp) /\ Writes(ops) = {"begin", "staff_send"}
    BY Lists
  <2>2. QED
    BY <1>4, <2>1, TodoIs
<1>5. ASSUME call' = Todo(w, <<"ended", "hold", "show">>)
      PROVE  \A op, v : Due(op, v)' <=> v = w /\ op \in {"ended", "hold", "show"}
  <2>1. PICK ops \in Seq(Ops) : ops = <<"ended", "hold", "show">> /\ InOrder(ops, GivingBack) /\ Writes(ops) = {"ended", "hold", "show"}
    BY Lists
  <2>2. QED
    BY ZenonT(40), <1>5, <2>1, TodoIs
<1>6. ASSUME call' = Todo(w, <<"ended", "clear", "show">>)
      PROVE  \A op, v : Due(op, v)' <=> v = w /\ op \in {"ended", "clear", "show"}
  <2>1. PICK ops \in Seq(Ops) : ops = <<"ended", "clear", "show">> /\ InOrder(ops, GivingBack) /\ Writes(ops) = {"ended", "clear", "show"}
    BY Lists
  <2>2. QED
    BY ZenonT(40), <1>6, <2>1, TodoIs
<1>7. ASSUME call' = Todo(w, <<"hold">>)
      PROVE  \A op, v : Due(op, v)' <=> v = w /\ op \in {"hold"}
  <2>1. PICK ops \in Seq(Ops) : ops = <<"hold">> /\ InOrder(ops, GivingBack) /\ Writes(ops) = {"hold"}
    BY Lists
  <2>2. QED
    BY <1>7, <2>1, TodoIs
<1>8. ASSUME call' = Todo(w, <<"clear">>)
      PROVE  \A op, v : Due(op, v)' <=> v = w /\ op \in {"clear"}
  <2>1. PICK ops \in Seq(Ops) : ops = <<"clear">> /\ InOrder(ops, GivingBack) /\ Writes(ops) = {"clear"}
    BY Lists
  <2>2. QED
    BY <1>8, <2>1, TodoIs
<1>9. ASSUME call' = Todo(w, <<"unhold">>)
      PROVE  \A op, v : Due(op, v)' <=> v = w /\ op \in {"unhold"}
  <2>1. PICK ops \in Seq(Ops) : ops = <<"unhold">> /\ InOrder(ops, GivingBack) /\ Writes(ops) = {"unhold"}
    BY Lists
  <2>2. QED
    BY <1>9, <2>1, TodoIs
<1>10. QED
  BY <1>1, <1>2, <1>3, <1>4, <1>5, <1>6, <1>7, <1>8, <1>9

(* One write is done.                                                      *)
LEMMA TailIs ==
    ASSUME TypeOK, Program, call # <<>>, call' = Tail(call),
           NEW h, NEW u, h = Head(call)[1], u = Head(call)[2]
    PROVE  /\ h \in Ops /\ u \in Workers /\ Due(h, u)
           /\ call' \in Seq(Ops \X Workers) /\ Program'
           /\ \A op, v : Due(op, v)' => Due(op, v)
           /\ \A op, v : Due(op, v) /\ (op # h \/ v # u) => Due(op, v)'
           /\ \A op, v : Due(op, v)' /\ op # "show" => op # h
           /\ \A op, v : Due(op, v)' => op \notin {"ending", "sanitizing", "ended"}
           /\ h \in {"ending", "sanitizing", "ended"} => Due("show", u)'
<1>1. PICK n \in Nat : n = Len(call) /\ n >= 1
  <2>1. call \in Seq(Ops \X Workers)
    BY DEF TypeOK
  <2>2. Len(call) \in Nat \ {0}
    BY <2>1, EmptySeq
  <2>3. QED
    BY <2>2
<1>2. /\ DOMAIN call = 1 .. n /\ Head(call) = call[1] /\ call[1] \in Ops \X Workers
      /\ \A i \in 1 .. n : call[i] \in Ops \X Workers
  BY <1>1 DEF TypeOK
<1>3. /\ call' \in Seq(Ops \X Workers) /\ Len(call') = n - 1 /\ DOMAIN call' = 1 .. (n - 1)
      /\ \A i \in 1 .. (n - 1) : call'[i] = call[i + 1]
  BY <1>1, HeadTailProperties DEF TypeOK
<1>4. call[1] = <<h, u>> /\ h \in Ops /\ u \in Workers
  BY <1>2
<1>5. \A i \in 1 .. (n - 1) : i + 1 \in 1 .. n /\ i + 1 # 1
  BY <1>1
<1>6. \A i \in 1 .. n : i # 1 => i - 1 \in 1 .. (n - 1) /\ (i - 1) + 1 = i
  BY <1>1
<1>7. Due(h, u)
  BY <1>1, <1>2, <1>4 DEF Due
<1>8. \A op, v : Due(op, v)' => \E i \in 1 .. n : i # 1 /\ call[i] = <<op, v>>
  BY <1>3, <1>5 DEF Due
<1>9. \A op, v : Due(op, v)' => Due(op, v)
  BY <1>2, <1>8 DEF Due
<1>10. \A i \in 1 .. n : i # 1 => \E k \in 1 .. (n - 1) : call'[k] = call[i]
  BY <1>3, <1>6
<1>11. \A op, v : Due(op, v) /\ (op # h \/ v # u) => Due(op, v)'
  <2> TAKE op, v
  <2> HAVE Due(op, v) /\ (op # h \/ v # u)
  <2>1. PICK i \in 1 .. n : call[i] = <<op, v>>
    BY <1>2 DEF Due
  <2>2. i # 1
    BY <1>4, <2>1
  <2>3. PICK k \in 1 .. (n - 1) : call'[k] = call[i]
    BY <1>10, <2>2
  <2>4. QED
    BY <1>3, <2>1, <2>3 DEF Due
<1>12. \A op, v : Due(op, v)' => op \notin {"ending", "sanitizing", "ended"}
                                 /\ (op # "show" => op # h)
  <2> TAKE op, v
  <2> HAVE Due(op, v)'
  <2>1. PICK i \in 1 .. n : i # 1 /\ call[i] = <<op, v>>
    BY <1>8
  <2>2. call[i][1] = op /\ call[1][1] = h
    BY <1>4, <2>1
  <2>3. QED
    BY <1>1, <1>2, <2>1, <2>2 DEF Program, StateFirst, OnceEach
<1>13. h \in {"ending", "sanitizing", "ended"} => Due("show", u)'
  <2>1. h \in {"ending", "sanitizing", "ended"} => Due("show", u) /\ h # "show"
    <3>1. call[1][1] = h /\ call[1][2] = u /\ 1 \in DOMAIN call
      BY <1>1, <1>2, <1>4
    <3>2. QED
      BY <3>1 DEF Program, StateFirst
  <2>2. QED
    BY <1>11, <2>1
<1>14. StateFirst' /\ ReplacedLast'
  <2>1. \A i \in DOMAIN call' : call'[i][1] \notin {"ending", "sanitizing", "ended"}
    BY <1>2, <1>3, <1>5 DEF Program, StateFirst
  <2>2. ASSUME NEW i \in DOMAIN call', call'[i][1] \in {"advance", "send", "staff_send"}
        PROVE  i = Len(call')
    <3>1. i + 1 \in DOMAIN call /\ call[i + 1][1] \in {"advance", "send", "staff_send"} /\ i \in Nat
      BY <1>2, <1>3, <1>5, <2>2
    <3>2. i + 1 = n
      BY <1>1, <3>1 DEF Program, ReplacedLast
    <3>3. QED
      BY <1>1, <1>3, <3>1, <3>2
  <2>3. QED
    BY <2>1, <2>2 DEF StateFirst, ReplacedLast
<1>15. \A i, k \in DOMAIN call' : /\ i + 1 \in DOMAIN call /\ k + 1 \in DOMAIN call
                                  /\ call'[i] = call[i + 1] /\ call'[k] = call[k + 1]
                                  /\ (i # k => i + 1 # k + 1)
  BY <1>2, <1>3, <1>5
<1>16. OnceEach' /\ OnePhase'
  BY <1>15 DEF Program, OnceEach, OnePhase
<1>17. QED
  BY <1>3, <1>4, <1>7, <1>9, <1>11, <1>12, <1>13, <1>14, <1>16 DEF Program

(* What may replace the call is all that is left of it.                    *)
LEMMA Alone ==
    ASSUME TypeOK, Program, call # <<>>, NEW h, NEW u, h = Head(call)[1], u = Head(call)[2],
           h \in {"advance", "send", "staff_send"}
    PROVE  /\ h \in Ops /\ u \in Workers /\ Tail(call) = <<>>
           /\ \A op, v : Due(op, v) <=> op = h /\ v = u
<1>1. Len(call) \in Nat /\ Len(call) >= 1 /\ DOMAIN call = 1 .. Len(call)
  BY EmptySeq, LenProperties DEF TypeOK
<1>2. Head(call) = call[1] /\ call[1] \in Ops \X Workers
  BY <1>1 DEF TypeOK
<1>3. call[1] = <<h, u>> /\ h \in Ops /\ u \in Workers
  BY <1>2
<1>4. Len(call) = 1
  BY <1>1, <1>3 DEF Program, ReplacedLast
<1>5. Tail(call) \in Seq(Ops \X Workers) /\ Len(Tail(call)) = 0
  BY <1>4, HeadTailProperties DEF TypeOK
<1>6. Tail(call) = <<>>
  BY <1>5, EmptySeq
<1>7. DOMAIN call = {1}
  BY <1>1, <1>4
<1>8. \A op, v : Due(op, v) <=> <<h, u>> = <<op, v>>
  BY <1>3, <1>7 DEF Due
<1>9. QED
  BY <1>3, <1>6, <1>8

(* No call is of two phases.                                               *)
LEMMA PhasesApart ==
    ASSUME TypeOK, Program, NEW a \in Ops, NEW b \in Ops, NEW v \in Workers, NEW w \in Workers,
           a # "show", b # "show", Due(a, v), Due(b, w)
    PROVE  SamePhase(a, b)
<1>1. PICK i \in DOMAIN call : call[i] = <<a, v>>
  BY DEF Due
<1>2. PICK k \in DOMAIN call : call[k] = <<b, w>>
  BY DEF Due
<1>3. call[i][1] = a /\ call[k][1] = b
  BY <1>1, <1>2
<1>4. QED
  BY <1>3 DEF Program, OnePhase

LEMMA NothingDue == call = <<>> => Program /\ \A op, v : ~Due(op, v)
<1> SUFFICES ASSUME call = <<>> PROVE Program /\ \A op, v : ~Due(op, v)
  OBVIOUS
<1>1. DOMAIN call = {}
  OBVIOUS
<1>2. QED
  BY <1>1 DEF Program, StateFirst, ReplacedLast, OnceEach, OnePhase, Due

LEMMA NothingDueNext == call' = <<>> => call' \in Seq(Ops \X Workers) /\ Program'
                                        /\ \A op, v : ~Due(op, v)'
<1> SUFFICES ASSUME call' = <<>> PROVE call' \in Seq(Ops \X Workers) /\ Program'
                                       /\ \A op, v : ~Due(op, v)'
  OBVIOUS
<1>1. DOMAIN call' = {}
  OBVIOUS
<1>2. QED
  BY <1>1 DEF Program, StateFirst, ReplacedLast, OnceEach, OnePhase, Due

(* request shows every lease it made.                                      *)
LEMMA RequestCall ==
    ASSUME NEW S \in SUBSET Workers,
           call' \in {q \in [1 .. Cardinality(S) -> {"show"} \X S] :
                         \A w \in S : \E i \in DOMAIN q : q[i] = <<"show", w>>}
    PROVE  /\ call' \in Seq(Ops \X Workers) /\ Program'
           /\ \A op, v : Due(op, v)' <=> op = "show" /\ v \in S
<1>1. Cardinality(S) \in Nat
  BY FS_Subset, FS_CardinalityType
<1>2. /\ call' \in [1 .. Cardinality(S) -> {"show"} \X S]
      /\ \A w \in S : \E i \in DOMAIN call' : call'[i] = <<"show", w>>
  OBVIOUS
<1>3. call' \in Seq(Ops \X Workers)
  <2>1. \A x \in {"show"} \X S : x \in Ops \X Workers
    BY DEF Ops
  <2>2. call' \in [1 .. Cardinality(S) -> Ops \X Workers]
    BY <1>2, <2>1
  <2>3. QED
    BY <1>1, <2>2
<1>4. \A i \in DOMAIN call' : call'[i] \in {"show"} \X S /\ call'[i][1] = "show"
  BY <1>2
<1>5. Program'
  BY <1>4 DEF Program, StateFirst, ReplacedLast, OnceEach, OnePhase
<1>6. ASSUME NEW op, NEW v, Due(op, v)' PROVE op = "show" /\ v \in S
  BY <1>4, <1>6 DEF Due
<1>7. ASSUME NEW v \in S PROVE Due("show", v)'
  BY <1>2 DEF Due
<1>8. QED
  BY <1>3, <1>5, <1>6, <1>7

-----------------------------------------------------------------------------
(* The registry shows what the database has.                               *)

(* An answer of a worker makes one of five lists.                          *)
LEMMA AnswerCall ==
    ASSUME TypeOK, NEW a \in answers, call' = Todo(a.worker, WhatAnswerDoes(a))
    PROVE  \/ /\ lease[a.worker].state = "sanitizing" /\ lease[a.worker].id = a.ref
              /\ \/ a.ok /\ call' = Todo(a.worker, <<"ended", "clear", "show">>)
                 \/ ~a.ok /\ call' = Todo(a.worker, <<"ended", "hold", "show">>)
           \/ /\ fleet[a.worker].ref = a.ref /\ ~Open(a.worker)
              /\ \/ a.ok /\ call' = Todo(a.worker, <<"unhold">>)
                 \/ ~a.ok /\ call' = Todo(a.worker, <<"hold">>)
           \/ call' = <<>>
BY DEF WhatAnswerDoes, Todo

(* What the writes to a row, and the changes of an entry, leave alone.     *)
LEMMA LeaseChange ==
    ASSUME TypeOK, NEW w \in Workers, NEW st \in LeaseStates, lease' = [lease EXCEPT ![w].state = st]
    PROVE  /\ lease' \in [Workers -> Leases] /\ \A v \in Workers : v # w => lease'[v] = lease[v]
           /\ lease'[w].state = st /\ lease'[w].org = lease[w].org /\ lease'[w].id = lease[w].id
<1>1. lease[w] \in Leases /\ lease \in [Workers -> Leases]
  BY DEF TypeOK
<1>2. lease' = [lease EXCEPT ![w] = [lease[w] EXCEPT !.state = st]]
  BY <1>1
<1>3. [lease[w] EXCEPT !.state = st] \in Leases
  BY <1>1 DEF Leases
<1>4. QED
  BY <1>1, <1>2, <1>3 DEF Leases

LEMMA FleetChange ==
    ASSUME TypeOK, NEW w \in Workers, NEW ref \in Nat, fleet' = [fleet EXCEPT ![w].ref = ref]
    PROVE  /\ fleet' \in [Workers -> FleetRows] /\ \A v \in Workers : v # w => fleet'[v] = fleet[v]
           /\ fleet'[w].ref = ref /\ fleet'[w].held = fleet[w].held
<1>1. fleet[w] \in FleetRows /\ fleet \in [Workers -> FleetRows]
  BY DEF TypeOK
<1>2. fleet' = [fleet EXCEPT ![w] = [fleet[w] EXCEPT !.ref = ref]]
  BY <1>1
<1>3. [fleet[w] EXCEPT !.ref = ref] \in FleetRows
  BY <1>1 DEF FleetRows
<1>4. QED
  BY <1>1, <1>2, <1>3 DEF FleetRows

LEMMA EntryChange ==
    ASSUME TypeOK, NEW w \in Workers, NEW s \in {"offline", "idle", "busy"}, NEW b \in BOOLEAN,
           \/ reg' = [reg EXCEPT ![w].status = s]
           \/ reg' = [reg EXCEPT ![w].status = s, ![w].jobs = b]
    PROVE  /\ reg' \in [Workers -> Entries] /\ \A v \in Workers : v # w => reg'[v] = reg[v]
           /\ reg'[w].status = s /\ reg'[w].state = reg[w].state /\ reg'[w].org = reg[w].org
<1>1. reg[w] \in Entries /\ reg \in [Workers -> Entries]
  BY DEF TypeOK
<1>2. CASE reg' = [reg EXCEPT ![w].status = s]
  <2>1. reg' = [reg EXCEPT ![w] = [reg[w] EXCEPT !.status = s]]
    BY <1>1, <1>2
  <2>2. [reg[w] EXCEPT !.status = s] \in Entries
    BY <1>1 DEF Entries
  <2>3. QED
    BY <1>1, <2>1, <2>2 DEF Entries
<1>3. CASE reg' = [reg EXCEPT ![w].status = s, ![w].jobs = b]
  <2>1. reg' = [reg EXCEPT ![w] = [reg[w] EXCEPT !.status = s, !.jobs = b]]
    BY <1>1, <1>3
  <2>2. [reg[w] EXCEPT !.status = s, !.jobs = b] \in Entries
    BY <1>1 DEF Entries
  <2>3. QED
    BY <1>1, <2>1, <2>2 DEF Entries
<1>4. QED
  BY <1>2, <1>3

(* The kinds of step, for the registry: a manager call begins, a write of  *)
(* it is done, or the world around it moves.                               *)
LEMMA TypeKept == ShowInv /\ [Next]_vars => TypeOK' /\ Program'
<1> SUFFICES ASSUME ShowInv, [Next]_vars PROVE TypeOK' /\ Program'
  OBVIOUS
<1> USE DEF ShowInv
<1>1. ASSUME call' \in Seq(Ops \X Workers) /\ Program', UNCHANGED <<fleet, reg, claims, wire, host, bounds>>,
             lease' \in [Workers -> Leases], refs' \in Nat
      PROVE  TypeOK' /\ Program'
  BY <1>1 DEF TypeOK, wire, host, bounds
<1>2. ASSUME UNCHANGED call, TypeOK' PROVE TypeOK' /\ Program'
  BY <1>2 DEF Program, StateFirst, ReplacedLast, OnceEach, OnePhase, Due
<1>3. ASSUME NEW o \in Orgs, NEW S \in SUBSET Workers, Request(o, S) PROVE TypeOK' /\ Program'
  <2>1. call' \in Seq(Ops \X Workers) /\ Program'
    BY <1>3, RequestCall DEF Request
  <2>2. refs + 1 \in Nat
    BY DEF TypeOK
  <2>3. lease' \in [Workers -> Leases]
    BY <1>3, <2>2 DEF Request, TypeOK, Leases, LeaseStates
  <2>4. QED
    BY <1>1, <1>3, <2>1, <2>2, <2>3 DEF Request
<1>4. ASSUME NEW w \in Workers,
             TickLost(w) \/ TickEnding(w) \/ TickTimeout(w) \/ TickStaff(w) \/ Release(w)
      PROVE  TypeOK' /\ Program'
  <2>1. call' \in Seq(Ops \X Workers) /\ Program'
    BY <1>4, Lists, TodoIs DEF TickLost, TickEnding, TickTimeout, TickStaff, Release
  <2>2. lease' = lease /\ refs' = refs /\ UNCHANGED <<fleet, reg, claims, wire, host, bounds>>
    BY <1>4 DEF TickLost, TickEnding, TickTimeout, TickStaff, Release, durable
  <2>3. QED
    BY <1>1, <2>1, <2>2 DEF TypeOK
<1>5. ASSUME NEW w \in Workers, StaffClean(w) PROVE TypeOK' /\ Program'
  <2>1. call' \in Seq(Ops \X Workers) /\ Program'
    BY <1>5, Lists, TodoIs DEF StaffClean
  <2>2. refs' \in Nat
    BY <1>5 DEF StaffClean, TypeOK
  <2>3. UNCHANGED <<lease, fleet, reg, claims, wire, host, bounds>>
    BY <1>5 DEF StaffClean, durable
  <2>4. lease' \in [Workers -> Leases]
    BY <2>3 DEF TypeOK
  <2>5. QED
    BY <1>1, <2>1, <2>2, <2>3, <2>4
<1>6. ASSUME NEW a \in answers, OnSanitizeResult(a) PROVE TypeOK' /\ Program'
  <2>1. a.worker \in Workers
    BY DEF TypeOK, Answers
  <2>2. call' \in Seq(Ops \X Workers) /\ Program'
    <3>1. call' = Todo(a.worker, WhatAnswerDoes(a))
      BY <1>6 DEF OnSanitizeResult
    <3>2. QED
      BY <2>1, <3>1, AnswerCall, Lists, TodoIs, NothingDueNext
  <2>3. QED
    BY <1>6, <2>2 DEF OnSanitizeResult, TypeOK, durable, host, bounds
<1>7. CASE Do
  <2>1. PICK h, u : h = Head(call)[1] /\ u = Head(call)[2] /\ call # <<>>
                    /\ (DurableStep(h, u) \/ ShowStep(h, u) \/ AdvanceStep(h, u) \/ SendStep(h, u))
    BY <1>7 DEF Do
  <2>2. UNCHANGED <<claims, up, answers, host, refs, bounds>>
    BY <1>7 DEF Do
  <2>3. h \in Ops /\ u \in Workers
    BY <2>1 DEF TypeOK
  <2>4. call' = Tail(call) => call' \in Seq(Ops \X Workers) /\ Program'
    BY <2>1, TailIs
  <2>5. CASE DurableStep(h, u)
    <3>1. call' \in Seq(Ops \X Workers) /\ Program'
      BY <2>4, <2>5 DEF DurableStep
    <3>2. lease' \in [Workers -> Leases]
      <4>1. NoLease \in Leases /\ {"ending", "sanitizing"} \subseteq LeaseStates
        BY DEF NoLease, Leases, LeaseStates
      <4>2. \/ \E st \in {"ending", "sanitizing"} : lease' = [lease EXCEPT ![u].state = st]
            \/ lease' = [lease EXCEPT ![u] = NoLease] \/ lease' = lease
        BY <2>5 DEF DurableStep
      <4>3. QED
        BY <2>3, <4>1, <4>2, LeaseChange DEF TypeOK
    <3>3. lease[u].id \in Nat /\ refs \in Nat
      BY <2>3 DEF TypeOK, Leases
    <3>4. fleet' \in [Workers -> FleetRows]
      <4>1. FreeRow \in FleetRows /\ [held |-> TRUE, ref |-> 0] \in FleetRows
        BY DEF FreeRow, FleetRows
      <4>2. \/ \E ref \in Nat : fleet' = [fleet EXCEPT ![u].ref = ref]
            \/ \E row \in FleetRows : fleet' = [fleet EXCEPT ![u] = row]
            \/ fleet' = fleet
        BY <2>5, <3>3, <4>1 DEF DurableStep
      <4>3. QED
        BY <2>3, <4>2, FleetChange DEF TypeOK
    <3>5. QED
      BY <2>2, <2>5, <3>1, <3>2, <3>4 DEF DurableStep, TypeOK, host, bounds
  <2>6. CASE ShowStep(h, u)
    <3>1. reg' \in [Workers -> Entries]
      <4>1. reg[u] \in Entries /\ lease[u] \in Leases
        BY <2>3 DEF TypeOK
      <4>2. [reg[u] EXCEPT !.state = lease[u].state, !.org = lease[u].org] \in Entries
        BY <4>1 DEF Entries, Leases
      <4>3. \/ reg' = [reg EXCEPT ![u] = reg[u]]
            \/ reg' = [reg EXCEPT ![u] = [reg[u] EXCEPT !.state = lease[u].state, !.org = lease[u].org]]
        BY <2>6 DEF ShowStep, Shown
      <4>4. QED
        BY <2>3, <4>1, <4>2, <4>3 DEF TypeOK
    <3>2. QED
      BY <2>2, <2>4, <2>6, <3>1 DEF ShowStep, TypeOK, host, bounds, durable
  <2>7. CASE AdvanceStep(h, u)
    <3>1. call' \in Seq(Ops \X Workers) /\ Program'
      BY <2>3, <2>7, Lists, TodoIs, NothingDueNext DEF AdvanceStep
    <3>2. QED
      BY <2>2, <2>7, <3>1 DEF AdvanceStep, TypeOK, host, bounds, durable
  <2>8. CASE SendStep(h, u)
    <3>1. call' \in Seq(Ops \X Workers) /\ Program'
      <4>1. \/ call' = Tail(call) \/ call' = Todo(u, <<"ended", "hold", "show">>)
            \/ call' = Todo(u, <<"clear">>)
        BY <2>8 DEF SendStep
      <4>2. QED
        BY <2>3, <2>4, <4>1, Lists, TodoIs
    <3>2. inbox' \subseteq Workers \X Nat
      <4>1. fleet[u].ref \in Nat
        BY <2>3 DEF TypeOK, FleetRows
      <4>2. QED
        BY <2>3, <2>8, <4>1 DEF SendStep, TypeOK
    <3>3. QED
      BY <2>2, <2>8, <3>1, <3>2 DEF SendStep, TypeOK, host, bounds, durable
  <2>9. QED
    BY <2>1, <2>5, <2>6, <2>7, <2>8
<1>8. ASSUME NEW w \in Workers,
             JobEnds(w) \/ GiveUp(w) \/ Heartbeat(w) \/ Register(w) \/ Disconnect(w) \/ HealthTimeout(w)
      PROVE  TypeOK' /\ UNCHANGED call
  <2>1. CASE JobEnds(w)
    BY <2>1 DEF JobEnds, TypeOK, durable, wire, bounds
  <2>2. CASE GiveUp(w)
    <3>1. reg' \in [Workers -> Entries]
      BY <2>2, EntryChange DEF GiveUp
    <3>2. QED
      BY SMTT(30), <2>2, <3>1 DEF GiveUp, Fault, LateFor, TypeOK, durable, wire, host
  <2>3. CASE Heartbeat(w)
    <3>1. (running[w] # {}) \in BOOLEAN
      OBVIOUS
    <3>2. PICK s \in {"idle", "busy"} : reg' = [reg EXCEPT ![w].status = s, ![w].jobs = (running[w] # {})]
      BY <2>3 DEF Heartbeat
    <3>3. reg' \in [Workers -> Entries]
      BY <3>1, <3>2, EntryChange
    <3>4. QED
      BY SMTT(30), <2>3, <3>3 DEF Heartbeat, LateFor, TypeOK, durable, wire, host
  <2>4. CASE Register(w)
    <3>1. reg' \in [Workers -> Entries] /\ up' \in [Workers -> BOOLEAN]
      BY <2>4 DEF Register, TypeOK, Entries, Leases
    <3>2. QED
      BY <2>4, <3>1 DEF Register, LateFor, TypeOK, durable, host
  <2>5. CASE Disconnect(w)
    <3>1. reg' \in [Workers -> Entries]
      <4>1. reg' = [reg EXCEPT ![w].status = reg[w].status] \/ reg' = [reg EXCEPT ![w].status = "offline"]
        BY <2>5 DEF Disconnect, TypeOK
      <4>2. reg' = [reg EXCEPT ![w].status = reg[w].status] => reg' = reg
        BY DEF TypeOK, Entries
      <4>3. QED
        BY <4>1, <4>2, EntryChange DEF TypeOK
    <3>2. QED
      BY <2>5, <3>1 DEF Disconnect, Cut, Fault, TypeOK, durable, host
  <2>6. CASE HealthTimeout(w)
    <3>1. reg' \in [Workers -> Entries]
      BY <2>6, EntryChange DEF HealthTimeout
    <3>2. QED
      BY <2>6, <3>1 DEF HealthTimeout, Fault, TypeOK, durable, wire, host
  <2>7. QED
    BY <1>8, <2>1, <2>2, <2>3, <2>4, <2>5, <2>6 
       DEF JobEnds, GiveUp, Heartbeat, Register, Disconnect, HealthTimeout
<1>9. ASSUME NEW w \in Workers, NEW o \in Orgs, Claim(w, o) \/ SendJob(w, o)
      PROVE  TypeOK' /\ UNCHANGED call
  <2>1. CASE Claim(w, o)
    <3>1. reg' \in [Workers -> Entries]
      BY <2>1, EntryChange DEF Claim
    <3>2. QED
      BY <2>1, <3>1 DEF Claim, TypeOK, durable, wire, host, bounds
  <2>2. CASE SendJob(w, o)
    <3>1. running' \in [Workers -> SUBSET Orgs] /\ residue' \in [Workers -> SUBSET Orgs]
      <4>1. \/ running' = running /\ residue' = residue
            \/ /\ running' = [running EXCEPT ![w] = running[w] \cup {o}]
               /\ residue' = [residue EXCEPT ![w] = residue[w] \cup {o}]
        BY <2>2 DEF SendJob, host
      <4>2. running[w] \cup {o} \in SUBSET Orgs /\ residue[w] \cup {o} \in SUBSET Orgs
        BY DEF TypeOK
      <4>3. ASSUME NEW f \in [Workers -> SUBSET Orgs], NEW x \in SUBSET Orgs
            PROVE  [f EXCEPT ![w] = x] \in [Workers -> SUBSET Orgs]
        OBVIOUS
      <4>4. running \in [Workers -> SUBSET Orgs] /\ residue \in [Workers -> SUBSET Orgs]
        BY DEF TypeOK
      <4>5. QED
        BY ONLY <4>1, <4>2, <4>3, <4>4
    <3>2. claims' \subseteq claims
      BY <2>2 DEF SendJob
    <3>3. QED
      BY <2>2, <3>1, <3>2 DEF SendJob, TypeOK, durable, wire, bounds
  <2>3. QED
    BY <1>9, <2>1, <2>2
<1>10. ASSUME NEW m \in inbox, Clean(m[1], m[2]) PROVE TypeOK' /\ UNCHANGED call
  <2>1. m[1] \in Workers /\ m[2] \in Nat
    BY DEF TypeOK
  <2>2. answers' \subseteq Answers /\ residue' \in [Workers -> SUBSET Orgs] /\ inbox' \subseteq inbox
    <3>1. \A ok \in BOOLEAN : [worker |-> m[1], ref |-> m[2], ok |-> ok] \in Answers
      BY <2>1 DEF Answers
    <3>2. residue' = residue \/ residue' = [residue EXCEPT ![m[1]] = {}]
      BY <1>10 DEF Clean
    <3>3. QED
      BY <1>10, <3>1, <3>2 DEF Clean, TypeOK
  <2>3. QED
    BY SMTT(30), <1>10, <2>2 DEF Clean, Fault, TypeOK, durable
<1>11. CASE Restart
  <2>1. reg' \in [Workers -> Entries]
    BY <1>11 DEF Restart, Entries, Absent, LeaseStates
  <2>2. call' \in Seq(Ops \X Workers) /\ Program'
    BY <1>11, NothingDueNext DEF Restart
  <2>3. QED
    BY <1>11, <2>1, <2>2 DEF Restart, Fault, TypeOK, durable, host
<1>12. CASE UNCHANGED vars
  BY <1>2, <1>12 DEF vars, TypeOK, durable, wire, host, bounds
<1>13. QED
  BY <1>2, <1>3, <1>4, <1>5, <1>6, <1>7, <1>8, <1>9, <1>10, <1>11, <1>12
     DEF Next, Manager, Worker, Cleaning

LEMMA ShownKept == ShowInv /\ [Next]_vars => \A v \in Workers : ShownOrDue(v)'
<1> SUFFICES ASSUME ShowInv, [Next]_vars, NEW v \in Workers PROVE ShownOrDue(v)'
  OBVIOUS
<1> USE DEF ShowInv
<1>1. ASSUME LockFree, UNCHANGED <<reg, lease>> PROVE ShownOrDue(v)'
  <2>1. ~Due("show", v)
    BY <1>1, NothingDue DEF LockFree
  <2>2. QED
    BY <1>1, <2>1 DEF ShownOrDue
<1>2. ASSUME UNCHANGED <<call, lease>>,
             reg'[v] = reg[v] \/ (reg[v].status # "absent" /\ reg'[v].status # "absent"
                                  /\ reg'[v].state = reg[v].state /\ reg'[v].org = reg[v].org)
      PROVE  ShownOrDue(v)'
  BY <1>2 DEF ShownOrDue, Due
<1>3. ASSUME NEW o \in Orgs, NEW S \in SUBSET Workers, Request(o, S) PROVE ShownOrDue(v)'
  <2>1. Due("show", v)' <=> v \in S
    BY <1>3, RequestCall DEF Request
  <2>2. ~Due("show", v)
    BY <1>3, NothingDue DEF LockFree, Request
  <2>3. v \notin S => lease'[v] = lease[v]
    BY <1>3 DEF Request
  <2>4. QED
    BY <1>3, <2>1, <2>2, <2>3 DEF ShownOrDue, Request
<1>4. ASSUME NEW w \in Workers, \/ TickLost(w) \/ TickEnding(w) \/ TickTimeout(w) \/ TickStaff(w)
                                \/ Release(w) \/ StaffClean(w)
      PROVE  ShownOrDue(v)'
  BY <1>1, <1>4 DEF TickLost, TickEnding, TickTimeout, TickStaff, Release, StaffClean, durable
<1>5. ASSUME NEW a \in answers, OnSanitizeResult(a) PROVE ShownOrDue(v)'
  BY <1>1, <1>5 DEF OnSanitizeResult, durable
<1>6. CASE Do
  <2>1. PICK h, u : h = Head(call)[1] /\ u = Head(call)[2] /\ call # <<>>
                    /\ (DurableStep(h, u) \/ ShowStep(h, u) \/ AdvanceStep(h, u) \/ SendStep(h, u))
    BY <1>6 DEF Do
  <2>2. h \in Ops /\ u \in Workers
    BY <2>1 DEF TypeOK
  <2>3. CASE DurableStep(h, u)
    <3>1. /\ call' = Tail(call) /\ reg' = reg
          /\ h # "show" /\ (h \notin {"ending", "sanitizing", "ended"} => lease' = lease)
          /\ v # u => lease'[v] = lease[v]
      BY <2>3 DEF DurableStep, TypeOK
    <3>2. Due("show", v) => Due("show", v)'
      BY <2>1, <3>1, TailIs
    <3>3. h \in {"ending", "sanitizing", "ended"} => Due("show", u)'
      BY <2>1, <3>1, TailIs
    <3>4. QED
      BY <3>1, <3>2, <3>3 DEF ShownOrDue
  <2>4. CASE ShowStep(h, u)
    <3>1. call' = Tail(call) /\ lease' = lease /\ reg' = Shown(u, lease[u]) /\ h = "show"
      BY <2>4 DEF ShowStep, durable
    <3>2. v # u => (Due("show", v) => Due("show", v)') /\ reg'[v] = reg[v]
      <4>1. Due("show", v) /\ v # u => Due("show", v)'
        BY <2>1, <3>1, TailIs
      <4>2. QED
        BY <3>1, <4>1 DEF Shown, TypeOK
    <3>3. /\ reg[u].status = "absent" => reg'[u] = reg[u]
          /\ reg[u].status # "absent" => /\ reg'[u].status = reg[u].status
                                         /\ reg'[u].state = lease[u].state /\ reg'[u].org = lease[u].org
      BY <2>2, <3>1 DEF Shown, TypeOK, Entries
    <3>4. QED
      BY <3>1, <3>2, <3>3 DEF ShownOrDue
  <2>5. CASE AdvanceStep(h, u) \/ SendStep(h, u)
    <3>1. h \in {"advance", "send", "staff_send"} /\ UNCHANGED <<lease, reg>>
      BY <2>5 DEF AdvanceStep, SendStep, durable
    <3>2. ~Due("show", v)
      BY <2>1, <3>1, Alone
    <3>3. QED
      BY <3>1, <3>2 DEF ShownOrDue
  <2>6. QED
    BY <2>1, <2>3, <2>4, <2>5
<1>7. ASSUME NEW w \in Workers, JobEnds(w) PROVE ShownOrDue(v)'
  BY <1>2, <1>7 DEF JobEnds, durable
<1>8. ASSUME NEW w \in Workers, GiveUp(w) PROVE ShownOrDue(v)'
  <2>1. reg[w].status # "absent" /\ UNCHANGED <<call, lease>>
    BY <1>8 DEF GiveUp, durable
  <2>2. /\ v # w => reg'[v] = reg[v]
        /\ reg'[w].status = "idle" /\ reg'[w].state = reg[w].state /\ reg'[w].org = reg[w].org
    BY <1>8, EntryChange DEF GiveUp
  <2>3. QED
    BY <1>2, <2>1, <2>2
<1>9. ASSUME NEW w \in Workers, Heartbeat(w) PROVE ShownOrDue(v)'
  <2>1. reg[w].status # "absent" /\ UNCHANGED <<call, lease>>
    BY <1>9 DEF Heartbeat, durable
  <2>2. PICK s \in {"idle", "busy"}, b \in BOOLEAN : reg' = [reg EXCEPT ![w].status = s, ![w].jobs = b]
    BY <1>9 DEF Heartbeat
  <2>3. /\ v # w => reg'[v] = reg[v]
        /\ reg'[w].status = s /\ reg'[w].state = reg[w].state /\ reg'[w].org = reg[w].org
    BY <2>2, EntryChange
  <2>4. QED
    BY <1>2, <2>1, <2>3
<1>10. ASSUME NEW w \in Workers, Register(w) PROVE ShownOrDue(v)'
  <2>1. /\ UNCHANGED <<call, lease>> /\ (v # w => reg'[v] = reg[v])
        /\ reg'[w].status = "idle" /\ reg'[w].state = lease[w].state /\ reg'[w].org = lease[w].org
    BY <1>10 DEF Register, durable, TypeOK
  <2>2. v # w => ShownOrDue(v)'
    BY <1>2, <2>1
  <2>3. QED
    BY <2>1, <2>2 DEF ShownOrDue
<1>11. ASSUME NEW w \in Workers, Disconnect(w) PROVE ShownOrDue(v)'
  <2>1. UNCHANGED <<call, lease>>
    BY <1>11 DEF Disconnect, durable
  <2>2. CASE reg[w].status = "absent"
    <3>1. reg' = reg
      BY <1>11, <2>2 DEF Disconnect, TypeOK, Entries
    <3>2. QED
      BY <1>2, <2>1, <3>1
  <2>3. CASE reg[w].status # "absent"
    <3>1. reg' = [reg EXCEPT ![w].status = "offline"]
      BY <1>11, <2>3 DEF Disconnect, TypeOK
    <3>2. /\ v # w => reg'[v] = reg[v]
          /\ reg'[w].status = "offline" /\ reg'[w].state = reg[w].state /\ reg'[w].org = reg[w].org
      BY <3>1, EntryChange
    <3>3. QED
      BY <1>2, <2>1, <2>3, <3>2
  <2>4. QED
    BY <2>2, <2>3
<1>12. ASSUME NEW w \in Workers, HealthTimeout(w) PROVE ShownOrDue(v)'
  <2>1. reg[w].status # "absent" /\ UNCHANGED <<call, lease>>
    BY <1>12 DEF HealthTimeout, durable
  <2>2. /\ v # w => reg'[v] = reg[v]
        /\ reg'[w].status = "offline" /\ reg'[w].state = reg[w].state /\ reg'[w].org = reg[w].org
    BY <1>12, EntryChange DEF HealthTimeout
  <2>3. QED
    BY <1>2, <2>1, <2>2
<1>13. ASSUME NEW w \in Workers, NEW o \in Orgs, Claim(w, o) PROVE ShownOrDue(v)'
  <2>1. reg[w].status # "absent" /\ UNCHANGED <<call, lease>>
    BY <1>13 DEF Claim, durable
  <2>2. /\ v # w => reg'[v] = reg[v]
        /\ reg'[w].status = "busy" /\ reg'[w].state = reg[w].state /\ reg'[w].org = reg[w].org
    BY <1>13, EntryChange DEF Claim
  <2>3. QED
    BY <1>2, <2>1, <2>2
<1>14. ASSUME NEW w \in Workers, NEW o \in Orgs, SendJob(w, o) PROVE ShownOrDue(v)'
  BY <1>2, <1>14 DEF SendJob, durable
<1>15. ASSUME NEW m \in inbox, Clean(m[1], m[2]) PROVE ShownOrDue(v)'
  BY <1>2, <1>15 DEF Clean, durable
<1>16. CASE Restart
  BY <1>16 DEF Restart, ShownOrDue, Absent
<1>17. CASE UNCHANGED vars
  BY <1>2, <1>17 DEF vars, durable
<1>18. QED
  BY <1>3, <1>4, <1>5, <1>6, <1>7, <1>8, <1>9, <1>10, <1>11, <1>12, <1>13, <1>14, <1>15, <1>16,
     <1>17 DEF Next, Manager, Worker, Cleaning

LEMMA ShowInit == Init => ShowInv
<1> SUFFICES ASSUME Init PROVE ShowInv
  OBVIOUS
<1>1. Program
  BY NothingDue DEF Init
<1>2. TypeOK
  BY DEF Init, TypeOK, NoLease, Leases, LeaseStates, FreeRow, FleetRows, Absent, Entries
<1>3. QED
  BY <1>1, <1>2 DEF Init, ShowInv, ShownOrDue, Absent

LEMMA ShowAlways == Spec => []ShowInv
<1>1. ShowInv /\ [Next]_vars => ShowInv'
  BY TypeKept, ShownKept DEF ShowInv
<1>2. QED
  BY ShowInit, <1>1, PTL DEF Spec

(* "Every state change is written to the database first, then applied to   *)
(* the live registry": whatever is lost, late or dies, a registered worker *)
(* shows the database's lease whenever no call is in progress. Each write  *)
(* of a lease's state is followed in its call by the showing of it.        *)
THEOREM RegistryIsTrue == Spec => []RegistryShowsLease
<1>1. ShowInv => RegistryShowsLease
  BY NothingDue DEF ShowInv, ShownOrDue, RegistryShowsLease, LockFree
<1>2. QED
  BY <1>1, ShowAlways, PTL

-----------------------------------------------------------------------------
(* A worker has one customer at a time.                                    *)

(* A step that does not concern v.                                         *)
LEMMA KeptElsewhere ==
    ASSUME TypeOK, NEW v \in Workers, Kept(v),
           lease'[v] = lease[v], fleet'[v] = fleet[v], reg'[v] = reg[v],
           running'[v] = running[v], residue'[v] = residue[v],
           \A o \in Orgs : <<v, o>> \in claims' <=> <<v, o>> \in claims,
           \A ref : <<v, ref>> \in inbox' => <<v, ref>> \in inbox,
           \A a \in answers' : a.worker = v => a \in answers,
           refs' \in Nat, refs' >= refs, \A op : Due(op, v)' <=> Due(op, v)
    PROVE  Kept(v)'
<1>1. refs \in Nat /\ fleet[v].ref \in Nat
  BY DEF TypeOK, FleetRows
<1>2. (Claimed(v)' <=> Claimed(v)) /\ (Open(v)' <=> Open(v))
  BY DEF Claimed, Open
<1>3. (Dirty(v)' <=> Dirty(v)) /\ (Quiet(v)' <=> Quiet(v))
  BY <1>2 DEF Dirty, Quiet
<1>4. \A ref : OnWire(v, ref)' => OnWire(v, ref)
  BY DEF OnWire
<1>5. ClaimsHeld(v)' /\ DirtIsGuarded(v)' /\ OneCustomer(v)'
  BY <1>2, <1>3 DEF Kept, ClaimsHeld, DirtIsGuarded, OneCustomer
<1>6. StepsFit(v)'
  BY <1>1, <1>2, <1>3, <1>4 DEF Kept, StepsFit
<1>7. CleanedInPeace(v)'
  BY <1>2, <1>3 DEF Kept, CleanedInPeace
<1>8. AnswersTrue(v)'
  <2>1. ASSUME NEW ref \in Nat, [worker |-> v, ref |-> ref, ok |-> TRUE] \in answers'
        PROVE  [worker |-> v, ref |-> ref, ok |-> TRUE] \in answers
    BY <2>1
  <2>2. QED
    BY <1>1, <1>2, <1>3, <1>4, <2>1 DEF Kept, AnswersTrue
<1>9. QED
  BY <1>5, <1>6, <1>7, <1>8 DEF Kept

(* A manager call begins with writes that fit what it found.               *)
LEMMA KeptBegin ==
    ASSUME TypeOK, LockFree, NEW w \in Workers, Kept(w),
           UNCHANGED <<lease, fleet, reg, claims, running, residue, inbox>>, answers' \subseteq answers,
           refs' \in Nat, refs' >= refs, StepsFit(w)',
           (\E op \in CleaningUp : Due(op, w)') => Quiet(w)
    PROVE  Kept(w)'
<1>1. refs \in Nat /\ fleet[w].ref \in Nat /\ \A op : ~Due(op, w)
  BY NothingDue DEF TypeOK, LockFree, FleetRows
<1>2. (Claimed(w)' <=> Claimed(w)) /\ (Open(w)' <=> Open(w))
  BY DEF Claimed, Open
<1>3. (Dirty(w)' <=> Dirty(w)) /\ (Quiet(w)' <=> Quiet(w))
  BY <1>2 DEF Dirty, Quiet
<1>4. \A ref : OnWire(w, ref)' => OnWire(w, ref)
  BY DEF OnWire
<1>5. ClaimsHeld(w)' /\ DirtIsGuarded(w)' /\ OneCustomer(w)'
  BY <1>1, <1>2, <1>3 DEF Kept, ClaimsHeld, DirtIsGuarded, OneCustomer
<1>6. CleanedInPeace(w)'
  BY <1>2, <1>3 DEF Kept, CleanedInPeace
<1>7. AnswersTrue(w)'
  BY <1>1, <1>2, <1>3, <1>4 DEF Kept, AnswersTrue
<1>8. QED
  BY <1>5, <1>6, <1>7 DEF Kept

(* The world around the manager moves, and brings nothing new onto v.      *)
LEMMA KeptAround ==
    ASSUME TypeOK, NEW v \in Workers, Kept(v), UNCHANGED <<lease, fleet, refs, call>>,
           \/ reg'[v].state = reg[v].state /\ reg'[v].org = reg[v].org
           \/ reg'[v].state = lease[v].state /\ reg'[v].org = lease[v].org
           \/ reg'[v].state = "none",
           claims' \subseteq claims, running'[v] \subseteq running[v], residue'[v] \subseteq residue[v],
           Claimed(v)' => reg'[v].status \in {"busy", "offline"},
           inbox' \subseteq inbox, answers' \subseteq answers
    PROVE  Kept(v)'
<1>1. Open(v)' <=> Open(v)
  BY DEF Open
<1>2. (Claimed(v)' => Claimed(v)) /\ (Dirty(v)' => Dirty(v))
  BY DEF Claimed, Dirty
<1>3. \A op : Due(op, v)' <=> Due(op, v)
  BY DEF Due
<1>4. \A ref : OnWire(v, ref)' => OnWire(v, ref)
  BY DEF OnWire
<1>5. Quiet(v) => Quiet(v)'
  BY <1>2 DEF Quiet
<1>6. ClaimsHeld(v)'
  <2>1. \A o \in Orgs : <<v, o>> \in claims' => Claimed(v)'
    BY DEF Claimed
  <2>2. QED
    BY <1>1, <2>1 DEF Kept, ClaimsHeld
<1>7. DirtIsGuarded(v)'
  BY <1>1, <1>2, <1>3 DEF Kept, DirtIsGuarded, Open
<1>8. StepsFit(v)'
  BY <1>1, <1>2, <1>3, <1>4, <1>5 DEF Kept, StepsFit
<1>9. CleanedInPeace(v)'
  BY <1>1, <1>3, <1>5 DEF Kept, CleanedInPeace
<1>10. AnswersTrue(v)'
  BY <1>1, <1>2, <1>4 DEF Kept, AnswersTrue
<1>11. OneCustomer(v)'
  BY <1>1 DEF Kept, OneCustomer
<1>12. QED
  BY <1>6, <1>7, <1>8, <1>9, <1>10, <1>11 DEF Kept

(* The calls of the manager, but request.                                  *)
LEMMA KeptByCalls ==
    ASSUME LeaseInv, NEW v \in Workers, NEW w \in Workers,
           \/ TickLost(w) \/ TickEnding(w) \/ TickTimeout(w) \/ TickStaff(w)
           \/ Release(w) \/ StaffClean(w)
    PROVE  Kept(v)'
<1> USE DEF LeaseInv, ShowInv
<1>1. /\ LockFree /\ UNCHANGED <<lease, fleet, reg, claims, running, residue, inbox, answers>>
      /\ refs \in Nat /\ (refs' = refs \/ refs' = refs + 1)
  BY DEF TickLost, TickEnding, TickTimeout, TickStaff, Release, StaffClean, durable, wire, host, TypeOK
<1>2. \A op, u : ~Due(op, u)
  BY <1>1, NothingDue DEF LockFree
<1>3. \A u \in Workers : reg[u].status # "absent" => reg[u].state = lease[u].state
  BY <1>2 DEF ShownOrDue
<1>4. ASSUME \A op : ~Due(op, v)' PROVE Kept(v)'
  BY <1>1, <1>2, <1>4, KeptElsewhere
<1>5. ASSUME StepsFit(w)', (\E op \in CleaningUp : Due(op, w)') => Quiet(w)
      PROVE  Kept(w)'
  BY <1>1, <1>5, KeptBegin
<1>6. CASE TickLost(w) \/ TickTimeout(w)
  <2>1. \A op, u : Due(op, u)' <=> u = w /\ op \in {"ended", "hold", "show"}
    BY <1>6, CallsAre DEF TickLost, TickTimeout
  <2>2. StepsFit(w)' /\ \A op \in CleaningUp : ~Due(op, w)'
    BY <2>1 DEF StepsFit, CleaningUp
  <2>3. QED
    BY <1>4, <1>5, <2>1, <2>2
<1>7. CASE TickEnding(w)
  <2>1. \A op, u : Due(op, u)' <=> u = w /\ op = "advance"
    BY <1>7, CallsAre DEF TickEnding
  <2>2. lease[w].state = "ending" /\ reg[w].state = "ending"
    BY <1>3, <1>7 DEF TickEnding, MayAdvance
  <2>3. StepsFit(w)' /\ \A op \in CleaningUp : ~Due(op, w)'
    BY <1>1, <2>1, <2>2 DEF StepsFit, CleaningUp
  <2>4. QED
    BY <1>4, <1>5, <2>1, <2>3
<1>8. CASE TickStaff(w)
  <2>1. \A op, u : Due(op, u)' <=> u = w /\ op = "hold"
    BY <1>8, CallsAre DEF TickStaff
  <2>2. StepsFit(w)' /\ \A op \in CleaningUp : ~Due(op, w)'
    BY <2>1 DEF StepsFit, CleaningUp
  <2>3. QED
    BY <1>4, <1>5, <2>1, <2>2
<1>9. CASE Release(w)
  <2>1. \A op, u : Due(op, u)' <=> u = w /\ op \in {"ending", "show", "advance"}
    BY <1>9, CallsAre DEF Release
  <2>2. StepsFit(w)' /\ \A op \in CleaningUp : ~Due(op, w)'
    BY <1>1, <1>9, <2>1 DEF StepsFit, CleaningUp, Release
  <2>3. QED
    BY <1>4, <1>5, <2>1, <2>2
<1>10. CASE StaffClean(w)
  <2>1. \A op, u : Due(op, u)' <=> u = w /\ op \in {"begin", "staff_send"}
    BY <1>10, CallsAre DEF StaffClean
  <2>2. refs' = refs + 1 /\ ~Open(w) /\ reg[w].status = "idle" /\ lease[w].state = "none"
    BY <1>10 DEF StaffClean, Open
  <2>3. Quiet(w)
    BY <1>3, <2>2 DEF Quiet, Kept, ClaimsHeld, Claimed
  <2>4. \A ref \in Nat : OnWire(w, ref)' => ref < refs'
    <3>1. \A ref \in Nat : OnWire(w, ref)' => OnWire(w, ref)
      BY <1>1 DEF OnWire
    <3>2. \A ref \in Nat : OnWire(w, ref) => ref \in 1 .. refs
      BY DEF Kept, AnswersTrue
    <3>3. QED
      BY <1>1, <2>2, <3>1, <3>2
  <2>5. StepsFit(w)'
    <3>1. ~Open(w)'
      BY <1>1, <2>2 DEF Open
    <3>2. QED
      BY <1>1, <2>1, <2>2, <2>4, <3>1 DEF StepsFit
  <2>6. QED
    BY <1>4, <1>5, <2>1, <2>3, <2>5
<1>11. QED
  BY <1>6, <1>7, <1>8, <1>9, <1>10

(* on_sanitize_result.                                                     *)
LEMMA KeptByAnswer ==
    ASSUME LeaseInv, NEW v \in Workers, NEW a \in answers, OnSanitizeResult(a)
    PROVE  Kept(v)'
<1> USE DEF LeaseInv, ShowInv
<1>1. /\ LockFree /\ UNCHANGED <<lease, fleet, reg, claims, running, residue, inbox, refs>>
      /\ answers' \subseteq answers /\ refs \in Nat
      /\ call' = Todo(a.worker, WhatAnswerDoes(a))
  BY DEF OnSanitizeResult, durable, host, TypeOK
<1>2. \A op, u : ~Due(op, u)
  BY <1>1, NothingDue DEF LockFree
<1>3. PICK w \in Workers, ref \in Nat, ok \in BOOLEAN : a = [worker |-> w, ref |-> ref, ok |-> ok]
  BY DEF TypeOK, Answers
<1>4. ASSUME \A op : ~Due(op, v)' PROVE Kept(v)'
  BY <1>1, <1>2, <1>4, KeptElsewhere
<1>5. ASSUME StepsFit(w)', \A op \in CleaningUp : ~Due(op, w)' PROVE Kept(w)'
  BY <1>1, <1>5, KeptBegin
<1>6. CASE call' = Todo(w, <<"ended", "hold", "show">>)
  <2>1. \A op, u : Due(op, u)' <=> u = w /\ op \in {"ended", "hold", "show"}
    BY <1>6, CallsAre
  <2>2. StepsFit(w)' /\ \A op \in CleaningUp : ~Due(op, w)'
    BY <2>1 DEF StepsFit, CleaningUp
  <2>3. QED
    BY <1>4, <1>5, <2>1, <2>2
<1>7. CASE call' = Todo(w, <<"hold">>)
  <2>1. \A op, u : Due(op, u)' <=> u = w /\ op = "hold"
    BY <1>7, CallsAre
  <2>2. StepsFit(w)' /\ \A op \in CleaningUp : ~Due(op, w)'
    BY <2>1 DEF StepsFit, CleaningUp
  <2>3. QED
    BY <1>4, <1>5, <2>1, <2>2
<1>8. CASE /\ lease[w].state = "sanitizing" /\ lease[w].id = ref /\ ok
           /\ call' = Todo(w, <<"ended", "clear", "show">>)
  <2>1. \A op, u : Due(op, u)' <=> u = w /\ op \in {"ended", "clear", "show"}
    BY <1>8, CallsAre
  <2>2. Quiet(w) /\ ~Dirty(w)
    BY <1>3, <1>8 DEF Kept, CleanedInPeace, AnswersTrue
  <2>3. Quiet(w)' /\ ~Dirty(w)'
    BY <1>1, <2>2 DEF Quiet, Dirty, Claimed
  <2>4. StepsFit(w)' /\ \A op \in CleaningUp : ~Due(op, w)'
    BY <2>1, <2>3 DEF StepsFit, CleaningUp
  <2>5. QED
    BY <1>4, <1>5, <2>1, <2>4
<1>9. CASE fleet[w].ref = ref /\ ~Open(w) /\ ok /\ call' = Todo(w, <<"unhold">>)
  <2>1. \A op, u : Due(op, u)' <=> u = w /\ op = "unhold"
    BY <1>9, CallsAre
  <2>2. ref # 0
    <3>1. OnWire(w, ref)
      BY <1>3 DEF OnWire
    <3>2. QED
      BY <3>1 DEF Kept, AnswersTrue
  <2>3. Quiet(w) /\ ~Dirty(w)
    BY <1>3, <1>9, <2>2 DEF Kept, CleanedInPeace, AnswersTrue
  <2>4. Quiet(w)' /\ ~Dirty(w)'
    BY <1>1, <2>3 DEF Quiet, Dirty, Claimed
  <2>5. StepsFit(w)' /\ \A op \in CleaningUp : ~Due(op, w)'
    BY <2>1, <2>4 DEF StepsFit, CleaningUp
  <2>6. QED
    BY <1>4, <1>5, <2>1, <2>5
<1>10. CASE call' = <<>>
  BY <1>4, <1>10, NothingDueNext
<1>11. QED
  <2>1. a.worker = w /\ a.ref = ref /\ a.ok = ok
    BY <1>3
  <2>2. QED
    BY <1>1, <1>6, <1>7, <1>8, <1>9, <1>10, <2>1, AnswerCall

(* request.                                                                *)
LEMMA KeptByRequest ==
    ASSUME LeaseInv, NEW v \in Workers, NEW o \in Orgs, NEW S \in SUBSET Workers, Request(o, S)
    PROVE  Kept(v)'
<1> USE DEF LeaseInv, ShowInv
<1>1. /\ LockFree /\ UNCHANGED <<fleet, reg, claims, running, residue, inbox, answers>>
      /\ refs \in Nat /\ refs' = refs + 1
  BY DEF Request, wire, host, TypeOK
<1>2. \A op, u : ~Due(op, u)
  BY <1>1, NothingDue DEF LockFree
<1>3. \A op, u : Due(op, u)' <=> op = "show" /\ u \in S
  BY RequestCall DEF Request
<1>4. CASE v \notin S
  <2>1. lease'[v] = lease[v]
    BY <1>4 DEF Request
  <2>2. QED
    BY <1>1, <1>2, <1>3, <1>4, <2>1, KeptElsewhere
<1>5. CASE v \in S
  <2>1. lease'[v].state = "active" /\ lease'[v].org = o /\ lease'[v].id = refs + 1
    BY <1>5 DEF Request
  <2>2. /\ reg[v].status = "idle" /\ reg[v].state = "none" /\ ~fleet[v].held /\ fleet[v].ref = 0
        /\ ~Open(v)
    BY <1>5 DEF Request, Available
  <2>3. ~Claimed(v) /\ ~Dirty(v)
    BY <1>2, <2>2 DEF Kept, ClaimsHeld, Claimed, DirtIsGuarded
  <2>4. ~Claimed(v)' /\ ~Dirty(v)' /\ \A p \in Orgs : <<v, p>> \notin claims'
    BY <1>1, <2>3 DEF Claimed, Dirty
  <2>5. ClaimsHeld(v)'
    BY <1>1, <2>2, <2>4 DEF ClaimsHeld
  <2>6. DirtIsGuarded(v)'
    BY <1>1, <2>2, <2>4 DEF DirtIsGuarded
  <2>7. StepsFit(v)' /\ CleanedInPeace(v)'
    BY <1>1, <1>3, <2>1, <2>2 DEF StepsFit, CleanedInPeace, CleaningUp
  <2>8. AnswersTrue(v)'
    <3>1. \A ref \in Nat : OnWire(v, ref)' => ref \in 1 .. refs
      BY <1>1 DEF Kept, AnswersTrue, OnWire
    <3>2. ~OnWire(v, refs + 1)'
      BY <1>1, <3>1
    <3>3. QED
      BY <1>1, <2>1, <2>2, <2>4, <3>1, <3>2 DEF AnswersTrue
  <2>9. OneCustomer(v)'
    BY <2>4 DEF OneCustomer, Dirty
  <2>10. QED
    BY <2>5, <2>6, <2>7, <2>8, <2>9 DEF Kept
<1>6. QED
  BY <1>4, <1>5

(* Workers and the network, when no job is sent late.                      *)
LEMMA KeptByWorld ==
    ASSUME MaxLate = 0, MaxCrashes = 0, LeaseInv, NEW v \in Workers, NEW w \in Workers,
           \/ JobEnds(w) \/ GiveUp(w) \/ Heartbeat(w) \/ Register(w)
           \/ Disconnect(w) \/ HealthTimeout(w) \/ Restart
    PROVE  Kept(v)'
<1> USE DEF LeaseInv, ShowInv
<1>1. late \in Nat /\ crashes \in Nat
  BY DEF TypeOK
<1>2. ~(late < MaxLate) /\ ~(crashes < MaxCrashes)
  BY <1>1
<1>3. Claimed(v) => reg[v].status \in {"busy", "offline"}
  BY DEF Kept, ClaimsHeld, Claimed
<1>4. CASE JobEnds(w)
  <2>1. UNCHANGED <<lease, fleet, refs, call, reg, claims, inbox, answers, residue>>
        /\ running'[v] \subseteq running[v]
    BY <1>4 DEF JobEnds, durable, wire, TypeOK
  <2>2. Claimed(v)' => Claimed(v)
    BY <2>1 DEF Claimed
  <2>3. QED
    BY <1>3, <2>1, <2>2, KeptAround
<1>5. CASE GiveUp(w)
  <2>1. UNCHANGED <<lease, fleet, refs, call, claims, inbox, answers, running, residue>> /\ ~Claimed(w)
    BY <1>2, <1>5 DEF GiveUp, LateFor, durable, wire, host
  <2>2. /\ v # w => reg'[v] = reg[v]
        /\ reg'[w].state = reg[w].state /\ reg'[w].org = reg[w].org
    BY <1>5, EntryChange DEF GiveUp
  <2>3. Claimed(v)' => Claimed(v)
    BY <2>1 DEF Claimed
  <2>4. Claimed(v)' => reg'[v].status \in {"busy", "offline"}
    BY <1>3, <2>1, <2>2, <2>3
  <2>5. QED
    BY <2>1, <2>2, <2>4, KeptAround
<1>6. CASE Heartbeat(w)
  <2>1. UNCHANGED <<lease, fleet, refs, call, claims, inbox, answers, running, residue>>
    BY <1>6 DEF Heartbeat, durable, wire, host
  <2>2. PICK s \in {"idle", "busy"}, b \in BOOLEAN : reg' = [reg EXCEPT ![w].status = s, ![w].jobs = b]
                                                     /\ (s = "idle" => ~Claimed(w))
    BY <1>2, <1>6 DEF Heartbeat, LateFor
  <2>3. /\ v # w => reg'[v] = reg[v]
        /\ reg'[w].status = s /\ reg'[w].state = reg[w].state /\ reg'[w].org = reg[w].org
    BY <2>2, EntryChange
  <2>4. Claimed(v)' => Claimed(v)
    BY <2>1 DEF Claimed
  <2>5. Claimed(v)' => reg'[v].status \in {"busy", "offline"}
    BY <1>3, <2>2, <2>3, <2>4
  <2>6. QED
    BY <2>1, <2>3, <2>5, KeptAround
<1>7. CASE Register(w)
  <2>1. UNCHANGED <<lease, fleet, refs, call, claims, inbox, answers, running, residue>> /\ ~Claimed(w)
    BY <1>2, <1>7 DEF Register, LateFor, durable, host
  <2>2. /\ v # w => reg'[v] = reg[v]
        /\ reg'[w].state = lease[w].state /\ reg'[w].org = lease[w].org
    BY <1>7 DEF Register, TypeOK
  <2>3. Claimed(v)' => Claimed(v)
    BY <2>1 DEF Claimed
  <2>4. Claimed(v)' => reg'[v].status \in {"busy", "offline"}
    BY <1>3, <2>1, <2>2, <2>3
  <2>5. QED
    BY <2>1, <2>2, <2>4, KeptAround
<1>8. CASE Disconnect(w)
  <2>1. UNCHANGED <<lease, fleet, refs, call, claims, running, residue>>
        /\ inbox' \subseteq inbox /\ answers' \subseteq answers
    BY <1>8 DEF Disconnect, Cut, durable, host
  <2>2. reg' = [reg EXCEPT ![w].status = reg[w].status] \/ reg' = [reg EXCEPT ![w].status = "offline"]
    BY <1>8 DEF Disconnect, TypeOK
  <2>3. reg' = [reg EXCEPT ![w].status = reg[w].status] => reg' = reg
    BY DEF TypeOK, Entries
  <2>4. \/ reg'[v] = reg[v]
        \/ /\ reg'[v].status = "offline" /\ reg'[v].state = reg[v].state /\ reg'[v].org = reg[v].org
    BY <2>2, <2>3, EntryChange
  <2>5. Claimed(v)' => Claimed(v)
    BY <2>1 DEF Claimed
  <2>6. Claimed(v)' => reg'[v].status \in {"busy", "offline"}
    BY <1>3, <2>4, <2>5
  <2>7. QED
    BY <2>1, <2>4, <2>6, KeptAround
<1>9. CASE HealthTimeout(w)
  <2>1. UNCHANGED <<lease, fleet, refs, call, claims, inbox, answers, running, residue>>
    BY <1>9 DEF HealthTimeout, durable, wire, host
  <2>2. /\ v # w => reg'[v] = reg[v]
        /\ reg'[w].status = "offline" /\ reg'[w].state = reg[w].state /\ reg'[w].org = reg[w].org
    BY <1>9, EntryChange DEF HealthTimeout
  <2>3. Claimed(v)' => Claimed(v)
    BY <2>1 DEF Claimed
  <2>4. Claimed(v)' => reg'[v].status \in {"busy", "offline"}
    BY <1>3, <2>2, <2>3
  <2>5. QED
    BY <2>1, <2>2, <2>4, KeptAround
<1>10. CASE Restart
  <2>1. UNCHANGED <<lease, fleet, refs, call, running, residue>>
        /\ claims' = {} /\ inbox' = {} /\ answers' = {}
    BY <1>2, <1>10 DEF Restart, durable, host, LockFree
  <2>2. reg'[v].state = "none" /\ ~Claimed(v)'
    BY <1>10, <2>1 DEF Restart, Absent, Claimed
  <2>3. QED
    BY <2>1, <2>2, KeptAround
<1>11. QED
  BY <1>4, <1>5, <1>6, <1>7, <1>8, <1>9, <1>10

(* A job is put onto a worker: claimed, and sent.                          *)
LEMMA KeptByJob ==
    ASSUME LeaseInv, NEW v \in Workers, NEW w \in Workers, NEW o \in Orgs,
           Claim(w, o) \/ SendJob(w, o)
    PROVE  Kept(v)'
<1> USE DEF LeaseInv, ShowInv
<1>1. UNCHANGED <<lease, fleet, refs, call, inbox, answers>> /\ refs \in Nat
  BY DEF Claim, SendJob, durable, wire, TypeOK
<1>2. \A op : Due(op, v)' <=> Due(op, v)
  BY <1>1 DEF Due
<1>3. Kept(v) /\ Kept(w)
  OBVIOUS
<1>4. (Open(v)' <=> Open(v)) /\ \A ref : OnWire(v, ref)' <=> OnWire(v, ref)
  BY <1>1 DEF Open, OnWire
<1>5. CASE v # w
  <2>1. \A p \in Orgs : <<v, p>> \in claims' <=> <<v, p>> \in claims
    BY <1>5 DEF Claim, SendJob
  <2>2. reg'[v] = reg[v]
    <3>1. Claim(w, o) => reg'[v] = reg[v]
      BY <1>5, EntryChange DEF Claim
    <3>2. QED
      BY <3>1 DEF SendJob
  <2>3. running'[v] = running[v] /\ residue'[v] = residue[v]
    BY <1>5 DEF Claim, SendJob, host, TypeOK
  <2>4. QED
    BY <1>1, <1>2, <1>3, <2>1, <2>2, <2>3, KeptElsewhere
<1>6. CASE v = w /\ Claim(w, o)
  <2>1. reg'[w].status = "busy" /\ reg'[w].state = reg[w].state /\ reg'[w].org = reg[w].org
    BY <1>6, EntryChange DEF Claim
  <2>2. /\ reg[w].status = "idle" /\ reg[w].state = "active" /\ reg[w].org = o
        /\ claims' = claims \cup {<<w, o>>} /\ UNCHANGED <<running, residue>>
    BY <1>6 DEF Claim, host
  <2>3. ~Quiet(w)
    BY <2>2 DEF Quiet
  <2>4. \A p \in Orgs : <<w, p>> \notin claims
    BY <1>3, <2>2 DEF Kept, ClaimsHeld
  <2>5. ClaimsHeld(w)'
    BY <1>3, <1>4, <1>6, <1>1, <2>1, <2>2, <2>4 DEF Kept, ClaimsHeld
  <2>6. DirtIsGuarded(w)'
    BY <1>3, <1>2, <1>4, <1>6, <1>1, <2>2 DEF Kept, DirtIsGuarded
  <2>7. StepsFit(w)' /\ CleanedInPeace(w)'
    <3>1. ~Due("unhold", w) /\ \A op \in CleaningUp : ~Due(op, w)
      BY <1>3, <2>3 DEF Kept, StepsFit, CleanedInPeace
    <3>2. lease[w].state # "sanitizing" /\ fleet[w].ref = 0
      BY <1>3, <2>3 DEF Kept, CleanedInPeace
    <3>3. CleanedInPeace(w)'
      BY <1>1, <1>2, <1>6, <3>1, <3>2 DEF CleanedInPeace
    <3>4. StepsFit(w)'
      BY <1>1, <1>2, <1>3, <1>6, <2>1, <2>3, <3>1 DEF Kept, StepsFit, CleaningUp
    <3>5. QED
      BY <3>3, <3>4
  <2>8. AnswersTrue(w)'
    <3>1. lease[w].state # "sanitizing" /\ fleet[w].ref = 0
      BY <1>3, <2>3 DEF Kept, CleanedInPeace
    <3>2. ~OnWire(w, 0)
      BY <1>3 DEF Kept, AnswersTrue
    <3>3. \A ref \in Nat : [worker |-> w, ref |-> ref, ok |-> TRUE] \in answers => OnWire(w, ref)
      BY DEF OnWire
    <3>4. QED
      BY <1>1, <1>3, <1>4, <1>6, <3>1, <3>2, <3>3 DEF Kept, AnswersTrue
  <2>9. OneCustomer(w)'
    BY <1>1, <1>3, <1>4, <1>6, <2>2 DEF Kept, OneCustomer
  <2>10. QED
    BY <1>6, <2>5, <2>6, <2>7, <2>8, <2>9 DEF Kept
<1>7. CASE v = w /\ SendJob(w, o)
  <2>1. <<w, o>> \in claims /\ claims' \subseteq claims /\ reg' = reg
    BY <1>7 DEF SendJob
  <2>2. Claimed(w) /\ Dirty(w) /\ ~Quiet(w)
    BY <2>1 DEF Claimed, Dirty, Quiet
  <2>3. /\ running'[w] \subseteq running[w] \cup {o}
        /\ residue'[w] \subseteq residue[w] \cup {o}
    BY <1>7 DEF SendJob, host, TypeOK
  <2>4. ClaimsHeld(w)' /\ DirtIsGuarded(w)'
    BY <1>1, <1>2, <1>3, <1>4, <1>7, <2>1, <2>2 DEF Kept, ClaimsHeld, DirtIsGuarded
  <2>5. ~Due("unhold", w) /\ \A op \in CleaningUp : ~Due(op, w)
    BY <1>3, <2>2 DEF Kept, StepsFit, CleanedInPeace
  <2>6. lease[w].state # "sanitizing" /\ fleet[w].ref = 0
    BY <1>3, <2>2 DEF Kept, CleanedInPeace
  <2>7. CleanedInPeace(w)'
    BY <1>1, <1>2, <1>7, <2>5, <2>6 DEF CleanedInPeace
  <2>8. StepsFit(w)'
    BY <1>1, <1>2, <1>3, <1>7, <2>1, <2>2, <2>5 DEF Kept, StepsFit, CleaningUp
  <2>9. AnswersTrue(w)'
    <3>1. ~OnWire(w, 0)
      BY <1>3 DEF Kept, AnswersTrue
    <3>2. \A ref \in Nat : [worker |-> w, ref |-> ref, ok |-> TRUE] \in answers => OnWire(w, ref)
      BY DEF OnWire
    <3>3. QED
      BY <1>1, <1>3, <1>4, <1>7, <2>6, <3>1, <3>2 DEF Kept, AnswersTrue
  <2>10. OneCustomer(w)'
    BY <1>1, <1>3, <1>4, <1>7, <2>1, <2>3 DEF Kept, OneCustomer, ClaimsHeld
  <2>11. QED
    BY <1>7, <2>4, <2>7, <2>8, <2>9, <2>10 DEF Kept
<1>8. QED
  BY <1>5, <1>6, <1>7

(* The worker cleans itself, or refuses.                                   *)
LEMMA KeptByClean ==
    ASSUME LeaseInv, NEW v \in Workers, NEW w \in Workers, NEW r \in Nat, Clean(w, r)
    PROVE  Kept(v)'
<1> USE DEF LeaseInv, ShowInv
<1>1. UNCHANGED <<lease, fleet, refs, call, reg, claims, running>> /\ refs \in Nat
  BY DEF Clean, durable, TypeOK
<1>2. \A op : Due(op, v)' <=> Due(op, v)
  BY <1>1 DEF Due
<1>3. Kept(v) /\ <<w, r>> \in inbox /\ inbox' \subseteq inbox
  BY DEF Clean
<1>4. PICK ok \in BOOLEAN : /\ answers' = answers \cup {[worker |-> w, ref |-> r, ok |-> ok]}
                            /\ residue' = IF ok THEN [residue EXCEPT ![w] = {}] ELSE residue
                            /\ ok => running[w] = {}
  BY DEF Clean
<1>5. CASE v # w
  <2>1. residue'[v] = residue[v] /\ \A a \in answers' : a.worker = v => a \in answers
    BY <1>4, <1>5 DEF TypeOK
  <2>2. QED
    BY <1>1, <1>2, <1>3, <1>5, <2>1, KeptElsewhere
<1>6. CASE v = w
  <2>1. (Open(w)' <=> Open(w)) /\ (Quiet(w)' <=> Quiet(w)) /\ (Claimed(w)' <=> Claimed(w))
    BY <1>1 DEF Open, Quiet, Claimed
  <2>2. residue'[w] \subseteq residue[w] /\ (ok => residue'[w] = {} /\ running'[w] = {})
    BY <1>1, <1>4 DEF TypeOK
  <2>3. Dirty(w)' => Dirty(w)
    BY <1>1, <2>1, <2>2 DEF Dirty
  <2>4. OnWire(w, r) /\ \A ref : OnWire(w, ref)' => OnWire(w, ref)
    <3>1. OnWire(w, r)
      BY <1>3 DEF OnWire
    <3>2. ASSUME NEW ref, OnWire(w, ref)', ref # r PROVE OnWire(w, ref)
      BY <1>3, <1>4, <3>2 DEF OnWire
    <3>3. QED
      BY <3>1, <3>2
  <2>5. ClaimsHeld(w)' /\ DirtIsGuarded(w)' /\ OneCustomer(w)' /\ CleanedInPeace(w)'
    BY <1>1, <1>2, <1>3, <1>6, <2>1, <2>2, <2>3
       DEF Kept, ClaimsHeld, DirtIsGuarded, OneCustomer, CleanedInPeace
  <2>6. StepsFit(w)'
    BY <1>1, <1>2, <1>3, <1>6, <2>1, <2>3, <2>4 DEF Kept, StepsFit
  <2>7. AnswersTrue(w)'
    <3>1. ASSUME NEW ref \in Nat, [worker |-> w, ref |-> ref, ok |-> TRUE] \in answers',
                 \/ lease'[w].state = "sanitizing" /\ lease'[w].id = ref
                 \/ ~Open(w)' /\ fleet'[w].ref = ref
          PROVE  ~Dirty(w)'
      <4>1. CASE [worker |-> w, ref |-> ref, ok |-> TRUE] \in answers
        BY <1>1, <1>3, <1>6, <2>1, <2>3, <3>1, <4>1 DEF Kept, AnswersTrue
      <4>2. CASE [worker |-> w, ref |-> ref, ok |-> TRUE] \notin answers
        <5>1. ref = r /\ ok
          <6>1. [worker |-> w, ref |-> ref, ok |-> TRUE] = [worker |-> w, ref |-> r, ok |-> ok]
            BY <1>4, <3>1, <4>2
          <6>2. QED
            BY <6>1
        <5>2. r # 0
          BY <1>3, <1>6, <2>4 DEF Kept, AnswersTrue
        <5>3. Quiet(w)
          BY <1>1, <1>3, <1>6, <3>1, <5>1, <5>2 DEF Kept, CleanedInPeace
        <5>4. QED
          BY <2>1, <2>2, <5>1, <5>3 DEF Dirty, Quiet
      <4>3. QED
        BY <4>1, <4>2
    <3>2. QED
      BY <1>1, <1>3, <1>6, <2>1, <2>4, <3>1 DEF Kept, AnswersTrue
  <2>8. QED
    BY <1>6, <2>5, <2>6, <2>7 DEF Kept
<1>7. QED
  BY <1>5, <1>6

(* The next write of the call in progress, for its worker u.               *)
LEMMA KeptByWrite ==
    ASSUME LeaseInv, Do, NEW h, NEW u, h = Head(call)[1], u = Head(call)[2],
           call' = Tail(call), UNCHANGED inbox, DurableStep(h, u) \/ ShowStep(h, u)
    PROVE  Kept(u)'
<1> USE DEF LeaseInv, ShowInv
<1>1. call # <<>> /\ UNCHANGED <<claims, inbox, answers, running, residue, refs>> /\ refs \in Nat
  BY DEF Do, host, TypeOK
<1>2. /\ h \in Ops /\ u \in Workers /\ Due(h, u)
      /\ \A op : Due(op, u)' => Due(op, u) /\ op \notin {"ending", "sanitizing", "ended"}
      /\ \A op : Due(op, u) /\ op # h => Due(op, u)'
      /\ \A op : Due(op, u)' /\ op # "show" => op # h
      /\ h \in {"ending", "sanitizing", "ended"} => Due("show", u)'
  BY <1>1, TailIs
<1>3. \A op \in Ops : Due(op, u) /\ op # "show" /\ h # "show" => SamePhase(op, h)
  BY <1>2, PhasesApart
<1>4. Kept(u) /\ (Claimed(u)' <=> Claimed(u)) /\ (\A ref : OnWire(u, ref)' <=> OnWire(u, ref))
      /\ lease[u] \in Leases /\ fleet[u] \in FleetRows /\ fleet[u].ref \in Nat /\ lease[u].id \in Nat
  BY <1>1, <1>2 DEF Claimed, OnWire, TypeOK, Leases, FleetRows
<1>5. Dirty(u)' <=> Dirty(u)
  BY <1>1, <1>4 DEF Dirty
<1>6. \A ref \in Nat : [worker |-> u, ref |-> ref, ok |-> TRUE] \in answers => OnWire(u, ref) /\ ref # 0
  <2> TAKE ref \in Nat
  <2> HAVE [worker |-> u, ref |-> ref, ok |-> TRUE] \in answers
  <2>1. OnWire(u, ref)
    BY DEF OnWire
  <2>2. QED
    BY <1>4, <2>1 DEF Kept, AnswersTrue
<1> USE DEF Kept
<1>7. CASE h = "ending"
  <2>1. lease' = [lease EXCEPT ![u].state = "ending"] /\ UNCHANGED <<fleet, reg>>
    BY <1>7 DEF DurableStep, ShowStep
  <2>2. lease'[u].state = "ending" /\ lease'[u].org = lease[u].org /\ lease'[u].id = lease[u].id
    BY <1>2, <2>1, LeaseChange DEF LeaseStates
  <2>3. lease[u].state = "active" /\ Open(u) /\ Open(u)'
    BY <1>2, <1>4, <1>7, <2>2 DEF StepsFit, Open
  <2>4. \A op \in Ops : Due(op, u)' => op \in {"show", "advance"}
    BY <1>2, <1>3, <1>7 DEF SamePhase, Ending
  <2>5. \A op \in CleaningUp \cup {"unhold"} : ~Due(op, u)'
    BY <2>4 DEF CleaningUp, Ops
  <2>6. ClaimsHeld(u)' /\ DirtIsGuarded(u)' /\ OneCustomer(u)'
    BY <1>1, <1>4, <2>1, <2>2, <2>3 DEF ClaimsHeld, DirtIsGuarded, OneCustomer
  <2>7. StepsFit(u)'
    <3>1. ~Due("ending", u)' /\ ~Due("sanitizing", u)' /\ ~Due("ended", u)' /\ Due("show", u)'
      BY <1>2, <1>7
    <3>2. QED
      BY <2>2, <2>5, <3>1 DEF StepsFit, CleaningUp
  <2>8. fleet[u].ref = 0
    BY <1>4, <2>3 DEF CleanedInPeace
  <2>9. CleanedInPeace(u)'
    BY <2>1, <2>2, <2>5, <2>8 DEF CleanedInPeace
  <2>10. AnswersTrue(u)'
    BY <1>1, <1>4, <2>1, <2>2, <2>3 DEF AnswersTrue
  <2>11. QED
    BY <2>6, <2>7, <2>9, <2>10
<1>8. CASE h = "sanitizing"
  <2>1. lease' = [lease EXCEPT ![u].state = "sanitizing"] /\ UNCHANGED <<fleet, reg>>
    BY <1>8 DEF DurableStep, ShowStep
  <2>2. lease'[u].state = "sanitizing" /\ lease'[u].org = lease[u].org /\ lease'[u].id = lease[u].id
    BY <1>2, <2>1, LeaseChange DEF LeaseStates
  <2>3. lease[u].state = "ending" /\ Open(u) /\ Open(u)' /\ fleet[u].ref = 0
    BY <1>2, <1>4, <1>8, <2>2 DEF StepsFit, Open, CleanedInPeace
  <2>4. \A op \in Ops : Due(op, u)' => op \in {"show", "begin", "send", "staff_send"}
    BY <1>2, <1>3, <1>8 DEF SamePhase, CleaningUp
  <2>5. Quiet(u) /\ Quiet(u)'
    BY <1>2, <1>4, <1>8, <2>1, <2>2 DEF CleanedInPeace, CleaningUp, Quiet
  <2>6. ClaimsHeld(u)' /\ DirtIsGuarded(u)' /\ OneCustomer(u)' /\ CleanedInPeace(u)'
    BY <1>1, <1>4, <2>1, <2>2, <2>3, <2>5
       DEF ClaimsHeld, DirtIsGuarded, OneCustomer, CleanedInPeace
  <2>7. StepsFit(u)'
    <3>1. Due("send", u)' \/ Due("staff_send", u)' => Due("begin", u)' \/ fleet'[u].ref # 0
      BY <1>2, <1>4, <1>8, <2>1 DEF StepsFit
    <3>2. ~Due("advance", u)' /\ ~Due("unhold", u)'
      BY <2>4 DEF Ops
    <3>3. QED
      BY <1>2, <2>2, <3>1, <3>2 DEF StepsFit
  <2>8. AnswersTrue(u)'
    BY <1>1, <1>4, <1>6, <2>1, <2>2, <2>3 DEF AnswersTrue
  <2>9. QED
    BY <2>6, <2>7, <2>8
<1>9. CASE h = "ended"
  <2>1. lease' = [lease EXCEPT ![u] = NoLease] /\ UNCHANGED <<fleet, reg>>
    BY <1>9 DEF DurableStep, ShowStep
  <2>2. lease'[u].state = "none" /\ ~Open(u)'
    BY <1>2, <2>1 DEF TypeOK, NoLease, Open
  <2>3. \A op \in Ops : Due(op, u)' => op \in {"show", "hold", "clear", "unhold"}
    BY <1>2, <1>3, <1>9 DEF SamePhase, GivingBack
  <2>4. Due("hold", u)' \/ fleet[u].held \/ (Quiet(u) /\ ~Dirty(u))
    BY <1>2, <1>4, <1>9 DEF StepsFit
  <2>5. Quiet(u) => Quiet(u)'
    BY <1>4, <2>1, <2>2 DEF Quiet
  <2>6. ClaimsHeld(u)' /\ OneCustomer(u)'
    BY <1>1, <1>4, <2>1, <2>2 DEF ClaimsHeld, OneCustomer
  <2>7. DirtIsGuarded(u)'
    BY <1>5, <2>1, <2>4 DEF DirtIsGuarded, Quiet
  <2>8. StepsFit(u)'
    <3>1. Due("unhold", u)' => Quiet(u)' /\ ~Dirty(u)'
      BY <1>2, <1>4, <1>5, <2>5 DEF StepsFit
    <3>2. /\ ~Due("ending", u)' /\ ~Due("advance", u)' /\ ~Due("sanitizing", u)' /\ ~Due("begin", u)'
          /\ ~Due("send", u)' /\ ~Due("staff_send", u)' /\ ~Due("ended", u)'
      BY <2>3 DEF Ops
    <3>3. QED
      BY <3>1, <3>2 DEF StepsFit
  <2>9. CleanedInPeace(u)'
    <3>1. \A op \in CleaningUp : ~Due(op, u)'
      BY <2>3 DEF Ops, CleaningUp
    <3>2. QED
      BY <1>4, <2>1, <2>2, <2>5, <3>1 DEF CleanedInPeace
  <2>10. AnswersTrue(u)'
    <3>1. ASSUME NEW ref \in Nat, [worker |-> u, ref |-> ref, ok |-> TRUE] \in answers, fleet[u].ref = ref
          PROVE  ~Dirty(u)
      <4>1. ref # 0 /\ OnWire(u, ref)
        BY <1>6, <3>1
      <4>2. lease[u].state \notin {"active", "ending"} /\ (Open(u) => lease[u].id = ref)
        BY <1>4, <3>1, <4>1 DEF CleanedInPeace
      <4>3. CASE ~Open(u)
        BY <1>4, <3>1, <4>3 DEF AnswersTrue
      <4>4. CASE lease[u].state = "sanitizing" /\ lease[u].id = ref
        BY <1>4, <3>1, <4>4 DEF AnswersTrue
      <4>5. QED
        BY <1>4, <4>2, <4>3, <4>4 DEF Open, Leases, LeaseStates
    <3>2. QED
      BY <1>1, <1>4, <1>5, <2>1, <2>2, <3>1 DEF AnswersTrue
  <2>11. QED
    BY <2>6, <2>7, <2>8, <2>9, <2>10
<1>10. CASE h = "begin"
  <2>1. /\ fleet' = [fleet EXCEPT ![u].ref = IF Open(u) THEN lease[u].id ELSE refs]
        /\ UNCHANGED <<lease, reg>>
    BY <1>10 DEF DurableStep, ShowStep
  <2>2. PICK ref \in Nat : ref = IF Open(u) THEN lease[u].id ELSE refs
    BY <1>1, <1>4
  <2>3. fleet'[u].ref = ref /\ fleet'[u].held = fleet[u].held
    <3>1. fleet' = [fleet EXCEPT ![u].ref = ref]
      BY <2>1, <2>2
    <3>2. QED
      BY ZenonT(40), <1>2, <3>1, FleetChange
  <2>4. Quiet(u) /\ Quiet(u)' /\ (Open(u)' <=> Open(u))
    BY <1>2, <1>4, <1>10, <2>1 DEF CleanedInPeace, CleaningUp, Quiet, Open
  <2>5. ~Due("sanitizing", u)
    <3>1. Due("sanitizing", u) => Due("sanitizing", u)'
      BY <1>2, <1>10
    <3>2. QED
      BY <1>2, <3>1
  <2>6. \/ lease[u].state = "sanitizing" /\ Open(u)
        \/ ~Open(u) /\ refs > 0 /\ \A r \in Nat : OnWire(u, r) => r < refs
    BY <1>2, <1>4, <1>10, <2>5 DEF StepsFit, Open
  <2>7. ref # 0
    BY <1>1, <1>4, <2>2, <2>6 DEF AnswersTrue
  <2>8. \A op \in Ops : Due(op, u)' => op \in {"show", "send", "staff_send"}
    BY <1>2, <1>3, <1>10 DEF SamePhase, CleaningUp
  <2>9. ClaimsHeld(u)' /\ DirtIsGuarded(u)' /\ OneCustomer(u)'
    <3>1. Due("hold", u) => Due("hold", u)'
      BY <1>2, <1>10
    <3>2. QED
      BY <1>1, <1>4, <1>5, <2>1, <2>3, <2>4, <3>1 DEF ClaimsHeld, DirtIsGuarded, OneCustomer
  <2>10. StepsFit(u)'
    <3>1. /\ ~Due("ending", u)' /\ ~Due("advance", u)' /\ ~Due("sanitizing", u)' /\ ~Due("begin", u)'
          /\ ~Due("ended", u)' /\ ~Due("unhold", u)'
      BY <2>8 DEF Ops
    <3>2. QED
      BY <2>3, <2>7, <3>1 DEF StepsFit
  <2>11. CleanedInPeace(u)'
    BY <2>1, <2>2, <2>3, <2>4, <2>6 DEF CleanedInPeace, Open
  <2>12. AnswersTrue(u)'
    <3>1. ASSUME NEW r \in Nat, [worker |-> u, ref |-> r, ok |-> TRUE] \in answers, ~Open(u), ref = r
          PROVE  FALSE
      <4>1. OnWire(u, r)
        BY <1>6, <3>1
      <4>2. refs = r
        BY <2>2, <3>1
      <4>3. QED
        BY <1>1, <2>6, <3>1, <4>1, <4>2
    <3>2. QED
      BY <1>1, <1>4, <1>5, <2>1, <2>3, <2>4, <3>1 DEF AnswersTrue
  <2>13. QED
    BY <2>9, <2>10, <2>11, <2>12
<1>11. CASE h \in {"hold", "unhold", "clear"}
  <2>1. UNCHANGED <<lease, reg>> /\ (Open(u)' <=> Open(u)) /\ (Quiet(u)' <=> Quiet(u))
    BY <1>4, <1>11 DEF DurableStep, ShowStep, Open, Quiet
  <2>2. /\ fleet'[u].ref = 0
        /\ h = "hold" => fleet'[u].held
        /\ h = "clear" => fleet'[u].held = fleet[u].held
    <3>1. CASE h = "clear"
      BY ZenonT(40), <1>2, <3>1, FleetChange DEF DurableStep, ShowStep
    <3>2. CASE h # "clear"
      BY <1>2, <1>11, <3>2 DEF DurableStep, ShowStep, TypeOK, FreeRow
    <3>3. QED
      BY <3>1, <3>2
  <2>3. \A op \in Ops : Due(op, u)' => op \in {"show", "hold", "clear", "unhold"}
    BY <1>2, <1>3, <1>11 DEF SamePhase, GivingBack
  <2>4. h = "unhold" => Quiet(u) /\ ~Dirty(u)
    BY <1>2, <1>4 DEF StepsFit
  <2>5. ClaimsHeld(u)' /\ OneCustomer(u)'
    BY <1>1, <1>4, <2>1 DEF ClaimsHeld, OneCustomer
  <2>6. DirtIsGuarded(u)'
    <3>1. CASE h = "hold"
      BY <2>2, <3>1 DEF DirtIsGuarded
    <3>2. CASE h = "unhold"
      BY <1>5, <2>1, <2>4, <3>2 DEF DirtIsGuarded, Quiet
    <3>3. CASE h = "clear"
      <4>1. Due("hold", u) => Due("hold", u)'
        BY <1>2, <3>3
      <4>2. QED
        BY <1>4, <1>5, <2>1, <2>2, <3>3, <4>1 DEF DirtIsGuarded
    <3>4. QED
      BY <1>11, <3>1, <3>2, <3>3
  <2>7. StepsFit(u)' /\ \A op \in CleaningUp : ~Due(op, u)'
    <3>1. /\ ~Due("ending", u)' /\ ~Due("advance", u)' /\ ~Due("sanitizing", u)' /\ ~Due("begin", u)'
          /\ ~Due("ended", u)' /\ ~Due("send", u)' /\ ~Due("staff_send", u)'
      BY <2>3 DEF Ops
    <3>2. Due("unhold", u)' => Quiet(u)' /\ ~Dirty(u)'
      BY <1>2, <1>4, <1>5, <2>1 DEF StepsFit
    <3>3. QED
      BY <3>1, <3>2 DEF StepsFit, CleaningUp
  <2>8. CleanedInPeace(u)'
    BY <1>4, <2>1, <2>2, <2>7 DEF CleanedInPeace
  <2>9. AnswersTrue(u)'
    BY <1>1, <1>4, <1>5, <1>6, <2>1, <2>2 DEF AnswersTrue
  <2>10. QED
    BY <2>5, <2>6, <2>7, <2>8, <2>9
<1>12. CASE h = "show"
  <2>1. UNCHANGED <<lease, fleet>> /\ reg' = Shown(u, lease[u])
    BY <1>12 DEF DurableStep, ShowStep, durable
  <2>2. \/ reg'[u] = reg[u] /\ reg[u].status = "absent"
        \/ /\ reg'[u].status = reg[u].status
           /\ reg'[u].state = lease[u].state /\ reg'[u].org = lease[u].org
    BY <1>2, <2>1 DEF Shown, TypeOK, Entries
  <2>3. reg[u].status = "absent" => reg[u].state = "none"
    BY <1>2 DEF ShownOrDue, Absent
  <2>4. Open(u)' <=> Open(u)
    BY <2>1 DEF Open
  <2>5. \A op : op # "show" => (Due(op, u)' <=> Due(op, u))
    BY <1>2, <1>12
  <2>6. Quiet(u) => Quiet(u)'
    BY <1>4, <2>1, <2>2 DEF Quiet
  <2>7. ClaimsHeld(u)' /\ OneCustomer(u)'
    BY <1>1, <1>4, <2>1, <2>2, <2>3, <2>4 DEF ClaimsHeld, OneCustomer
  <2>8. DirtIsGuarded(u)'
    BY <1>4, <1>5, <2>1, <2>2, <2>4, <2>5 DEF DirtIsGuarded, Open
  <2>9. StepsFit(u)'
    <3>1. ~Due("ending", u)' /\ ~Due("sanitizing", u)' /\ ~Due("ended", u)'
      BY <1>2
    <3>2. Due("advance", u)' => lease'[u].state = "ending" /\ reg'[u].state # "active"
      BY <1>4, <2>1, <2>2, <2>3, <2>5, <3>1 DEF StepsFit
    <3>3. Due("begin", u)' => \/ lease'[u].state = "sanitizing"
                              \/ /\ ~Open(u)' /\ refs' > 0
                                 /\ \A ref \in Nat : OnWire(u, ref)' => ref < refs'
      BY <1>1, <1>4, <2>1, <2>4, <2>5, <3>1 DEF StepsFit
    <3>4. QED
      BY <1>4, <1>5, <2>1, <2>5, <2>6, <3>1, <3>2, <3>3 DEF StepsFit
  <2>10. CleanedInPeace(u)'
    <3>1. (\E op \in CleaningUp : Due(op, u)') => \E op \in CleaningUp : Due(op, u)
      BY <1>2
    <3>2. QED
      BY <1>4, <2>1, <2>4, <2>6, <3>1 DEF CleanedInPeace
  <2>11. AnswersTrue(u)'
    BY <1>1, <1>4, <1>5, <2>1, <2>4 DEF AnswersTrue
  <2>12. QED
    BY <2>7, <2>8, <2>9, <2>10, <2>11
<1>13. QED
  BY <1>7, <1>8, <1>9, <1>10, <1>11, <1>12 DEF DurableStep, ShowStep

(* The last step of a call that replaces it: _advance and send_sanitize.   *)
LEMMA KeptByLast ==
    ASSUME LeaseInv, Do, NEW h, NEW u, h = Head(call)[1], u = Head(call)[2],
           AdvanceStep(h, u) \/ SendStep(h, u)
    PROVE  Kept(u)'
<1> USE DEF LeaseInv, ShowInv
<1>1. /\ call # <<>> /\ UNCHANGED <<lease, fleet, reg, claims, up, answers, running, residue, refs>>
      /\ refs \in Nat /\ h \in {"advance", "send", "staff_send"}
  BY DEF Do, host, TypeOK, AdvanceStep, SendStep, durable
<1>2. h \in Ops /\ u \in Workers /\ Tail(call) = <<>> /\ \A op, v : Due(op, v) <=> op = h /\ v = u
  BY <1>1, Alone
<1>3. /\ Kept(u) /\ (Claimed(u)' <=> Claimed(u)) /\ (Open(u)' <=> Open(u))
      /\ (Dirty(u)' <=> Dirty(u)) /\ (Quiet(u)' <=> Quiet(u)) /\ fleet[u].ref \in Nat
  BY <1>1, <1>2 DEF Claimed, Open, Dirty, Quiet, TypeOK, FleetRows
<1> USE DEF Kept
<1>4. ClaimsHeld(u)' /\ OneCustomer(u)'
  BY <1>1, <1>3 DEF ClaimsHeld, OneCustomer
<1>5. DirtIsGuarded(u)'
  <2>1. ~Due("hold", u)
    BY <1>1, <1>2
  <2>2. QED
    BY <1>1, <1>3, <2>1 DEF DirtIsGuarded
<1>6. ASSUME \A op \in CleaningUp : ~Due(op, u)' PROVE CleanedInPeace(u)'
  BY <1>1, <1>3, <1>6 DEF CleanedInPeace
<1>7. ASSUME inbox' = inbox PROVE AnswersTrue(u)'
  <2>1. \A ref : OnWire(u, ref)' <=> OnWire(u, ref)
    BY <1>1, <1>7 DEF OnWire
  <2>2. QED
    BY <1>1, <1>3, <2>1 DEF AnswersTrue
<1>8. CASE AdvanceStep(h, u)
  <2>1. h = "advance" /\ inbox' = inbox
    BY <1>8 DEF AdvanceStep
  <2>2. lease[u].state = "ending" /\ reg[u].state # "active"
    BY <1>2, <1>3, <2>1 DEF StepsFit
  <2>3. CASE MayAdvance(u)
    <3>1. \A op, v : Due(op, v)' <=> v = u /\ op \in {"sanitizing", "begin", "show", "send"}
      BY <1>2, <1>8, <2>3, CallsAre DEF AdvanceStep
    <3>2. Quiet(u)
      BY <1>3, <2>2, <2>3 DEF Quiet, MayAdvance, Claimed, ClaimsHeld
    <3>3. StepsFit(u)'
      BY <1>1, <2>2, <3>1 DEF StepsFit
    <3>4. CleanedInPeace(u)'
      BY <1>1, <1>3, <3>2 DEF CleanedInPeace
    <3>5. QED
      BY <1>4, <1>5, <1>7, <2>1, <3>3, <3>4
  <2>4. CASE ~MayAdvance(u)
    <3>1. \A op, v : ~Due(op, v)'
      BY <1>8, <2>4, NothingDueNext DEF AdvanceStep
    <3>2. StepsFit(u)'
      BY <3>1 DEF StepsFit
    <3>3. QED
      BY <1>4, <1>5, <1>6, <1>7, <2>1, <3>1, <3>2
  <2>5. QED
    BY <2>3, <2>4
<1>9. CASE SendStep(h, u) /\ ~up[u]
  <2>1. inbox' = inbox /\ h \in {"send", "staff_send"}
    BY <1>9 DEF SendStep
  <2>2. \/ \A op, v : Due(op, v)' <=> v = u /\ op \in {"ended", "hold", "show"}
        \/ \A op, v : Due(op, v)' <=> v = u /\ op \in {"clear"}
    BY <1>2, <1>9, CallsAre DEF SendStep
  <2>3. StepsFit(u)' /\ \A op \in CleaningUp : ~Due(op, u)'
    BY <2>2 DEF StepsFit, CleaningUp
  <2>4. QED
    BY <1>4, <1>5, <1>6, <1>7, <2>1, <2>3
<1>10. CASE SendStep(h, u) /\ up[u]
  <2>1. inbox' = inbox \cup {<<u, fleet[u].ref>>} /\ call' = <<>> /\ h \in {"send", "staff_send"}
    BY <1>2, <1>10 DEF SendStep
  <2>2. \A op, v : ~Due(op, v)'
    BY <2>1, NothingDueNext
  <2>3. StepsFit(u)'
    BY <2>2 DEF StepsFit
  <2>4. fleet[u].ref # 0
    BY <1>2, <1>3, <2>1 DEF StepsFit
  <2>5. \A ref : OnWire(u, ref)' => OnWire(u, ref) \/ ref = fleet[u].ref
    BY <1>1, <2>1 DEF OnWire
  <2>6. lease[u].state \notin {"active", "ending"}
    BY <1>3, <2>4 DEF CleanedInPeace
  <2>7. fleet[u].ref \in 1 .. refs
    BY <1>1, <1>3, <2>4 DEF AnswersTrue
  <2>8. AnswersTrue(u)'
    BY <1>1, <1>3, <2>5, <2>6, <2>7 DEF AnswersTrue
  <2>9. QED
    BY <1>4, <1>5, <1>6, <2>2, <2>3, <2>8
<1>11. QED
  BY <1>8, <1>9, <1>10 DEF SendStep

LEMMA KeptByDo == ASSUME LeaseInv, NEW v \in Workers, Do PROVE Kept(v)'
<1> USE DEF LeaseInv, ShowInv
<1>1. PICK h, u : h = Head(call)[1] /\ u = Head(call)[2] /\ call # <<>>
                  /\ (DurableStep(h, u) \/ ShowStep(h, u) \/ AdvanceStep(h, u) \/ SendStep(h, u))
  BY DEF Do
<1>2. UNCHANGED <<claims, answers, running, residue, refs>> /\ refs \in Nat /\ u \in Workers
  BY <1>1 DEF Do, host, TypeOK
<1>3. CASE v = u
  <2>1. DurableStep(h, u) \/ ShowStep(h, u) => call' = Tail(call) /\ UNCHANGED inbox
    BY DEF DurableStep, ShowStep
  <2>2. QED
    BY <1>1, <1>3, <2>1, KeptByWrite, KeptByLast
<1>4. CASE v # u
  <2>1. lease'[v] = lease[v] /\ fleet'[v] = fleet[v]
    BY <1>1, <1>2, <1>4 DEF DurableStep, ShowStep, AdvanceStep, SendStep, durable, TypeOK
  <2>2. reg'[v] = reg[v]
    BY <1>1, <1>4 DEF DurableStep, ShowStep, AdvanceStep, SendStep, Shown, TypeOK
  <2>3. \A ref : <<v, ref>> \in inbox' => <<v, ref>> \in inbox
    BY <1>1, <1>4 DEF DurableStep, ShowStep, AdvanceStep, SendStep
  <2>4. \A op : Due(op, v)' <=> Due(op, v)
    <3>1. CASE DurableStep(h, u) \/ ShowStep(h, u)
      <4>1. call' = Tail(call)
        BY <3>1 DEF DurableStep, ShowStep
      <4>2. QED
        BY <1>1, <1>4, <4>1, TailIs
    <3>2. CASE AdvanceStep(h, u) \/ SendStep(h, u)
      <4>1. h \in {"advance", "send", "staff_send"}
        BY <3>2 DEF AdvanceStep, SendStep
      <4>2. Tail(call) = <<>> /\ \A op : ~Due(op, v)
        BY <1>1, <1>4, <4>1, Alone
      <4>3. \/ call' = <<>> \/ call' = Todo(u, <<"sanitizing", "begin", "show", "send">>)
            \/ call' = Todo(u, <<"ended", "hold", "show">>) \/ call' = Todo(u, <<"clear">>)
        BY <3>2, <4>2 DEF AdvanceStep, SendStep
      <4>4. \A op : ~Due(op, v)'
        BY <1>2, <1>4, <4>3, CallsAre, NothingDueNext
      <4>5. QED
        BY <4>2, <4>4
    <3>3. QED
      BY <1>1, <3>1, <3>2
  <2>5. QED
    BY <1>2, <2>1, <2>2, <2>3, <2>4, KeptElsewhere
<1>5. QED
  BY <1>3, <1>4

LEMMA LeaseInit == Init => LeaseInv
<1> SUFFICES ASSUME Init, NEW w \in Workers PROVE Kept(w)
  BY ShowInit DEF LeaseInv
<1>1. \A op, v : ~Due(op, v)
  BY NothingDue DEF Init
<1>2. ~Open(w) /\ ~Claimed(w) /\ ~Dirty(w) /\ Quiet(w) /\ \A ref : ~OnWire(w, ref)
  BY DEF Init, Open, Claimed, Dirty, Quiet, OnWire, NoLease, Absent
<1>3. reg[w].state = "none" /\ lease[w].state = "none" /\ fleet[w].ref = 0 /\ refs = 0 /\ claims = {}
      /\ answers = {}
  BY DEF Init, NoLease, Absent, FreeRow
<1>4. QED
  BY <1>1, <1>2, <1>3 DEF Kept, ClaimsHeld, DirtIsGuarded, StepsFit, CleanedInPeace, AnswersTrue,
     OneCustomer, CleaningUp

LEMMA LeaseNext == ASSUME MaxLate = 0, MaxCrashes = 0 PROVE LeaseInv /\ [Next]_vars => LeaseInv'
<1> SUFFICES ASSUME LeaseInv, [Next]_vars, NEW v \in Workers PROVE Kept(v)'
  <2>1. LeaseInv /\ [Next]_vars => ShowInv'
    BY TypeKept, ShownKept DEF LeaseInv, ShowInv
  <2>2. QED
    BY <2>1 DEF LeaseInv
<1>1. CASE Do
  BY <1>1, KeptByDo
<1>2. CASE \E o \in Orgs, S \in SUBSET Workers : Request(o, S)
  BY <1>2, KeptByRequest
<1>3. CASE \E a \in answers : OnSanitizeResult(a)
  BY <1>3, KeptByAnswer
<1>4. CASE \E w \in Workers : \/ TickLost(w) \/ TickEnding(w) \/ TickTimeout(w) \/ TickStaff(w)
                              \/ Release(w) \/ StaffClean(w)
  BY <1>4, KeptByCalls
<1>5. CASE \E w \in Workers : \/ JobEnds(w) \/ GiveUp(w) \/ Heartbeat(w) \/ Register(w)
                              \/ Disconnect(w) \/ HealthTimeout(w) \/ Restart
  BY <1>5, KeptByWorld
<1>6. CASE \E w \in Workers, o \in Orgs : Claim(w, o) \/ SendJob(w, o)
  BY <1>6, KeptByJob
<1>7. CASE Cleaning
  <2>1. PICK m \in inbox : Clean(m[1], m[2])
    BY <1>7 DEF Cleaning
  <2>2. m[1] \in Workers /\ m[2] \in Nat
    BY DEF LeaseInv, ShowInv, TypeOK
  <2>3. QED
    BY <2>1, <2>2, KeptByClean
<1>8. CASE Restart
  BY <1>5, <1>8
<1>9. CASE UNCHANGED vars
  <2>1. \A op : Due(op, v)' <=> Due(op, v)
    BY <1>9 DEF vars, Due
  <2>2. refs \in Nat /\ Kept(v) /\ TypeOK
    BY DEF LeaseInv, ShowInv, TypeOK
  <2>3. QED
    BY <1>9, <2>1, <2>2, KeptElsewhere DEF vars, durable, wire, host
<1>10. QED
  BY <1>1, <1>2, <1>3, <1>4, <1>5, <1>6, <1>7, <1>8, <1>9 DEF Next, Manager, Worker

LEMMA LeaseAlways == ASSUME MaxLate = 0, MaxCrashes = 0 PROVE Spec => []LeaseInv
<1>1. LeaseInv /\ [Next]_vars => LeaseInv'
  BY LeaseNext
<1>2. QED
  BY LeaseInit, <1>1, PTL DEF Spec

(* "A worker is never returned to the pool on the strength of a timeout":  *)
(* as long as no job is sent after its claim has lapsed and the process    *)
(* does not die inside a call, a worker that may be leased carries nothing *)
(* of its last customer, whatever is lost, refused or answered late.       *)
(* Whatever could dirty a machine is leased, held or about to be held, and *)
(* a hold goes only with an answer to the clean-up that is waited for.     *)
THEOREM PoolStaysClean == ASSUME MaxLate = 0, MaxCrashes = 0 PROVE Spec => []PoolIsClean
<1>1. LeaseInv => PoolIsClean
  BY DEF LeaseInv, Kept, DirtIsGuarded, Dirty, PoolIsClean, InPool, Due
<1>2. QED
  BY <1>1, LeaseAlways, PTL

(* "While the lease lasts the worker is that customer's alone": under the  *)
(* same conditions what runs or lies on a leased machine is its customer's.*)
THEOREM CustomersApart == ASSUME MaxLate = 0, MaxCrashes = 0 PROVE Spec => []OnlyItsCustomer
<1>1. LeaseInv => OnlyItsCustomer
  BY DEF LeaseInv, Kept, OneCustomer, OnlyItsCustomer
<1>2. QED
  BY <1>1, LeaseAlways, PTL
=============================================================================
