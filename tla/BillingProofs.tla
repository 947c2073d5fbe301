--------------------------- MODULE BillingProofs ---------------------------
(* With one coordinator process on the database, and for any number of     *)
(* organizations, jobs, months, requests of staff, exceptions and crashes: *)
(* no job and no receipt is on two invoices.                               *)
EXTENDS Billing, TLAPS

USE BoundsAreNumbers, PeriodsAreUnits, JobsAreKnown

OneProcess == \A p, q \in Procs : p = q

(* The fields of an invoice, and of a thread, whatever their values.       *)
IsInvoice(r) == DOMAIN r = {"org", "start", "end", "jobs", "receipts", "amount", "clean",
                         "prices", "status"}
IsThread(r) == DOMAIN r = {"at", "months", "orgs", "org", "start", "end", "jobs", "receipts",
                           "amount", "clean", "prices", "inv", "mark", "subject", "previous", "rows"}

(* The usage on an invoice, or on one in the making, is of its period.     *)
OfPeriod(r) ==
    /\ \A j \in r.jobs :
          j \in Jobs /\ OrgOf[j] = r.org /\ job[j].at = "completed"
          /\ job[j].completed \in r.start .. (r.end - 1)
    /\ \A j \in r.receipts :
          j \in Jobs /\ OrgOf[j] = r.org /\ job[j].at = "completed"
          /\ job[j].uploaded \in r.start .. (r.end - 1)

(* What a thread is about.                                                 *)
ThreadFits(r) ==
    /\ IsThread(r)
    /\ r.months \in Seq(Int)
    /\ r.at \in {"month", "org"} => r.months # <<>>
    /\ r.at \in {"measure", "price", "check", "insert"} => r.start \in Int /\ r.end \in Int
    /\ r.at \in {"price", "check", "insert"} => OfPeriod(r)

(* Two periods of one organization do not overlap.                         *)
Apart(r, q) == r.org = q.org => ~(r.start < q.end /\ r.end > q.start)

JobRecs == [at : {"running", "stored", "stamped", "completed"}, completed : Int, uploaded : Int]

BillInv ==
    /\ now \in Nat
    /\ job \in [Jobs -> JobRecs]
    /\ invoices = [i \in 1 .. Len(invoices) |-> invoices[i]] /\ Len(invoices) \in Nat
    /\ \A i \in 1 .. Len(invoices) :
          /\ IsInvoice(invoices[i]) /\ OfPeriod(invoices[i])
          /\ invoices[i].start \in Int /\ invoices[i].end \in Int
    /\ \A i, k \in 1 .. Len(invoices) : i # k => Apart(invoices[i], invoices[k])
    /\ DOMAIN thread = Threads /\ \A t \in Threads : ThreadFits(thread[t])
    /\ lock \subseteq Threads /\ \A t, u \in lock : t = u
    /\ \A t \in Threads : thread[t].at = "insert" =>
          /\ t \in lock
          /\ \A i \in 1 .. Len(invoices) : Apart(invoices[i], thread[t])

-----------------------------------------------------------------------------
(* Changing some fields of a thread leaves the others.                     *)
LEMMA IdleFits == ThreadFits(Idle) /\ Idle.at = "idle" /\ Idle.months = <<>>
BY DEF ThreadFits, Idle, IsThread, OfPeriod

(* On to the next organization, or to rest.                                *)
LEMMA LeaveFits ==
    ASSUME NEW r, ThreadFits(r)
    PROVE  ThreadFits(Leave(r)) /\ Leave(r).at \in {"idle", "org"}
<1>1. CASE r.months = <<>>
  BY <1>1, IdleFits DEF Leave
<1>2. CASE r.months # <<>>
  <2>1. Leave(r) = [Idle EXCEPT !.at = "org", !.months = r.months, !.orgs = r.orgs]
    BY <1>2 DEF Leave
  <2>2. Leave(r).at = "org" /\ Leave(r).months = r.months /\ IsThread(Leave(r))
    BY <2>1 DEF Idle, IsThread
  <2>3. QED
    BY <1>2, <2>2 DEF ThreadFits
<1>3. QED
  BY <1>1, <1>2

LEMMA MadeFits ==
    ASSUME NEW r, ThreadFits(r), NEW i
    PROVE  ThreadFits(Made(r, i)) /\ Made(r, i).at \in {"idle", "org", "read"}
<1>1. CASE r.months # <<>> /\ provider.auto
  <2>1. Made(r, i) = [r EXCEPT !.at = "read", !.inv = i]
    BY <1>1 DEF Made
  <2>2. Made(r, i).at = "read" /\ Made(r, i).months = r.months /\ IsThread(Made(r, i))
    BY <2>1 DEF ThreadFits, IsThread
  <2>3. QED
    BY <2>2 DEF ThreadFits
<1>2. CASE ~(r.months # <<>> /\ provider.auto)
  BY <1>2, LeaveFits DEF Made
<1>3. QED
  BY <1>1, <1>2

(* A thread takes a step outside the insert, and may give its lock back.   *)
LEMMA ThreadMoves ==
    ASSUME BillInv, NEW t \in Threads, NEW r, ThreadFits(r), r.at # "insert", Become(t, r),
           lock' = lock \/ lock' = lock \ {t}, now' = now, job' = job, invoices' = invoices
    PROVE  BillInv'
<1>1. \A q : OfPeriod(q) => OfPeriod(q)'
  BY DEF OfPeriod
<1>2. DOMAIN thread' = Threads /\ thread'[t] = r /\ \A u \in Threads \ {t} : thread'[u] = thread[u]
  BY DEF BillInv, Become
<1>3. \A u \in Threads : ThreadFits(thread[u])'
  BY <1>1, <1>2 DEF BillInv, ThreadFits
<1>4. \A u \in Threads : thread'[u].at = "insert" =>
          u \in lock' /\ \A i \in 1 .. Len(invoices') : Apart(invoices'[i], thread'[u])
  BY <1>2 DEF BillInv
<1>5. \A i \in 1 .. Len(invoices) : OfPeriod(invoices[i])'
  BY <1>1 DEF BillInv
<1>6. QED
  BY <1>2, <1>3, <1>4, <1>5 DEF BillInv

-----------------------------------------------------------------------------
(* The loops of the automation.                                            *)

LEMMA PreviousMonthsAre ==
    ASSUME now \in Nat
    PROVE  PreviousMonths \in Seq(Int)
<1> DEFINE this == now \div 2
           first == IF this > Catchup THEN this - Catchup ELSE 0
<1>1. this \in Nat /\ Catchup \in Nat
  OBVIOUS
<1> HIDE DEF this
<1>2. this - first \in Nat /\ first \in Nat
  BY <1>1
<1> HIDE DEF first
<1>3. PreviousMonths = [k \in 1 .. (this - first) |-> MonthStart(first + k - 1)]
  BY DEF PreviousMonths, this, first
<1>4. \A k \in 1 .. (this - first) : MonthStart(first + k - 1) \in Int
  BY <1>2 DEF MonthStart
<1>5. QED
  BY <1>2, <1>3, <1>4

LEMMA RunOnceKeeps ==
    ASSUME BillInv, NEW p \in Procs, RunOnce(p)
    PROVE  BillInv'
<1> DEFINE t == <<p, "auto">>
           r == [Idle EXCEPT !.at = "month", !.months = PreviousMonths]
<1>1. t \in Threads
  BY DEF Threads
<1>2. PreviousMonths \in Seq(Int) /\ PreviousMonths # <<>>
  BY PreviousMonthsAre DEF RunOnce, BillInv
<1>3. IsThread(r) /\ r.at = "month" /\ r.months = PreviousMonths
  BY DEF Idle, IsThread
<1>4. Become(t, r) /\ now' = now /\ job' = job /\ invoices' = invoices /\ lock' = lock
  BY DEF RunOnce, books
<1> HIDE DEF r, t
<1>5. ThreadFits(r)
  BY <1>2, <1>3 DEF ThreadFits
<1>6. QED
  BY <1>1, <1>3, <1>4, <1>5, ThreadMoves

LEMMA VisitMonthKeeps ==
    ASSUME BillInv, NEW t \in Threads, VisitMonth(t)
    PROVE  BillInv'
<1> DEFINE me == thread[t]
           os == OrgsToInvoice(Head(me.months))
           r == [me EXCEPT !.at = "org", !.orgs = os]
<1>1. ThreadFits(me) /\ me.at = "month"
  BY DEF BillInv, VisitMonth
<1>2. Become(t, r) /\ now' = now /\ job' = job /\ invoices' = invoices /\ lock' = lock
  BY DEF VisitMonth, books
<1> HIDE DEF me, os
<1>3. IsThread(r) /\ r.at = "org" /\ r.months = me.months
  BY <1>1 DEF ThreadFits, IsThread
<1> HIDE DEF r
<1>4. ThreadFits(r)
  BY <1>1, <1>3 DEF ThreadFits
<1>5. QED
  BY <1>2, <1>3, <1>4, ThreadMoves

LEMMA VisitOrgKeeps ==
    ASSUME BillInv, NEW t \in Threads, VisitOrg(t)
    PROVE  BillInv'
<1> DEFINE me == thread[t]
           start == Head(me.months)
<1>1. ThreadFits(me) /\ me.at = "org"
  BY DEF BillInv, VisitOrg
<1>2. me.months \in Seq(Int) /\ me.months # <<>>
  BY <1>1 DEF ThreadFits
<1>3. now' = now /\ job' = job /\ invoices' = invoices /\ lock' = lock
  BY DEF VisitOrg, books
<1>4. CASE Become(t, IF Tail(me.months) = <<>> THEN Idle
                     ELSE [Idle EXCEPT !.at = "month", !.months = Tail(me.months)])
  <2> DEFINE q == Tail(me.months)
             m == [Idle EXCEPT !.at = "month", !.months = q]
             r == IF q = <<>> THEN Idle ELSE m
  <2>1. q \in Seq(Int)
    BY <1>2
  <2>2. Become(t, r)
    BY <1>4
  <2> HIDE DEF q
  <2>3. IsThread(m) /\ m.at = "month" /\ m.months = q
    BY DEF Idle, IsThread
  <2> HIDE DEF m
  <2>4. ThreadFits(r) /\ r.at # "insert"
    BY <2>1, <2>3, IdleFits DEF ThreadFits
  <2> HIDE DEF r
  <2>5. QED
    BY <1>3, <2>2, <2>4, ThreadMoves
<1>5. ASSUME NEW o \in me.orgs, NEW i, NEW r,
             LET next == [me EXCEPT !.orgs = @ \ {o}, !.org = o, !.start = start, !.end = start + 2]
             IN  r = [next EXCEPT !.at = "measure"] \/ r = Made(next, i),
             Become(t, r)
      PROVE  BillInv'
  <2> DEFINE next == [me EXCEPT !.orgs = @ \ {o}, !.org = o, !.start = start, !.end = start + 2]
             m == [next EXCEPT !.at = "measure"]
  <2>1. start \in Int /\ start + 2 \in Int
    BY SMTT(30), <1>2
  <2>2. r = m \/ r = Made(next, i)
    BY <1>5
  <2> HIDE DEF me, start
  <2>3. IsThread(next) /\ next.at = "org" /\ next.months = me.months
    BY <1>1 DEF ThreadFits, IsThread
  <2>4. IsThread(m) /\ m.at = "measure" /\ m.months = me.months /\ m.start = start /\ m.end = start + 2
    BY <1>1 DEF ThreadFits, IsThread
  <2> HIDE DEF next, m
  <2>5. ThreadFits(next)
    BY <1>2, <2>3 DEF ThreadFits
  <2>6. ThreadFits(m)
    BY <1>2, <2>1, <2>4 DEF ThreadFits
  <2>7. ThreadFits(r) /\ r.at # "insert"
    BY <2>2, <2>4, <2>5, <2>6, MadeFits
  <2>8. QED
    BY <1>3, <1>5, <2>7, ThreadMoves
<1>6. QED
  BY <1>4, <1>5 DEF VisitOrg

-----------------------------------------------------------------------------
(* The making of an invoice.                                               *)

LEMMA GenerateKeeps ==
    ASSUME BillInv, NEW t \in Threads, NEW o \in Orgs, NEW period \in Periods,
           Generate(t, o, period[1], period[2])
    PROVE  BillInv'
<1> DEFINE r == [Idle EXCEPT !.at = "measure", !.org = o, !.start = period[1], !.end = period[2]]
<1>1. period[1] \in Int /\ period[2] \in Int
  OBVIOUS
<1>2. Become(t, r) /\ now' = now /\ job' = job /\ invoices' = invoices /\ lock' = lock
  BY DEF Generate, books
<1>3. IsThread(r) /\ r.at = "measure" /\ r.months = <<>> /\ r.start = period[1] /\ r.end = period[2]
  BY DEF Idle, IsThread
<1> HIDE DEF r
<1>4. ThreadFits(r)
  BY <1>1, <1>3 DEF ThreadFits
<1>5. QED
  BY <1>2, <1>3, <1>4, ThreadMoves

LEMMA MeasureKeeps ==
    ASSUME BillInv, NEW t \in Threads, Measure(t)
    PROVE  BillInv'
<1> DEFINE me == thread[t]
           js == JobsFor(me.org, me.start, me.end)
           rs == ReceiptsFor(me.org, me.start, me.end)
           r == [me EXCEPT !.at = "price", !.jobs = js, !.receipts = rs, !.prices = pricing]
<1>1. ThreadFits(me) /\ me.at = "measure"
  BY DEF BillInv, Measure
<1>2. Become(t, r) /\ now' = now /\ job' = job /\ invoices' = invoices /\ lock' = lock
  BY DEF Measure, books
<1> HIDE DEF me
<1>3. /\ \A j \in js : j \in Jobs /\ OrgOf[j] = me.org /\ job[j].at = "completed"
                       /\ job[j].completed \in me.start .. (me.end - 1)
      /\ \A j \in rs : j \in Jobs /\ OrgOf[j] = me.org /\ job[j].at = "completed"
                       /\ job[j].uploaded \in me.start .. (me.end - 1)
  BY DEF JobsFor, ReceiptsFor
<1> HIDE DEF js, rs
<1>4. /\ IsThread(r) /\ r.at = "price" /\ r.months = me.months /\ r.start = me.start
      /\ r.end = me.end /\ r.org = me.org /\ r.jobs = js /\ r.receipts = rs
  BY <1>1 DEF ThreadFits, IsThread
<1> HIDE DEF r
<1>5. OfPeriod(r)
  BY <1>3, <1>4 DEF OfPeriod
<1>6. ThreadFits(r)
  BY <1>1, <1>4, <1>5 DEF ThreadFits
<1>7. QED
  BY <1>2, <1>4, <1>6, ThreadMoves

LEMMA PriceKeeps ==
    ASSUME BillInv, NEW t \in Threads, Price(t)
    PROVE  BillInv'
<1> DEFINE me == thread[t]
<1>1. ThreadFits(me) /\ me.at = "price"
  BY DEF BillInv, Price
<1>2. now' = now /\ job' = job /\ invoices' = invoices /\ lock' = lock
  BY DEF Price, books
<1>3. CASE Become(t, Leave(me))
  <2>1. ThreadFits(Leave(me)) /\ Leave(me).at # "insert"
    BY <1>1, LeaveFits
  <2>2. QED
    BY <1>2, <1>3, <2>1, ThreadMoves
<1>4. ASSUME NEW a, NEW c, Become(t, [me EXCEPT !.at = "check", !.amount = a, !.clean = c])
      PROVE  BillInv'
  <2> DEFINE r == [me EXCEPT !.at = "check", !.amount = a, !.clean = c]
  <2>1. Become(t, r)
    BY <1>4
  <2> HIDE DEF me
  <2>2. /\ IsThread(r) /\ r.at = "check" /\ r.months = me.months /\ r.start = me.start
        /\ r.end = me.end /\ r.org = me.org /\ r.jobs = me.jobs /\ r.receipts = me.receipts
    BY <1>1 DEF ThreadFits, IsThread
  <2> HIDE DEF r
  <2>3. ThreadFits(r)
    BY <1>1, <2>2 DEF ThreadFits, OfPeriod
  <2>4. QED
    BY <1>2, <2>1, <2>2, <2>3, ThreadMoves
<1>5. QED
  BY <1>3, <1>4 DEF Price
(* The check and the lock it takes: from here on the thread's period is    *)
(* apart from every invoice, and no other thread can insert one.           *)
LEMMA CheckKeeps ==
    ASSUME OneProcess, BillInv, NEW t \in Threads, Check(t)
    PROVE  BillInv'
<1> DEFINE me == thread[t]
<1>1. ThreadFits(me) /\ me.at = "check"
  BY DEF BillInv, Check
<1>2. now' = now /\ job' = job /\ invoices' = invoices
  BY DEF Check, books
<1>3. lock = {}
  <2>1. \A u \in lock : u[1] = t[1]
    BY DEF BillInv, Threads, OneProcess
  <2>2. QED
    BY <2>1 DEF Check
<1>4. CASE /\ Overlapping(me.org, me.start, me.end) = {}
           /\ Become(t, [me EXCEPT !.at = "insert"]) /\ lock' = lock \union {t}
  <2> DEFINE r == [me EXCEPT !.at = "insert"]
  <2>1. Become(t, r) /\ lock' = {t}
    BY <1>3, <1>4
  <2>2. \A i \in 1 .. Len(invoices) : Apart(invoices[i], me)
    <3>1. DOMAIN invoices = 1 .. Len(invoices)
      BY DEF BillInv
    <3>2. QED
      BY <1>4, <3>1 DEF Overlapping, Ids, Apart
  <2>3. DOMAIN thread' = Threads /\ thread'[t] = r /\ \A u \in Threads \ {t} : thread'[u] = thread[u]
    BY <2>1 DEF BillInv, Become
  <2> HIDE DEF me
  <2>4. /\ IsThread(r) /\ r.at = "insert" /\ r.months = me.months /\ r.start = me.start
        /\ r.end = me.end /\ r.org = me.org /\ r.jobs = me.jobs /\ r.receipts = me.receipts
    BY <1>1 DEF ThreadFits, IsThread
  <2> HIDE DEF r
  <2>5. ThreadFits(r) /\ \A i \in 1 .. Len(invoices) : Apart(invoices[i], r)
    BY <1>1, <2>2, <2>4 DEF ThreadFits, OfPeriod, Apart
  <2>6. \A q : OfPeriod(q) => OfPeriod(q)'
    BY <1>2 DEF OfPeriod
  <2>7. \A u \in Threads : ThreadFits(thread[u])'
    BY <2>3, <2>5, <2>6 DEF BillInv, ThreadFits
  <2>8. \A u \in Threads : thread'[u].at = "insert" =>
            u \in lock' /\ \A i \in 1 .. Len(invoices') : Apart(invoices'[i], thread'[u])
    BY <1>2, <1>3, <2>1, <2>3, <2>5 DEF BillInv
  <2>9. \A i \in 1 .. Len(invoices) : OfPeriod(invoices[i])'
    BY <1>2, <2>6 DEF BillInv
  <2>10. QED
    BY <1>2, <2>1, <2>3, <2>7, <2>8, <2>9 DEF BillInv
<1>5. ASSUME NEW i, Become(t, Made(me, i)) \/ Become(t, Leave(me)), lock' = lock PROVE BillInv'
  <2>1. ThreadFits(Made(me, i)) /\ Made(me, i).at # "insert" /\ ThreadFits(Leave(me)) /\ Leave(me).at # "insert"
    BY <1>1, MadeFits, LeaveFits
  <2>2. QED
    BY <1>2, <1>5, <2>1, ThreadMoves
<1>6. QED
  BY <1>4, <1>5 DEF Check

(* The insert adds an invoice that is apart from those there are.          *)
LEMMA InsertKeeps ==
    ASSUME BillInv, NEW t \in Threads, Insert(t)
    PROVE  BillInv'
<1> DEFINE me == thread[t]
           n == Len(invoices)
           new == [org |-> me.org, start |-> me.start, end |-> me.end,
                   jobs |-> me.jobs, receipts |-> me.receipts, amount |-> me.amount,
                   clean |-> me.clean, prices |-> me.prices, status |-> "draft"]
<1>1. /\ ThreadFits(me) /\ me.at = "insert" /\ t \in lock
      /\ \A i \in 1 .. n : Apart(invoices[i], me)
  BY DEF BillInv, Insert
<1>2. now' = now /\ job' = job /\ lock' = lock \ {t}
  BY DEF Insert
<1>3. PICK i : Become(t, Made(me, i))
  BY DEF Insert
<1>4. ThreadFits(Made(me, i)) /\ Made(me, i).at # "insert"
  BY <1>1, MadeFits
<1>5. CASE invoices' = invoices
  BY <1>2, <1>3, <1>4, <1>5, ThreadMoves
<1>6. CASE invoices' = Append(invoices, new)
  <2> DEFINE r == Made(me, i)
  <2>0. Become(t, r) /\ ThreadFits(r) /\ r.at # "insert"
    BY <1>3, <1>4
  <2>1. n \in Nat /\ invoices = [k \in 1 .. n |-> invoices[k]]
    BY DEF BillInv
  <2>2. IsInvoice(new) /\ new.org = me.org /\ new.start = me.start /\ new.end = me.end
        /\ new.jobs = me.jobs /\ new.receipts = me.receipts
    BY DEF IsInvoice
  <2> HIDE DEF me, r, n, new
  <2>3. OfPeriod(new) /\ new.start \in Int /\ new.end \in Int
    BY <1>1, <2>2 DEF ThreadFits, OfPeriod
  <2>4. /\ Len(invoices') = n + 1 /\ invoices'[n + 1] = new
        /\ \A k \in 1 .. n : invoices'[k] = invoices[k]
        /\ invoices' = [k \in 1 .. (n + 1) |-> invoices'[k]]
    <3> DEFINE S == {invoices[k] : k \in 1 .. n} \union {new}
    <3>1. invoices \in [1 .. n -> S] /\ new \in S
      BY <2>1
    <3> HIDE DEF S
    <3>2. invoices \in Seq(S)
      BY <2>1, <3>1
    <3>3. Append(invoices, new) \in Seq(S) /\ Len(Append(invoices, new)) = n + 1
      BY <3>1, <3>2 DEF n
    <3>4. /\ Append(invoices, new)[n + 1] = new
          /\ \A k \in 1 .. n : Append(invoices, new)[k] = invoices[k]
      BY <3>1, <3>2 DEF n
    <3>5. \A w \in Seq(S) : Len(w) = n + 1 => w = [k \in 1 .. (n + 1) |-> w[k]]
      OBVIOUS
    <3>6. QED
      BY <1>6, <3>3, <3>4, <3>5
  <2>5. \A k \in 1 .. (n + 1) : k # n + 1 => k \in 1 .. n
    BY <2>1
  <2>6. \A k \in 1 .. n : Apart(invoices[k], new) /\ Apart(new, invoices[k])
    BY <1>1, <2>2 DEF Apart
  <2>7. \A q : OfPeriod(q) => OfPeriod(q)'
    BY <1>2 DEF OfPeriod
  <2>8. \A k \in 1 .. (n + 1) : /\ IsInvoice(invoices'[k]) /\ OfPeriod(invoices[k])'
                                /\ invoices'[k].start \in Int /\ invoices'[k].end \in Int
    <3>1. ASSUME NEW k \in 1 .. n PROVE OfPeriod(invoices[k])'
      BY SMTT(30), <1>2, <2>4, <3>1 DEF OfPeriod, BillInv, n
    <3>2. ASSUME NEW k \in 1 .. (n + 1), k = n + 1 PROVE OfPeriod(invoices[k])'
      BY <1>2, <2>3, <2>4, <3>2 DEF OfPeriod
    <3>3. QED
      BY <2>2, <2>3, <2>4, <2>5, <3>1, <3>2 DEF BillInv, n
  <2>9. \A k, l \in 1 .. (n + 1) : k # l => Apart(invoices'[k], invoices'[l])
    BY <2>4, <2>5, <2>6 DEF BillInv, n
  <2>10. DOMAIN thread' = Threads /\ thread'[t] = r /\ \A u \in Threads \ {t} : thread'[u] = thread[u]
    BY <2>0 DEF BillInv, Become
  <2>11. \A u \in Threads : ThreadFits(thread[u])'
    BY <1>2, <2>0, <2>7, <2>10 DEF BillInv, ThreadFits
  <2>12. \A u \in Threads : thread'[u].at # "insert"
    BY <1>1, <2>0, <2>10 DEF BillInv
  <2>13. QED
    BY <1>2, <2>1, <2>4, <2>8, <2>9, <2>10, <2>11, <2>12 DEF BillInv
<1>7. QED
  BY <1>5, <1>6 DEF Insert

-----------------------------------------------------------------------------
(* Finalizing and paying changes the status of an invoice, and no more.    *)

LEMMA MarkKeeps ==
    ASSUME BillInv, NEW t \in Threads, Mark(t)
    PROVE  BillInv'
<1> DEFINE me == thread[t]
           n == Len(invoices)
           r == Leave(me)
<1>1. ThreadFits(r) /\ r.at # "insert"
  BY LeaveFits DEF BillInv
<1>2. /\ now' = now /\ job' = job /\ lock' = lock /\ Become(t, r)
      /\ invoices' = [invoices EXCEPT ![me.inv].status = me.mark]
  BY DEF Mark
<1>3. n \in Nat /\ invoices = [k \in 1 .. n |-> invoices[k]]
  BY DEF BillInv
<1> HIDE DEF n, r
<1>4. DOMAIN thread' = Threads /\ thread'[t] = r /\ \A u \in Threads \ {t} : thread'[u] = thread[u]
  BY <1>2 DEF BillInv, Become
<1> HIDE DEF me
<1>5. invoices' = [k \in 1 .. n |-> IF k = me.inv THEN [invoices[k] EXCEPT !.status = me.mark]
                                    ELSE invoices[k]]
  BY <1>2, <1>3
<1>6. Len(invoices') = n
  BY <1>3, <1>5
<1>7. \A k \in 1 .. n : /\ IsInvoice(invoices'[k]) /\ invoices'[k].org = invoices[k].org
                        /\ invoices'[k].start = invoices[k].start /\ invoices'[k].end = invoices[k].end
                        /\ invoices'[k].jobs = invoices[k].jobs
                        /\ invoices'[k].receipts = invoices[k].receipts
  <2>1. \A k \in 1 .. n : IsInvoice(invoices[k])
    BY DEF BillInv, n
  <2>2. ASSUME NEW k \in 1 .. n PROVE
            LET x == [invoices[k] EXCEPT !.status = me.mark] IN
            /\ IsInvoice(x) /\ x.org = invoices[k].org /\ x.start = invoices[k].start
            /\ x.end = invoices[k].end /\ x.jobs = invoices[k].jobs
            /\ x.receipts = invoices[k].receipts
    BY <2>1 DEF IsInvoice
  <2>3. QED
    BY <1>5, <2>1, <2>2
<1>8. \A k \in 1 .. n : OfPeriod(invoices[k])'
  <2>1. \A k \in 1 .. n : OfPeriod(invoices[k])
    BY DEF BillInv, n
  <2>2. QED
    BY <1>2, <1>7, <2>1 DEF OfPeriod
<1>9. \A u \in Threads : ThreadFits(thread[u])'
  <2>1. \A q : OfPeriod(q) => OfPeriod(q)'
    BY <1>2 DEF OfPeriod
  <2>2. QED
    BY <1>1, <1>4, <2>1 DEF BillInv, ThreadFits
<1>10. \A k, l \in 1 .. n : k # l => Apart(invoices'[k], invoices'[l])
  BY SMTT(30), <1>7 DEF BillInv, Apart, n
<1>11. \A u \in Threads : thread'[u].at = "insert" =>
          u \in lock' /\ \A k \in 1 .. n : Apart(invoices'[k], thread'[u])
  <2>1. ASSUME NEW u \in Threads, thread'[u].at = "insert" PROVE thread'[u] = thread[u]
    BY <1>1, <1>4, <2>1
  <2>2. ASSUME NEW u \in Threads, thread[u].at = "insert", NEW k \in 1 .. n
        PROVE  u \in lock /\ Apart(invoices[k], thread[u])
    BY <2>2 DEF BillInv, n
  <2>3. ASSUME NEW u \in Threads, thread[u].at = "insert" PROVE u \in lock
    BY <2>3 DEF BillInv
  <2>4. \A k \in 1 .. n : \A q : Apart(invoices[k], q) => Apart(invoices'[k], q)
    BY <1>7 DEF Apart
  <2>5. QED
    BY <1>2, <2>1, <2>2, <2>3, <2>4
<1>12. \A k \in 1 .. n : invoices'[k].start \in Int /\ invoices'[k].end \in Int
  BY <1>7 DEF BillInv, n
<1>13. invoices' = [k \in 1 .. n |-> invoices'[k]]
  BY <1>5
<1>14. QED
  BY ZenonT(40), <1>2, <1>3, <1>4, <1>6, <1>7, <1>8, <1>9, <1>10, <1>11, <1>12, <1>13 DEF BillInv

(* A thread that starts something which makes no invoice.                  *)
LEMMA OtherWork ==
    ASSUME BillInv, NEW t \in Threads, NEW r, Become(t, r), IsThread(r), r.months \in Seq(Int),
           r.at \in {"read", "mark", "record", "save"},
           now' = now, job' = job, invoices' = invoices, lock' = lock
    PROVE  BillInv'
<1>1. ThreadFits(r) /\ r.at # "insert"
  BY DEF ThreadFits
<1>2. QED
  BY <1>1, ThreadMoves

LEMMA FinalizeKeeps ==
    ASSUME BillInv, NEW t \in Threads, NEW i, Finalize(t, i) \/ Pay(t, i)
    PROVE  BillInv'
<1> DEFINE r == [Idle EXCEPT !.at = "read", !.inv = i]
           q == [Idle EXCEPT !.at = "mark", !.inv = i, !.mark = "paid"]
<1>1. /\ Become(t, r) \/ Become(t, q)
      /\ now' = now /\ job' = job /\ invoices' = invoices /\ lock' = lock
  BY DEF Finalize, Pay, books
<1>2. IsThread(r) /\ r.at = "read" /\ r.months = <<>>
  BY DEF IsThread, Idle
<1>3. IsThread(q) /\ q.at = "mark" /\ q.months = <<>>
  BY DEF IsThread, Idle
<1> HIDE DEF r, q
<1>4. <<>> \in Seq(Int)
  OBVIOUS
<1>5. QED
  BY <1>1, <1>2, <1>3, <1>4, OtherWork

LEMMA ReadDraftKeeps ==
    ASSUME BillInv, NEW t \in Threads, ReadDraft(t)
    PROVE  BillInv'
<1> DEFINE me == thread[t]
<1>1. ThreadFits(me)
  BY DEF BillInv
<1>2. now' = now /\ job' = job /\ invoices' = invoices /\ lock' = lock
  BY DEF ReadDraft, books
<1>3. ASSUME NEW result, Become(t, [me EXCEPT !.at = "mark", !.mark = result]) PROVE BillInv'
  <2> DEFINE r == [me EXCEPT !.at = "mark", !.mark = result]
  <2>1. Become(t, r)
    BY <1>3
  <2> HIDE DEF me
  <2>2. IsThread(r) /\ r.at = "mark" /\ r.months = me.months
    BY <1>1 DEF IsThread, ThreadFits
  <2> HIDE DEF r
  <2>3. me.months \in Seq(Int)
    BY <1>1 DEF ThreadFits
  <2>4. QED
    BY <1>2, <2>1, <2>2, <2>3, OtherWork
<1>4. CASE Become(t, Leave(me))
  <2>1. ThreadFits(Leave(me)) /\ Leave(me).at # "insert"
    BY <1>1, LeaveFits
  <2>2. QED
    BY <1>2, <1>4, <2>1, ThreadMoves
<1>5. QED
  BY <1>3, <1>4 DEF ReadDraft

LEMMA ChangeKeeps ==
    ASSUME BillInv, NEW t \in Threads, NEW s, NEW value, Change(t, s, value)
    PROVE  BillInv'
<1> DEFINE r == [Idle EXCEPT !.at = "record", !.subject = s, !.previous = current[s]]
<1>1. Become(t, r) /\ now' = now /\ job' = job /\ invoices' = invoices /\ lock' = lock
  BY DEF Change
<1>2. IsThread(r) /\ r.at = "record" /\ r.months = <<>>
  BY DEF IsThread, Idle
<1> HIDE DEF r
<1>3. <<>> \in Seq(Int)
  OBVIOUS
<1>4. QED
  BY <1>1, <1>2, <1>3, OtherWork

LEMMA RecordKeeps ==
    ASSUME BillInv, NEW t \in Threads, Record(t)
    PROVE  BillInv'
<1> DEFINE me == thread[t]
           rows == IF history[me.subject] # <<>> THEN history[me.subject]
                   ELSE <<[when |-> Never, value |-> me.previous]>>
           r == [me EXCEPT !.at = "save", !.rows = rows]
<1>1. ThreadFits(me)
  BY DEF BillInv
<1>2. Become(t, r) /\ now' = now /\ job' = job /\ invoices' = invoices /\ lock' = lock
  BY DEF Record, books
<1> HIDE DEF me, rows
<1>3. IsThread(r) /\ r.at = "save" /\ r.months = me.months
  BY <1>1 DEF IsThread, ThreadFits
<1> HIDE DEF r
<1>4. me.months \in Seq(Int)
  BY <1>1 DEF ThreadFits
<1>5. QED
  BY <1>2, <1>3, <1>4, OtherWork

LEMMA SaveKeeps ==
    ASSUME BillInv, NEW t \in Threads, Save(t)
    PROVE  BillInv'
<1>1. Become(t, Idle) /\ now' = now /\ job' = job /\ invoices' = invoices /\ lock' = lock
  BY DEF Save
<1>2. ThreadFits(Idle) /\ Idle.at # "insert"
  BY IdleFits
<1>3. QED
  BY <1>1, <1>2, ThreadMoves

-----------------------------------------------------------------------------
(* Failures, time and the jobs.                                            *)

LEMMA RaisesKeeps ==
    ASSUME BillInv, NEW t \in Threads, Raises(t)
    PROVE  BillInv'
<1>1. /\ Become(t, Leave(thread[t])) /\ now' = now /\ job' = job /\ invoices' = invoices
      /\ lock' = lock \ {t}
  BY DEF Raises, books
<1>2. ThreadFits(Leave(thread[t])) /\ Leave(thread[t]).at # "insert"
  BY LeaveFits DEF BillInv
<1>3. QED
  BY <1>1, <1>2, ThreadMoves

LEMMA CrashKeeps ==
    ASSUME BillInv, NEW p \in Procs, Crash(p)
    PROVE  BillInv'
<1>1. /\ now' = now /\ job' = job /\ invoices' = invoices
      /\ thread' = [t \in Threads |-> IF t[1] = p THEN Idle ELSE thread[t]]
      /\ lock' = {t \in lock : t[1] # p}
  BY DEF Crash, books
<1>2. \A q : OfPeriod(q) => OfPeriod(q)'
  BY <1>1 DEF OfPeriod
<1>3. DOMAIN thread' = Threads /\ \A u \in Threads : ThreadFits(thread[u])'
  BY <1>1, <1>2, IdleFits DEF BillInv, ThreadFits
<1>4. \A u \in Threads : thread'[u].at = "insert" =>
          u \in lock' /\ \A i \in 1 .. Len(invoices') : Apart(invoices'[i], thread'[u])
  BY <1>1, IdleFits DEF BillInv
<1>5. \A i \in 1 .. Len(invoices) : OfPeriod(invoices[i])'
  BY <1>1, <1>2 DEF BillInv
<1>6. QED
  BY <1>1, <1>3, <1>4, <1>5 DEF BillInv

(* A completed job, with its times, stays as it is.                        *)
LEMMA JobStepKeeps ==
    ASSUME BillInv, NEW j \in Jobs, JobStep(j)
    PROVE  BillInv'
<1>1. now' = now /\ invoices' = invoices /\ thread' = thread /\ lock' = lock
  BY DEF JobStep
<1>2. /\ job' \in [Jobs -> JobRecs]
      /\ \A i \in Jobs : job[i].at = "completed" => job'[i] = job[i]
  <2>1. job \in [Jobs -> JobRecs] /\ now \in Int
    BY DEF BillInv
  <2>2. QED
    BY <2>1 DEF JobStep, JobRecs
<1>3. \A i \in 1 .. Len(invoices) : OfPeriod(invoices[i])'
  BY SMTT(30), <1>1, <1>2 DEF BillInv, OfPeriod
<1>4. \A u \in Threads : ThreadFits(thread[u])'
  BY <1>1, <1>2 DEF BillInv, ThreadFits, OfPeriod
<1>5. QED
  BY <1>1, <1>2, <1>3, <1>4 DEF BillInv

(* Nothing but the clock, or nothing at all.                               *)
LEMMA ClockKeeps ==
    ASSUME BillInv, now' \in Nat, job' = job, invoices' = invoices, thread' = thread, lock' = lock
    PROVE  BillInv'
<1>1. \A i \in 1 .. Len(invoices) : OfPeriod(invoices[i])'
  BY DEF BillInv, OfPeriod
<1>2. \A u \in Threads : ThreadFits(thread[u])'
  BY DEF BillInv, ThreadFits, OfPeriod
<1>3. QED
  BY <1>1, <1>2 DEF BillInv

-----------------------------------------------------------------------------
LEMMA BillInit == Init => BillInv
<1> SUFFICES ASSUME Init PROVE BillInv
  OBVIOUS
<1>1. now \in Nat /\ lock = {} /\ invoices = <<>>
  BY DEF Init
<1>2. job \in [Jobs -> JobRecs]
  BY DEF Init, JobRecs, Never
<1>3. DOMAIN thread = Threads /\ \A t \in Threads : thread[t] = Idle
  BY DEF Init
<1>4. Len(invoices) = 0 /\ invoices = [i \in 1 .. Len(invoices) |-> invoices[i]]
  BY <1>1
<1>5. QED
  BY <1>1, <1>2, <1>3, <1>4, IdleFits DEF BillInv

LEMMA BillNext == OneProcess /\ BillInv /\ [Next]_vars => BillInv'
<1> SUFFICES ASSUME OneProcess, BillInv, [Next]_vars PROVE BillInv'
  OBVIOUS
<1>1. CASE Tick
  <2>1. now' \in Nat /\ job' = job /\ invoices' = invoices /\ thread' = thread /\ lock' = lock
    BY <1>1 DEF Tick, books, BillInv
  <2>2. QED
    BY <2>1, ClockKeeps
<1>2. ASSUME NEW j \in Jobs, JobStep(j) PROVE BillInv'
  BY <1>2, JobStepKeeps
<1>3. ASSUME NEW p \in Procs, RunOnce(p) \/ Crash(p) PROVE BillInv'
  BY <1>3, RunOnceKeeps, CrashKeeps
<1>4. ASSUME NEW t \in Threads, ThreadStep(t) PROVE BillInv'
  BY <1>4, VisitMonthKeeps, VisitOrgKeeps, MeasureKeeps, PriceKeeps, CheckKeeps, InsertKeeps,
     ReadDraftKeeps, MarkKeeps, RecordKeeps, SaveKeeps DEF ThreadStep
<1>5. ASSUME NEW t \in Threads, Staff(t) PROVE BillInv'
  <2>1. ASSUME NEW prices \in Pricings, SetPricing(t, prices) PROVE BillInv'
    <3>1. now' \in Nat /\ job' = job /\ invoices' = invoices /\ thread' = thread /\ lock' = lock
      BY <2>1 DEF SetPricing, BillInv
    <3>2. QED
      BY <3>1, ClockKeeps
  <2>2. QED
    BY <1>5, <2>1, GenerateKeeps, FinalizeKeeps, ChangeKeeps DEF Staff
<1>6. ASSUME NEW t \in Threads, Raises(t) PROVE BillInv'
  BY <1>6, RaisesKeeps
<1>7. CASE UNCHANGED vars
  <2>1. now' \in Nat /\ job' = job /\ invoices' = invoices /\ thread' = thread /\ lock' = lock
    BY <1>7 DEF vars, BillInv
  <2>2. QED
    BY <2>1, ClockKeeps
<1>8. QED
  BY <1>1, <1>2, <1>3, <1>4, <1>5, <1>6, <1>7 DEF Next

(* Usage of one period and one organization is on one invoice.             *)
LEMMA ApartIsOnce == BillInv => BilledOnce
<1> SUFFICES ASSUME BillInv, NEW i \in 1 .. Len(invoices), NEW k \in 1 .. Len(invoices), i # k
             PROVE  /\ invoices[i].jobs \intersect invoices[k].jobs = {}
                    /\ invoices[i].receipts \intersect invoices[k].receipts = {}
  <2>1. BillInv => DOMAIN invoices = 1 .. Len(invoices)
    BY DEF BillInv
  <2>2. QED
    BY <2>1 DEF BilledOnce, Ids
<1> DEFINE r == invoices[i]
           q == invoices[k]
<1>1. /\ Apart(r, q) /\ OfPeriod(r) /\ OfPeriod(q)
      /\ r.start \in Int /\ r.end \in Int /\ q.start \in Int /\ q.end \in Int
      /\ job \in [Jobs -> JobRecs]
  BY DEF BillInv
<1> HIDE DEF r, q
<1>2. \A j \in Jobs : job[j].completed \in Int /\ job[j].uploaded \in Int
  BY <1>1 DEF JobRecs
<1>3. \A a, b, c, d, x \in Int : x \in a .. (b - 1) /\ x \in c .. (d - 1) => a < d /\ b > c
  OBVIOUS
<1>4. ASSUME NEW j \in r.jobs, j \in q.jobs PROVE FALSE
  <2>1. /\ j \in Jobs /\ r.org = q.org /\ job[j].completed \in r.start .. (r.end - 1)
        /\ job[j].completed \in q.start .. (q.end - 1)
    BY SMTT(30), <1>1, <1>4 DEF OfPeriod
  <2>2. r.start < q.end /\ r.end > q.start
    BY <1>1, <1>2, <1>3, <2>1
  <2>3. QED
    BY <1>1, <2>1, <2>2 DEF Apart
<1>5. ASSUME NEW j \in r.receipts, j \in q.receipts PROVE FALSE
  <2>1. /\ j \in Jobs /\ r.org = q.org /\ job[j].uploaded \in r.start .. (r.end - 1)
        /\ job[j].uploaded \in q.start .. (q.end - 1)
    BY <1>1, <1>5 DEF OfPeriod
  <2>2. r.start < q.end /\ r.end > q.start
    BY <1>1, <1>2, <1>3, <2>1
  <2>3. QED
    BY <1>1, <2>1, <2>2 DEF Apart
<1>6. QED
  BY <1>4, <1>5 DEF r, q

(* "An organization can't be billed twice for the same time": with one     *)
(* process on the database, whatever the automation, staff, exceptions and *)
(* crashes do, and however their steps interleave, no job and no receipt   *)
(* is on two invoices. With two processes it is not so: the check and the  *)
(* insert are one transaction of a process, not of the database.           *)
THEOREM NothingBilledTwice ==
    ASSUME OneProcess
    PROVE  Spec => []BilledOnce
<1>1. BillInv /\ [Next]_vars => BillInv'
  BY BillNext
<1>2. QED
  BY <1>1, BillInit, ApartIsOnce, PTL DEF Spec
=============================================================================
