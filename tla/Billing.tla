------------------------------ MODULE Billing ------------------------------
(***************************************************************************)
(* Invoicing: usage of ended periods becomes draft invoices, made by the   *)
(* automation's monthly run (billing/automation.py) or by staff            *)
(* (management_layer.py), priced by the terms that applied when the period *)
(* started (billing/terms_history.py), then finalized and paid             *)
(* (billing/invoicing.py, persistence/repositories/billing.py).            *)
(*                                                                         *)
(* Several coordinator processes may share the database.  In each, the     *)
(* automation has one thread ("auto") and the dashboard serves one request *)
(* at a time ("desk"); every thread reads, computes and writes in separate *)
(* statements, and only the overlap check of create is under the process's *)
(* database lock together with the insert it guards.                       *)
(*                                                                         *)
(* Time is counted in units, two to a calendar month.  Something that      *)
(* happens in unit t happens after the instant t at which the unit begins. *)
(* Money is exact in tenths of a cent; an invoice is in cents.             *)
(***************************************************************************)
EXTENDS Integers, Sequences, FiniteSets, FiniteSetsExt

CONSTANTS
    Orgs, Jobs,    \* organizations and jobs
    OrgOf,         \* the organization of a job
    Reported,      \* the runtime a job's result reports, negative if it is unusable
    Timeout,       \* the runtime a job may have
    OwnWorker,     \* jobs that ran on a worker of their own organization
    Genuine,       \* jobs whose receipt could be stored and has a signature that checks out
    Ended,         \* jobs that were completed, with a receipt, in unit 0
    Periods,       \* periods that staff ask an invoice for
    Providers,     \* the configurations of the payment provider
    Pricings,      \* price schedules for usage: a second in the pool, on own workers, a receipt, in tenths of a cent
    Joined,        \* the unit in which an organization joined, -1: before all units
    Plans,         \* plan labels
    Tables,        \* price tables, [plan -> [fee, included]] in cents
    FirstPlan, FirstTable, FirstPricing,
    Procs,         \* coordinator processes on one database
    Catchup,       \* GCON_BILLING_CATCHUP_MONTHS
    MaxTime,       \* bound: units
    MaxStaff,      \* bound: requests of staff
    MaxFaults      \* bound: exceptions and crashes

ASSUME BoundsAreNumbers ==
    {Catchup, MaxTime, MaxStaff, MaxFaults, Timeout} \subseteq Nat
ASSUME PricesAreNumbers == Pricings \subseteq [rate : Nat, own : Nat, receipt : Nat]
ASSUME StartIsKnown == FirstPlan \in Plans /\ FirstTable \in Tables /\ FirstPricing \in Pricings
ASSUME PeriodsAreUnits == Periods \subseteq Nat \X Nat
ASSUME JobsAreKnown == OwnWorker \subseteq Jobs /\ Genuine \subseteq Jobs /\ Ended \subseteq Jobs

Threads == Procs \X {"auto", "desk"}
Subjects == Orgs \union {"prices"}
None == 0
Never == -1

VARIABLES
    now,       \* the unit it is
    job,       \* jobs: how far its end has been recorded, completed_at, receipt's uploaded_at
    current,   \* each organization's plan, and the price table
    pricing,   \* the price schedule for usage, which has no history
    history,   \* settings billing_history:<subject>
    invoices,  \* table invoices
    thread,    \* what each thread is doing
    lock,      \* the thread that holds its process's database lock
    provider,  \* GCON_PAYMENT_PROVIDER, and GCON_BILLING_AUTO_FINALIZE
    inForce,   \* history: what each subject was when each month began
    torn,      \* history: subjects whose change a crash cut in two
    spent      \* how much of each bound is used

vars == <<now, job, current, pricing, history, invoices, thread, lock, provider, inForce, torn, spent>>
books == <<job, current, pricing, history, invoices>>

\* A thread at rest.  The fields: the months and organizations a run still has to
\* visit; the invoice in the making; the invoice in hand and its next status; the
\* change of a subject in the making.
Idle == [at |-> "idle", months |-> <<>>, orgs |-> {}, org |-> "none", start |-> 0, end |-> 0,
         jobs |-> {}, receipts |-> {}, amount |-> 0, clean |-> TRUE, prices |-> FirstPricing,
         inv |-> None, mark |-> "none", subject |-> "none", previous |-> "none", rows |-> <<>>]

Init ==
    /\ now = 1
    /\ job = [j \in Jobs |-> IF j \in Ended THEN [at |-> "completed", completed |-> 0, uploaded |-> 0]
                              ELSE [at |-> "running", completed |-> Never, uploaded |-> Never]]
    /\ current = [s \in Subjects |-> IF s = "prices" THEN FirstTable ELSE FirstPlan]
    /\ pricing = FirstPricing
    /\ history = [s \in Subjects |-> <<>>]
    /\ invoices = <<>>
    /\ thread = [t \in Threads |-> Idle]
    /\ lock = {}
    /\ provider \in Providers
    /\ inForce = [s \in Subjects |-> <<{current[s]}>>]
    /\ torn = {}
    /\ spent = [staff |-> 0, faults |-> 0]

Spend(what, bound) == spent[what] < bound /\ spent' = [spent EXCEPT ![what] = @ + 1]
Become(t, state) == thread' = [thread EXCEPT ![t] = state]
Ids == DOMAIN invoices

---------------------------------------------------------------------------
(* Time and the jobs.                                                       *)

MonthStart(m) == 2 * m
Changing(s) == {t \in Threads : thread[t].at \in {"record", "save"} /\ thread[t].subject = s}

\* The clock; at the start of a month, note what is in force.
Tick ==
    /\ now < MaxTime
    /\ now' = now + 1
    /\ inForce' = IF now' % 2 = 1 THEN inForce
                  ELSE [s \in Subjects |-> Append(inForce[s],
                           {current[s]} \union {thread[t].previous : t \in Changing(s)})]
    /\ UNCHANGED <<books, thread, lock, provider, torn, spent>>

\* A job ends: its receipt is stored, then set_status takes the time for
\* completed_at, and writes the row.
JobStep(j) ==
    /\ \/ job[j].at = "running" /\ job' = [job EXCEPT ![j].at = "stored", ![j].uploaded = now]
       \/ job[j].at = "stored" /\ job' = [job EXCEPT ![j].at = "stamped", ![j].completed = now]
       \/ job[j].at = "stamped" /\ job' = [job EXCEPT ![j].at = "completed"]
    /\ UNCHANGED <<now, current, pricing, history, invoices, thread, lock, provider, inForce, torn, spent>>

---------------------------------------------------------------------------
(* The content of an invoice.                                               *)

\* _jobs_for_period, and the receipts of a period that validate_receipts keeps
JobsFor(o, start, end) ==
    {j \in Jobs : OrgOf[j] = o /\ job[j].at = "completed" /\ job[j].completed \in start..(end - 1)}
ReceiptsFor(o, start, end) ==
    {j \in Genuine : OrgOf[j] = o /\ job[j].at = "completed" /\ job[j].uploaded \in start..(end - 1)}

\* _cents: halves are rounded up
Cents(tenths) == (tenths + 5) \div 10

\* _clean_runtime: nothing for an unusable runtime, and never more than was allowed
Seconds(j) == IF Reported[j] < 0 THEN 0 ELSE IF Reported[j] > Timeout THEN Timeout ELSE Reported[j]
AllSeconds(jobs) == MapThenSumSet(Seconds, jobs)

\* measure_jobs and build_line_items: compute, by where it ran when the rates differ, and
\* the receipts, each exact; a line of nothing is left out
BuildLines(jobs, receipts, prices) ==
    LET own == AllSeconds(jobs \intersect OwnWorker)
        pool == AllSeconds(jobs \ OwnWorker)
        apart == prices.own # prices.rate
    IN  [pool |-> IF apart THEN pool * prices.rate ELSE (pool + own) * prices.rate,
         own |-> IF apart THEN own * prices.own ELSE 0,
         receipts |-> Cardinality(receipts) * prices.receipt]

\* with_rounding_adjustment: every line is in cents, and one more makes their total the
\* exact sum rounded once
WithRounding(line) ==
    LET printed == Cents(line.pool) + Cents(line.own) + Cents(line.receipts) IN
    printed + (Cents(line.pool + line.own + line.receipts) - printed)

\* with_included_usage: a credit of at most what the usage costs
WithIncluded(usage, included) == usage - (IF included < usage THEN included ELSE usage)

\* with_plan_fee: after the credit, which never offsets the fee
WithFee(amount, fee) == amount + fee

\* _period_content, once the usage is read
Amount(jobs, receipts, prices, terms) ==
    WithFee(WithIncluded(WithRounding(BuildLines(jobs, receipts, prices)), terms.included), terms.fee)

\* No line at all, so nothing to invoice
NoLines(jobs, receipts, terms) == AllSeconds(jobs) = 0 /\ receipts = {} /\ terms.fee = 0

\* terms_history.value_at: the last value that took effect before the instant
ValueAt(s, instant) ==
    LET rows == history[s]
        before == {k \in DOMAIN rows : rows[k].when < instant}
    IN  IF rows = <<>> THEN current[s]
        ELSE IF before = {} THEN rows[1].value ELSE rows[Max(before)].value

\* is_calendar_month
CalendarMonth(start, end) == start % 2 = 0 /\ end = start + 2

\* invoice_terms: plan and prices of the first instant of the period; the fee only for
\* a whole month that the organization was a customer of from its first day
InvoiceTerms(o, start, end) ==
    LET price == ValueAt("prices", start)[ValueAt(o, start)] IN
    [included |-> price.included,
     fee |-> IF CalendarMonth(start, end) /\ Joined[o] < start THEN price.fee ELSE 0]

---------------------------------------------------------------------------
(* The automation's run, and the making of one invoice.                     *)

\* On to the next organization of the run, or to the end of the request.
Leave(me) == IF me.months = <<>> THEN Idle
             ELSE [Idle EXCEPT !.at = "org", !.months = me.months, !.orgs = me.orgs]

\* Mutant: only the month that has just ended
PreviousMonthsOne == IF now < 2 THEN <<>> ELSE <<MonthStart(now \div 2 - 1)>>

\* previous_months: the complete ones, oldest first; time begins with month 0
PreviousMonths ==
    LET this == now \div 2
        first == IF this > Catchup THEN this - Catchup ELSE 0
    IN  [k \in 1..(this - first) |-> MonthStart(first + k - 1)]

\* maybe_tick on the leader, or run_billing_now by staff on any process: one run of it at a time
RunOnce(p) ==
    /\ thread[<<p, "auto">>].at = "idle" /\ PreviousMonths # <<>>
    /\ Become(<<p, "auto">>, [Idle EXCEPT !.at = "month", !.months = PreviousMonths])
    /\ UNCHANGED <<now, books, lock, provider, inForce, torn, spent>>

\* Who has something to pay for a month: usage, or a fee (subscription_org_ids)
OrgsToInvoice(start) ==
    {o \in Orgs : JobsFor(o, start, start + 2) # {} \/ InvoiceTerms(o, start, start + 2).fee > 0}

\* The loop over the months
VisitMonth(t) ==
    /\ thread[t].at = "month"
    /\ Become(t, [thread[t] EXCEPT !.at = "org", !.orgs = OrgsToInvoice(Head(thread[t].months))])
    /\ UNCHANGED <<now, books, lock, provider, inForce, torn, spent>>

ForPeriod(o, start, end) ==
    {i \in Ids : invoices[i].org = o /\ invoices[i].start = start /\ invoices[i].end = end}

\* The automation goes on to finalize where that is switched on; a request is answered.
Made(me, i) == IF me.months # <<>> /\ provider.auto THEN [me EXCEPT !.at = "read", !.inv = i]
               ELSE Leave(me)

\* The loop over the organizations: the invoice there is already, or a new one
VisitOrg(t) ==
    /\ thread[t].at = "org"
    /\ LET me == thread[t]
           start == Head(me.months)
       IN  \/ /\ me.orgs = {}
              /\ Become(t, IF Tail(me.months) = <<>> THEN Idle
                           ELSE [Idle EXCEPT !.at = "month", !.months = Tail(me.months)])
           \/ \E o \in me.orgs :
                LET found == ForPeriod(o, start, start + 2)
                    next == [me EXCEPT !.orgs = @ \ {o}, !.org = o, !.start = start, !.end = start + 2]
                IN  Become(t, IF found = {} THEN [next EXCEPT !.at = "measure"]
                              ELSE Made(next, Max(found)))
    /\ UNCHANGED <<now, books, lock, provider, inForce, torn, spent>>

\* generate_invoice_now: any period that has ended
Generate(t, o, start, end) ==
    /\ t[2] = "desk" /\ thread[t].at = "idle" /\ start < end /\ end <= now
    /\ Spend("staff", MaxStaff)
    /\ Become(t, [Idle EXCEPT !.at = "measure", !.org = o, !.start = start, !.end = end])
    /\ UNCHANGED <<now, books, lock, provider, inForce, torn>>

\* generate_invoice loads the price schedule that is in force by now; then _period_content,
\* the usage
Measure(t) ==
    /\ thread[t].at = "measure"
    /\ LET me == thread[t] IN
       Become(t, [me EXCEPT !.at = "price", !.jobs = JobsFor(me.org, me.start, me.end),
                            !.receipts = ReceiptsFor(me.org, me.start, me.end),
                            !.prices = pricing])
    /\ UNCHANGED <<now, books, lock, provider, inForce, torn, spent>>

\* _period_content, the terms and the lines; the automation makes no empty invoice
Price(t) ==
    /\ thread[t].at = "price"
    /\ LET me == thread[t]
           terms == InvoiceTerms(me.org, me.start, me.end)
       IN  Become(t, IF me.months # <<>> /\ NoLines(me.jobs, me.receipts, terms) THEN Leave(me)
                     ELSE [me EXCEPT !.at = "check", !.amount = Amount(me.jobs, me.receipts, me.prices, terms),
                              !.clean = \A s \in {me.org, "prices"} : Changing(s) = {} /\ s \notin torn])
    /\ UNCHANGED <<now, books, lock, provider, inForce, torn, spent>>

\* _find_same_or_overlapping
Overlapping(o, start, end) ==
    {i \in Ids : invoices[i].org = o /\ invoices[i].start < end /\ invoices[i].end > start}


\* Mutant: the periods are compared before the transaction begins
CheckUnlocked(t) ==
    /\ thread[t].at = "check"
    /\ LET me == thread[t] IN
       IF Overlapping(me.org, me.start, me.end) = {}
         THEN Become(t, [me EXCEPT !.at = "insert"])
         ELSE Become(t, Leave(thread[t]))
    /\ UNCHANGED <<now, books, lock, provider, inForce, torn, spent>>

\* InvoiceRepository.create up to its check, in the transaction: the same period gives
\* the invoice there is, an overlapping one InvoiceOverlapError
Check(t) ==
    /\ thread[t].at = "check"
    /\ \A u \in lock : u[1] # t[1]
    /\ LET me == thread[t]
           same == ForPeriod(me.org, me.start, me.end)
       IN  IF Overlapping(me.org, me.start, me.end) = {}
             THEN Become(t, [me EXCEPT !.at = "insert"]) /\ lock' = lock \union {t}
             ELSE Become(t, IF same # {} THEN Made(me, Max(same)) ELSE Leave(thread[t])) /\ UNCHANGED lock
    /\ UNCHANGED <<now, books, provider, inForce, torn, spent>>

\* The insert, which UNIQUE (org, start, end) makes a lookup if another process was first
Insert(t) ==
    /\ thread[t].at = "insert"
    /\ LET me == thread[t]
           same == ForPeriod(me.org, me.start, me.end)
       IN  /\ invoices' = IF same # {} THEN invoices ELSE
                Append(invoices, [org |-> me.org, start |-> me.start, end |-> me.end,
                                  jobs |-> me.jobs, receipts |-> me.receipts, amount |-> me.amount,
                                  clean |-> me.clean, prices |-> me.prices, status |-> "draft"])
           /\ Become(t, Made(me, IF same # {} THEN Max(same) ELSE Len(invoices) + 1))
    /\ lock' = lock \ {t}
    /\ UNCHANGED <<now, job, current, pricing, history, provider, inForce, torn, spent>>

---------------------------------------------------------------------------
(* Finalizing and paying.                                                   *)

\* finalize_invoice_now
Finalize(t, i) ==
    /\ t[2] = "desk" /\ thread[t].at = "idle"
    /\ Spend("staff", MaxStaff)
    /\ Become(t, [Idle EXCEPT !.at = "read", !.inv = i])
    /\ UNCHANGED <<now, books, lock, provider, inForce, torn>>

\* What finalize_invoice does with a draft: nothing to pay, issued by hand, or charged
Outcomes(i) == IF invoices[i].amount <= 0 THEN {"paid"}
               ELSE IF provider.kind = "manual" THEN {"open"} ELSE {"paid", "failed"}

\* finalize_invoice up to the provider's answer: only a draft is finalized
ReadDraft(t) ==
    /\ thread[t].at = "read"
    /\ LET i == thread[t].inv IN
       IF invoices[i].status = "draft"
         THEN \E result \in Outcomes(i) : Become(t, [thread[t] EXCEPT !.at = "mark", !.mark = result])
         ELSE Become(t, Leave(thread[t]))
    /\ UNCHANGED <<now, books, lock, provider, inForce, torn, spent>>

\* record_manual_payment up to its check: only an issued invoice
Pay(t, i) ==
    /\ t[2] = "desk" /\ thread[t].at = "idle" /\ invoices[i].status \in {"open", "failed"}
    /\ Spend("staff", MaxStaff)
    /\ Become(t, [Idle EXCEPT !.at = "mark", !.inv = i, !.mark = "paid"])
    /\ UNCHANGED <<now, books, lock, provider, inForce, torn>>

\* mark_status, whatever the status is by now
Mark(t) ==
    /\ thread[t].at = "mark"
    /\ invoices' = [invoices EXCEPT ![thread[t].inv].status = thread[t].mark]
    /\ Become(t, Leave(thread[t]))
    /\ UNCHANGED <<now, job, current, pricing, history, lock, provider, inForce, torn, spent>>

---------------------------------------------------------------------------
(* Changes of a plan or of the prices.                                      *)

\* update_organization and set_plan_limits: the change takes effect ...
Change(t, s, value) ==
    /\ t[2] = "desk" /\ thread[t].at = "idle" /\ value # current[s]
    /\ Spend("staff", MaxStaff)
    /\ current' = [current EXCEPT ![s] = value]
    /\ Become(t, [Idle EXCEPT !.at = "record", !.subject = s, !.previous = current[s]])
    /\ UNCHANGED <<now, job, pricing, history, invoices, lock, provider, inForce, torn>>

\* Mutant: what was before the first change is not kept
RecordNoEpoch(t) ==
    /\ thread[t].at = "record"
    /\ Become(t, [thread[t] EXCEPT !.at = "save", !.rows = history[thread[t].subject]])
    /\ UNCHANGED <<now, books, lock, provider, inForce, torn, spent>>

\* ... record_change loads the history, which begins with what was before ...
Record(t) ==
    /\ thread[t].at = "record"
    /\ LET me == thread[t] IN
       Become(t, [me EXCEPT !.at = "save", !.rows =
           IF history[me.subject] # <<>> THEN history[me.subject]
           ELSE <<[when |-> Never, value |-> me.previous]>>])
    /\ UNCHANGED <<now, books, lock, provider, inForce, torn, spent>>

\* ... and stores it with the new value.
Save(t) ==
    /\ thread[t].at = "save"
    /\ LET me == thread[t] IN
       history' = [history EXCEPT ![me.subject] = Append(me.rows, [when |-> now, value |-> current[me.subject]])]
    /\ Become(t, Idle)
    /\ UNCHANGED <<now, job, current, pricing, invoices, lock, provider, inForce, torn, spent>>

\* set_pricing: any prices for usage, from now on; nothing records what they were
SetPricing(t, prices) ==
    /\ t[2] = "desk" /\ thread[t].at = "idle" /\ prices # pricing
    /\ Spend("staff", MaxStaff)
    /\ pricing' = prices
    /\ UNCHANGED <<now, job, current, history, invoices, thread, lock, provider, inForce, torn>>

---------------------------------------------------------------------------
(* Failures.                                                                *)

\* An exception while one invoice is made or finalized: the run goes on with the next
Raises(t) ==
    /\ thread[t].at \in {"measure", "price", "check", "insert", "read"}
    /\ Spend("faults", MaxFaults)
    /\ Become(t, Leave(thread[t]))
    /\ lock' = lock \ {t}
    /\ UNCHANGED <<now, books, provider, inForce, torn>>

\* A process dies: its transaction is rolled back, a change may stay half made
Crash(p) ==
    /\ \E t \in Threads : t[1] = p /\ thread[t].at # "idle"
    /\ Spend("faults", MaxFaults)
    /\ thread' = [t \in Threads |-> IF t[1] = p THEN Idle ELSE thread[t]]
    /\ lock' = {t \in lock : t[1] # p}
    /\ torn' = torn \union {s \in Subjects : \E t \in Changing(s) : t[1] = p}
    /\ UNCHANGED <<now, books, provider, inForce>>

---------------------------------------------------------------------------

ThreadStep(t) ==
    \/ VisitMonth(t) \/ VisitOrg(t) \/ Measure(t) \/ Price(t) \/ Check(t) \/ Insert(t)
    \/ ReadDraft(t) \/ Mark(t) \/ Record(t) \/ Save(t)

Staff(t) ==
    \/ \E o \in Orgs, period \in Periods : Generate(t, o, period[1], period[2])
    \/ \E i \in Ids : Finalize(t, i) \/ Pay(t, i)
    \/ \E o \in Orgs, plan \in Plans : Change(t, o, plan)
    \/ \E table \in Tables : Change(t, "prices", table)
    \/ \E prices \in Pricings : SetPricing(t, prices)

Next ==
    \/ Tick
    \/ \E j \in Jobs : JobStep(j)
    \/ \E p \in Procs : RunOnce(p) \/ Crash(p)
    \/ \E t \in Threads : ThreadStep(t) \/ Staff(t) \/ Raises(t)

\* Threads run, and the leader's health loop starts a run when one is due.
Fairness ==
    /\ \A t \in Threads : WF_vars(ThreadStep(t))
    /\ \A p \in Procs : WF_vars(RunOnce(p))

Spec == Init /\ [][Next]_vars /\ Fairness
---------------------------------------------------------------------------

\* No job and no receipt is ever on two invoices, whatever runs of the automation,
\* requests of staff, failures and restarts there are ("an organization can't be
\* billed twice for the same time", InvoiceRepository.create).
BilledOnce ==
    \A i, k \in Ids : i # k =>
        /\ invoices[i].jobs \intersect invoices[k].jobs = {}
        /\ invoices[i].receipts \intersect invoices[k].receipts = {}

\* What an invoice must ask for, said without lines: the exact usage rounded once, at one
\* price schedule, less the included usage but not below zero, plus the fee.
Exact(invoice) ==
    LET prices == invoice.prices IN
    prices.rate * AllSeconds(invoice.jobs \ OwnWorker)
    + prices.own * AllSeconds(invoice.jobs \intersect OwnWorker)
    + prices.receipt * Cardinality(invoice.receipts)
Due(invoice, price) ==
    LET usage == Cents(Exact(invoice))
        whole == CalendarMonth(invoice.start, invoice.end) /\ Joined[invoice.org] < invoice.start
    IN  (IF usage > price.included THEN usage - price.included ELSE 0) + (IF whole THEN price.fee ELSE 0)

\* The plan, and the plan's prices, that the amount of a month's invoice follows from were
\* in force when the month began.
FollowsMonth(invoice) ==
    LET month == invoice.start \div 2 + 1 IN
    \E plan \in inForce[invoice.org][month], table \in inForce["prices"][month] :
        invoice.amount = Due(invoice, table[plan])

\* An invoice for a whole month asks for the plan, at the plan's prices, that were in force
\* when the month began, however late it is made and whatever changed since, and for its
\* usage at one price schedule, the one in force when the invoice was made (set_pricing
\* keeps no history).  Left out: an invoice made while a change of its plan or of the plans'
\* prices is stored and not yet in the history, or after a crash between the two.
InvoiceIsRight ==
    \A i \in Ids : invoices[i].clean /\ CalendarMonth(invoices[i].start, invoices[i].end)
                       => FollowsMonth(invoices[i])

\* The same of every invoice for a whole month: "a change made today never reaches back to
\* periods that ended before it" (billing/terms_history.py).  The code does not keep this:
\* update_organization and set_plan_limits store the change before record_change does.
InvoiceIsAlwaysRight ==
    \A i \in Ids : CalendarMonth(invoices[i].start, invoices[i].end) => FollowsMonth(invoices[i])

\* A month with something to pay is invoiced in the end, or what there is of an invoice
\* of staff overlaps it: a failure, a restart only delays it.
MonthsInvoiced ==
    \A o \in Orgs, m \in 0..((MaxTime \div 2) - 1) :
        LET start == MonthStart(m) IN
        (/\ now >= start + 2
         /\ ~NoLines(JobsFor(o, start, start + 2), ReceiptsFor(o, start, start + 2),
                     InvoiceTerms(o, start, start + 2))
         /\ o \in OrgsToInvoice(start))
        ~> Overlapping(o, start, start + 2) # {}

=============================================================================
