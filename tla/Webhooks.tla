------------------------------ MODULE Webhooks ------------------------------
(***************************************************************************)
(* Webhook deliveries (transport/webhooks.py,                              *)
(* persistence/repositories/webhooks.py).  A job's end queues one row per  *)
(* callback and matching subscription; the dispatcher of every coordinator *)
(* process polls the same table, posts what is due and records the result, *)
(* each from the attempt count it read.  A row's secret is sealed with the *)
(* key of persistence/secret_box.py: `seal' is that key's generation, and  *)
(* a row of an older generation cannot be opened any more.                 *)
(***************************************************************************)
EXTENDS Trust

CONSTANTS Subs, Dispatchers,
          Leader,        \* the dispatcher of the process that restarts
          MaxAttempts,   \* GCON_WEBHOOK_MAX_ATTEMPTS
          CountCap       \* bound: attempt counts are not followed beyond it

ASSUME WebhooksAssumption ==
    /\ MaxAttempts \in Nat \ {0} /\ CountCap \in Nat
    /\ Leader \in Dispatchers

VARIABLES
    box,         \* the generation of the secrets key
    subs,        \* [Subs -> record]: webhook_subscriptions
    announce,    \* what a job thread inside dispatch_job_event has still to queue
    deliveries,  \* webhook_deliveries
    batch        \* [Dispatchers -> sequence of <<delivery, attempt_count read>>]

webhookVars == <<box, subs, announce, deliveries, batch>>

WebhooksInit ==
    /\ box = 1
    /\ subs = [s \in Subs |-> [active |-> FALSE, seal |-> 1]]
    /\ announce = <<>> /\ deliveries = <<>>
    /\ batch = [p \in Dispatchers |-> <<>>]

Quiet == UNCHANGED <<ring, rcpt, memoryVars, rows, marked, stake, loop>>

\* enqueue_delivery: due at once.
Enqueue ==
    deliveries' = Append(deliveries, [status |-> "pending", attempts |-> 0, due |-> TRUE,
                                      recent |-> FALSE, seal |-> box])

Active == {s \in Subs : subs[s].active}

\* dispatch_job_event: the job's own callback first, then the subscriptions.  A
\* job that has neither queues nothing.  (The load bounds the rows queued.)
Announce(callback) ==
    LET targets == Cardinality(Active) + IF callback THEN 1 ELSE 0
    IN /\ announce = <<>>
       /\ 0 < targets /\ targets <= spare.events
       /\ spare' = [spare EXCEPT !.events = @ - targets]
       /\ announce' = IF callback THEN <<"callback", "list">> ELSE <<"list">>
       /\ UNCHANGED <<box, subs, deliveries, batch>> /\ Quiet

\* list_for_org opens every secret and raises on the first it cannot open; the
\* caller logs that and nothing more is queued.
ListSubs ==
    /\ announce # <<>> /\ Head(announce) = "list"
    /\ announce' = IF \A s \in Active : subs[s].seal = box THEN [i \in 1..Cardinality(Active) |-> "sub"] ELSE <<>>
    /\ UNCHANGED <<spare, box, subs, deliveries, batch>> /\ Quiet

QueueOne ==
    /\ announce # <<>> /\ Head(announce) # "list"
    /\ Enqueue
    /\ announce' = Tail(announce)
    /\ UNCHANGED <<spare, box, subs, batch>> /\ Quiet

Subscribe(s) ==
    /\ ~subs[s].active
    /\ Spend("subs")
    /\ subs' = [subs EXCEPT ![s] = [active |-> TRUE, seal |-> box]]
    /\ UNCHANGED <<box, announce, deliveries, batch>> /\ Quiet

Deactivate(s) ==
    /\ subs[s].active
    /\ Spend("subs")
    /\ subs' = [subs EXCEPT ![s].active = FALSE]
    /\ UNCHANGED <<box, announce, deliveries, batch>> /\ Quiet

\* The secrets key is lost or changed.
LoseBox ==
    /\ Spend("faults")
    /\ box' = box + 1
    /\ UNCHANGED <<subs, announce, deliveries, batch>> /\ Quiet

-----------------------------------------------------------------------------
Due == {d \in DOMAIN deliveries : deliveries[d].status \in {"pending", "retrying"} /\ deliveries[d].due}

Failed(row) == [row EXCEPT !.status = "failed", !.due = FALSE, !.recent = TRUE]

\* due_deliveries: rows that cannot be opened fail on their own; the others are
\* taken with the attempt counts they have now.
Poll(p) ==
    /\ batch[p] = <<>> /\ Due # {}
    /\ LET sealed == {d \in Due : deliveries[d].seal # box}
           taken == SetToSortSeq(Due \ sealed, <)
       IN /\ deliveries' = [d \in DOMAIN deliveries |->
                              IF d \in sealed THEN Failed(deliveries[d]) ELSE deliveries[d]]
          /\ batch' = [batch EXCEPT ![p] = [i \in DOMAIN taken |-> <<taken[i], deliveries[taken[i]].attempts>>]]
    /\ UNCHANGED <<spare, box, subs, announce>> /\ Quiet

\* Mutant: the last attempt is the one whose number is exactly the maximum.
GiveUpExactly(success, read) == ~success /\ read + 1 = MaxAttempts

\* _attempt gives up from the count it read before it posted.
GiveUp(success, read) == ~success /\ read + 1 >= MaxAttempts

\* record_attempt writes the outcome over whatever the row says by now.
RecordAttempt(old, success, read) ==
    LET row == [old EXCEPT !.attempts = Least(@ + 1, CountCap)]
    IN IF success THEN [row EXCEPT !.status = "success", !.due = FALSE]
       ELSE IF GiveUp(success, read) THEN Failed(row)
       ELSE [row EXCEPT !.status = "retrying", !.due = FALSE]

\* _attempt: post the row, then record what came of it.
Attempt(p, success) ==
    /\ batch[p] # <<>>
    /\ LET d == Head(batch[p])[1]
       IN deliveries' = [deliveries EXCEPT ![d] = RecordAttempt(@, success, Head(batch[p])[2])]
    /\ batch' = [batch EXCEPT ![p] = Tail(@)]
    /\ UNCHANGED <<spare, box, subs, announce>> /\ Quiet

\* The back-off of a row passes.
Elapse(d) ==
    /\ deliveries[d].status = "retrying" /\ ~deliveries[d].due
    /\ deliveries' = [deliveries EXCEPT ![d].due = TRUE]
    /\ UNCHANGED <<spare, box, subs, announce, batch>> /\ Quiet

\* A failure leaves the window the alert rule looks at.
AgeOut(d) ==
    /\ deliveries[d].recent
    /\ deliveries' = [deliveries EXCEPT ![d].recent = FALSE]
    /\ UNCHANGED <<spare, box, subs, announce, batch>> /\ Quiet

\* What the leader had in hand is gone with it; the rows are not.
RestartWebhooks ==
    /\ announce' = <<>>
    /\ batch' = [batch EXCEPT ![Leader] = <<>>]
    /\ UNCHANGED <<box, subs, deliveries>>

WebhooksNext ==
    \/ (\E c \in BOOLEAN : Announce(c)) \/ ListSubs \/ QueueOne
    \/ (\E s \in Subs : Subscribe(s) \/ Deactivate(s)) \/ LoseBox
    \/ \E p \in Dispatchers : Poll(p) \/ (\E ok \in BOOLEAN : Attempt(p, ok))
    \/ \E d \in DOMAIN deliveries : Elapse(d) \/ AgeOut(d)

\* A dispatcher's thread loops for as long as its process lives, every post has
\* a timeout, and the clock moves on.
WebhooksFairness ==
    /\ WF_webhookVars(ListSubs \/ QueueOne)
    /\ \A p \in Dispatchers : WF_webhookVars(Poll(p) \/ (\E ok \in BOOLEAN : Attempt(p, ok)))
    /\ WF_webhookVars(\E d \in DOMAIN deliveries : Elapse(d))
    /\ WF_webhookVars(\E d \in DOMAIN deliveries : AgeOut(d))

-----------------------------------------------------------------------------
\* Two dispatchers may hold the same row and record over each other's outcome,
\* even put a delivered or given-up row back to retrying; still every queued
\* delivery ends as delivered or given up, and stays so.
DeliveriesSettle == <>[](\A d \in DOMAIN deliveries : deliveries[d].status \in {"success", "failed"})
=============================================================================
