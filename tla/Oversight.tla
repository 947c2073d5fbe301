----------------------------- MODULE Oversight -----------------------------
(***************************************************************************)
(* What the coordinator says about itself: cluster health                  *)
(* (monitoring/health_service.py), the alert rules and the incidents they  *)
(* open and resolve (monitoring/observability.py,                          *)
(* persistence/repositories/observability.py), over the receipts of module *)
(* Trust and the deliveries of module Webhooks.  `plant' is what the rules *)
(* read of the rest of the system.                                         *)
(***************************************************************************)
EXTENDS Webhooks

CONSTANTS Plants,      \* the conditions of the rest of the system that are explored
          Calm,        \* the one a behaviour starts in
          QueueWarn,   \* QUEUE_WARN_SIZE
          StorageWarn  \* STORAGE_WARN_PCT

ASSUME OversightAssumption == Calm \in Plants

VARIABLES plant,
          health,     \* _last_health_state
          incidents   \* [Rules -> record]: is one open, are resolved ones kept

oversightVars == <<plant, health, incidents>>
vars == <<trustVars, loop, webhookVars, oversightVars>>

-----------------------------------------------------------------------------
(***************************************************************************)
(* Health: seven checks, each on what the plant says.                      *)
(***************************************************************************)
CheckCoordinator(p) == p.alive /\ p.queued < QueueWarn
CheckScheduler(p) == p.alive /\ ~p.paused
CheckReceiptService(p) == p.reachable
CheckNodeRegistry(p) == p.active > 0 /\ p.offline = 0
CheckWorkers(p) == p.active + p.offline > 0 /\ p.offline = 0
CheckApi(p) == p.prompt
CheckStorage(p) == p.mounted /\ p.space >= StorageWarn

Healthy(p) ==
    [coordinator |-> CheckCoordinator(p), scheduler |-> CheckScheduler(p),
     receipt_service |-> CheckReceiptService(p), node_registry |-> CheckNodeRegistry(p),
     workers |-> CheckWorkers(p), api |-> CheckApi(p), storage |-> CheckStorage(p)]

Unhealthy(p) == {c \in DOMAIN Healthy(p) : ~Healthy(p)[c]}

\* compute: all checks pass, at least 60 % of them, or fewer.
HealthState(p) ==
    LET checks == Cardinality(DOMAIN Healthy(p))
        score == (100 * (checks - Cardinality(Unhealthy(p))) + checks \div 2) \div checks
    IN IF score = 100 THEN "healthy" ELSE IF score >= 60 THEN "degraded" ELSE "critical"

-----------------------------------------------------------------------------
(***************************************************************************)
(* Rules and incidents.                                                    *)
(***************************************************************************)
HealthRule ==
    [coordinator |-> "health_coordinator", scheduler |-> "health_scheduler",
     receipt_service |-> "health_receipt_service", api |-> "health_api", storage |-> "health_storage"]

\* webhook_summary: only failures within the window count.
FailedRecently == {d \in DOMAIN deliveries : deliveries[d].status = "failed" /\ deliveries[d].recent}

\* snapshot: what the rules read, from the plant and from the coordinator's own totals.
Snapshot ==
    [pending |-> plant.queued, workers_active |-> plant.active, aged |-> plant.aged,
     scheduler_on |-> ~plant.paused, receipts_unverified |-> count.bad,
     workers_quarantined |-> Cardinality(quarantined)]

\* evaluate_rules; the checks of workers and node registry have no rule.
Firing ==
    LET snap == Snapshot
        Fires == [no_workers |-> snap.pending > 0 /\ snap.workers_active = 0,
                  queue_age |-> snap.aged /\ snap.scheduler_on,
                  scheduler_paused |-> snap.pending > 0 /\ ~snap.scheduler_on,
                  receipts_unverified |-> snap.receipts_unverified > 0,
                  nodes_quarantined |-> snap.workers_quarantined > 0,
                  webhook_failures |-> FailedRecently # {}]
    IN {r \in DOMAIN Fires : Fires[r]} \cup {HealthRule[c] : c \in Unhealthy(plant) \cap DOMAIN HealthRule}

Rules == {HealthRule[c] : c \in DOMAIN HealthRule} \cup
         {"no_workers", "queue_age", "scheduler_paused", "receipts_unverified",
          "nodes_quarantined", "webhook_failures"}

Init ==
    /\ TrustInit /\ WebhooksInit
    /\ plant = Calm /\ health = "none"
    /\ incidents = [r \in Rules |-> [open |-> FALSE, past |-> FALSE]]

\* The first half of a health pass also notes the state of the cluster.
Sample ==
    /\ DrainTake
    /\ health' = HealthState(plant)
    /\ UNCHANGED <<plant, incidents, webhookVars>>

\* maybe_tick when its interval has not passed.
SkipTick ==
    /\ loop.pc = "tick"
    /\ loop' = Resting
    /\ UNCHANGED <<trustVars, webhookVars, oversightVars>>

\* maybe_tick: one snapshot, and the rules that fire in it.  The rules read one
\* thing each, so that reading them one after the other makes no difference.
Evaluate ==
    /\ loop.pc = "tick"
    /\ loop' = [loop EXCEPT !.pc = "open", !.firing = Firing, !.opening = SetToSeq(Firing)]
    /\ UNCHANGED <<trustVars, webhookVars, oversightVars>>

\* Mutant: an earlier incident of the rule counts as the open one.
OpensKnowingPast(r) == ~incidents[r].open /\ ~incidents[r].past

\* open_incident: a rule that has an open incident only refreshes it.
Opens(r) == ~incidents[r].open

\* sync_incidents, one firing rule and one transaction at a time ...
OpenIncident ==
    /\ loop.pc = "open" /\ loop.opening # <<>>
    /\ incidents' = [incidents EXCEPT ![Head(loop.opening)].open = @ \/ Opens(Head(loop.opening))]
    /\ loop' = [loop EXCEPT !.opening = Tail(@)]
    /\ UNCHANGED <<trustVars, webhookVars, plant, health>>

Missing == {r \in Rules : incidents[r].open /\ r \notin loop.firing}

\* ... then the open ones that did not fire are resolved ...
ResolveMissing ==
    /\ loop.pc = "open" /\ loop.opening = <<>> /\ Missing # {}
    /\ LET r == CHOOSE r \in Missing : TRUE
       IN incidents' = [incidents EXCEPT ![r] = [open |-> FALSE, past |-> TRUE]]
    /\ UNCHANGED <<trustVars, loop, webhookVars, plant, health>>

\* ... and the pass is over.
EndPass ==
    /\ loop.pc = "open" /\ loop.opening = <<>> /\ Missing = {}
    /\ loop' = Resting
    /\ UNCHANGED <<trustVars, webhookVars, oversightVars>>

\* clear_resolved and dismiss_resolved delete resolved incidents, never open ones.
ClearResolved ==
    /\ \E r \in Rules : incidents[r].past
    /\ incidents' = [r \in Rules |-> [incidents[r] EXCEPT !.past = FALSE]]
    /\ UNCHANGED <<trustVars, loop, webhookVars, plant, health>>

DismissResolved(r) ==
    /\ incidents[r].past
    /\ incidents' = [incidents EXCEPT ![r].past = FALSE]
    /\ UNCHANGED <<trustVars, loop, webhookVars, plant, health>>

\* Workers, scheduler, storage: whatever happens to them.
PlantChanges(p) ==
    /\ p # plant
    /\ Spend("changes")
    /\ plant' = p
    /\ UNCHANGED <<health, incidents, webhookVars>> /\ Quiet

Restart ==
    /\ \E lost \in BOOLEAN : RestartTrust(lost)
    /\ RestartWebhooks
    /\ health' = "none"
    /\ UNCHANGED <<plant, incidents>>

Tick == Evaluate \/ OpenIncident \/ ResolveMissing \/ EndPass

Next ==
    \/ TrustNext /\ UNCHANGED <<webhookVars, oversightVars>>
    \/ WebhooksNext /\ UNCHANGED oversightVars
    \/ Sample \/ SkipTick \/ Tick
    \/ ClearResolved \/ (\E r \in Rules : DismissResolved(r))
    \/ (\E p \in Plants : PlantChanges(p)) \/ Restart

\* The health loop runs for as long as the process; the sampling interval is
\* finite, so that a pass in which it is due comes again and again.
Fairness ==
    /\ TrustFairness /\ WebhooksFairness
    /\ WF_vars(Sample) /\ WF_vars(SkipTick \/ Tick) /\ SF_vars(Evaluate)

Spec == Init /\ [][Next]_vars /\ Fairness

-----------------------------------------------------------------------------
\* Incidents follow what they report, across restarts, resolved and deleted
\* incidents and conditions that come and go: once the conditions have settled,
\* the rules with an open incident are for good the rules that fire.
IncidentsFollow == <>[](\A r \in Rules : incidents[r].open <=> r \in Firing)
=============================================================================
