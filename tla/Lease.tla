------------------------------- MODULE Lease -------------------------------
(* What leader election promises, with no reads, writes or processes left: *)
(* one lease that passes atomically from hand to hand. It is what          *)
(* leader_election.py's docstring describes; LeaderElection implements it. *)
EXTENDS Integers

CONSTANTS Coordinators, NoOne, TTL

VARIABLES
    now,      \* the clock
    holder,   \* who holds the lease, or NoOne
    until,    \* when it runs out
    term,     \* which reign this is since the lease was last given up
    leads     \* those who lead by right

vars == <<now, holder, until, term, leads>>

Init ==
    /\ now = 0
    /\ holder = NoOne
    /\ until = 0
    /\ term = 0
    /\ leads = {}

(* The holder may begin to lead with the write or later, never on a lease  *)
(* that is already over.                                                   *)
MayLead(c) == leads' = leads \/ (leads' = {c} /\ until' > now)

(* A new reign: the lease was free or had run out.                         *)
Take(c) ==
    /\ holder # c
    /\ holder = NoOne \/ until <= now
    /\ leads = {}
    /\ holder' = c
    /\ term' = term + 1
    /\ until' <= now + TTL
    /\ MayLead(c)
    /\ UNCHANGED now

(* The holder extends its reign and never shortens it.                     *)
Renew(c) ==
    /\ holder = c
    /\ until <= until'
    /\ until' <= now + TTL
    /\ MayLead(c)
    /\ UNCHANGED <<now, holder, term>>

Lead(c) ==
    /\ holder = c
    /\ until > now
    /\ leads' = {c}
    /\ UNCHANGED <<now, holder, until, term>>

(* A leader dies or steps down; its lease stays until it runs out.         *)
Yield ==
    /\ leads' = {}
    /\ UNCHANGED <<now, holder, until, term>>

GiveUp ==
    /\ holder' = NoOne
    /\ until' = 0
    /\ term' = 0
    /\ leads' = {}
    /\ UNCHANGED now

(* A lease that runs out ends the right to lead at that instant.           *)
ClockTick ==
    /\ now' = now + 1
    /\ leads' = IF until > now' THEN leads ELSE {}
    /\ UNCHANGED <<holder, until, term>>

Next ==
    \/ ClockTick \/ Yield \/ GiveUp
    \/ \E c \in Coordinators : Take(c) \/ Renew(c) \/ Lead(c)

Spec == Init /\ [][Next]_vars
=============================================================================
