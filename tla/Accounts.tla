------------------------------ MODULE Accounts ------------------------------
(***************************************************************************)
(* Staff accounts, customer accounts, sessions, reset links and API keys   *)
(* (gcon/management: users.py, auth.py, customers.py, api_keys.py,         *)
(* organizations.py and the handlers of management_layer.py that use them, *)
(* behind the routes of api/api_v1.py and dashboard/web_server.py).        *)
(*                                                                         *)
(* The routes are plain functions that the web server runs in a pool of    *)
(* threads.  A handler takes no lock of its own: it is a sequence of calls *)
(* on stores that are each atomic, and another handler may run between two *)
(* of them.  todo[t] is the list of calls thread t still has to make; a    *)
(* handler puts its list there, every call is one action, and a call that  *)
(* raises empties the list.                                                *)
(***************************************************************************)
EXTENDS Naturals, Sequences, FiniteSets, SequencesExt

CONSTANTS Staff,      \* ids of staff users (users.py)
          Root,       \* the bootstrap owner
          Admin,      \* an administrator that exists from the start
          Customers,  \* ids of customer users: a range of numbers, given out in order
          Keys,       \* ids of API keys: a range of numbers, given out in order
          Orgs,       \* ids of organizations
          Emails,     \* e-mail addresses of customers
          Threads,    \* threads of the web server
          MaxWebKeys, \* MAX_SESSION_KEYS_PER_CUSTOMER
          MaxOps,     \* bound on the requests of a behaviour
          None

ASSUME AccountsAssumption ==
  /\ Customers \subseteq Nat \ {0} /\ Keys \subseteq Nat \ {0}
  /\ {Root, Admin} \subseteq Staff /\ Root # Admin /\ Staff \cap Customers = {}
  /\ MaxWebKeys \in Nat \ {0} /\ MaxOps \in Nat

Accts    == Staff \cup Customers
Statuses == {"Active", "Pending", "Disabled"}
Roles    == {"Owner", "Administrator", "Viewer"}

VARIABLES acct,   \* account id -> its record; "mem" in the registry, "disk" in the table
          orgs,   \* organizations that exist
          key,    \* key id -> its record
          sess,   \* staff sessions: who, the password version the login checked, minted late
          link,   \* outstanding reset links: who, a serial number, the version when sent
          todo,   \* thread -> the calls it still has to make
          ops,    \* requests made so far
          cut     \* accounts a crash interrupted a handler of

vars == <<acct, orgs, key, sess, link, todo, ops, cut>>

NoAcct == [mem |-> FALSE, disk |-> FALSE, new |-> TRUE, st |-> "Pending", role |-> "Viewer",
           org |-> None, email |-> None, pw |-> 0, chg |-> 0]
NoKey  == [owner |-> None, st |-> "none", web |-> FALSE, pw |-> 0, late |-> FALSE,
           kept |-> FALSE, over |-> FALSE, gen |-> 0, born |-> 0]

\* A database with its owner and an administrator, both signed in, and one
\* customer with an organization, the key of its sign-up, which was revoked, and
\* the key of a login; the administrator and the customer have asked for a reset
\* link.
Init ==
  /\ acct = [a \in Accts |->
       CASE a \in {Root, Admin} ->
              [NoAcct EXCEPT !.mem = TRUE, !.disk = TRUE, !.new = FALSE, !.st = "Active", !.pw = 1,
                             !.role = IF a = Root THEN "Owner" ELSE "Administrator"]
         [] a = 1 -> [NoAcct EXCEPT !.mem = TRUE, !.disk = TRUE, !.new = FALSE, !.st = "Active", !.pw = 1,
                                    !.org = CHOOSE o \in Orgs : TRUE, !.email = CHOOSE e \in Emails : TRUE]
         [] OTHER -> NoAcct]
  /\ orgs = {CHOOSE o \in Orgs : TRUE}
  /\ key = [k \in Keys |-> IF k \in {1, 2} THEN [NoKey EXCEPT !.owner = 1, !.gen = 1, !.born = k, !.pw = k - 1,
                                                              !.st = IF k = 1 THEN "Revoked" ELSE "Active",
                                                              !.web = (k = 2)]
                           ELSE NoKey]
  /\ sess = {[who |-> u, pw |-> 1, late |-> FALSE] : u \in {Root, Admin}}
  /\ link = {[who |-> a, n |-> 1, pw |-> 1] : a \in {Admin, 1}}
  /\ todo = [t \in Threads |-> [dead |-> FALSE, crossed |-> FALSE, calls |-> <<>>]]
  /\ ops = 0 /\ cut = {}

-----------------------------------------------------------------------------
(* The list of calls of a thread.                                          *)

Call(name, who, arg) == [do |-> name, who |-> who, arg |-> arg]

\* A request arrives at an idle thread.  dead: its API key was already refused
\* then; crossed: staff regenerated that key while it was being looked at.
Begin(t, dead, calls) ==
  /\ todo[t].calls = <<>> /\ ops < MaxOps
  /\ todo' = [todo EXCEPT ![t] = [dead |-> dead, crossed |-> FALSE, calls |-> calls]]
  /\ ops' = ops + 1
  /\ UNCHANGED <<acct, orgs, key, sess, link, cut>>

\* One call of thread t on the stores, with what the thread does next.
Doing(t, name) == todo[t].calls # <<>> /\ Head(todo[t].calls).do = name
Now(t)         == Head(todo[t].calls)
Then(t, calls) == todo' = [todo EXCEPT ![t].calls = calls]
Pass(t)        == Then(t, Tail(todo[t].calls))
Refuse(t)      == Then(t, <<>>)
PassIf(t, ok)  == IF ok THEN Pass(t) ELSE Refuse(t)

Pending(name, who) ==
  \E t \in Threads : \E i \in DOMAIN todo[t].calls :
     todo[t].calls[i].do = name /\ todo[t].calls[i].who = who

-----------------------------------------------------------------------------
(* Calls on the account registries.                                        *)

\* get_user: the account must be in the registry.
GetUser(t) ==
  /\ Doing(t, "get") /\ PassIf(t, acct[Now(t).who].mem)
  /\ UNCHANGED <<acct, orgs, key, sess, link, ops, cut>>

\* check_password of the account object: there must be a hash, of the password
\* given; the two logins also want the account Active.
PasswordOk(a, pw) == pw # 0 /\ acct[a].pw = pw

CheckPassword(t) ==
  /\ \/ Doing(t, "login") /\ PassIf(t, acct[Now(t).who].st = "Active" /\ PasswordOk(Now(t).who, Now(t).arg))
     \/ Doing(t, "check") /\ PassIf(t, PasswordOk(Now(t).who, Now(t).arg))
  /\ UNCHANGED <<acct, orgs, key, sess, link, ops, cut>>

\* _persist: INSERT ... ON CONFLICT DO UPDATE of the object's row, whether or
\* not the registry still has the object.
Persist(t) ==
  /\ Doing(t, "write") /\ Pass(t)
  /\ acct' = [acct EXCEPT ![Now(t).who].disk = TRUE]
  /\ UNCHANGED <<orgs, key, sess, link, ops, cut>>

\* user.set_password(new) and _persist(user).  chg: the version a customer's own
\* change (not a reset) last set.
SetPassword(t) ==
  /\ Doing(t, "set") /\ Pass(t)
  /\ acct' = [acct EXCEPT ![Now(t).who].pw = @ + 1, ![Now(t).who].disk = TRUE,
                           ![Now(t).who].chg = IF Now(t).arg = "change" THEN acct[Now(t).who].pw + 1 ELSE @]
  /\ UNCHANGED <<orgs, key, sess, link, ops, cut>>

\* UserRegistry.add_user, for a handler that goes on to set the password.
AddUser(t) ==
  /\ Doing(t, "add_user")
  /\ \E u \in Staff :
       /\ acct[u].new
       /\ acct' = [acct EXCEPT ![u] = [NoAcct EXCEPT !.mem = TRUE, !.disk = TRUE, !.new = FALSE,
                                         !.st = Now(t).arg.st, !.role = Now(t).arg.role]]
       /\ Then(t, <<Call("set", u, None)>>)
  /\ UNCHANGED <<orgs, key, sess, link, ops, cut>>

\* UserRegistry.update_user: look the user up again, set the fields, write the row.
UpdateUser(t) ==
  /\ Doing(t, "update") /\ PassIf(t, acct[Now(t).who].mem)
  /\ acct' = IF acct[Now(t).who].mem
             THEN [acct EXCEPT ![Now(t).who] = [f \in DOMAIN @ |-> IF f \in DOMAIN Now(t).arg THEN Now(t).arg[f] ELSE @[f]],
                               ![Now(t).who].disk = TRUE]
             ELSE acct
  /\ UNCHANGED <<orgs, key, sess, link, ops, cut>>

\* delete_user of either registry: out of memory and out of the table.
DeleteUser(t) ==
  /\ Doing(t, "delete") /\ PassIf(t, acct[Now(t).who].mem)
  /\ acct' = IF acct[Now(t).who].mem
             THEN [acct EXCEPT ![Now(t).who].mem = FALSE, ![Now(t).who].disk = FALSE] ELSE acct
  /\ UNCHANGED <<orgs, key, sess, link, ops, cut>>

\* get_user_by_email finds the first of the registry, in insertion order.
ByEmail(e) ==
  LET found == {c \in Customers : acct[c].mem /\ acct[c].email = e}
  IN  IF found = {} THEN None ELSE CHOOSE c \in found : \A d \in found : c <= d

\* CustomerUserRegistry.add_user up to _persist: the new user is in memory.
AddCustomer(t) ==
  /\ Doing(t, "add_customer")
  /\ LET e == Now(t).arg.email
         c == CHOOSE c \in Customers : acct[c].new /\ \A d \in Customers : acct[d].new => c <= d
     IN  IF ByEmail(e) # None THEN Refuse(t) /\ UNCHANGED acct
         ELSE /\ \E d \in Customers : acct[d].new
              /\ acct' = [acct EXCEPT ![c] = [NoAcct EXCEPT !.mem = TRUE, !.new = FALSE, !.st = "Active",
                                                !.org = Now(t).arg.org, !.email = e, !.pw = 1]]
              /\ Then(t, <<Call("insert", c, None), Call("mint", c, None)>>)
  /\ UNCHANGED <<orgs, key, sess, link, ops, cut>>

\* Its _persist: the unique index on email refuses a second row, and the user
\* stays in memory only.
InsertCustomer(t) ==
  /\ Doing(t, "insert")
  /\ LET c == Now(t).who
         taken == \E d \in Customers \ {c} : acct[d].disk /\ acct[d].email = acct[c].email
     IN  PassIf(t, ~taken) /\ acct' = [acct EXCEPT ![c].disk = ~taken]
  /\ UNCHANGED <<orgs, key, sess, link, ops, cut>>

\* _guard_owner: only an Owner changes an Owner account or grants the role.
Guard(t) ==
  /\ Doing(t, "guard")
  /\ LET g == Now(t).arg
         target == Now(t).who
     IN  PassIf(t, /\ target # None => acct[target].mem
                   /\ \/ acct[g.actor].role = "Owner"
                      \/ g.role # "Owner" /\ (target # None => acct[target].role # "Owner"))
  /\ UNCHANGED <<acct, orgs, key, sess, link, ops, cut>>

-----------------------------------------------------------------------------
(* Calls on sessions, reset links and organizations.                       *)

\* SessionManager.create_session, for a login that checked password version arg.
CreateSession(t) ==
  /\ Doing(t, "session") /\ Pass(t)
  /\ LET u == Now(t).who
     IN  sess' = sess \cup {[who |-> u, pw |-> Now(t).arg, late |-> acct[u].pw # Now(t).arg]}
  /\ UNCHANGED <<acct, orgs, key, link, ops, cut>>

DestroySessions(t) ==
  /\ Doing(t, "destroy") /\ Pass(t)
  /\ sess' = {s \in sess : s.who # Now(t).who}
  /\ UNCHANGED <<acct, orgs, key, link, ops, cut>>

\* get_user_id of a reset token, its consumption, and invalidate_all_for_user.
ReadLink(t) ==
  /\ Doing(t, "link") /\ PassIf(t, Now(t).arg \in link)
  /\ UNCHANGED <<acct, orgs, key, sess, link, ops, cut>>

ConsumeLink(t) ==
  /\ Doing(t, "consume") /\ Pass(t)
  /\ link' = link \ {Now(t).arg}
  /\ UNCHANGED <<acct, orgs, key, sess, ops, cut>>

InvalidateLinks(t) ==
  /\ Doing(t, "invalidate") /\ Pass(t)
  /\ link' = {l \in link : l.who # Now(t).who}
  /\ UNCHANGED <<acct, orgs, key, sess, ops, cut>>

\* signup_customer's check of the address, and its new organization.
EmailFree(t) ==
  /\ Doing(t, "email_free") /\ PassIf(t, ByEmail(Now(t).arg) = None)
  /\ UNCHANGED <<acct, orgs, key, sess, link, ops, cut>>

AddOrganization(t) ==
  /\ Doing(t, "add_org") /\ orgs # Orgs
  /\ LET o == CHOOSE o \in Orgs \ orgs : TRUE
     IN  orgs' = orgs \cup {o} /\ Then(t, <<Call("add_customer", None, [email |-> Now(t).arg, org |-> o])>>)
  /\ UNCHANGED <<acct, key, sess, link, ops, cut>>

\* delete_organization: teams and the organization go, staff are detached;
\* the customers of the organization are not looked at.
DeleteOrganization(t) ==
  /\ Doing(t, "delete_org") /\ PassIf(t, Now(t).arg \in orgs)
  /\ orgs' = orgs \ {Now(t).arg}
  /\ acct' = IF Now(t).arg \in orgs
             THEN [a \in Accts |-> IF a \in Staff /\ acct[a].org = Now(t).arg
                                   THEN [acct[a] EXCEPT !.org = None] ELSE acct[a]]
             ELSE acct
  /\ UNCHANGED <<key, sess, link, ops, cut>>

GetOrganization(t) ==
  /\ Doing(t, "get_org") /\ PassIf(t, acct[Now(t).who].org \in orgs)
  /\ UNCHANGED <<acct, orgs, key, sess, link, ops, cut>>

-----------------------------------------------------------------------------
(* Calls on the API keys.                                                  *)

MaxBorn == CHOOSE n \in 0..(2 * Cardinality(Keys)) :
             /\ \A k \in Keys : key[k].born <= n
             /\ n = 0 \/ \E k \in Keys : key[k].born = n

\* create_key.  A login's key records the password version the login checked.
MintKey(t) ==
  /\ Doing(t, "mint") /\ Pass(t)
  /\ \E k \in Keys : key[k].st = "none" /\ \A j \in Keys : key[j].st = "none" => k <= j
  /\ LET k == CHOOSE k \in Keys : key[k].st = "none" /\ \A j \in Keys : key[j].st = "none" => k <= j
         a == Now(t).who
     IN  key' = [key EXCEPT ![k] = [NoKey EXCEPT !.owner = a, !.st = "Active", !.gen = 1, !.born = MaxBorn + 1,
                   !.web = Now(t).arg # None, !.pw = IF Now(t).arg = None THEN 0 ELSE Now(t).arg,
                   !.late = Now(t).arg # None /\ acct[a].pw # Now(t).arg]]
  /\ UNCHANGED <<acct, orgs, sess, link, ops, cut>>

RevokeIn(ks) == key' = [k \in Keys |-> IF k \in ks THEN [key[k] EXCEPT !.st = "Revoked"] ELSE key[k]]

KeysOf(a)   == {k \in Keys : key[k].owner = a}
ActiveOf(a) == {k \in KeysOf(a) : key[k].st = "Active"}

\* revoke_key, by itself and in the loops below; _revoke_customer_credentials
\* looks at the status once more at every key's turn.
RevokeKey(t) ==
  /\ \/ (Doing(t, "revoke") \/ Doing(t, "sweep")) /\ RevokeIn({Now(t).arg})
     \/ Doing(t, "sweep_active") /\ RevokeIn({Now(t).arg} \cap ActiveOf(Now(t).who))
  /\ Pass(t)
  /\ UNCHANGED <<acct, orgs, sess, link, ops, cut>>

\* A loop over the keys ks as they were when it began: one call for each.
Sweep(t, name, ks) ==
  Then(t, [i \in DOMAIN ks |-> Call(name, Now(t).who, ks[i])] \o Tail(todo[t].calls))
InOrder(ks) == SetToSortSeq(ks, LAMBDA j, k : j < k)
Swept(k) == \E t \in Threads : \E i \in DOMAIN todo[t].calls :
              todo[t].calls[i].do \in {"sweep", "sweep_active"} /\ todo[t].calls[i].arg = k

\* revoke_keys_for_owner and the two uses of _revoke_customer_credentials.
\* kept: the key whose request changed the password.
RevokeKeys(t) ==
  /\ \/ Doing(t, "revoke_all") /\ Sweep(t, "sweep", InOrder(KeysOf(Now(t).who))) /\ UNCHANGED key
     \/ Doing(t, "revoke_active") /\ Sweep(t, "sweep_active", InOrder(KeysOf(Now(t).who))) /\ UNCHANGED key
     \/ /\ Doing(t, "revoke_web")
        /\ Sweep(t, "sweep_active", InOrder({k \in KeysOf(Now(t).who) \ {Now(t).arg} : key[k].web}))
        /\ key' = [key EXCEPT ![Now(t).arg].kept = TRUE]
  /\ UNCHANGED <<acct, orgs, sess, link, ops, cut>>

\* The Active login keys of a customer, the oldest first.
WebKeys(c) == SetToSortSeq({k \in ActiveOf(c) : key[k].web}, LAMBDA j, k : key[j].born < key[k].born)

\* Mutant: keeps one key too many.
LimitSessionKeysOneMore(t) ==
  /\ Doing(t, "limit")
  /\ LET web == WebKeys(Now(t).who)
     IN  Sweep(t, "sweep", SubSeq(web, 1, Len(web) - MaxWebKeys - 1))
  /\ UNCHANGED <<acct, orgs, key, sess, link, ops, cut>>

\* limit_session_api_keys: all but the newest MaxWebKeys login keys go, one by one.
LimitSessionKeys(t) ==
  /\ Doing(t, "limit")
  /\ LET web == WebKeys(Now(t).who)
     IN  Sweep(t, "sweep", SubSeq(web, 1, Len(web) - MaxWebKeys))
  /\ UNCHANGED <<acct, orgs, key, sess, link, ops, cut>>

\* find_by_secret: the secret's hash must be the key's current one.
FindKey(t) ==
  /\ Doing(t, "find") /\ PassIf(t, key[Now(t).who].gen = Now(t).arg)
  /\ UNCHANGED <<acct, orgs, key, sess, link, ops, cut>>

\* Mutant: only the expiry date is looked at.
IsValidIgnoresStatus(t) ==
  /\ Doing(t, "valid")
  /\ IF key[Now(t).who].over THEN Then(t, <<Call("expire", Now(t).who, None)>>) ELSE Pass(t)
  /\ UNCHANGED <<acct, orgs, key, sess, link, ops, cut>>

\* is_valid of the key that was found: the status is read outside the
\* transaction that writes "Expired".
IsValid(t) ==
  /\ Doing(t, "valid")
  /\ IF key[Now(t).who].st # "Active" THEN Refuse(t)
     ELSE IF key[Now(t).who].over THEN Then(t, <<Call("expire", Now(t).who, None)>>)
     ELSE Pass(t)
  /\ UNCHANGED <<acct, orgs, key, sess, link, ops, cut>>

ExpireKey(t) ==
  /\ Doing(t, "expire") /\ Pass(t)
  /\ key' = [key EXCEPT ![Now(t).who].st = "Expired"]
  /\ UNCHANGED <<acct, orgs, sess, link, ops, cut>>

\* authenticate_api_key from the owner on: he must exist and be Active; then the
\* use is counted, and a customer's row is written when the throttle says so (a
\* staff row is written in the transaction that looks its user up).
CheckOwner(t) ==
  /\ Doing(t, "owner")
  /\ LET a == acct[key[Now(t).who].owner] IN PassIf(t, a.mem /\ a.st = "Active")
  /\ UNCHANGED <<acct, orgs, key, sess, link, ops, cut>>

CountUse(t) ==
  /\ Doing(t, "used")
  /\ LET a == key[Now(t).who].owner
     IN  \/ PassIf(t, acct[a].mem)
         \/ a \in Customers /\ acct[a].mem /\ Then(t, <<Call("write", a, None)>> \o Tail(todo[t].calls))
  /\ UNCHANGED <<acct, orgs, key, sess, link, ops, cut>>

\* create_api_key's check that the owner is a known user.
OwnerExists(t) ==
  /\ Doing(t, "known") /\ PassIf(t, acct[Now(t).who].mem)
  /\ UNCHANGED <<acct, orgs, key, sess, link, ops, cut>>

-----------------------------------------------------------------------------
(* Staff handlers (management_layer.py).                                   *)

\* current_user: a session of an Active account; require_permission: its role
\* may manage users and keys.
Signed(u)  == acct[u].mem /\ acct[u].st = "Active" /\ \E s \in sess : s.who = u
Manages(u) == Signed(u) /\ acct[u].role \in {"Owner", "Administrator"}

Login(t) ==
  \E u \in Staff : acct[u].mem /\ Begin(t, FALSE, <<Call("login", u, acct[u].pw), Call("get", u, None),
                                         Call("write", u, None), Call("session", u, acct[u].pw)>>)

Logout(t) ==
  /\ ops < MaxOps /\ ops' = ops + 1
  /\ \E s \in sess : sess' = sess \ {s}
  /\ UNCHANGED <<acct, orgs, key, link, todo, cut>>

\* Mutant: the sessions are closed before the new password is set.
ChangePasswordDestroysFirst(t) ==
  \E u \in Staff : Signed(u) /\ Begin(t, FALSE, <<Call("check", u, acct[u].pw), Call("destroy", u, None),
                                                 Call("set", u, None)>>)

ChangePassword(t) ==
  \E u \in Staff : Signed(u) /\ Begin(t, FALSE, <<Call("check", u, acct[u].pw), Call("set", u, None),
                                                 Call("destroy", u, None)>>)

\* set_password, force_logout_user, delete_user, create_user, signup,
\* update_user and set_user_status.
AdminSetPassword(t) ==
  \E a, u \in Staff : Manages(a) /\ acct[u].mem /\
    Begin(t, FALSE, <<Call("guard", u, [actor |-> a, role |-> None]), Call("set", u, None), Call("destroy", u, None)>>)

ForceLogout(t) ==
  \E a, u \in Staff : Manages(a) /\ acct[u].mem /\
    Begin(t, FALSE, <<Call("guard", u, [actor |-> a, role |-> None]), Call("destroy", u, None)>>)

AdminDeleteUser(t) ==
  \E a, u \in Staff : Manages(a) /\ acct[u].mem /\
    Begin(t, FALSE, <<Call("guard", u, [actor |-> a, role |-> None]), Call("revoke_all", u, None),
                      Call("destroy", u, None), Call("delete", u, None)>>)

CreateUser(t) ==
  \E a \in Staff, r \in Roles : Manages(a) /\
    Begin(t, FALSE, <<Call("guard", None, [actor |-> a, role |-> r]),
                      Call("add_user", None, [st |-> "Active", role |-> r])>>)

Signup(t) ==
  \E r \in Roles \ {"Owner"} : Begin(t, FALSE, <<Call("add_user", None, [st |-> "Pending", role |-> r])>>)

AdminUpdateUser(t) ==
  \E a, u \in Staff, r \in Roles : Manages(a) /\ acct[u].mem /\
    Begin(t, FALSE, <<Call("guard", u, [actor |-> a, role |-> r]), Call("update", u, [role |-> r])>>)

SetUserStatus(t) ==
  \E a, u \in Staff, s \in Statuses : Manages(a) /\ acct[u].mem /\
    Begin(t, FALSE, <<Call("guard", u, [actor |-> a, role |-> None]), Call("update", u, [st |-> s])>>)

\* request_password_reset and the customers' forgot-password.
Fresh(a) == CHOOSE n \in 1..(MaxOps + 1) : \A l \in link : l.who = a => l.n # n

SendLink(a) ==
  /\ ops < MaxOps /\ ops' = ops + 1
  /\ link' = link \cup {[who |-> a, n |-> Fresh(a), pw |-> acct[a].pw]}
  /\ UNCHANGED <<acct, orgs, key, sess, todo, cut>>

RequestReset(t) == \E u \in Staff : acct[u].mem /\ SendLink(u)

ResetPassword(t) ==
  \E l \in link : l.who \in Staff /\
    Begin(t, FALSE, <<Call("link", l.who, l), Call("get", l.who, None), Call("set", l.who, None),
                      Call("consume", l.who, l), Call("destroy", l.who, None)>>)

\* create_api_key, revoke_api_key, regenerate_api_key: the new secret makes the
\* key Active again and keeps its old expiry.
CreateApiKey(t) ==
  \E a \in Staff, o \in Accts : Manages(a) /\
    Begin(t, FALSE, <<Call("known", o, None), Call("mint", o, None)>>)

RevokeApiKey(t) ==
  \E a \in Staff, k \in Keys : Manages(a) /\ key[k].st # "none" /\
    Begin(t, FALSE, <<Call("revoke", key[k].owner, k)>>)

RegenerateApiKey(t) ==
  /\ ops < MaxOps /\ ops' = ops + 1 /\ \E a \in Staff : Manages(a)
  /\ \E k \in Keys :
       /\ key[k].st # "none"
       /\ key' = [key EXCEPT ![k].st = "Active", ![k].gen = @ + 1, ![k].born = MaxBorn + 1]
       /\ todo' = [u \in Threads |->
            [todo[u] EXCEPT !.crossed = @ \/ (todo[u].dead /\ Doing(u, "valid") /\ Now(u).who = k)]]
  /\ UNCHANGED <<acct, orgs, sess, link, cut>>

\* delete_organization, and set_organization_customer_status for all of its
\* customers.
AdminDeleteOrg(t) ==
  \E a \in Staff, o \in orgs : Manages(a) /\ Begin(t, FALSE, <<Call("delete_org", None, o)>>)

SetOrgCustomerStatus(t) ==
  \E a \in Staff, o \in Orgs, s \in {"Active", "Disabled"} :
    LET members == {c \in Customers : acct[c].mem /\ acct[c].org = o}
    IN  /\ Manages(a) /\ members # {} /\ ops < MaxOps /\ ops' = ops + 1
        /\ acct' = [c \in Accts |-> IF c \in members THEN [acct[c] EXCEPT !.st = s, !.disk = TRUE] ELSE acct[c]]
        /\ UNCHANGED <<orgs, key, sess, link, todo, cut>>

-----------------------------------------------------------------------------
(* Customer handlers (api_v1.py).                                          *)

SignupCustomer(t) ==
  \E e \in Emails : Begin(t, FALSE, <<Call("email_free", None, e), Call("add_org", None, e)>>)

\* auth_login: a fresh login key, then the oldest beyond the limit go.
CustomerLogin(t) ==
  \E e \in Emails : LET c == ByEmail(e) IN
    c # None /\ Begin(t, FALSE, <<Call("login", c, acct[c].pw), Call("write", c, None),
                                 Call("mint", c, acct[c].pw), Call("limit", c, None)>>)

ForgotPassword(t) == \E e \in Emails : ByEmail(e) # None /\ SendLink(ByEmail(e))

CustomerReset(t) ==
  \E l \in link : l.who \in Customers /\
    Begin(t, FALSE, <<Call("link", l.who, l), Call("get", l.who, None), Call("set", l.who, None),
                      Call("consume", l.who, l), Call("invalidate", l.who, None)>>)

\* A request with key k and its g-th secret: authenticate_api_key, then the route.
Dead(k, g) == key[k].st # "Active" \/ key[k].gen # g \/ ~acct[key[k].owner].mem

Api(t, k, g, body) ==
  Begin(t, Dead(k, g), <<Call("find", k, g), Call("valid", k, None), Call("owner", k, None), Call("used", k, None)>> \o body)

ApiRequest(t) ==
  \E k \in Keys : \E g \in 1..key[k].gen : LET c == key[k].owner IN
    \/ Api(t, k, g, <<Call("mint", c, None)>>)
    \/ \E j \in Keys : key[j].owner = c /\ Api(t, k, g, <<Call("revoke", c, j)>>)

\* change_customer_password.
ChangeCustomerPassword(t) ==
  \E k \in Keys : key[k].owner \in Customers /\ LET c == key[k].owner IN
    Api(t, k, key[k].gen, <<Call("get", c, None), Call("check", c, acct[c].pw), Call("get", c, None),
          Call("set", c, "change"), Call("invalidate", c, None), Call("revoke_web", c, k)>>)

\* delete_customer_account of the organization's one customer; its workers and
\* jobs are gone by then.
DeleteCustomerAccount(t) ==
  \E k \in Keys : key[k].owner \in Customers /\ LET c == key[k].owner IN
    Api(t, k, key[k].gen, <<Call("get", c, None), Call("get_org", c, None), Call("check", c, acct[c].pw),
          Call("revoke_active", c, None), Call("invalidate", c, None), Call("delete", c, None),
          Call("delete_org", None, acct[c].org)>>)

-----------------------------------------------------------------------------
(* The world around: an expiry date passes; the process dies and the       *)
(* registries are loaded from the tables again.                            *)

Expire(k) ==
  /\ key[k].st # "none" /\ ~key[k].over
  /\ key' = [key EXCEPT ![k].over = TRUE]
  /\ UNCHANGED <<acct, orgs, sess, link, todo, ops, cut>>

Crash ==
  /\ \E t \in Threads : todo[t].calls # <<>>
  /\ cut' = cut \cup {a \in Accts : \E t \in Threads : \E i \in DOMAIN todo[t].calls :
                         /\ todo[t].calls[i].do \notin {"find", "valid", "expire", "owner", "used"}
                         /\ todo[t].calls[i].who = a}
  /\ todo' = [t \in Threads |-> [dead |-> FALSE, crossed |-> FALSE, calls |-> <<>>]]
  /\ acct' = [a \in Accts |-> [acct[a] EXCEPT !.mem = acct[a].disk]]
  /\ UNCHANGED <<orgs, key, sess, link, ops>>

Staffs(t) ==
  \/ Login(t) \/ Logout(t) \/ ChangePassword(t) \/ AdminSetPassword(t) \/ ForceLogout(t)
  \/ AdminDeleteUser(t) \/ CreateUser(t) \/ Signup(t) \/ AdminUpdateUser(t) \/ SetUserStatus(t)
  \/ RequestReset(t) \/ ResetPassword(t) \/ CreateApiKey(t) \/ RevokeApiKey(t)
  \/ RegenerateApiKey(t) \/ AdminDeleteOrg(t) \/ SetOrgCustomerStatus(t)

Customer(t) ==
  \/ SignupCustomer(t) \/ CustomerLogin(t) \/ ForgotPassword(t) \/ CustomerReset(t)
  \/ ApiRequest(t) \/ ChangeCustomerPassword(t) \/ DeleteCustomerAccount(t)

Stores(t) ==
  \/ GetUser(t) \/ CheckPassword(t) \/ Persist(t) \/ SetPassword(t) \/ AddUser(t) \/ UpdateUser(t)
  \/ DeleteUser(t) \/ AddCustomer(t) \/ InsertCustomer(t) \/ Guard(t) \/ CreateSession(t)
  \/ DestroySessions(t) \/ ReadLink(t) \/ ConsumeLink(t) \/ InvalidateLinks(t) \/ EmailFree(t)
  \/ AddOrganization(t) \/ DeleteOrganization(t) \/ GetOrganization(t) \/ MintKey(t) \/ RevokeKey(t) \/ RevokeKeys(t)
  \/ LimitSessionKeys(t) \/ FindKey(t) \/ IsValid(t) \/ ExpireKey(t) \/ CheckOwner(t) \/ CountUse(t) \/ OwnerExists(t)

Next == (\E t \in Threads : Staffs(t) \/ Customer(t) \/ Stores(t)) \/ (\E k \in Keys : Expire(k)) \/ Crash

Spec == Init /\ [][Next]_vars
-----------------------------------------------------------------------------
(* Properties.                                                             *)

\* The registries and tables hold what the classes say they hold.
TypeOK ==
  /\ acct \in [Accts -> [mem : BOOLEAN, disk : BOOLEAN, new : BOOLEAN, st : Statuses, role : Roles,
                         org : Orgs \cup {None}, email : Emails \cup {None}, pw : Nat, chg : Nat]]
  /\ orgs \subseteq Orgs
  /\ key \in [Keys -> [owner : Accts \cup {None}, st : {"none", "Active", "Revoked", "Expired"},
                       web : BOOLEAN, pw : Nat, late : BOOLEAN, kept : BOOLEAN, over : BOOLEAN,
                       gen : Nat, born : Nat]]
  /\ \A s \in sess : s.who \in Staff /\ s.pw \in Nat /\ s.late \in BOOLEAN
  /\ \A l \in link : l.who \in Accts
  /\ ops \in 0..MaxOps /\ cut \subseteq Accts

\* However a staff password was replaced (change_password, set_password,
\* reset_password), the sessions opened with an older one are gone once that
\* handler is through.  Only a login that checked the old password before the
\* change and opened its session after it, and a crash inside the handler,
\* leave one behind.
SessionsFollowPassword ==
  \A s \in sess : s.pw # acct[s.who].pw => s.late \/ Pending("destroy", s.who) \/ s.who \in cut

\* A customer's own password change signs out every browser that logged in with
\* an older password, except the one that made the change
\* (change_customer_password): same two exceptions.
WebKeysFollowPassword ==
  \A k \in Keys : key[k].web /\ key[k].st = "Active" /\ key[k].gen = 1 /\ key[k].pw < acct[key[k].owner].chg =>
    \/ key[k].late \/ key[k].kept
    \/ Pending("revoke_web", key[k].owner) \/ Swept(k) \/ key[k].owner \in cut

\* A reset link sent before a customer's password was replaced, by a link or by a
\* change, cannot be redeemed after it (auth_reset_password and
\* change_customer_password invalidate all of them).  For staff it can:
\* LinksFollowEveryPassword below.
Closing(l) == \E t \in Threads : \E i \in DOMAIN todo[t].calls :
                LET call == todo[t].calls[i]
                IN  \/ call.do = "invalidate" /\ call.who = l.who
                    \/ call.do = "consume" /\ call.arg = l
LinksFollow(a) == \A l \in link : l.who = a /\ l.pw # acct[a].pw => Closing(l) \/ a \in cut
LinksFollowPassword == \A a \in Customers : LinksFollow(a)

\* invalidate_all_for_user is for when a "password has actually changed via any
\* path, so an older unconsumed reset link can't still be redeemed".  No handler
\* of staff passwords calls it, so this holds of customers only.
LinksFollowEveryPassword == \A a \in Accts : LinksFollow(a)

\* Replacing a password ends what the old one opened: the sessions of staff, the
\* login keys and the reset links of customers, under all interleavings of two
\* requests, with the exceptions named above.
CredentialsFollowPassword == SessionsFollowPassword /\ WebKeysFollowPassword /\ LinksFollowPassword

\* A request whose key was already revoked or expired, whose secret had been
\* replaced, or whose owner had been deleted when it arrived never reaches the
\* route behind authenticate_api_key, whatever the other threads do meanwhile,
\* unless staff regenerate that very key between find_by_secret and is_valid.
Refused(t) == todo[t].calls # <<>> => todo[t].calls[1].do \in {"find", "valid", "expire", "owner"}
RevokedIsRefused == \A t \in Threads : todo[t].dead /\ ~todo[t].crossed => Refused(t)

\* authenticate_api_key "raises ValueError on any failure (unknown key, revoked,
\* expired, ...)", without exception.  A regenerate_api_key between its two calls
\* on the key gives the old secret's request the new secret's status.
RevokedIsAlwaysRefused == \A t \in Threads : todo[t].dead => Refused(t)

\* The login keys of a customer do not pile up: beyond MaxWebKeys there are only
\* those a loop is about to revoke, those of logins that have not yet reached
\* limit_session_api_keys, and those staff regenerated.
SessionKeysBounded ==
  \A c \in Customers \ cut :
    Cardinality({k \in ActiveOf(c) : key[k].web /\ key[k].gen = 1 /\ ~Swept(k)}) <=
      MaxWebKeys + Cardinality({t \in Threads : Doing(t, "limit") /\ Now(t).who = c})

=============================================================================
