---------------------------- MODULE Certificates ----------------------------
(***************************************************************************)
(* The coordinator's certificate directory (transport/tls.py and           *)
(* transport/tls_rotation.py): the authority, the server's own             *)
(* certificates, the bundle of retired authorities and the revocations.    *)
(*                                                                         *)
(* Each operation is a program of file operations, performed by a thread   *)
(* that may be interrupted between any two: an administrator's request,    *)
(* the fetch of credentials for a new connection, and the Enroll handlers, *)
(* all in one process that may die at any point.  A key is a number, and a *)
(* certificate names the key it is about (`of') and the authority's key    *)
(* that signed it (`by').  Writing one file is one step.                   *)
(***************************************************************************)
EXTENDS Integers, Sequences, FiniteSets, FiniteSetsExt

CONSTANTS
    Asks,     \* the numbers of the Enroll requests
    Meets,    \* may a thread make a key while another thread replaces one?
    Loads     \* bound: what a behaviour may contain, one record each

ASSUME CertAssumption == Meets \in BOOLEAN /\ IsFiniteSet(Asks) /\ Asks = 1 .. Cardinality(Asks)

VARIABLES
    spare,      \* what is left of the behaviour's load
    file,       \* the pairs of files <name>.key.pem and <name>.cert.pem
    bundle,     \* trusted_cas.pem: retired authorities
    manifest,   \* ca_manifest.json: which was retired when
    plain,      \* authorities that carry the default subject name
    made,       \* number of keys made so far
    thread,     \* what each thread has still to do, and what it has in hand
    enrollBy,   \* who signed the certificate of the enroll port; 0 while the server is down
    revoked,    \* is the provisioned worker's certificate on the list of revoked ones?
    pruned      \* history: authorities given up after their grace period

certVars == <<file, bundle, manifest, plain, made, thread, enrollBy, revoked, pruned>>

Spend(what) == spare[what] > 0 /\ spare' = [spare EXCEPT ![what] = @ - 1]

NoCert == [of |-> 0, by |-> 0]
NoOne == -1   \* no authority: signed with a key that is no certificate's
Idle == [todo |-> <<>>, key |-> 0, by |-> 0]
Admin == 0
Server == -1
Hands == Asks \cup {Admin, Server}   \* the threads of the coordinator

\* A running coordinator: its authority is key 1, its two certificates are there.
CertInit ==
    /\ file = [ca |-> [key |-> 1, cert |-> [of |-> 1, by |-> 1]],
               coordinator |-> [key |-> 2, cert |-> [of |-> 2, by |-> 1]],
               dashboard |-> [key |-> 3, cert |-> [of |-> 3, by |-> 1]]]
    /\ bundle = {} /\ manifest = {} /\ plain = {1} /\ made = 3
    /\ thread = [t \in Hands |-> Idle]
    /\ enrollBy = 1 /\ revoked = FALSE /\ pruned = {}

Op(name, f) == [name |-> name, file |-> f]
Todo(t) == thread[t].todo
Working(t) == Todo(t) # <<>>
Doing(t, name) == Working(t) /\ Head(Todo(t)).name = name
Done(t) == [thread EXCEPT ![t].todo = Tail(@)]
Raises(t) == [thread EXCEPT ![t].todo = <<>>]

HasKey(f) == file[f].key # 0
HasCert(f) == file[f].cert # NoCert
Authority == file.ca.cert.of

\* load_trust_bundle
Roots == bundle \cup (IF HasCert("ca") THEN {Authority} ELSE {})

---------------------------------------------------------------------------
(* The programs.                                                            *)

\* reissue_leaf_cert: the old files go first, so that the reuse check fails.
Reissue(f) == <<Op("removeKey", f), Op("removeCert", f), Op("issue", f)>>

\* Mutant: the old authority is noted in the manifest and not kept in the bundle
RetireUnbundled == <<Op("record", "ca"), Op("removeKey", "ca"), Op("removeCert", "ca")>>

\* rotate_ca, the part about an authority that is there
Retire ==
    <<Op("append", "ca"), Op("record", "ca"), Op("removeKey", "ca"), Op("removeCert", "ca")>>

\* rotate_ca
Rotation == (IF HasCert("ca") THEN Retire ELSE <<>>)
            \o <<Op("issue", "ca")>> \o Reissue("coordinator") \o Reissue("dashboard")

\* build_config, for each new connection
Fetch == <<Op("issue", "coordinator")>>

\* start: the credentials, the enroll port's, and the dashboard's.
Boot == <<Op("issue", "coordinator"), Op("open", "coordinator"), Op("issue", "dashboard")>>

\* sign_agent_csr
Signing == <<Op("issue", "ca"), Op("read", "ca")>>

\* A thread between the first and the last write of what it replaces
Replacing(t) ==
    \E i \in DOMAIN Todo(t) : Todo(t)[i].name \in {"removeKey", "removeCert", "key", "cert"}
Alone(t) == Meets \/ \A u \in Hands \ {t} : ~Replacing(u)

---------------------------------------------------------------------------
(* One action per kind of file operation, for whichever thread is there.    *)

\* ensure_ca and _issue_leaf_cert, up to their decision: what is on disk is used;
\* otherwise it is made, a leaf with the authority's key.
Reusable(f) == HasKey(f) /\ HasCert(f) /\ (f # "ca" => HasCert("ca"))
Making(f) == (IF f = "ca" THEN <<>> ELSE Signing) \o <<Op("key", f), Op("cert", f)>>

Issue(t) ==
    /\ Doing(t, "issue")
    /\ LET f == Head(Todo(t)).file IN
       \/ Reusable(f) /\ thread' = Done(t)
       \/ ~Reusable(f) /\ Alone(t) /\ thread' = [thread EXCEPT ![t].todo = Making(f) \o Tail(@)]
    /\ UNCHANGED <<spare, file, bundle, manifest, plain, made, enrollBy, revoked, pruned>>

\* The authority's key and certificate are read; a missing file raises.  With a key
\* and a certificate that do not belong together, no one can verify what is signed.
Read(t) ==
    /\ Doing(t, "read")
    /\ file.ca.key # Authority => Alone(t)
    /\ thread' = IF HasKey("ca") /\ HasCert("ca")
                   THEN [Done(t) EXCEPT ![t].by = IF file.ca.key = Authority THEN Authority ELSE NoOne]
                   ELSE Raises(t)
    /\ UNCHANGED <<spare, file, bundle, manifest, plain, made, enrollBy, revoked, pruned>>

\* _write_private_key; only rotate_ca gives an authority a name of its own.
WriteKey(t) ==
    /\ Doing(t, "key")
    /\ LET f == Head(Todo(t)).file IN
       /\ file' = [file EXCEPT ![f].key = made + 1]
       /\ plain' = IF f = "ca" /\ t # Admin THEN plain \cup {made + 1} ELSE plain
    /\ made' = made + 1
    /\ thread' = [Done(t) EXCEPT ![t].key = made + 1]
    /\ UNCHANGED <<spare, bundle, manifest, enrollBy, revoked, pruned>>

\* _write_cert; an authority signs itself.
WriteCert(t) ==
    /\ Doing(t, "cert")
    /\ LET f == Head(Todo(t)).file
           k == thread[t].key
       IN file' = [file EXCEPT ![f].cert = [of |-> k, by |-> IF f = "ca" THEN k ELSE thread[t].by]]
    /\ thread' = Done(t)
    /\ UNCHANGED <<spare, bundle, manifest, plain, made, enrollBy, revoked, pruned>>

\* os.remove: a leaf's file is looked for first, the authority's is not.
Remove(t) ==
    /\ Working(t)
    /\ LET op == Head(Todo(t)) IN
       \/ /\ op.name = "removeKey"
          /\ file' = [file EXCEPT ![op.file].key = 0]
          /\ thread' = IF op.file = "ca" /\ ~HasKey("ca") THEN Raises(t) ELSE Done(t)
       \/ /\ op.name = "removeCert"
          /\ file' = [file EXCEPT ![op.file].cert = NoCert]
          /\ thread' = IF op.file = "ca" /\ ~HasCert("ca") THEN Raises(t) ELSE Done(t)
    /\ UNCHANGED <<spare, bundle, manifest, plain, made, enrollBy, revoked, pruned>>

\* The enroll port's certificate is read once, when the server starts.
Open(t) ==
    /\ Doing(t, "open")
    /\ enrollBy' = file.coordinator.cert.by
    /\ thread' = Done(t)
    /\ UNCHANGED <<spare, file, bundle, manifest, plain, made, revoked, pruned>>

\* rotate_ca: the old certificate goes into the bundle ...
AppendToBundle(t) ==
    /\ Doing(t, "append")
    /\ bundle' = Roots
    /\ thread' = Done(t)
    /\ UNCHANGED <<spare, file, manifest, plain, made, enrollBy, revoked, pruned>>

\* ... and with the time of day into the manifest.
Record(t) ==
    /\ Doing(t, "record")
    /\ manifest' = IF HasCert("ca")
                     THEN manifest \cup {[ca |-> Authority, at |-> 1 + Max({0} \cup {e.at : e \in manifest})]}
                     ELSE manifest
    /\ pruned' = pruned \ {Authority}
    /\ thread' = Done(t)
    /\ UNCHANGED <<spare, file, bundle, plain, made, enrollBy, revoked>>

---------------------------------------------------------------------------
(* What an administrator may ask for, one request at a time.                *)

RotateCa ==
    /\ ~Working(Admin) /\ Alone(Admin) /\ enrollBy # 0
    /\ Spend("rotations")
    /\ thread' = [thread EXCEPT ![Admin].todo = Rotation]
    /\ UNCHANGED <<file, bundle, manifest, plain, made, enrollBy, revoked, pruned>>

\* prune_expired_trust with the grace period over for the entries up to `last':
\* first the bundle is written, then the manifest.
Expired(last) == {e.ca : e \in {e \in manifest : e.at <= last}}
Kept(last) == {e \in manifest : e.at > last}

PruneBundle(last) ==
    /\ ~Working(Admin) /\ enrollBy # 0
    /\ Expired(last) # {}
    /\ Spend("prunes")
    /\ bundle' = bundle \ Expired(last)
    /\ pruned' = pruned \cup (Expired(last) \ {e.ca : e \in Kept(last)})
    /\ thread' = [thread EXCEPT ![Admin].todo = <<Op("keep", last)>>]
    /\ UNCHANGED <<file, manifest, plain, made, enrollBy, revoked>>

PruneManifest ==
    /\ Doing(Admin, "keep")
    /\ manifest' = Kept(Head(Todo(Admin)).file)
    /\ thread' = Done(Admin)
    /\ UNCHANGED <<spare, file, bundle, plain, made, enrollBy, revoked, pruned>>

\* revoke_node_cert: only of a certificate that is on the coordinator's disk.
RevokeNode ==
    /\ spare.provisioned = 1
    /\ Spend("revocations")
    /\ revoked' = TRUE
    /\ UNCHANGED <<file, bundle, manifest, plain, made, thread, enrollBy, pruned>>

CertNext ==
    \/ \E t \in Hands : \/ Issue(t) \/ Read(t) \/ WriteKey(t) \/ WriteCert(t) \/ Remove(t)
                          \/ Open(t) \/ AppendToBundle(t) \/ Record(t)
    \/ RotateCa \/ PruneManifest \/ RevokeNode
    \/ \E e \in manifest : PruneBundle(e.at)

\* The coordinator dies with its threads and starts again.
RestartServer ==
    /\ thread' = [t \in Hands |-> IF t = Server THEN [Idle EXCEPT !.todo = Boot] ELSE Idle]
    /\ enrollBy' = 0
    /\ UNCHANGED <<file, bundle, manifest, plain, made, revoked, pruned>>
=============================================================================
