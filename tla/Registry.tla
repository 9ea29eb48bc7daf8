------------------------------ MODULE Registry ------------------------------
(***************************************************************************)
(* The web tier's domain registry: the POST, PUT and DELETE handlers of    *)
(* /api/domains, the domain table in Postgres they work on, and the config *)
(* object in the bucket that each of them regenerates after its change     *)
(* (exportConfigToGCS), then the clean-up of a removed host's certificates *)
(* (deleteCertsForHost).                                                   *)
(*                                                                         *)
(* Handlers run concurrently, on one or more instances, with no lock and   *)
(* no transaction: every await is a point where other requests run, so     *)
(* every query and every bucket request is a step of its own.  Answers     *)
(* that touch neither table nor bucket (401, 400) and GET are left out.    *)
(***************************************************************************)
EXTENDS Integers, FiniteSets

CONSTANTS
    Reqs,     \* requests in flight at once, each slot used again and again
    Users,    \* signed-in accounts
    Hosts,    \* hostnames registerSchema accepts, normalized
    Dests,    \* destination URLs the schemas accept
    Ids,      \* crypto.randomUUID() values
    None,     \* no value
    Faults    \* whether queries and bucket requests may fail

ASSUME RegistryAssumption ==
    /\ Faults \in BOOLEAN
    /\ None \notin Ids
    /\ None \notin Dests

VARIABLES
    domain,   \* the rows of the domain table
    object,   \* the mappings in the config object (no object: none)
    certs,    \* hosts with certificate material under certs/ in the bucket
    phase,    \* what each request awaits
    job,      \* each request's session and parsed input
    body,     \* mappings a request read and is about to write
    reply,    \* the answers given by the last step
    overlap   \* history: requests that have shared their time with another

registryVars == <<domain, object, certs, phase, job, body, reply, overlap>>

Row == [id : Ids, userId : Users, hostname : Hosts, destinationUrl : Dests]
Mapping == [host : Hosts, target : Dests]

Phases == {"idle", "claim", "insert", "update", "delete",
           "select", "save", "list", "collect"}

\* 201 and 200; 404; 409; 500 or no answer because the instance was killed.
Replies == {"none", "ok", "notfound", "conflict", "error"}

\* Mutated form of Export: the rows as they are.
ExportWholeRows(rows) == rows

\* The rows as exportConfigToGCS publishes them.
Export(rows) == {[host |-> r.hostname, target |-> r.destinationUrl] : r \in rows}

Claimed(h) == \E r \in domain : r.hostname = h

\* The row an owner-checked update or delete by id finds, as a set.
OwnRow(u, i) == {r \in domain : r.id = i /\ r.userId = u}

Active == {r \in Reqs : phase[r] # "idle"}

\* A random UUID: no row has it and no request in flight names it.
NewId(i) == (\A r \in domain : r.id # i) /\ (\A q \in Active : job[q].id # i)

Silent == [r \in Reqs |-> "none"]

\* The request goes on and awaits its next query or bucket request.
Await(r, place) ==
    /\ phase' = [phase EXCEPT ![r] = place]
    /\ reply' = Silent
    /\ UNCHANGED overlap

-----------------------------------------------------------------------------
(* Beginning and answering a request *)

Begin(r, place, u, h, d, i) ==
    /\ phase[r] = "idle"
    /\ phase' = [phase EXCEPT ![r] = place]
    /\ reply' = Silent
    /\ job' = [job EXCEPT ![r] = [user |-> u, host |-> h, dest |-> d, id |-> i]]
    /\ overlap' = IF Active = {} THEN overlap ELSE overlap \cup Active \cup {r}
    /\ UNCHANGED <<domain, object, certs, body>>

Post(r) == \E u \in Users, h \in Hosts, d \in Dests : Begin(r, "claim", u, h, d, None)
Put(r) == \E u \in Users, d \in Dests, i \in Ids : Begin(r, "update", u, None, d, i)
Delete(r) == \E u \in Users, i \in Ids : Begin(r, "delete", u, None, None, i)

NoJob == [user |-> None, host |-> None, dest |-> None, id |-> None]

Answer(r, code) ==
    /\ phase' = [phase EXCEPT ![r] = "idle"]
    /\ reply' = [Silent EXCEPT ![r] = code]
    /\ job' = [job EXCEPT ![r] = NoJob]
    /\ body' = [body EXCEPT ![r] = {}]
    /\ overlap' = overlap \ {r}

Init ==
    /\ domain = {}
    /\ object = {}
    /\ certs = {}
    /\ phase = [r \in Reqs |-> "idle"]
    /\ job = [r \in Reqs |-> NoJob]
    /\ body = [r \in Reqs |-> {}]
    /\ reply = Silent
    /\ overlap = {}

-----------------------------------------------------------------------------
NewRow(r, i) == [id |-> i, userId |-> job[r].user,
                 hostname |-> job[r].host, destinationUrl |-> job[r].dest]

(* Mutated forms of the actions below *)

\* No unique index.
InsertUnindexed(r) ==
    /\ phase[r] = "insert"
    /\ \E i \in Ids : NewId(i) /\ domain' = domain \cup {NewRow(r, i)}
    /\ Await(r, "select")
    /\ UNCHANGED <<object, certs, job, body>>

\* On conflict do update: the later request takes the row over.
InsertUpserts(r) ==
    /\ phase[r] = "insert"
    /\ \E i \in Ids :
         /\ NewId(i)
         /\ domain' = {row \in domain : row.hostname # job[r].host} \cup {NewRow(r, i)}
    /\ Await(r, "select")
    /\ UNCHANGED <<object, certs, job, body>>

\* An export of the requesting account's rows only.
SelectOwnRows(r) ==
    /\ phase[r] = "select"
    /\ body' = [body EXCEPT ![r] = Export({row \in domain : row.userId = job[r].user})]
    /\ Await(r, "save")
    /\ UNCHANGED <<domain, object, certs, job>>

\* A clean-up that does not pick the host's files.
CollectUnfiltered(r) ==
    /\ phase[r] = "collect"
    /\ certs' = {}
    /\ Answer(r, "ok")
    /\ UNCHANGED <<domain, object>>

-----------------------------------------------------------------------------
(* POST *)

\* "Already claimed (by anyone)?"
CheckClaim(r) ==
    /\ phase[r] = "claim"
    /\ IF Claimed(job[r].host)
       THEN Answer(r, "conflict")
       ELSE Await(r, "insert") /\ UNCHANGED <<job, body>>
    /\ UNCHANGED <<domain, object, certs>>

Insert(r) ==
    /\ phase[r] = "insert"
    /\ ~Claimed(job[r].host)
    /\ \E i \in Ids : NewId(i) /\ domain' = domain \cup {NewRow(r, i)}
    /\ Await(r, "select")
    /\ UNCHANGED <<object, certs, job, body>>

\* The unique index refuses the row: somebody else's insert came first.
InsertRefused(r) ==
    /\ phase[r] = "insert"
    /\ Claimed(job[r].host)
    /\ Answer(r, "conflict")
    /\ UNCHANGED <<domain, object, certs>>

\* Any other error of the insert is caught and answered the same, whether or
\* not the row was committed before the connection was lost.
InsertFails(r) ==
    /\ Faults
    /\ phase[r] = "insert"
    /\ \/ UNCHANGED domain
       \/ /\ ~Claimed(job[r].host)
          /\ \E i \in Ids : NewId(i) /\ domain' = domain \cup {NewRow(r, i)}
    /\ Answer(r, "conflict")
    /\ UNCHANGED <<object, certs>>

-----------------------------------------------------------------------------
(* PUT and DELETE *)

\* The rows after `set destination_url` where id and user_id match.
Updated(r) ==
    (domain \ OwnRow(job[r].user, job[r].id))
        \cup {[row EXCEPT !.destinationUrl = job[r].dest] :
                  row \in OwnRow(job[r].user, job[r].id)}

Update(r) ==
    /\ phase[r] = "update"
    /\ IF OwnRow(job[r].user, job[r].id) = {}
       THEN Answer(r, "notfound") /\ UNCHANGED domain
       ELSE /\ domain' = Updated(r)
            /\ Await(r, "select")
            /\ UNCHANGED <<job, body>>
    /\ UNCHANGED <<object, certs>>

\* The deleted row's hostname is kept for the clean-up.
DeleteRow(r) ==
    /\ phase[r] = "delete"
    /\ IF OwnRow(job[r].user, job[r].id) = {}
       THEN Answer(r, "notfound") /\ UNCHANGED domain
       ELSE /\ domain' = domain \ OwnRow(job[r].user, job[r].id)
            /\ \E row \in OwnRow(job[r].user, job[r].id) :
                 job' = [job EXCEPT ![r].host = row.hostname]
            /\ Await(r, "select")
            /\ UNCHANGED body
    /\ UNCHANGED <<object, certs>>

-----------------------------------------------------------------------------
(* exportConfigToGCS, deleteCertsForHost *)

\* A DELETE is the request that has no destination.
Deleting(r) == job[r].dest = None

SelectRows(r) ==
    /\ phase[r] = "select"
    /\ body' = [body EXCEPT ![r] = Export(domain)]
    /\ Await(r, "save")
    /\ UNCHANGED <<domain, object, certs, job>>

\* An unconditional write of the whole object; then the answer, or the clean-up.
SaveObject(r) ==
    /\ phase[r] = "save"
    /\ object' = body[r]
    /\ IF Deleting(r)
       THEN Await(r, "list") /\ UNCHANGED <<job, body>>
       ELSE Answer(r, "ok")
    /\ UNCHANGED <<domain, certs>>

\* Lists certs/ and picks the host's files; a failure is swallowed.
ListCerts(r) ==
    /\ phase[r] = "list"
    /\ \/ job[r].host \in certs /\ Await(r, "collect") /\ UNCHANGED <<job, body>>
       \/ (job[r].host \notin certs \/ Faults) /\ Answer(r, "ok")
    /\ UNCHANGED <<domain, object, certs>>

\* Deletes the files picked, by name; a failure is swallowed and they stay.
CollectCerts(r) ==
    /\ phase[r] = "collect"
    /\ \/ certs' = certs \ {job[r].host}
       \/ Faults /\ UNCHANGED certs
    /\ Answer(r, "ok")
    /\ UNCHANGED <<domain, object>>

\* A query or bucket request fails outside a try block, or the instance is
\* killed: what it had in flight did not take effect (the first disjunct) or
\* did (the others).  An insert that fails is caught, see InsertFails; an
\* instance killed after its insert aborts in "select".
Abort(r) ==
    /\ Faults
    /\ phase[r] # "idle"
    /\ \/ UNCHANGED <<domain, object, certs>>
       \/ /\ phase[r] = "update"
          /\ domain' = Updated(r)
          /\ UNCHANGED <<object, certs>>
       \/ /\ phase[r] = "delete"
          /\ domain' = domain \ OwnRow(job[r].user, job[r].id)
          /\ UNCHANGED <<object, certs>>
       \/ /\ phase[r] = "save"
          /\ object' = body[r]
          /\ UNCHANGED <<domain, certs>>
       \/ /\ phase[r] = "collect"
          /\ certs' = certs \ {job[r].host}
          /\ UNCHANGED <<domain, object>>
    /\ Answer(r, "error")

\* External: redirectd obtains a certificate and stores it.  Its own gate is
\* another component; here any host may get one at any time.
IssueCert(h) ==
    /\ certs' = certs \cup {h}
    /\ reply' = Silent
    /\ UNCHANGED <<domain, object, phase, job, body, overlap>>

Step(r) ==
    \/ CheckClaim(r)
    \/ Insert(r)
    \/ InsertRefused(r)
    \/ InsertFails(r)
    \/ Update(r)
    \/ DeleteRow(r)
    \/ SelectRows(r)
    \/ SaveObject(r)
    \/ ListCerts(r)
    \/ CollectCerts(r)

Next ==
    \/ \E r \in Reqs : Post(r) \/ Put(r) \/ Delete(r) \/ Step(r) \/ Abort(r)
    \/ \E h \in Hosts : IssueCert(h)

Spec == Init /\ [][Next]_registryVars

-----------------------------------------------------------------------------
(* Properties *)

Job == [user : Users \cup {None}, host : Hosts \cup {None},
        dest : Dests \cup {None}, id : Ids \cup {None}]

\* Every variable has its type.
TypeOK ==
    /\ domain \subseteq Row
    /\ object \subseteq Mapping
    /\ certs \subseteq Hosts
    /\ phase \in [Reqs -> Phases]
    /\ job \in [Reqs -> Job]
    /\ body \in [Reqs -> SUBSET Mapping]
    /\ reply \in [Reqs -> Replies]
    /\ overlap \subseteq Reqs

\* No two rows have the same hostname or id: however the claim checks and
\* inserts of concurrent POSTs interleave, "no one else has claimed this host"
\* (schema.ts).
UniqueClaim ==
    \A a, b \in domain : a.hostname = b.hostname \/ a.id = b.id => a = b

\* A request that ran alone and answers success leaves the config object equal
\* to the table, whatever earlier requests left behind by overlapping, failing
\* or dying half-way: each export writes everything, so it repairs the object.
SoloAnswersLive ==
    [][\A r \in Reqs :
         /\ phase[r] # "idle" /\ phase'[r] = "idle"
         /\ reply'[r] = "ok" /\ r \notin overlap
         => object' = Export(domain')]_registryVars

\* The clean-up takes the certificate of a claimed host only when the DELETE of
\* an earlier claim overlapped the new claim; otherwise only those of the host
\* it removed (gcs-export.ts: never another host's, such as its www variant).
SparesClaimedCerts ==
    [][\A h \in certs \ certs' :
         Claimed(h) => \E r \in overlap : phase[r] = "collect" /\ job[r].host = h
      ]_registryVars

\* The rows, seen as claims, only ever change as Claims allows.
claimsOf == {[host |-> r.hostname, user |-> r.userId, target |-> r.destinationUrl] :
                 r \in domain}
C == INSTANCE Claims WITH claims <- claimsOf
ImplementsClaims == C!Spec

\* "Called after any add/remove so the live service and the on-demand-TLS gate
\* stay in sync" (gcs-export.ts): with no request in flight, the object is the
\* table.
InSyncWhenIdle == Active = {} => object = Export(domain)
=============================================================================
