--------------------------- MODULE RegistryProofs ---------------------------
(***************************************************************************)
(* Proofs about Registry, for any number of concurrent requests, accounts, *)
(* hosts and ids, with failures and killed instances: type correctness,    *)
(* uniqueness of claims, the repair that a request running alone makes,    *)
(* and the implementation of Claims.                                       *)
(***************************************************************************)
EXTENDS Registry, TLAPS

\* What a request's input is when its place uses it.
JobFits ==
    \A r \in Reqs :
        /\ phase[r] \in {"claim", "insert"} =>
               job[r].user \in Users /\ job[r].host \in Hosts /\ job[r].dest \in Dests
        /\ phase[r] = "update" => job[r].dest \in Dests

TypeInv == TypeOK /\ JobFits

-----------------------------------------------------------------------------
(* The operators the handlers are made of *)

\* An export is a set of mappings.
LEMMA ExportType ==
    ASSUME NEW rows \in SUBSET Row
    PROVE  Export(rows) \in SUBSET Mapping
BY DEF Export, Row, Mapping

\* The owner-checked update keeps the table a set of rows.
LEMMA UpdatedType ==
    ASSUME TypeInv, NEW r \in Reqs, phase[r] = "update"
    PROVE  Updated(r) \subseteq Row
<1>1. \A row \in OwnRow(job[r].user, job[r].id) :
        [row EXCEPT !.destinationUrl = job[r].dest] \in Row
  BY DEF TypeInv, TypeOK, JobFits, OwnRow, Row
<1> QED
  BY <1>1 DEF TypeInv, TypeOK, Updated

\* A new row is a row.
LEMMA NewRowType ==
    ASSUME TypeInv, NEW r \in Reqs, phase[r] = "insert", NEW i \in Ids
    PROVE  NewRow(r, i) \in Row
BY DEF TypeInv, JobFits, NewRow, Row

-----------------------------------------------------------------------------
(* Types *)

\* Answering forgets the request.
LEMMA AnswerType ==
    ASSUME TypeInv, NEW r \in Reqs, NEW code \in Replies, Answer(r, code)
    PROVE  /\ phase' \in [Reqs -> Phases] /\ job' \in [Reqs -> Job]
           /\ body' \in [Reqs -> SUBSET Mapping] /\ reply' \in [Reqs -> Replies]
           /\ overlap' \subseteq Reqs
           /\ JobFits'
<1>1. NoJob \in Job
  BY DEF NoJob, Job
<1>2. Silent \in [Reqs -> Replies]
  BY DEF Silent, Replies
<1> QED
  BY <1>1, <1>2 DEF TypeInv, TypeOK, JobFits, Answer, Phases

\* Going on to a place that uses no input keeps the types.
LEMMA AwaitType ==
    ASSUME TypeInv, NEW r \in Reqs, job' = job,
           NEW place \in {"insert", "select", "save", "list", "collect"},
           place = "insert" => phase[r] = "claim",
           Await(r, place)
    PROVE  /\ phase' \in [Reqs -> Phases] /\ reply' \in [Reqs -> Replies]
           /\ overlap' \subseteq Reqs
           /\ JobFits'
<1>1. Silent \in [Reqs -> Replies]
  BY DEF Silent, Replies
<1> QED
  BY <1>1 DEF TypeInv, TypeOK, JobFits, Await, Phases

\* Beginning a request gives it the input its first place needs.
LEMMA BeginType ==
    ASSUME TypeInv, NEW r \in Reqs, Post(r) \/ Put(r) \/ Delete(r)
    PROVE  TypeInv'
<1> USE DEF TypeInv, TypeOK, JobFits, Begin, Phases, Replies, Silent, Active, Job
<1>1. CASE Post(r)
  BY <1>1 DEF Post
<1>2. CASE Put(r)
  BY <1>2 DEF Put
<1>3. CASE Delete(r)
  BY <1>3 DEF Delete
<1> QED
  BY <1>1, <1>2, <1>3

\* The handlers' own steps keep the types.
LEMMA StepType ==
    ASSUME TypeInv, NEW r \in Reqs, Step(r)
    PROVE  TypeInv'
<1> USE DEF TypeInv, TypeOK
<1> DEFINE Codes == {"ok", "notfound", "conflict", "error"}
<1>a. Codes \subseteq Replies
  BY DEF Replies
<1>1. CASE CheckClaim(r)
  BY <1>1, <1>a, AnswerType, AwaitType DEF CheckClaim
<1>2. CASE Insert(r)
  <2>1. domain' \subseteq Row
    BY <1>2, NewRowType DEF Insert
  <2>2. Await(r, "select") /\ job' = job
    BY <1>2 DEF Insert
  <2> QED
    BY <1>2, <2>1, <2>2, AwaitType DEF Insert
<1>3. CASE InsertRefused(r)
  BY <1>3, <1>a, AnswerType DEF InsertRefused
<1>4. CASE InsertFails(r)
  <2>1. domain' \subseteq Row
    BY <1>4, NewRowType DEF InsertFails
  <2> QED
    BY <1>4, <1>a, <2>1, AnswerType DEF InsertFails
<1>5. CASE Update(r)
  <2>1. domain' \subseteq Row
    BY <1>5, UpdatedType DEF Update
  <2> QED
    BY <1>5, <1>a, <2>1, AnswerType, AwaitType DEF Update
<1>6. CASE DeleteRow(r)
  <2>1. domain' \subseteq Row
    BY <1>6 DEF DeleteRow
  <2>2. CASE OwnRow(job[r].user, job[r].id) = {}
    BY <1>6, <1>a, <2>1, <2>2, AnswerType DEF DeleteRow
  <2>3. CASE OwnRow(job[r].user, job[r].id) # {}
    <3>1. PICK row \in domain : job' = [job EXCEPT ![r].host = row.hostname]
      BY <1>6, <2>3 DEF DeleteRow, OwnRow
    <3>2. row.hostname \in Hosts
      BY DEF Row
    <3>3. job' \in [Reqs -> Job]
      BY <3>1, <3>2 DEF Job
    <3>4. phase' = [phase EXCEPT ![r] = "select"] /\ reply' = Silent /\ overlap' = overlap
      BY <1>6, <2>3 DEF DeleteRow, Await
    <3>5. JobFits'
      BY <3>1, <3>4 DEF JobFits
    <3>6. UNCHANGED <<object, certs, body>>
      BY <1>6, <2>3 DEF DeleteRow
    <3> QED
      BY <2>1, <3>3, <3>4, <3>5, <3>6 DEF Silent, Replies, Phases
  <2> QED
    BY <2>2, <2>3
<1>7. CASE SelectRows(r)
  <2>1. body' \in [Reqs -> SUBSET Mapping]
    BY <1>7, ExportType DEF SelectRows
  <2> QED
    BY <1>7, <2>1, AwaitType DEF SelectRows
<1>8. CASE SaveObject(r)
  BY <1>8, <1>a, AnswerType, AwaitType DEF SaveObject
<1>9. CASE ListCerts(r)
  BY <1>9, <1>a, AnswerType, AwaitType DEF ListCerts
<1>10. CASE CollectCerts(r)
  BY <1>10, <1>a, AnswerType DEF CollectCerts
<1> QED
  BY <1>1, <1>2, <1>3, <1>4, <1>5, <1>6, <1>7, <1>8, <1>9, <1>10 DEF Step

\* Failing and being killed keep the types.
LEMMA AbortType ==
    ASSUME TypeInv, NEW r \in Reqs, Abort(r)
    PROVE  TypeInv'
<1>1. domain' \subseteq Row /\ object' \subseteq Mapping /\ certs' \subseteq Hosts
  BY UpdatedType DEF Abort, TypeInv, TypeOK
<1>2. Answer(r, "error") /\ "error" \in Replies
  BY DEF Abort, Replies
<1> QED
  BY <1>1, <1>2, AnswerType DEF TypeInv, TypeOK

\* Types and request inputs, in every behaviour.
THEOREM TypeInvariance == Spec => []TypeInv
<1>1. Init => TypeInv
  BY DEF Init, TypeInv, TypeOK, JobFits, NoJob, Job, Silent, Replies, Phases
<1>2. TypeInv /\ [Next]_registryVars => TypeInv'
  <2> SUFFICES ASSUME TypeInv, [Next]_registryVars PROVE TypeInv'
    OBVIOUS
  <2>1. ASSUME NEW r \in Reqs, Post(r) \/ Put(r) \/ Delete(r) \/ Step(r) \/ Abort(r)
        PROVE  TypeInv'
    BY <2>1, BeginType, StepType, AbortType
  <2>2. ASSUME NEW h \in Hosts, IssueCert(h) PROVE TypeInv'
    BY <2>2 DEF IssueCert, TypeInv, TypeOK, JobFits, Silent, Replies
  <2>3. CASE UNCHANGED registryVars
    BY <2>3 DEF registryVars, TypeInv, TypeOK, JobFits
  <2> QED
    BY <2>1, <2>2, <2>3 DEF Next
<1> QED
  BY <1>1, <1>2, PTL DEF Spec

\* Every variable keeps its type.
THEOREM Typing == Spec => []TypeOK
<1>1. TypeInv => TypeOK
  BY DEF TypeInv
<1> QED
  BY <1>1, TypeInvariance, PTL

-----------------------------------------------------------------------------
(* Uniqueness of claims *)

\* Which steps change the table at all: the others leave it alone.
TableStep(r) ==
    \/ /\ phase[r] = "insert" /\ ~Claimed(job[r].host)
       /\ \E i \in Ids : NewId(i) /\ domain' = domain \cup {NewRow(r, i)}
    \/ /\ phase[r] = "update" /\ domain' = Updated(r)
    \/ /\ phase[r] = "delete" /\ domain' = domain \ OwnRow(job[r].user, job[r].id)

LEMMA TableSteps ==
    ASSUME [Next]_registryVars
    PROVE  UNCHANGED domain \/ \E r \in Reqs : TableStep(r)
BY DEF Next, registryVars, TableStep, Post, Put, Delete, Begin, Step, CheckClaim,
   Insert, InsertRefused, InsertFails, Update, DeleteRow, SelectRows, SaveObject,
   ListCerts, CollectCerts, Abort, IssueCert

\* With unique ids, an update finds at most one row.
LEMMA OwnRowUnique ==
    ASSUME UniqueClaim, NEW u, NEW i
    PROVE  \A a, b \in OwnRow(u, i) : a = b
BY DEF UniqueClaim, OwnRow

\* An insert, an update or a delete keeps hostnames and ids unique.
LEMMA UniqueStep ==
    ASSUME TypeInv, UniqueClaim, NEW r \in Reqs, TableStep(r)
    PROVE  UniqueClaim'
<1> USE DEF TypeInv, TypeOK
<1>1. ASSUME phase[r] = "insert", ~Claimed(job[r].host), NEW i \in Ids, NewId(i),
             domain' = domain \cup {NewRow(r, i)}
      PROVE  UniqueClaim'
  BY <1>1 DEF UniqueClaim, Claimed, NewId, NewRow
<1>2. ASSUME phase[r] = "update", domain' = Updated(r) PROVE UniqueClaim'
  <2> DEFINE Own == OwnRow(job[r].user, job[r].id)
             Changed(a) == [a EXCEPT !.destinationUrl = job[r].dest]
  <2>1. \A a \in domain : Changed(a).id = a.id /\ Changed(a).hostname = a.hostname
    BY DEF Row
  <2>2. domain' = (domain \ Own) \cup {Changed(a) : a \in Own}
    BY <1>2 DEF Updated
  <2> HIDE DEF Changed
  <2>3. Own \subseteq domain
    BY DEF OwnRow
  <2>4. ASSUME NEW b \in domain'
        PROVE  \E a \in domain : /\ a.id = b.id /\ a.hostname = b.hostname
                                 /\ b = IF a \in Own THEN Changed(a) ELSE a
    BY <2>1, <2>2, <2>3
  <2> QED
    BY <2>4 DEF UniqueClaim
<1>3. ASSUME phase[r] = "delete", domain' = domain \ OwnRow(job[r].user, job[r].id)
      PROVE  UniqueClaim'
  BY <1>3 DEF UniqueClaim
<1> QED
  BY <1>1, <1>2, <1>3 DEF TableStep

\* No host is ever claimed twice, whatever the interleaving.
THEOREM Uniqueness == Spec => []UniqueClaim
<1>1. Init => UniqueClaim
  BY DEF Init, UniqueClaim
<1>2. TypeInv /\ UniqueClaim /\ [Next]_registryVars => UniqueClaim'
  <2> SUFFICES ASSUME TypeInv, UniqueClaim, [Next]_registryVars PROVE UniqueClaim'
    OBVIOUS
  <2>1. CASE UNCHANGED domain
    BY <2>1 DEF UniqueClaim
  <2> QED
    BY <2>1, TableSteps, UniqueStep
<1> QED
  BY <1>1, <1>2, TypeInvariance, PTL DEF Spec

-----------------------------------------------------------------------------
(***************************************************************************)
(* The repair.  While a request has not overlapped another, every other    *)
(* request is idle (OverlapExact), so nothing changes the table between    *)
(* its select and its save (SoloSnapshot) nor the object between its save  *)
(* and its answer (SoloPublished).                                         *)
(***************************************************************************)

OverlapExact ==
    \A r, s \in Reqs :
        phase[r] # "idle" /\ phase[s] # "idle" /\ r # s => r \in overlap

SoloSnapshot ==
    \A r \in Reqs : phase[r] = "save" /\ r \notin overlap => body[r] = Export(domain)

SoloPublished ==
    \A r \in Reqs :
        phase[r] \in {"list", "collect"} /\ r \notin overlap => object = Export(domain)

SoloInv == TypeInv /\ OverlapExact /\ SoloSnapshot /\ SoloPublished

\* A request that begins overlaps with every active one, from now on.
LEMMA BeginSolo ==
    ASSUME SoloInv, NEW r \in Reqs, Post(r) \/ Put(r) \/ Delete(r)
    PROVE  OverlapExact' /\ SoloSnapshot' /\ SoloPublished'
<1>1. PICK place \in {"claim", "update", "delete"} :
          phase[r] = "idle" /\ phase' = [phase EXCEPT ![r] = place]
  BY DEF Post, Put, Delete, Begin
<1>2. /\ UNCHANGED <<domain, object, body>>
      /\ overlap' = IF Active = {} THEN overlap ELSE overlap \cup Active \cup {r}
  BY DEF Post, Put, Delete, Begin
<1>3. OverlapExact'
  BY <1>1, <1>2 DEF SoloInv, TypeInv, TypeOK, OverlapExact, Active
<1>4. SoloSnapshot' /\ SoloPublished'
  BY <1>1, <1>2 DEF SoloInv, TypeInv, TypeOK, SoloSnapshot, SoloPublished
<1> QED
  BY <1>3, <1>4

\* What a step of an active request does to the others' overlap: nothing.
LEMMA ActiveStep ==
    ASSUME SoloInv, NEW r \in Reqs, Step(r) \/ Abort(r)
    PROVE  /\ phase[r] # "idle"
           /\ \A s \in Reqs \ {r} : phase'[s] = phase[s] /\ body'[s] = body[s]
                                    /\ (s \in overlap' <=> s \in overlap)
           /\ \/ phase'[r] = "idle"
              \/ phase'[r] # "idle" /\ overlap' = overlap
<1> USE DEF SoloInv, TypeInv, TypeOK, Answer, Await
<1>1. CASE CheckClaim(r) \/ Insert(r) \/ InsertRefused(r) \/ InsertFails(r)
  BY <1>1 DEF CheckClaim, Insert, InsertRefused, InsertFails
<1>2. CASE Update(r) \/ DeleteRow(r) \/ SelectRows(r) \/ SaveObject(r)
  BY <1>2 DEF Update, DeleteRow, SelectRows, SaveObject
<1>3. CASE ListCerts(r) \/ CollectCerts(r) \/ Abort(r)
  BY <1>3 DEF ListCerts, CollectCerts, Abort
<1> QED
  BY <1>1, <1>2, <1>3 DEF Step

\* What it does to its own snapshot and to the object.
LEMMA OwnStep ==
    ASSUME SoloInv, NEW r \in Reqs, Step(r) \/ Abort(r)
    PROVE  /\ phase'[r] = "save" => body'[r] = Export(domain) /\ domain' = domain
           /\ phase'[r] = "list" => /\ phase[r] = "save" /\ domain' = domain
                                    /\ object' = body[r]
           /\ phase'[r] = "collect" => /\ phase[r] = "list"
                                       /\ UNCHANGED <<domain, object>>
<1> USE DEF SoloInv, TypeInv, TypeOK, Answer, Await
<1>1. CASE CheckClaim(r) \/ Insert(r) \/ InsertRefused(r) \/ InsertFails(r)
  BY <1>1 DEF CheckClaim, Insert, InsertRefused, InsertFails
<1>2. CASE Update(r) \/ DeleteRow(r) \/ SelectRows(r) \/ SaveObject(r)
  BY <1>2 DEF Update, DeleteRow, SelectRows, SaveObject
<1>3. CASE ListCerts(r) \/ CollectCerts(r) \/ Abort(r)
  BY <1>3 DEF ListCerts, CollectCerts, Abort
<1> QED
  BY <1>1, <1>2, <1>3 DEF Step

\* Hence a step of an active request keeps the invariant.
LEMMA StepSolo ==
    ASSUME SoloInv, TypeInv', NEW r \in Reqs, Step(r) \/ Abort(r)
    PROVE  OverlapExact' /\ SoloSnapshot' /\ SoloPublished'
<1>1. OverlapExact'
  BY ActiveStep DEF SoloInv, OverlapExact
<1>2. \A s \in Reqs \ {r} : phase[s] # "idle" => s \in overlap
  BY ActiveStep DEF SoloInv, OverlapExact
<1>4. SoloSnapshot'
  <2> SUFFICES ASSUME NEW s \in Reqs, phase'[s] = "save", s \notin overlap'
               PROVE  body'[s] = Export(domain')
    BY DEF SoloSnapshot
  <2>1. s = r
    BY <1>2, ActiveStep
  <2> QED
    BY <2>1, OwnStep
<1>5. SoloPublished'
  <2> SUFFICES ASSUME NEW s \in Reqs, phase'[s] \in {"list", "collect"}, s \notin overlap'
               PROVE  object' = Export(domain')
    BY DEF SoloPublished
  <2>1. s = r
    BY <1>2, ActiveStep
  <2>2. r \notin overlap
    BY <2>1, ActiveStep
  <2> QED
    BY <2>1, <2>2, OwnStep DEF SoloInv, SoloSnapshot, SoloPublished
<1> QED
  BY <1>1, <1>4, <1>5

\* An answer "ok" is given by the save, or after it by a clean-up that leaves
\* table and object alone.
LEMMA OkAnswer ==
    ASSUME SoloInv, [Next]_registryVars, NEW r \in Reqs,
           phase[r] # "idle", phase'[r] = "idle", reply'[r] = "ok"
    PROVE  /\ domain' = domain
           /\ \/ phase[r] = "save" /\ object' = body[r]
              \/ phase[r] \in {"list", "collect"} /\ object' = object
<1> USE DEF SoloInv, TypeInv, TypeOK
<1>1. ASSUME NEW s \in Reqs, Post(s) \/ Put(s) \/ Delete(s) PROVE FALSE
  BY <1>1 DEF Post, Put, Delete, Begin
<1>2. ASSUME NEW h \in Hosts, IssueCert(h) PROVE FALSE
  BY <1>2 DEF IssueCert
<1>3. CASE UNCHANGED registryVars
  BY <1>3 DEF registryVars
<1>4. ASSUME NEW s \in Reqs, Step(s) \/ Abort(s), s # r PROVE FALSE
  BY <1>4, ActiveStep
<1>5. CASE CheckClaim(r) \/ Insert(r) \/ InsertRefused(r) \/ InsertFails(r)
  BY <1>5 DEF CheckClaim, Insert, InsertRefused, InsertFails, Answer, Await, Silent
<1>6. CASE Update(r) \/ DeleteRow(r) \/ SelectRows(r) \/ SaveObject(r)
  BY <1>6 DEF Update, DeleteRow, SelectRows, SaveObject, Answer, Await, Silent
<1>7. CASE ListCerts(r) \/ CollectCerts(r) \/ Abort(r)
  BY <1>7 DEF ListCerts, CollectCerts, Abort, Answer, Await, Silent
<1> QED
  BY <1>1, <1>2, <1>3, <1>4, <1>5, <1>6, <1>7 DEF Next, Step

\* The invariant of requests that run alone, in every behaviour.
THEOREM SoloInvariance == Spec => []SoloInv
<1>1. Init => SoloInv
  BY DEF Init, SoloInv, TypeInv, TypeOK, JobFits, NoJob, Job, Silent, Replies, Phases,
     OverlapExact, SoloSnapshot, SoloPublished
<1>2. SoloInv /\ TypeInv' /\ [Next]_registryVars => SoloInv'
  <2> SUFFICES ASSUME SoloInv, TypeInv', [Next]_registryVars PROVE SoloInv'
    OBVIOUS
  <2>1. ASSUME NEW r \in Reqs, Post(r) \/ Put(r) \/ Delete(r) \/ Step(r) \/ Abort(r)
        PROVE  SoloInv'
    BY <2>1, BeginSolo, StepSolo DEF SoloInv
  <2>2. ASSUME NEW h \in Hosts, IssueCert(h) PROVE SoloInv'
    BY <2>2 DEF IssueCert, SoloInv, OverlapExact, SoloSnapshot, SoloPublished
  <2>3. CASE UNCHANGED registryVars
    BY <2>3 DEF registryVars, SoloInv, OverlapExact, SoloSnapshot, SoloPublished
  <2> QED
    BY <2>1, <2>2, <2>3 DEF Next
<1> QED
  BY <1>1, <1>2, TypeInvariance, PTL DEF Spec

\* A request that ran alone and succeeds publishes the whole table, whatever
\* overlapping, failed or killed requests had left in the object before.
THEOREM SoloRepairs == Spec => SoloAnswersLive
<1>1. SoloInv /\ [Next]_registryVars =>
        \A r \in Reqs :
            /\ phase[r] # "idle" /\ phase'[r] = "idle"
            /\ reply'[r] = "ok" /\ r \notin overlap
            => object' = Export(domain')
  <2> SUFFICES ASSUME SoloInv, [Next]_registryVars, NEW r \in Reqs,
                      phase[r] # "idle", phase'[r] = "idle",
                      reply'[r] = "ok", r \notin overlap
               PROVE  object' = Export(domain')
    OBVIOUS
  <2>1. domain' = domain
    BY OkAnswer
  <2> QED
    BY <2>1, OkAnswer DEF SoloInv, SoloSnapshot, SoloPublished
<1> QED
  BY <1>1, SoloInvariance, PTL DEF Spec, SoloAnswersLive

-----------------------------------------------------------------------------
(***************************************************************************)
(* The clean-up.  A DELETE that has not overlapped another request goes    *)
(* from the removal of its row to the last file with the host unclaimed:   *)
(* the host had that one row (UniqueClaim), and nobody inserts another.    *)
(***************************************************************************)

\* Only a DELETE gets as far as the clean-up.
CleanerDeletes == \A r \in Reqs : phase[r] \in {"list", "collect"} => Deleting(r)

\* While it runs alone, the host that a DELETE has removed is nobody's.
SoloRemoved ==
    \A r \in Reqs :
        /\ phase[r] \in {"select", "save", "list", "collect"}
        /\ Deleting(r) /\ r \notin overlap
        => ~Claimed(job[r].host)

CleanInv == SoloInv /\ UniqueClaim /\ CleanerDeletes /\ SoloRemoved

\* A request that begins awaits none of the places in question, and takes nobody
\* out of overlap.
LEMMA BeginClean ==
    ASSUME CleanInv, NEW r \in Reqs, Post(r) \/ Put(r) \/ Delete(r)
    PROVE  CleanerDeletes' /\ SoloRemoved'
<1>1. PICK place, u, h, d, i : /\ place \in {"claim", "update", "delete"}
                               /\ Begin(r, place, u, h, d, i)
  BY DEF Post, Put, Delete
<1>2. /\ phase' = [phase EXCEPT ![r] = place] /\ UNCHANGED domain
      /\ \A s \in Reqs \ {r} : job'[s] = job[s]
      /\ overlap \subseteq overlap'
  BY <1>1 DEF Begin, CleanInv, SoloInv, TypeInv, TypeOK
<1>3. CleanerDeletes'
  BY <1>1, <1>2 DEF CleanInv, SoloInv, TypeInv, TypeOK, CleanerDeletes, Deleting
<1>4. SoloRemoved'
  BY <1>1, <1>2 DEF CleanInv, SoloInv, TypeInv, TypeOK, SoloRemoved, Deleting, Claimed
<1> QED
  BY <1>3, <1>4

\* The removal of a row leaves its host unclaimed.
LEMMA RemovalFrees ==
    ASSUME TypeOK, UniqueClaim, NEW r \in Reqs, DeleteRow(r), phase'[r] = "select"
    PROVE  \A row \in domain' : row.hostname # job'[r].host
<1>1. OwnRow(job[r].user, job[r].id) # {}
  BY DEF DeleteRow, Answer, TypeOK
<1>2. PICK own \in OwnRow(job[r].user, job[r].id) :
        job' = [job EXCEPT ![r].host = own.hostname]
  BY <1>1 DEF DeleteRow
<1>3. domain' = domain \ OwnRow(job[r].user, job[r].id)
  BY <1>1 DEF DeleteRow
<1>4. job'[r].host = own.hostname
  BY <1>2 DEF TypeOK, Job
<1> QED
  BY <1>2, <1>3, <1>4 DEF OwnRow, UniqueClaim

\* What a step does to the input of its own request and of the others.
LEMMA JobStep ==
    ASSUME CleanInv, NEW r \in Reqs, Step(r) \/ Abort(r)
    PROVE  /\ \A s \in Reqs \ {r} : job'[s] = job[s]
           /\ phase'[r] \in {"list", "collect"} => Deleting(r) /\ job' = job
           /\ phase'[r] \in {"save", "list", "collect"} =>
                  /\ phase[r] \in {"select", "save", "list", "collect"}
                  /\ UNCHANGED <<domain, job, overlap>>
           /\ phase'[r] = "select" =>
                  DeleteRow(r) \/ (job' = job /\ job[r].dest # None)
<1> USE RegistryAssumption DEF CleanInv, SoloInv, TypeInv, TypeOK, Answer, Await
<1>1. CASE CheckClaim(r) \/ Insert(r) \/ InsertRefused(r) \/ InsertFails(r)
  BY <1>1 DEF CheckClaim, Insert, InsertRefused, InsertFails, JobFits
<1>2. CASE Update(r) \/ DeleteRow(r)
  BY <1>2 DEF Update, DeleteRow, JobFits
<1>3. CASE SelectRows(r) \/ SaveObject(r)
  BY <1>3 DEF SelectRows, SaveObject
<1>4. CASE ListCerts(r) \/ CollectCerts(r) \/ Abort(r)
  BY <1>4 DEF ListCerts, CollectCerts, Abort, CleanerDeletes
<1> QED
  BY <1>1, <1>2, <1>3, <1>4 DEF Step

\* A step of an active request: the others that are active overlap.
LEMMA StepClean ==
    ASSUME CleanInv, TypeInv', NEW r \in Reqs, Step(r) \/ Abort(r)
    PROVE  CleanerDeletes' /\ SoloRemoved'
<1>1. CleanerDeletes'
  <2> SUFFICES ASSUME NEW s \in Reqs, phase'[s] \in {"list", "collect"}
               PROVE  job'[s].dest = None
    BY DEF CleanerDeletes, Deleting
  <2>1. CASE s = r
    BY <2>1, JobStep DEF Deleting
  <2>2. CASE s # r
    <3>1. job'[s] = job[s] /\ phase'[s] = phase[s]
      BY <2>2, JobStep, ActiveStep DEF CleanInv, SoloInv
    <3> QED
      BY <3>1 DEF CleanInv, CleanerDeletes, Deleting
  <2> QED
    BY <2>1, <2>2
<1>2. SoloRemoved'
  <2> SUFFICES ASSUME NEW s \in Reqs,
                      phase'[s] \in {"select", "save", "list", "collect"},
                      job'[s].dest = None, s \notin overlap'
               PROVE  \A row \in domain' : row.hostname # job'[s].host
    BY DEF SoloRemoved, Deleting, Claimed
  <2>1. s = r
    BY ActiveStep DEF CleanInv, SoloInv, OverlapExact
  <2>2. CASE phase'[r] = "select"
    <3>1. DeleteRow(r)
      BY <2>1, <2>2, JobStep DEF Deleting
    <3> QED
      BY <2>1, <2>2, <3>1, RemovalFrees DEF Claimed, CleanInv, SoloInv, TypeInv
  <2>3. CASE phase'[r] # "select"
    <3>1. /\ phase[r] \in {"select", "save", "list", "collect"}
          /\ UNCHANGED <<domain, job, overlap>>
      BY <2>1, <2>3, JobStep
    <3> QED
      BY <2>1, <3>1 DEF Claimed, Deleting, CleanInv, SoloRemoved
  <2> QED
    BY <2>2, <2>3
<1> QED
  BY <1>1, <1>2

\* Certificate files go in the last step of a clean-up only, those of its host.
LEMMA CertsGo ==
    ASSUME [Next]_registryVars, NEW h \in certs \ certs'
    PROVE  \E r \in Reqs : phase[r] = "collect" /\ job[r].host = h
<1>1. ASSUME NEW r \in Reqs, Post(r) \/ Put(r) \/ Delete(r) PROVE FALSE
  BY <1>1 DEF Post, Put, Delete, Begin
<1>2. ASSUME NEW g \in Hosts, IssueCert(g) PROVE FALSE
  BY <1>2 DEF IssueCert
<1>3. ASSUME NEW r \in Reqs, Step(r) \/ Abort(r)
      PROVE  phase[r] = "collect" /\ job[r].host = h
  BY <1>3 DEF Step, CheckClaim, Insert, InsertRefused, InsertFails, Update, DeleteRow,
     SelectRows, SaveObject, ListCerts, CollectCerts, Abort
<1> QED
  BY <1>1, <1>2, <1>3 DEF Next, registryVars

\* The certificate of a claimed host is taken only by the DELETE of an earlier
\* claim that overlapped another request.
THEOREM Sparing == Spec => SparesClaimedCerts
<1>1. Init => CleanInv
  BY DEF Init, CleanInv, SoloInv, TypeInv, TypeOK, JobFits, NoJob, Job, Silent, Replies,
     Phases, OverlapExact, SoloSnapshot, SoloPublished, UniqueClaim, CleanerDeletes,
     SoloRemoved
<1>2. /\ CleanInv /\ SoloInv' /\ UniqueClaim' /\ [Next]_registryVars
      => CleanInv'
  <2> SUFFICES ASSUME CleanInv, SoloInv', UniqueClaim', [Next]_registryVars
               PROVE  CleanInv'
    OBVIOUS
  <2>1. ASSUME NEW r \in Reqs, Post(r) \/ Put(r) \/ Delete(r) \/ Step(r) \/ Abort(r)
        PROVE  CleanInv'
    BY <2>1, BeginClean, StepClean DEF CleanInv, SoloInv
  <2>2. ASSUME NEW h \in Hosts, IssueCert(h) PROVE CleanInv'
    BY <2>2 DEF IssueCert, CleanInv, CleanerDeletes, SoloRemoved, Deleting, Claimed
  <2>3. CASE UNCHANGED registryVars
    BY <2>3 DEF registryVars, CleanInv, CleanerDeletes, SoloRemoved, Deleting, Claimed
  <2> QED
    BY <2>1, <2>2, <2>3 DEF Next
<1>3. CleanInv /\ [Next]_registryVars =>
        \A h \in certs \ certs' :
            Claimed(h) => \E r \in overlap : phase[r] = "collect" /\ job[r].host = h
  <2> SUFFICES ASSUME CleanInv, [Next]_registryVars, NEW h \in certs \ certs', Claimed(h)
               PROVE  \E r \in overlap : phase[r] = "collect" /\ job[r].host = h
    OBVIOUS
  <2>1. PICK r \in Reqs : phase[r] = "collect" /\ job[r].host = h
    BY CertsGo
  <2>2. r \in overlap
    BY <2>1 DEF CleanInv, CleanerDeletes, SoloRemoved
  <2> QED
    BY <2>1, <2>2
<1> QED
  BY <1>1, <1>2, <1>3, SoloInvariance, Uniqueness, PTL DEF Spec, SparesClaimedCerts

-----------------------------------------------------------------------------
(* The rows implement Claims *)

\* The claim a row stands for.
claimOf(row) ==
    [host |-> row.hostname, user |-> row.userId, target |-> row.destinationUrl]

LEMMA ClaimsOf == claimsOf = {claimOf(row) : row \in domain}
BY DEF claimsOf, claimOf

\* With unique hostnames, different rows stand for different claims.
LEMMA ClaimOfInjective ==
    ASSUME UniqueClaim
    PROVE  \A a, b \in domain : claimOf(a) = claimOf(b) => a = b
BY DEF UniqueClaim, claimOf

\* An insert registers a free host.
LEMMA InsertRegisters ==
    ASSUME TypeInv, NEW r \in Reqs, phase[r] = "insert", ~Claimed(job[r].host),
           NEW i \in Ids, domain' = domain \cup {NewRow(r, i)}
    PROVE  C!Next
<1> DEFINE u == job[r].user
           h == job[r].host
           d == job[r].dest
<1>1. u \in Users /\ h \in Hosts /\ d \in Dests
  BY DEF TypeInv, JobFits
<1>2. C!Free(h)
  BY DEF C!Free, claimsOf, Claimed
<1>3. claimOf(NewRow(r, i)) = [host |-> h, user |-> u, target |-> d]
  BY DEF claimOf, NewRow
<1>4. claimsOf' = claimsOf \cup {[host |-> h, user |-> u, target |-> d]}
  BY <1>3, ClaimsOf DEF claimsOf, claimOf, NewRow
<1> QED
  BY <1>1, <1>2, <1>4 DEF C!Next, C!Register

\* An owner-checked update retargets the claim of the one row it finds.
LEMMA UpdateRetargets ==
    ASSUME TypeInv, UniqueClaim, NEW r \in Reqs, phase[r] = "update",
           domain' = Updated(r)
    PROVE  C!Next \/ UNCHANGED claimsOf
<1> DEFINE Own == OwnRow(job[r].user, job[r].id)
           d == job[r].dest
           Changed(a) == [a EXCEPT !.destinationUrl = d]
<1> USE DEF TypeInv, TypeOK
<1>1. CASE Own = {}
  <2>1. domain' = domain
    BY <1>1 DEF Updated
  <2> QED
    BY <2>1 DEF claimsOf
<1>2. CASE Own # {}
  <2>1. PICK a \in domain : Own = {a}
    BY <1>2, OwnRowUnique DEF OwnRow
  <2>2. domain' = (domain \ {a}) \cup {Changed(a)}
    BY <2>1 DEF Updated
  <2>3. claimOf(Changed(a)) = [claimOf(a) EXCEPT !.target = d]
    BY DEF claimOf, Row
  <2>4. claimsOf' = (claimsOf \ {claimOf(a)}) \cup {[claimOf(a) EXCEPT !.target = d]}
    <3>1. claimsOf' = {claimOf(row) : row \in domain'}
      BY DEF claimsOf, claimOf
    <3>2. {claimOf(row) : row \in domain \ {a}} = claimsOf \ {claimOf(a)}
      BY ClaimsOf, ClaimOfInjective
    <3> HIDE DEF Changed
    <3> QED
      BY <2>2, <2>3, <3>1, <3>2
  <2>5. claimOf(a) \in claimsOf /\ d \in Dests
    BY ClaimsOf DEF JobFits
  <2> QED
    BY <2>4, <2>5 DEF C!Next, C!Retarget
<1> QED
  BY <1>1, <1>2

\* An owner-checked delete releases the claim of the one row it finds.
LEMMA DeleteReleases ==
    ASSUME TypeInv, UniqueClaim, NEW r \in Reqs, phase[r] = "delete",
           domain' = domain \ OwnRow(job[r].user, job[r].id)
    PROVE  C!Next \/ UNCHANGED claimsOf
<1> DEFINE Own == OwnRow(job[r].user, job[r].id)
<1>1. CASE Own = {}
  BY <1>1 DEF claimsOf
<1>2. CASE Own # {}
  <2>1. PICK a \in domain : Own = {a}
    BY <1>2, OwnRowUnique DEF OwnRow
  <2>2. claimsOf' = claimsOf \ {claimOf(a)}
    <3>1. claimsOf' = {claimOf(row) : row \in domain \ {a}}
      BY <2>1 DEF claimsOf, claimOf
    <3> QED
      BY <3>1, ClaimsOf, ClaimOfInjective
  <2>3. claimOf(a) \in claimsOf
    BY ClaimsOf
  <2> QED
    BY <2>2, <2>3 DEF C!Next, C!Release
<1> QED
  BY <1>1, <1>2

\* Through every interleaving and failure, the table changes one claim at a
\* time, and a claimed host never goes straight to another account.
THEOREM Refinement == Spec => ImplementsClaims
<1>1. Init => C!Init
  BY DEF Init, C!Init, claimsOf
<1>2. TypeInv /\ UniqueClaim /\ [Next]_registryVars => [C!Next]_claimsOf
  <2> SUFFICES ASSUME TypeInv, UniqueClaim, [Next]_registryVars
               PROVE  C!Next \/ UNCHANGED claimsOf
    OBVIOUS
  <2>1. CASE UNCHANGED domain
    BY <2>1 DEF claimsOf
  <2>2. ASSUME NEW r \in Reqs, TableStep(r) PROVE C!Next \/ UNCHANGED claimsOf
    BY <2>2, InsertRegisters, UpdateRetargets, DeleteReleases DEF TableStep
  <2> QED
    BY <2>1, <2>2, TableSteps
<1> QED
  BY <1>1, <1>2, TypeInvariance, Uniqueness, PTL DEF Spec, ImplementsClaims, C!Spec
=============================================================================
