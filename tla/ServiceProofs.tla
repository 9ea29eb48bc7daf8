--------------------------- MODULE ServiceProofs ----------------------------
(***************************************************************************)
(* Proofs about Service, for any requests, operators and servers: which    *)
(* writes of the shared object can drop a redirect that stays registered.  *)
(***************************************************************************)
EXTENDS Service, TLAPS

(***************************************************************************)
(* The inductive invariant.  A request that is alone is about to write the *)
(* table (Snapshots), since nobody changes the table beside it             *)
(* (OverlapExact).  A command that was not overtaken is about to write the *)
(* object, but for its own host; and one that adds has its host in its     *)
(* draft (Drafts).  The two writers know nothing of each other, and need   *)
(* not: whatever the one writes overtakes the other's commands, and an     *)
(* export does not depend on what is in the object.                        *)
(***************************************************************************)

\* The variables that are updated at one request's or operator's entry.
Functions ==
    /\ phase \in [Reqs -> Web!Phases]
    /\ body = [r \in Reqs |-> body[r]]
    /\ stage \in [Operators -> {"idle", "save"}]
    /\ order = [o \in Operators |-> order[o]]
    /\ draft = [o \in Operators |-> draft[o]]

OverlapExact ==
    \A r, s \in Reqs :
        phase[r] # "idle" /\ phase[s] # "idle" /\ r # s => r \in overlap

Snapshots ==
    \A r \in Reqs : phase[r] = "save" /\ r \notin overlap => body[r] = Web!Export(domain)

\* What a command is about to write.
DraftFits(o, c) ==
    /\ order[o] = {c}
    /\ c = [command |-> "remove", host |-> c.host] \/ Ops!On(draft[o], c.host) # {}
    /\ o \notin overtaken => \A g : g # c.host => Ops!On(draft[o], g) = Ops!On(object, g)

Drafts ==
    \A o \in Operators : stage[o] = "save" => \E c : DraftFits(o, c)

WritersInv == Functions /\ OverlapExact /\ Snapshots /\ Drafts

-----------------------------------------------------------------------------
(* The web tier's steps *)

\* What one request's step does to the requests.
LEMMA RequestMoves ==
    ASSUME WritersInv, NEW r \in Reqs,
           Web!Post(r) \/ Web!Put(r) \/ Web!Delete(r) \/ Web!Step(r) \/ Web!Abort(r)
    PROVE  /\ phase' \in [Reqs -> Web!Phases] /\ body' = [s \in Reqs |-> body'[s]]
           /\ \A s \in Reqs \ {r} : phase'[s] = phase[s] /\ body'[s] = body[s]
           /\ overlap \ {r} \subseteq overlap'
           /\ phase'[r] # "idle" /\ r \in overlap => r \in overlap'
           /\ phase[r] = "idle" =>
                 /\ UNCHANGED domain /\ phase'[r] # "save"
                 /\ \A s \in Reqs \ {r} : phase[s] # "idle" => {r, s} \subseteq overlap'
           /\ phase'[r] = "save" => body'[r] = Web!Export(domain')
           /\ object' = object \/ (phase[r] = "save" /\ object' = body[r] /\ domain' = domain)
<1> USE DEF WritersInv, Functions, Web!Phases, Web!Answer, Web!Await
<1>1. CASE Web!Post(r) \/ Web!Put(r) \/ Web!Delete(r)
  <2>1. PICK place, u, h, d, i : /\ place \in {"claim", "update", "delete"}
                                  /\ Web!Begin(r, place, u, h, d, i)
    BY <1>1 DEF Web!Post, Web!Put, Web!Delete
  <2>2. /\ phase[r] = "idle" /\ phase' = [phase EXCEPT ![r] = place]
        /\ UNCHANGED <<domain, object, body>>
        /\ overlap' = IF Web!Active = {} THEN overlap ELSE overlap \cup Web!Active \cup {r}
    BY <2>1 DEF Web!Begin
  <2>3. phase' \in [Reqs -> Web!Phases] /\ phase'[r] = place
    BY <2>1, <2>2
  <2> QED
    BY <2>1, <2>2, <2>3 DEF Web!Active
<1>2. CASE Web!CheckClaim(r) \/ Web!Insert(r) \/ Web!InsertRefused(r) \/ Web!InsertFails(r)
  BY <1>2 DEF Web!CheckClaim, Web!Insert, Web!InsertRefused, Web!InsertFails
<1>3. CASE Web!Update(r) \/ Web!DeleteRow(r)
  BY <1>3 DEF Web!Update, Web!DeleteRow
<1>4. CASE Web!SelectRows(r) \/ Web!SaveObject(r)
  BY <1>4 DEF Web!SelectRows, Web!SaveObject
<1>5. CASE Web!ListCerts(r) \/ Web!CollectCerts(r) \/ Web!Abort(r)
  BY <1>5 DEF Web!ListCerts, Web!CollectCerts, Web!Abort
<1> QED
  BY <1>1, <1>2, <1>3, <1>4, <1>5 DEF Web!Step

\* Whatever a step writes, the drafts of the commands that it leaves under way
\* fit, or are marked as overtaken.
LEMMA OvertakeDrafts ==
    ASSUME WritersInv, Ops!Overtake,
           \A o \in Operators : stage'[o] = "save" =>
               stage[o] = "save" /\ order'[o] = order[o] /\ draft'[o] = draft[o]
    PROVE  Drafts'
<1> SUFFICES ASSUME NEW o \in Operators, stage'[o] = "save"
             PROVE  \E c : DraftFits(o, c)'
  BY DEF Drafts
<1>1. PICK c : DraftFits(o, c)
  BY DEF WritersInv, Drafts
<1>2. o \notin overtaken' => object' = object /\ o \notin overtaken
  BY DEF Ops!Overtake
<1>3. DraftFits(o, c)'
  BY <1>1, <1>2 DEF DraftFits, Ops!On
<1> QED
  BY <1>3

LEMMA RequestKeeps ==
    ASSUME WritersInv, NEW r \in Reqs, RequestStep(r)
    PROVE  WritersInv'
<1>1. /\ Web!Post(r) \/ Web!Put(r) \/ Web!Delete(r) \/ Web!Step(r) \/ Web!Abort(r)
      /\ UNCHANGED <<stage, order, draft>> /\ Ops!Overtake
  BY DEF RequestStep
<1>2. Functions'
  BY <1>1, RequestMoves DEF WritersInv, Functions
<1>3. OverlapExact'
  BY <1>1, RequestMoves DEF WritersInv, OverlapExact
<1>4. Snapshots'
  <2> SUFFICES ASSUME NEW s \in Reqs, phase'[s] = "save", s \notin overlap'
               PROVE  body'[s] = Web!Export(domain')
    BY DEF Snapshots
  <2>1. CASE s = r
    BY <1>1, <2>1, RequestMoves
  <2>2. CASE s # r
    <3>1. phase[s] = "save" /\ body'[s] = body[s] /\ s \notin overlap
      BY <1>1, <2>2, RequestMoves
    <3>2. UNCHANGED domain
      BY <1>1, <2>2, <3>1, RequestMoves DEF WritersInv, OverlapExact
    <3>3. Web!Export(domain') = Web!Export(domain)
      BY <3>2
    <3> QED
      BY <3>1, <3>3 DEF WritersInv, Snapshots
  <2> QED
    BY <2>1, <2>2
<1>5. Drafts'
  BY <1>1, OvertakeDrafts
<1> QED
  BY <1>2, <1>3, <1>4, <1>5 DEF WritersInv

-----------------------------------------------------------------------------
(* The operators' steps *)

LEMMA Same == UNCHANGED webVars =>
                  (OverlapExact <=> OverlapExact') /\ (Snapshots <=> Snapshots')
BY DEF webVars, OverlapExact, Snapshots, Web!Export

\* An added host has a mapping then, and every other host what it had.
LEMMA UpsertElsewhere ==
    ASSUME NEW config, NEW h, NEW t
    PROVE  /\ Ops!On(Ops!Upsert(config, h, t), h) # {}
           /\ \A g : g # h => Ops!On(Ops!Upsert(config, h, t), g) = Ops!On(config, g)
<1> DEFINE own == Ops!On(config, h)
           X == IF own = {} THEN {h} ELSE {m.host : m \in own}
           N == {[host |-> x, target |-> t] : x \in X}
<1>1. X # {} /\ \A x \in X : x = h
  BY DEF Ops!On, Itself
<1>2. Ops!Upsert(config, h, t) = (config \ own) \cup N
  BY DEF Ops!Upsert
<1> HIDE DEF X
<1>3. /\ \A x \in X : [host |-> x, target |-> t] \in N
      /\ \A m \in N : \E x \in X : m.host = x
  OBVIOUS
<1> HIDE DEF N
<1>4. N # {} /\ \A m \in N : m.host = h
  BY <1>1, <1>3
<1> QED
  BY <1>2, <1>4 DEF Ops!On, Itself

\* A command up to its Save.
LEMMA EditKeeps ==
    ASSUME WritersInv, NEW o \in Operators, UNCHANGED webVars, Ops!Add(o) \/ Ops!Remove(o)
    PROVE  WritersInv' /\ object' = object
<1>1. PICK c, config :
        /\ Ops!Edit(o, c, config)
        /\ c = [command |-> "remove", host |-> c.host] \/ Ops!On(config, c.host) # {}
        /\ \A g : g # c.host => Ops!On(config, g) = Ops!On(object, g)
  <2>1. CASE Ops!Add(o)
    <3>1. PICK h \in Hosts, t \in Dests :
            Ops!Edit(o, [command |-> "add", host |-> h, target |-> t], Ops!Upsert(object, h, t))
      BY <2>1 DEF Ops!Add
    <3> DEFINE c == [command |-> "add", host |-> h, target |-> t]
    <3>2. /\ Ops!On(Ops!Upsert(object, h, t), h) # {}
          /\ \A g : g # h => Ops!On(Ops!Upsert(object, h, t), g) = Ops!On(object, g)
      BY UpsertElsewhere
    <3>3. c.host = h
      OBVIOUS
    <3> QED
      BY <3>1, <3>2, <3>3
  <2>2. CASE Ops!Remove(o)
    <3>1. PICK h \in Hosts :
            Ops!Edit(o, [command |-> "remove", host |-> h], Ops!Without(object, h))
      BY <2>2 DEF Ops!Remove
    <3> DEFINE c == [command |-> "remove", host |-> h]
    <3>2. \A g : g # h => Ops!On(Ops!Without(object, h), g) = Ops!On(object, g)
      BY DEF Ops!Without, Ops!On
    <3>3. c.host = h /\ c = [command |-> "remove", host |-> c.host]
      OBVIOUS
    <3> QED
      BY <3>1, <3>2, <3>3
  <2> QED
    BY <2>1, <2>2
<1>2. /\ stage' = [stage EXCEPT ![o] = "save"]
      /\ order' = [order EXCEPT ![o] = {c}]
      /\ draft' = [draft EXCEPT ![o] = config]
      /\ UNCHANGED <<object, overtaken>>
  BY <1>1 DEF Ops!Edit
<1>3. Functions' /\ OverlapExact' /\ Snapshots'
  BY <1>2, Same DEF WritersInv, Functions, webVars
<1>4. DraftFits(o, c)'
  BY <1>1, <1>2 DEF DraftFits, Ops!On, WritersInv, Functions
<1>5. ASSUME NEW p \in Operators, p # o, stage'[p] = "save"
      PROVE  \E d : DraftFits(p, d)'
  <2>1. /\ stage[p] = "save" /\ order'[p] = order[p] /\ draft'[p] = draft[p]
        /\ UNCHANGED <<object, overtaken>>
    BY <1>2, <1>5 DEF WritersInv, Functions
  <2>2. PICK d : DraftFits(p, d)
    BY <2>1 DEF WritersInv, Drafts
  <2>3. DraftFits(p, d)'
    BY <2>1, <2>2 DEF DraftFits, Ops!On
  <2> QED
    BY <2>3
<1>6. Drafts'
  BY <1>4, <1>5 DEF Drafts
<1> QED
  BY <1>2, <1>3, <1>6 DEF WritersInv

\* A command's end.
LEMMA FinishKeeps ==
    ASSUME WritersInv, NEW o \in Operators, UNCHANGED webVars,
           Ops!Save(o) \/ Ops!SaveRefused(o) \/ Ops!SaveFails(o)
    PROVE  /\ WritersInv'
           /\ stage[o] = "save" /\ stage'[o] = "idle"
           /\ object' = object \/ object' = draft[o]
<1>1. stage[o] = "save" /\ Ops!Finish(o) /\ (object' = object \/ object' = draft[o])
  BY DEF Ops!Save, Ops!SaveRefused, Ops!SaveFails
<1>2. /\ stage' = [stage EXCEPT ![o] = "idle"]
      /\ order' = [order EXCEPT ![o] = {}] /\ draft' = [draft EXCEPT ![o] = {}]
      /\ Ops!Overtake
  BY <1>1 DEF Ops!Finish
<1>3. Functions' /\ OverlapExact' /\ Snapshots' /\ stage'[o] = "idle"
  BY <1>2, Same DEF WritersInv, Functions, webVars
<1>4. \A p \in Operators : stage'[p] = "save" =>
        stage[p] = "save" /\ order'[p] = order[p] /\ draft'[p] = draft[p]
  BY <1>2 DEF WritersInv, Functions
<1>5. Drafts'
  BY <1>2, <1>4, OvertakeDrafts
<1> QED
  BY <1>1, <1>3, <1>5 DEF WritersInv

LEMMA StepKeeps == WritersInv /\ [Next]_vars => WritersInv'
<1> SUFFICES ASSUME WritersInv, [Next]_vars PROVE WritersInv'
  OBVIOUS
<1>1. ASSUME NEW r \in Reqs, RequestStep(r) PROVE WritersInv'
  BY <1>1, RequestKeeps
<1>2. ASSUME NEW o \in Operators, CommandStep(o) PROVE WritersInv'
  BY <1>2, EditKeeps, FinishKeeps DEF CommandStep, Ops!OperatorStep
<1>3. ASSUME UNCHANGED <<object, domain, phase, body, overlap, cliVars>> PROVE WritersInv'
  <2>1. Functions' /\ OverlapExact' /\ Snapshots'
    BY <1>3 DEF cliVars, WritersInv, Functions, OverlapExact, Snapshots, Web!Export
  <2>2. ASSUME NEW o, NEW c, DraftFits(o, c)
        PROVE  DraftFits(o, c)'
    BY <1>3, <2>2 DEF cliVars, DraftFits, Ops!On
  <2>3. Drafts'
    BY <1>3, <2>2 DEF cliVars, WritersInv, Drafts
  <2> QED
    BY <2>1, <2>3 DEF WritersInv
<1>4. ASSUME NEW s \in Servers, ServerStep(s) PROVE WritersInv'
  BY <1>3, <1>4 DEF ServerStep, webVars, Tier!ServerStep, Tier!Start, Tier!Tick, Tier!Load,
     Tier!LoadFails, Tier!Install, Tier!Stop
<1>5. ASSUME NEW s \in Servers, NEW h \in Hosts, Handshake(s, h) PROVE WritersInv'
  BY <1>3, <1>5 DEF Handshake, Web!IssueCert
<1>6. CASE UNCHANGED vars
  BY <1>3, <1>6 DEF vars, webVars
<1> QED
  BY <1>1, <1>2, <1>4, <1>5, <1>6 DEF Next

LEMMA Writers == Spec => []WritersInv
<1>1. Init => WritersInv
  BY DEF Init, WritersInv, Functions, OverlapExact, Snapshots, Drafts, Web!Phases
<1> QED
  BY <1>1, StepKeeps, PTL DEF Spec

-----------------------------------------------------------------------------
\* Who a step that drops a mapping is due to.
LEMMA WhoDrops ==
    ASSUME WritersInv, Next, NEW m \in object, Ops!On(object', m.host) = {},
           Web!Claimed(m.host), NEW row \in domain', row.hostname = m.host
    PROVE  \/ \E o \in Operators :
                /\ Ops!Writes(o)
                /\ o \in overtaken \/ [command |-> "remove", host |-> m.host] \in order[o]
           \/ \E r \in overlap : phase[r] = "save"
<1>0. object' # object
  BY DEF Ops!On, Itself
<1>1. ASSUME NEW r \in Reqs, RequestStep(r) PROVE r \in overlap /\ phase[r] = "save"
  <2>1. phase[r] = "save" /\ object' = body[r] /\ domain' = domain
    BY <1>0, <1>1, RequestMoves DEF RequestStep
  <2>2. CASE r \notin overlap
    <3>1. object' = Web!Export(domain)
      BY <2>1, <2>2 DEF WritersInv, Snapshots
    <3>2. [host |-> m.host, target |-> row.destinationUrl] \in object'
      BY <2>1, <3>1 DEF Web!Export
    <3> QED
      BY <3>2 DEF Ops!On, Itself
  <2> QED
    BY <2>1, <2>2
<1>2. ASSUME NEW o \in Operators, CommandStep(o)
      PROVE  /\ Ops!Writes(o)
             /\ o \in overtaken \/ [command |-> "remove", host |-> m.host] \in order[o]
  <2>1. Ops!Save(o) \/ Ops!SaveRefused(o) \/ Ops!SaveFails(o)
    BY <1>0, <1>2, EditKeeps DEF CommandStep, Ops!OperatorStep
  <2>2. stage[o] = "save" /\ stage'[o] = "idle" /\ object' = draft[o]
    BY <1>0, <1>2, <2>1, FinishKeeps DEF CommandStep
  <2>3. PICK c : DraftFits(o, c)
    BY <2>2 DEF WritersInv, Drafts
  <2>4. CASE o \notin overtaken
    <3>1. m.host = c.host
      BY <2>2, <2>3, <2>4 DEF DraftFits, Ops!On, Itself
    <3> QED
      BY <2>2, <2>3, <3>1 DEF DraftFits, Ops!Writes
  <2> QED
    BY <2>2, <2>4 DEF Ops!Writes
<1>3. ASSUME NEW s \in Servers, ServerStep(s) \/ \E h \in Hosts : Handshake(s, h) PROVE FALSE
  BY <1>0, <1>3 DEF ServerStep, Handshake, Web!IssueCert, Tier!ServerStep, Tier!Start,
     Tier!Tick, Tier!Load, Tier!LoadFails, Tier!Install, Tier!Stop
<1> QED
  BY <1>1, <1>2, <1>3 DEF Next

\* A redirect that is and stays registered is dropped from the shared object only
\* by an operator who asks for it, a command whose Load was overtaken, or an
\* export that overlapped another request.
THEOREM NotDropped == Spec => ClaimedNotDropped
<1>1. WritersInv /\ [Next]_vars =>
        [\A m \in object :
           \/ Ops!On(object', m.host) # {}
           \/ ~(Web!Claimed(m.host) /\ \E row \in domain' : row.hostname = m.host)
           \/ \E o \in Operators :
                /\ Ops!Writes(o)
                /\ o \in overtaken \/ [command |-> "remove", host |-> m.host] \in order[o]
           \/ \E r \in overlap : phase[r] = "save"]_vars
  BY WhoDrops
<1> QED
  BY <1>1, Writers, PTL DEF Spec, ClaimedNotDropped

=============================================================================
