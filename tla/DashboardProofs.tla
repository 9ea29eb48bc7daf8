-------------------------- MODULE DashboardProofs --------------------------
(***************************************************************************)
(* Proofs about Dashboard: type correctness, and that the page's list      *)
(* needs no reload, for any accounts, hosts and ids.                       *)
(***************************************************************************)
EXTENDS Dashboard, FiniteSetTheorems, TLAPS

\* The types of TypeOK.
Typed ==
    /\ domain \subseteq Row
    /\ requests \subseteq Request
    /\ mail \subseteq Answer
    /\ session \in Users \cup {None}
    /\ viewer \in Users \cup {None}
    /\ cards \subseteq Card
    /\ editing \subseteq Ids
    /\ behind \in BOOLEAN

\* A registration has a host and a destination.
RequestFits == \A q \in requests : q.item = Form => q.host \in Hosts /\ q.dest \in Dests

\* No item has two requests, two answers, or one of each.
OnePerItem ==
    /\ \A q, r \in requests : q.item = r.item => q = r
    /\ \A m, n \in mail : m.item = n.item => m = n
    /\ \A q \in requests, m \in mail : q.item # m.item

\* The items whose buttons are disabled are those with a request or an answer.
BusyExact == busy = {q.item : q \in requests} \cup {m.item : m \in mail}

Counted ==
    /\ IsFiniteSet(requests) /\ IsFiniteSet(mail) /\ IsFiniteSet(busy)
    /\ Cardinality(requests) + Cardinality(mail) = Cardinality(busy)

\* A page that is gone has nothing under way.
Unmounted == ~Mounted => requests = {} /\ mail = {} /\ cards = {}

WireInv == Typed /\ RequestFits /\ OnePerItem /\ BusyExact /\ Counted /\ Unmounted

LEMMA ShownTypes == \A rows \in SUBSET Row : Shown(rows) \subseteq Card
BY DEF Shown, Row, Card

\* Adding a new element to a finite set, and removing one that it has.
LEMMA OneMore ==
    ASSUME NEW S, NEW x, IsFiniteSet(S), x \notin S
    PROVE  /\ IsFiniteSet(S \cup {x}) /\ Cardinality(S) \in Nat
           /\ Cardinality(S \cup {x}) = Cardinality(S) + 1
BY FS_AddElement, FS_CardinalityType

LEMMA OneLess ==
    ASSUME NEW S, NEW x, IsFiniteSet(S), x \in S
    PROVE  /\ IsFiniteSet(S \ {x}) /\ Cardinality(S) \in Nat
           /\ Cardinality(S \ {x}) = Cardinality(S) - 1
BY FS_RemoveElement, FS_CardinalityType

\* A click.
LEMMA SendWire ==
    ASSUME WireInv, NEW item \in Items, NEW h \in Hosts \cup {None}, NEW d \in Dests \cup {None},
           item = Form => h \in Hosts /\ d \in Dests, Send(item, h, d)
    PROVE  WireInv'
<1> DEFINE q == [item |-> item, user |-> session, host |-> h, dest |-> d]
           m == [item |-> item, ok |-> FALSE, row |-> {}]
<1>1. /\ item \notin busy /\ busy' = busy \cup {item} /\ viewer # None
      /\ UNCHANGED <<domain, session, viewer, cards, editing>> /\ behind' \in BOOLEAN
  BY DEF Send, Mounted, WireInv, Typed
<1>2. \/ requests' = requests /\ mail' = mail \cup {m}
      \/ session # None /\ requests' = requests \cup {q} /\ mail' = mail
  BY DEF Send
<1>3. m \in Answer /\ (session # None => q \in Request)
  BY DEF Answer, Request, WireInv, Typed
<1>4. (\A r \in requests : r.item # item) /\ (\A n \in mail : n.item # item)
  BY <1>1 DEF WireInv, BusyExact
<1>5. q.item = item /\ q.host = h /\ q.dest = d /\ m.item = item
  OBVIOUS
<1> HIDE DEF q, m
<1>6. Typed' /\ RequestFits' /\ Unmounted'
  BY <1>1, <1>2, <1>3, <1>5 DEF WireInv, Typed, RequestFits, Unmounted, Mounted
<1>7. OnePerItem' /\ BusyExact'
  BY <1>1, <1>2, <1>4, <1>5 DEF WireInv, OnePerItem, BusyExact
<1>8. Counted'
  <2>1. q \notin requests /\ m \notin mail
    BY <1>4, <1>5
  <2>2. /\ IsFiniteSet(requests \cup {q}) /\ IsFiniteSet(mail \cup {m})
        /\ IsFiniteSet(busy \cup {item})
        /\ Cardinality(requests) \in Nat /\ Cardinality(mail) \in Nat /\ Cardinality(busy) \in Nat
        /\ Cardinality(requests \cup {q}) = Cardinality(requests) + 1
        /\ Cardinality(mail \cup {m}) = Cardinality(mail) + 1
        /\ Cardinality(busy \cup {item}) = Cardinality(busy) + 1
    BY <1>1, <2>1, OneMore DEF WireInv, Counted
  <2>3. Cardinality(requests') + Cardinality(mail') = Cardinality(busy')
    <3>1. CASE requests' = requests /\ mail' = mail \cup {m}
      BY <1>1, <2>2, <3>1 DEF WireInv, Counted
    <3>2. CASE requests' = requests \cup {q} /\ mail' = mail
      BY <1>1, <2>2, <3>2 DEF WireInv, Counted
    <3> QED
      BY <1>2, <3>1, <3>2
  <2> QED
    BY <1>1, <1>2, <2>2, <2>3 DEF WireInv, Counted
<1> QED
  BY <1>6, <1>7, <1>8 DEF WireInv

\* A handler's answer.
LEMMA RespondWire ==
    ASSUME WireInv, NEW q \in requests, NEW ok \in BOOLEAN, NEW rows \in SUBSET Row,
           Respond(q, ok, rows), domain' \subseteq Row, behind' \in BOOLEAN
    PROVE  WireInv'
<1> DEFINE m == [item |-> q.item, ok |-> ok, row |-> Shown(rows)]
<1>1. /\ requests' = requests \ {q} /\ mail' = mail \cup {m}
      /\ UNCHANGED <<session, viewer, cards, editing, busy>>
  BY DEF Respond, listVars
<1>2. m \in Answer /\ m.item = q.item
  BY ShownTypes DEF Answer, Request, WireInv, Typed
<1> HIDE DEF m
<1>3. Typed' /\ RequestFits' /\ Unmounted'
  BY <1>1, <1>2 DEF WireInv, Typed, RequestFits, Unmounted, Mounted
<1>4. OnePerItem' /\ BusyExact'
  BY <1>1, <1>2 DEF WireInv, OnePerItem, BusyExact
<1>5. Counted'
  <2>1. m \notin mail
    BY <1>2 DEF WireInv, OnePerItem
  <2>2. /\ IsFiniteSet(requests \ {q}) /\ IsFiniteSet(mail \cup {m})
        /\ Cardinality(requests) \in Nat /\ Cardinality(mail) \in Nat
        /\ Cardinality(requests \ {q}) = Cardinality(requests) - 1
        /\ Cardinality(mail \cup {m}) = Cardinality(mail) + 1
    BY <2>1, OneMore, OneLess DEF WireInv, Counted
  <2> QED
    BY <1>1, <2>2 DEF WireInv, Counted
<1> QED
  BY <1>3, <1>4, <1>5 DEF WireInv

\* An answer that arrives.
LEMMA HearWire ==
    ASSUME WireInv, NEW m \in mail, Hear(m), cards' \subseteq Card, editing' \subseteq Ids,
           behind' \in BOOLEAN
    PROVE  WireInv'
<1>1. /\ mail' = mail \ {m} /\ busy' = busy \ {m.item}
      /\ UNCHANGED <<domain, requests, session, viewer>>
  BY DEF Hear
<1>2. viewer # None
  BY DEF WireInv, Unmounted, Mounted
<1>3. Typed' /\ RequestFits' /\ Unmounted' /\ OnePerItem'
  BY <1>1, <1>2 DEF WireInv, Typed, RequestFits, Unmounted, Mounted, OnePerItem
<1>4. BusyExact'
  BY <1>1 DEF WireInv, OnePerItem, BusyExact
<1>5. Counted'
  <2>1. m.item \in busy
    BY DEF WireInv, BusyExact
  <2>2. /\ IsFiniteSet(mail \ {m}) /\ IsFiniteSet(busy \ {m.item})
        /\ Cardinality(requests) \in Nat /\ Cardinality(mail) \in Nat /\ Cardinality(busy) \in Nat
        /\ Cardinality(mail \ {m}) = Cardinality(mail) - 1
        /\ Cardinality(busy \ {m.item}) = Cardinality(busy) - 1
    BY <2>1, OneLess, FS_CardinalityType DEF WireInv, Counted
  <2> QED
    BY <1>1, <2>2 DEF WireInv, Counted
<1> QED
  BY <1>3, <1>4, <1>5 DEF WireInv

\* What a handler may do.
LEMMA ServeWire ==
    ASSUME WireInv, NEW q \in requests, Serve(q)
    PROVE  /\ \E ok \in BOOLEAN, rows \in SUBSET Row : Respond(q, ok, rows)
           /\ domain' \subseteq Row /\ behind' \in BOOLEAN
<1>0. q \in Request /\ domain \subseteq Row /\ behind \in BOOLEAN
  BY DEF WireInv, Typed
<1>1. \A rows \in SUBSET Row : Conclude(q, rows) =>
        /\ \E ok \in BOOLEAN, given \in SUBSET Row : Respond(q, ok, given)
        /\ behind' \in BOOLEAN
  BY <1>0 DEF Conclude
<1>2. CASE Post(q)
  <2>1. PICK i \in Ids :
          LET row == [id |-> i, userId |-> q.user,
                      hostname |-> q.host, destinationUrl |-> q.dest]
          IN  domain' = domain \cup {row} /\ Conclude(q, {row})
    BY <1>2 DEF Post
  <2> DEFINE row == [id |-> i, userId |-> q.user,
                     hostname |-> q.host, destinationUrl |-> q.dest]
  <2>2. row \in Row
    BY <1>0, <1>2 DEF Post, Row, Request, WireInv, RequestFits
  <2> QED
    BY <1>0, <1>1, <2>1, <2>2
<1>3. CASE Put(q)
  <2>1. PICK row \in Target(q) :
          LET updated == [row EXCEPT !.destinationUrl = q.dest]
          IN  domain' = (domain \ {row}) \cup {updated} /\ Conclude(q, {updated})
    BY <1>3 DEF Put
  <2> DEFINE updated == [row EXCEPT !.destinationUrl = q.dest]
  <2>2. updated \in Row
    BY <1>0, <1>3 DEF Put, Target, Row, Request
  <2> QED
    BY <1>0, <1>1, <2>1, <2>2
<1>4. CASE Delete(q)
  BY <1>0, <1>1, <1>4 DEF Delete
<1>5. CASE Refuse(q)
  BY <1>0, <1>5 DEF Refuse
<1> QED
  BY <1>2, <1>3, <1>4, <1>5 DEF Serve

\* How the page may change when an answer arrives.
LEMMA ReceiveWire ==
    ASSUME WireInv, NEW m \in mail, Receive(m)
    PROVE  Hear(m) /\ cards' \subseteq Card /\ editing' \subseteq Ids /\ behind' \in BOOLEAN
<1>0. m \in Answer /\ cards \subseteq Card /\ editing \subseteq Ids /\ behind \in BOOLEAN
  BY DEF WireInv, Typed
<1>1. CASE Saved(m)
  <2>1. Changed(m.row) \subseteq Card
    BY <1>0 DEF Changed, Answer
  <2> QED
    BY <1>0, <1>1, <2>1 DEF Saved
<1>2. CASE Registered(m) \/ Removed(m) \/ Refused(m) \/ Lost(m)
  BY <1>0, <1>2 DEF Registered, Removed, Refused, Lost, CardsBut, Answer
<1> QED
  BY <1>1, <1>2 DEF Receive

\* Another device changes the table.
LEMMA ElsewhereWire ==
    ASSUME WireInv, NEW u \in Users, Elsewhere(u)
    PROVE  domain' \subseteq Row /\ behind' \in BOOLEAN /\ UNCHANGED <<requests, mail, session, listVars>>
<1>1. domain \subseteq Row /\ behind \in BOOLEAN
  BY DEF WireInv, Typed
<1>2. \A h \in Hosts, d \in Dests, i \in Ids :
        [id |-> i, userId |-> u, hostname |-> h, destinationUrl |-> d] \in Row
  BY DEF Row
<1>3. \A row \in Row, d \in Dests : [row EXCEPT !.destinationUrl = d] \in Row
  BY DEF Row
<1>4. OwnedBy(u) \subseteq Row
  BY <1>1 DEF OwnedBy
<1> QED
  BY <1>1, <1>2, <1>3, <1>4 DEF Elsewhere, wireVars

\* The page goes, or is rendered anew.
LEMMA PageWire ==
    ASSUME WireInv, (Unmount /\ session' \in Users \cup {None}) \/ RenderPage
    PROVE  WireInv'
<1>1. CASE Unmount /\ session' \in Users \cup {None}
  <2>1. /\ domain' = domain /\ behind' = behind /\ session' \in Users \cup {None}
        /\ viewer' = None /\ requests' = {} /\ mail' = {} /\ cards' = {}
        /\ editing' = {} /\ busy' = {}
    BY <1>1 DEF Unmount
  <2>2. Typed'
    BY <2>1 DEF WireInv, Typed
  <2>3. Counted'
    BY <2>1, FS_EmptySet DEF Counted
  <2> QED
    BY <2>1, <2>2, <2>3 DEF WireInv, RequestFits, OnePerItem, BusyExact, Unmounted
<1>2. CASE RenderPage
  <2>1. /\ UNCHANGED <<domain, requests, mail, session, editing, busy>>
        /\ viewer' = session /\ session # None
        /\ cards' = Shown(OwnedBy(session)) /\ behind' = FALSE
    BY <1>2 DEF RenderPage, SentOn, wireVars
  <2>2. cards' \subseteq Card
    BY <2>1, ShownTypes DEF OwnedBy, WireInv, Typed
  <2> QED
    BY <2>1, <2>2 DEF WireInv, Typed, RequestFits, OnePerItem, BusyExact, Counted, Unmounted,
       Mounted
<1> QED
  BY <1>1, <1>2

LEMMA StepWire == WireInv /\ [Next]_vars => WireInv'
<1> SUFFICES ASSUME WireInv, [Next]_vars PROVE WireInv'
  OBVIOUS
<1>1. CASE SwitchSession \/ \E u \in Users : SignIn(u)
  BY <1>1 DEF SignIn, SwitchSession, wireVars, listVars, WireInv, Typed, RequestFits,
     OnePerItem, BusyExact, Counted, Unmounted, Mounted
<1>2. ASSUME NEW u \in Users, Elsewhere(u) PROVE WireInv'
  BY <1>2, ElsewhereWire DEF listVars, WireInv, Typed, RequestFits, OnePerItem,
     BusyExact, Counted, Unmounted, Mounted
<1>3. CASE SignOut \/ Reload \/ RenderPage
  BY <1>3, PageWire DEF SignOut, Reload, WireInv, Typed
<1>4. CASE ClickRegister
  BY <1>4, SendWire DEF ClickRegister, Items
<1>5. ASSUME NEW c \in cards, ClickSave(c) \/ ClickRemove(c) PROVE WireInv'
  <2>1. c.id \in Ids /\ c.id # Form
    BY DashboardAssumption DEF WireInv, Typed, Card
  <2> QED
    BY <1>5, <2>1, SendWire DEF ClickSave, ClickRemove, Items
<1>6. ASSUME NEW c \in cards, ClickEdit(c) PROVE WireInv'
  <2>1. c.id \in Ids
    BY DEF WireInv, Typed, Card
  <2> QED
    BY <1>6, <2>1 DEF ClickEdit, wireVars, WireInv, Typed, RequestFits, OnePerItem,
       BusyExact, Counted, Unmounted, Mounted
<1>7. ASSUME NEW q \in requests, Serve(q) PROVE WireInv'
  BY <1>7, ServeWire, RespondWire
<1>8. ASSUME NEW m \in mail, Receive(m) PROVE WireInv'
  BY <1>8, ReceiveWire, HearWire
<1>9. CASE UNCHANGED vars
  BY <1>9 DEF vars, wireVars, listVars, WireInv, Typed, RequestFits, OnePerItem,
     BusyExact, Counted, Unmounted, Mounted
<1> QED
  BY <1>1, <1>2, <1>3, <1>4, <1>5, <1>6, <1>7, <1>8, <1>9 DEF Next

LEMMA InitWire == Init => WireInv
<1> SUFFICES ASSUME Init PROVE WireInv
  OBVIOUS
<1>1. Typed /\ RequestFits /\ OnePerItem /\ BusyExact /\ Unmounted
  BY DEF Init, Typed, RequestFits, OnePerItem, BusyExact, Unmounted
<1>2. Counted
  BY FS_EmptySet DEF Init, Counted
<1> QED
  BY <1>1, <1>2 DEF WireInv

LEMMA Wire == Spec => []WireInv
BY InitWire, StepWire, PTL DEF Spec

\* Every variable keeps its type, and the buttons that are disabled are those
\* with exactly one request or answer.
THEOREM Typing == Spec => []TypeOK
<1>1. WireInv => TypeOK
  BY DEF WireInv, Typed, BusyExact, Counted, TypeOK
<1> QED
  BY <1>1, Wire, PTL

-----------------------------------------------------------------------------
(***************************************************************************)
(* The list.  The invariant says what is on its way: while the page has    *)
(* missed nothing, its requests are its account's own, and where a card    *)
(* and a row differ an answer that sets it right is in the mail.           *)
(***************************************************************************)

\* No two rows have the same id.
UniqueIds == \A a, b \in domain : a.id = b.id => a = b

\* What a reload would show.
Mine == Shown(OwnedBy(viewer))

\* Requests are the viewer's own, and about cards that are on the page.
RequestsOwn ==
    \A q \in requests :
        q.user = viewer /\ (q.item # Form => \E c \in cards : c.id = q.item)

\* A good answer on its way is true: it tells of rows as they are, of a new row
\* only when no card has its id, of a changed row or of none to its own card.
MailTrue ==
    \A m \in mail : m.ok =>
        /\ m.row \subseteq Mine
        /\ m.item = Form => \A c \in m.row, d \in cards : d.id # c.id
        /\ m.item # Form => \A c \in m.row : c.id = m.item
        /\ m.item # Form /\ m.row = {} => \A c \in Mine : c.id # m.item

\* A card is right, or about to be put right by an answer.
CardsHaveRows == \A c \in cards : c \in Mine \/ \E m \in mail : m.item = c.id /\ m.ok

\* A row has a card, or is about to get one.
RowsHaveCards ==
    \A c \in Mine :
        \/ \E d \in cards : d.id = c.id
        \/ \E m \in mail : m.item = Form /\ m.ok /\ c \in m.row

InStep == Mounted /\ ~behind
ListInv == RequestsOwn /\ MailTrue /\ CardsHaveRows /\ RowsHaveCards
PageInv == UniqueIds /\ (InStep => ListInv)

\* The card of a row.
card(r) == [id |-> r.id, hostname |-> r.hostname, destination |-> r.destinationUrl]

LEMMA Cards ==
    /\ \A rows : Shown(rows) = {card(r) : r \in rows}
    /\ \A r : card(r).id = r.id
BY DEF Shown, card

\* The page is opened, and has nothing under way.
LEMMA OpenPage == ASSUME WireInv, UniqueIds, RenderPage PROVE PageInv'
<1>1. /\ requests' = {} /\ mail' = {} /\ domain' = domain
      /\ viewer' = session /\ cards' = Shown(OwnedBy(session))
  BY DEF RenderPage, Mounted, WireInv, Unmounted, wireVars
<1>2. Mine' = cards'
  BY <1>1 DEF Mine, Shown, OwnedBy
<1> QED
  BY <1>1, <1>2
  DEF PageInv, ListInv, RequestsOwn, MailTrue, CardsHaveRows, RowsHaveCards, UniqueIds

\* A click sends a request of the viewer's, or has its refusal in the mail.
LEMMA ClickPage ==
    ASSUME PageInv, NEW item \in Items, NEW h, NEW d, Send(item, h, d),
           item # Form => \E c \in cards : c.id = item
    PROVE  PageInv'
<1>1. /\ UNCHANGED <<domain, viewer, cards>>
      /\ InStep' => InStep /\ session \in {viewer, None}
      /\ \/ requests' = requests
            /\ mail' = mail \cup {[item |-> item, ok |-> FALSE, row |-> {}]}
         \/ /\ session # None /\ mail' = mail
            /\ requests' = requests \cup
                   {[item |-> item, user |-> session, host |-> h, dest |-> d]}
  BY DEF Send, InStep, Mounted
<1>2. Mine' = Mine /\ UniqueIds'
  BY <1>1 DEF Mine, Shown, OwnedBy, UniqueIds, PageInv
<1>3. ASSUME InStep' PROVE ListInv'
  <2>1. ListInv
    BY <1>1, <1>3 DEF PageInv
  <2>2. RequestsOwn'
    BY <1>1, <1>3, <2>1 DEF ListInv, RequestsOwn
  <2>3. MailTrue' /\ CardsHaveRows' /\ RowsHaveCards'
    BY <1>1, <1>2, <2>1 DEF ListInv, MailTrue, CardsHaveRows, RowsHaveCards
  <2> QED
    BY <2>2, <2>3 DEF ListInv
<1> QED
  BY <1>2, <1>3 DEF PageInv

\* An answer arrives: the list follows, unless it was lost.
LEMMA ReceivePage ==
    ASSUME WireInv, PageInv, NEW m \in mail, Receive(m)
    PROVE  PageInv'
<1>1. /\ mail' = mail \ {m} /\ UNCHANGED <<domain, requests, viewer>>
      /\ InStep' => InStep
  BY DEF Receive, Registered, Saved, Removed, Refused, Lost, Hear, InStep, Mounted
<1>2. Mine' = Mine /\ UniqueIds'
  BY <1>1 DEF Mine, Shown, OwnedBy, UniqueIds, PageInv
<1>3. ASSUME InStep' PROVE ListInv'
  <2>0. ListInv
    BY <1>1, <1>3 DEF PageInv
  <2>1. /\ \A n \in mail \ {m} : n.item # m.item
        /\ \A q \in requests : q.item # m.item
    BY DEF WireInv, OnePerItem
  <2>2. CASE Registered(m)
    <3>1. m.ok /\ m.item = Form /\ cards' = cards \cup m.row
      BY <2>2 DEF Registered
    <3>2. m.row \subseteq Mine /\ \A c \in cards : c.id # m.item
      BY <2>0, <3>1, DashboardAssumption DEF ListInv, MailTrue, WireInv, Typed, Card
    <3>3. RequestsOwn' /\ RowsHaveCards'
      BY <1>1, <1>2, <2>0, <3>1 DEF ListInv, RequestsOwn, RowsHaveCards
    <3>4. MailTrue' /\ CardsHaveRows'
      BY <1>1, <1>2, <2>0, <2>1, <3>1, <3>2 DEF ListInv, MailTrue, CardsHaveRows
    <3> QED
      BY <3>3, <3>4 DEF ListInv
  <2>3. CASE Saved(m)
    <3>1. m.ok /\ m.item # Form /\ m.row # {} /\ cards' = Changed(m.row)
      BY <2>3 DEF Saved
    <3>2. m.row \subseteq Mine /\ \A c \in m.row : c.id = m.item
      BY <2>0, <3>1 DEF ListInv, MailTrue
    <3>3. \A c \in cards' : \/ c \in m.row
                            \/ c \in cards /\ c.id # m.item
      BY <3>1, <3>2 DEF Changed
    <3>4. \A c \in cards : \E d \in cards' : d.id = c.id
      BY <3>1 DEF Changed
    <3>5. \A c \in cards' : \E d \in cards : d.id = c.id
      BY <3>1 DEF Changed
    <3>6. RequestsOwn' /\ RowsHaveCards'
      BY <1>1, <1>2, <2>0, <2>1, <3>1, <3>4 DEF ListInv, RequestsOwn, RowsHaveCards
    <3>7. MailTrue'
      BY <1>1, <1>2, <2>0, <3>5 DEF ListInv, MailTrue
    <3>8. CardsHaveRows'
      BY <1>1, <1>2, <2>0, <3>2, <3>3 DEF ListInv, CardsHaveRows
    <3> QED
      BY <3>6, <3>7, <3>8 DEF ListInv
  <2>4. CASE Removed(m)
    <3>1. /\ m.ok /\ m.item # Form /\ m.row = {}
          /\ cards' = {c \in cards : c.id # m.item}
      BY <2>4 DEF Removed, CardsBut
    <3>2. \A c \in Mine : c.id # m.item
      BY <2>0, <3>1 DEF ListInv, MailTrue
    <3> QED
      BY <1>1, <1>2, <2>0, <2>1, <3>1, <3>2
      DEF ListInv, RequestsOwn, MailTrue, CardsHaveRows, RowsHaveCards
  <2>5. CASE Refused(m)
    <3>1. ~m.ok /\ cards' = cards
      BY <2>5 DEF Refused
    <3> QED
      BY <1>1, <1>2, <2>0, <3>1
      DEF ListInv, RequestsOwn, MailTrue, CardsHaveRows, RowsHaveCards
  <2>6. CASE Lost(m)
    BY <1>3, <2>6 DEF Lost, InStep
  <2> QED
    BY <2>2, <2>3, <2>4, <2>5, <2>6 DEF Receive
<1> QED
  BY <1>2, <1>3 DEF PageInv

\* What a handler's answer leaves to be shown: requests and mail after it.
LEMMA Answered ==
    ASSUME WireInv, NEW q \in requests, NEW ok, NEW rows, Respond(q, ok, rows)
    PROVE  /\ requests' = requests \ {q} /\ UNCHANGED <<viewer, cards>>
           /\ mail' = mail \cup {[item |-> q.item, ok |-> ok, row |-> Shown(rows)]}
           /\ \A m \in mail : m.item # q.item
           /\ \A r \in requests \ {q} : r.item # q.item
BY DEF Respond, listVars, WireInv, OnePerItem

\* A registration: its row has an id that nothing on the page has.
LEMMA PostPage ==
    ASSUME WireInv, PageInv, NEW q \in requests, Post(q)
    PROVE  PageInv'
<1>1. PICK i \in Ids :
        LET row == [id |-> i, userId |-> q.user,
                    hostname |-> q.host, destinationUrl |-> q.dest]
        IN  NewId(i) /\ domain' = domain \cup {row} /\ Conclude(q, {row})
  BY DEF Post
<1> DEFINE row == [id |-> i, userId |-> q.user,
                   hostname |-> q.host, destinationUrl |-> q.dest]
           m == [item |-> Form, ok |-> TRUE, row |-> {card(row)}]
<1>2. /\ \A r \in domain : r.id # i
      /\ \A c \in cards : c.id # i
      /\ i \notin busy
      /\ \A n \in mail : \A c \in n.row : c.id # i
  BY <1>1 DEF NewId, Known
<1>3. row.id = i /\ row.userId = q.user /\ m.item = Form /\ m.ok /\ m.row = {card(row)}
  OBVIOUS
<1>4. Conclude(q, {row}) /\ domain' = domain \cup {row} /\ q.item = Form
  BY <1>1 DEF Post
<1> HIDE DEF row
<1>5. UniqueIds'
  BY <1>2, <1>3, <1>4 DEF UniqueIds, PageInv
<1>6. ASSUME InStep' PROVE ListInv'
  <2>1. Respond(q, TRUE, {row}) /\ behind' = behind
    BY <1>4, <1>6 DEF Conclude, InStep
  <2>2. /\ requests' = requests \ {q} /\ UNCHANGED <<viewer, cards>>
        /\ mail' = mail \cup {m}
        /\ \A n \in mail : n.item # Form
    <3>1. Shown({row}) = {card(row)}
      BY Cards
    <3> QED
      BY <1>4, <2>1, <3>1, Answered
  <2>3. ListInv
    BY <1>6, <2>1, <2>2 DEF PageInv, InStep, Mounted
  <2>4. q.user = viewer
    BY <2>3 DEF ListInv, RequestsOwn
  <2>5. Mine' = Mine \cup {card(row)}
    BY <1>3, <1>4, <2>2, <2>4, Cards DEF Mine, OwnedBy
  <2>6. \A n \in mail : n.item # i
    BY <1>2 DEF WireInv, BusyExact
  <2> HIDE DEF m
  <2>7. RequestsOwn' /\ CardsHaveRows' /\ RowsHaveCards'
    BY <1>3, <2>2, <2>3, <2>5 DEF ListInv, RequestsOwn, CardsHaveRows, RowsHaveCards
  <2>8. MailTrue'
    BY <1>2, <1>3, <2>2, <2>3, <2>5, <2>6, Cards DEF ListInv, MailTrue
  <2> QED
    BY <2>7, <2>8 DEF ListInv
<1> QED
  BY <1>5, <1>6 DEF PageInv

\* A change or a removal: the card it is about is told by the answer.
LEMMA TargetPage ==
    ASSUME WireInv, PageInv, NEW q \in requests, Put(q) \/ Delete(q)
    PROVE  PageInv'
<1>1. PICK row \in Target(q), new \in SUBSET Row :
        /\ domain' = (domain \ {row}) \cup new
        /\ \A r \in new : r.id = row.id /\ r.userId = row.userId
        /\ new = {} \/ \E r \in new : new = {r}
        /\ Conclude(q, new)
  <2>0. domain \subseteq Row /\ q \in Request
    BY DEF WireInv, Typed
  <2>1. CASE Put(q)
    <3>1. PICK row \in Target(q) :
            LET updated == [row EXCEPT !.destinationUrl = q.dest]
            IN  domain' = (domain \ {row}) \cup {updated} /\ Conclude(q, {updated})
      BY <2>1 DEF Put
    <3> DEFINE updated == [row EXCEPT !.destinationUrl = q.dest]
    <3>2. updated \in Row /\ updated.id = row.id /\ updated.userId = row.userId
      BY <2>0, <2>1 DEF Put, Target, Row, Request
    <3> HIDE DEF updated
    <3>3. domain' = (domain \ {row}) \cup {updated} /\ Conclude(q, {updated})
      BY <3>1 DEF updated
    <3>4. {updated} \in SUBSET Row
      BY <3>2
    <3> QED
      BY <3>2, <3>3, <3>4
  <2>2. CASE Delete(q)
    <3>1. PICK row \in Target(q) : domain' = domain \ {row} /\ Conclude(q, {})
      BY <2>2 DEF Delete
    <3> WITNESS row \in Target(q), {} \in SUBSET Row
    <3> QED
      BY <3>1
  <2> QED
    BY <2>1, <2>2
<1>2. row \in domain /\ row.id = q.item /\ row.userId = q.user /\ q.item # Form
  BY DEF Target, Put, Delete
<1>3. UniqueIds'
  BY <1>1, <1>2 DEF UniqueIds, PageInv
<1>4. ASSUME InStep' PROVE ListInv'
  <2> DEFINE m == [item |-> q.item, ok |-> TRUE, row |-> Shown(new)]
  <2>1. Respond(q, TRUE, new) /\ behind' = behind
    BY <1>1, <1>4 DEF Conclude, InStep
  <2>2. /\ requests' = requests \ {q} /\ UNCHANGED <<viewer, cards>>
        /\ mail' = mail \cup {m}
        /\ \A n \in mail : n.item # q.item
    BY <2>1, Answered
  <2>3. ListInv
    BY <1>4, <2>1, <2>2 DEF PageInv, InStep, Mounted
  <2>4. q.user = viewer /\ \E c \in cards : c.id = q.item
    BY <1>2, <2>3 DEF ListInv, RequestsOwn
  <2>5. m.item = q.item /\ m.ok /\ m.row = Shown(new)
    OBVIOUS
  <2> HIDE DEF m
  <2>6. /\ \A c \in Shown(new) : c.id = q.item
        /\ new = {} <=> Shown(new) = {}
        /\ \A c \in Mine' : c.id = q.item => c \in Shown(new)
        /\ Shown(new) \subseteq Mine'
        /\ \A c : c.id # q.item => (c \in Mine <=> c \in Mine')
    BY <1>1, <1>2, <2>2, <2>4, Cards DEF Mine, OwnedBy, UniqueIds, PageInv
  <2>7. \A n \in mail : n.ok => \A c \in n.row : c.id # q.item
    BY <2>2, <2>3, <2>4 DEF ListInv, MailTrue
  <2>8. RequestsOwn' /\ CardsHaveRows' /\ RowsHaveCards'
    BY <2>2, <2>3, <2>4, <2>5, <2>6 DEF ListInv, RequestsOwn, CardsHaveRows, RowsHaveCards
  <2>9. MailTrue'
    BY <1>2, <2>2, <2>3, <2>5, <2>6, <2>7 DEF ListInv, MailTrue
  <2> QED
    BY <2>8, <2>9 DEF ListInv
<1> QED
  BY <1>3, <1>4 DEF PageInv

\* A refusal: nothing has changed.
LEMMA RefusePage ==
    ASSUME WireInv, PageInv, NEW q \in requests, Refuse(q)
    PROVE  PageInv'
<1> DEFINE m == [item |-> q.item, ok |-> FALSE, row |-> Shown({})]
<1>1. /\ requests' = requests \ {q} /\ UNCHANGED <<viewer, cards, domain, behind>>
      /\ mail' = mail \cup {m}
  BY Answered DEF Refuse
<1>2. ~m.ok
  OBVIOUS
<1> HIDE DEF m
<1>3. Mine' = Mine /\ UniqueIds' /\ (InStep' <=> InStep)
  BY <1>1 DEF Mine, Shown, OwnedBy, UniqueIds, PageInv, InStep, Mounted
<1>4. ListInv => ListInv'
  BY <1>1, <1>2, <1>3 DEF ListInv, RequestsOwn, MailTrue, CardsHaveRows, RowsHaveCards
<1> QED
  BY <1>3, <1>4 DEF PageInv

\* Another device: the page has missed something, or it was not about its account.
LEMMA ElsewherePage ==
    ASSUME WireInv, PageInv, NEW u \in Users, Elsewhere(u)
    PROVE  PageInv'
<1>1. UNCHANGED <<requests, mail, viewer, cards>> /\ (InStep' => InStep /\ u # viewer)
  BY DEF Elsewhere, wireVars, listVars, InStep, Mounted
<1>2. /\ UniqueIds'
      /\ \A r : r.userId # u => (r \in domain <=> r \in domain')
  <2>1. CASE \E h \in Hosts, d \in Dests, i \in Ids :
               /\ NewId(i)
               /\ domain' = domain \cup {[id |-> i, userId |-> u,
                                          hostname |-> h, destinationUrl |-> d]}
    BY <2>1 DEF NewId, Known, UniqueIds, PageInv
  <2>2. CASE \E row \in OwnedBy(u), d \in Dests :
               domain' = (domain \ {row}) \cup {[row EXCEPT !.destinationUrl = d]}
    <3>1. PICK row \in OwnedBy(u), d \in Dests :
            domain' = (domain \ {row}) \cup {[row EXCEPT !.destinationUrl = d]}
      BY <2>2
    <3> DEFINE new == [row EXCEPT !.destinationUrl = d]
    <3>2. row \in domain /\ row.userId = u /\ new.id = row.id /\ new.userId = u
      BY DEF OwnedBy, WireInv, Typed, Row
    <3>3. domain' = (domain \ {row}) \cup {new}
      BY <3>1
    <3> HIDE DEF new
    <3> QED
      BY <3>2, <3>3 DEF UniqueIds, PageInv
  <2>3. CASE \E row \in OwnedBy(u) : domain' = domain \ {row}
    BY <2>3 DEF OwnedBy, UniqueIds, PageInv
  <2> QED
    BY <2>1, <2>2, <2>3 DEF Elsewhere
<1>3. ASSUME InStep' PROVE ListInv'
  <2>1. Mine' = Mine
    BY <1>1, <1>2, <1>3 DEF Mine, OwnedBy, Shown
  <2> QED
    BY <1>1, <1>3, <2>1
    DEF PageInv, ListInv, RequestsOwn, MailTrue, CardsHaveRows, RowsHaveCards
<1> QED
  BY <1>2, <1>3 DEF PageInv

LEMMA StepPage == WireInv /\ PageInv /\ [Next]_vars => PageInv'
<1> SUFFICES ASSUME WireInv, PageInv, [Next]_vars PROVE PageInv'
  OBVIOUS
<1>1. ASSUME UNCHANGED <<domain, requests, mail, viewer, cards, behind>> PROVE PageInv'
  <2>1. Mine' = Mine
    BY <1>1 DEF Mine, Shown, OwnedBy
  <2> QED
    BY <1>1, <2>1 DEF PageInv, UniqueIds, InStep, Mounted, ListInv, RequestsOwn, MailTrue,
       CardsHaveRows, RowsHaveCards
<1>2. CASE SignOut \/ Reload
  BY <1>2 DEF SignOut, Reload, Unmount, PageInv, UniqueIds, InStep, Mounted
<1>3. CASE RenderPage
  BY <1>3, OpenPage DEF PageInv
<1>4. CASE SwitchSession \/ \E u \in Users : SignIn(u)
  BY <1>1, <1>4 DEF SwitchSession, SignIn, wireVars, listVars
<1>5. ASSUME NEW u \in Users, Elsewhere(u) PROVE PageInv'
  BY <1>5, ElsewherePage
<1>6. CASE ClickRegister
  BY <1>6, ClickPage DEF ClickRegister, Items
<1>7. ASSUME NEW c \in cards, ClickSave(c) \/ ClickRemove(c) PROVE PageInv'
  <2>1. c.id \in Items
    BY DEF WireInv, Typed, Card, Items
  <2> QED
    BY <1>7, <2>1, ClickPage DEF ClickSave, ClickRemove
<1>8. ASSUME NEW c \in cards, ClickEdit(c) PROVE PageInv'
  BY <1>1, <1>8 DEF ClickEdit, wireVars
<1>9. ASSUME NEW q \in requests, Serve(q) PROVE PageInv'
  BY <1>9, PostPage, TargetPage, RefusePage DEF Serve
<1>10. ASSUME NEW m \in mail, Receive(m) PROVE PageInv'
  BY <1>10, ReceivePage
<1>11. CASE UNCHANGED vars
  BY <1>1, <1>11 DEF vars, wireVars, listVars
<1> QED
  BY <1>2, <1>3, <1>4, <1>5, <1>6, <1>7, <1>8, <1>9, <1>10, <1>11 DEF Next

\* While nobody else changed the account's domains, nothing was lost or in doubt
\* and the session stayed, the page is right about all that awaits no answer.
THEOREM NoReload == Spec => []ListIsRows
<1>1. Init => PageInv
  BY DEF Init, PageInv, UniqueIds, InStep, Mounted
<1>2. WireInv /\ PageInv => ListIsRows
  <2> SUFFICES ASSUME WireInv, PageInv, Mounted, ~behind
               PROVE  /\ \A c \in cards : c.id \notin busy => c \in Mine
                      /\ \A c \in Mine : Form \notin busy => \E d \in cards : d.id = c.id
    BY DEF ListIsRows, Mine
  <2>1. CardsHaveRows /\ RowsHaveCards
    BY DEF PageInv, InStep, ListInv
  <2>2. \A m \in mail : m.item \in busy
    BY DEF WireInv, BusyExact
  <2> QED
    BY <2>1, <2>2 DEF CardsHaveRows, RowsHaveCards
<1> QED
  BY <1>1, <1>2, StepPage, Wire, PTL DEF Spec

=============================================================================
