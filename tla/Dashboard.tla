----------------------------- MODULE Dashboard -----------------------------
(***************************************************************************)
(* A page of the web tier in a user's browser: signing in (AuthForm), the  *)
(* dashboard the server renders for the session's account, and the         *)
(* buttons of Dashboard.tsx, each of which sends a request to the handlers *)
(* of /api/domains and applies the answer, whenever it comes, to the list  *)
(* on the page.  Every card and the form wait for one answer at a time;    *)
(* what different cards and the form wait for is answered in any order.    *)
(*                                                                         *)
(* The handlers are in Registry; here a request takes effect in one step,  *)
(* or fails.  Other devices, and other tabs of the same browser, are the   *)
(* environment: they change the table as the handlers let them, and sign   *)
(* this browser in or out.                                                 *)
(***************************************************************************)
EXTENDS Integers, FiniteSets

CONSTANTS
    Users,    \* accounts
    Hosts,    \* hostnames registerSchema accepts, normalized
    Dests,    \* destination URLs the schemas accept
    Ids,      \* row ids
    Form,     \* the registration form, where a card has its row's id
    None,     \* no value
    Faults    \* whether requests may fail and answers be lost

ASSUME DashboardAssumption ==
    /\ Faults \in BOOLEAN
    /\ Form \notin Ids
    /\ None \notin Users \cup Hosts \cup Dests

VARIABLES
    domain,     \* the rows of the domain table
    requests,   \* requests of the page that have not taken effect
    mail,       \* answers on their way to the page
    session,    \* the account this browser's cookie signs in
    viewer,     \* the account the dashboard was rendered for, None on the home page
    cards,      \* the list on the dashboard
    editing,    \* cards whose editor is open
    busy,       \* items that await an answer, with their buttons disabled
    behind      \* history: whether the page may have missed something

wireVars == <<requests, mail>>
listVars == <<viewer, cards, editing, busy>>
vars == <<domain, wireVars, session, listVars, behind>>

Row == [id : Ids, userId : Users, hostname : Hosts, destinationUrl : Dests]
Card == [id : Ids, hostname : Hosts, destination : Dests]

Items == Ids \cup {Form}

\* POST has a host and a destination, PUT a destination, DELETE neither.
Request == [item : Items, user : Users, host : Hosts \cup {None}, dest : Dests \cup {None}]

\* An answer's row is the domain it carries, if any.
Answer == [item : Items, ok : BOOLEAN, row : SUBSET Card]

\* Mutated form of Shown: the rows as they are.
ShownWhole(rows) == rows

\* Rows as the handlers and the dashboard page hand them to the browser.
Shown(rows) ==
    {[id |-> r.id, hostname |-> r.hostname, destination |-> r.destinationUrl] :
         r \in rows}

OwnedBy(u) == {r \in domain : r.userId = u}

Init ==
    /\ domain = {}
    /\ requests = {} /\ mail = {}
    /\ session = None
    /\ viewer = None
    /\ cards = {} /\ editing = {} /\ busy = {}
    /\ behind = FALSE

-----------------------------------------------------------------------------
(* Signing in and out, opening the dashboard *)

\* The tab shows the dashboard, and not the home page or a navigation.
Mounted == viewer # None

\* The dashboard is unmounted: its list goes, and answers are no longer heard.
\* A request of it that takes effect later is one of Elsewhere.
Unmount ==
    /\ Mounted
    /\ viewer' = None
    /\ cards' = {} /\ editing' = {} /\ busy' = {}
    /\ requests' = {} /\ mail' = {}
    /\ UNCHANGED <<domain, behind>>

\* A sign-up, sign-in or passkey sign-in succeeds.
SignIn(u) ==
    /\ ~Mounted
    /\ session' = u
    /\ UNCHANGED <<domain, wireVars, listVars, behind>>

SignOut == Unmount /\ session' = None

\* External: the browser's button.
Reload == Unmount /\ UNCHANGED session

\* The home page sends a browser that has a session on to the dashboard; the
\* dashboard's page sends one without back.
SentOn == session # None

\* The server renders the dashboard for the session's account, with the list as
\* its initial state.
RenderPage ==
    /\ ~Mounted
    /\ SentOn
    /\ viewer' = session
    /\ cards' = Shown(OwnedBy(session))
    /\ behind' = FALSE
    /\ UNCHANGED <<domain, wireVars, session, editing, busy>>

-----------------------------------------------------------------------------
(* The buttons *)

\* Ids in use by a row or by something on the page: no random UUID is one.
Known ==
    {r.id : r \in domain} \cup {c.id : c \in cards} \cup busy
        \cup UNION {{c.id : c \in m.row} : m \in mail}

\* Bound: nothing is registered when the ids left are those it may need.
IdsLeft == Cardinality({q \in requests : q.item = Form}) < Cardinality(Ids \ Known)

\* A click on an enabled button sends a request with the cookie as it is now;
\* without a session the answer is 401.
Send(item, h, d) ==
    /\ Mounted
    /\ item \notin busy
    /\ busy' = busy \cup {item}
    /\ IF session = None
       THEN /\ mail' = mail \cup {[item |-> item, ok |-> FALSE, row |-> {}]}
            /\ UNCHANGED requests
       ELSE /\ requests' = requests \cup
                    {[item |-> item, user |-> session, host |-> h, dest |-> d]}
            /\ UNCHANGED mail
    /\ behind' = (behind \/ session \notin {viewer, None})
    /\ UNCHANGED <<domain, session, viewer, cards, editing>>

ClickRegister == IdsLeft /\ \E h \in Hosts, d \in Dests : Send(Form, h, d)

ClickSave(c) == c.id \in editing /\ \E d \in Dests : Send(c.id, None, d)

ClickRemove(c) == c.id \notin editing /\ Send(c.id, None, None)

\* "Edit destination" works at any time, "Cancel" not while a save is pending.
ClickEdit(c) ==
    /\ \/ c.id \notin editing /\ editing' = editing \cup {c.id}
       \/ c.id \in editing \ busy /\ editing' = editing \ {c.id}
    /\ UNCHANGED <<domain, wireVars, session, viewer, cards, busy, behind>>

-----------------------------------------------------------------------------
(* The handlers *)

Free(h) == \A r \in domain : r.hostname # h

NewId(i) == i \notin Known

\* The row that an owner-checked update or delete by id finds, as a set.
Target(q) == {r \in domain : r.id = q.item /\ r.userId = q.user}

Respond(q, ok, rows) ==
    /\ requests' = requests \ {q}
    /\ mail' = mail \cup {[item |-> q.item, ok |-> ok, row |-> Shown(rows)]}
    /\ UNCHANGED <<session, listVars>>

\* The request has taken effect; its export may still fail.
Conclude(q, rows) ==
    \/ Respond(q, TRUE, rows) /\ UNCHANGED behind
    \/ Faults /\ Respond(q, FALSE, {}) /\ behind' = TRUE

Post(q) ==
    /\ q.item = Form
    /\ Free(q.host)
    /\ \E i \in Ids :
         LET row == [id |-> i, userId |-> q.user,
                     hostname |-> q.host, destinationUrl |-> q.dest]
         IN  /\ NewId(i)
             /\ domain' = domain \cup {row}
             /\ Conclude(q, {row})

Put(q) ==
    /\ q.item # Form /\ q.dest # None
    /\ \E row \in Target(q) :
         LET updated == [row EXCEPT !.destinationUrl = q.dest]
         IN  /\ domain' = (domain \ {row}) \cup {updated}
             /\ Conclude(q, {updated})

Delete(q) ==
    /\ q.item # Form /\ q.dest = None
    /\ \E row \in Target(q) :
         /\ domain' = domain \ {row}
         /\ Conclude(q, {})

\* 409, 404, 401 when the session has ended since the click, or a failure
\* before the request takes effect.
Refuse(q) ==
    /\ \/ q.item = Form /\ ~Free(q.host)
       \/ q.item # Form /\ Target(q) = {}
       \/ q.user # session
       \/ Faults
    /\ Respond(q, FALSE, {})
    /\ UNCHANGED <<domain, behind>>

Serve(q) == Post(q) \/ Put(q) \/ Delete(q) \/ Refuse(q)

\* External: another device or tab registers, changes or removes a domain.
Elsewhere(u) ==
    /\ \/ IdsLeft /\ \E h \in Hosts, d \in Dests, i \in Ids :
             /\ Free(h) /\ NewId(i)
             /\ domain' = domain \cup {[id |-> i, userId |-> u,
                                        hostname |-> h, destinationUrl |-> d]}
       \/ \E row \in OwnedBy(u), d \in Dests :
             domain' = (domain \ {row}) \cup {[row EXCEPT !.destinationUrl = d]}
       \/ \E row \in OwnedBy(u) : domain' = domain \ {row}
    /\ behind' = (behind \/ u = viewer)
    /\ UNCHANGED <<wireVars, session, listVars>>

\* External: another tab of this browser signs in, as anybody, or out.
SwitchSession ==
    /\ \E u \in Users \cup {None} : u # session /\ session' = u
    /\ UNCHANGED <<domain, wireVars, listVars, behind>>

-----------------------------------------------------------------------------
(* The answers *)

\* The answer arrives, and the item's buttons work again.
Hear(m) ==
    /\ mail' = mail \ {m}
    /\ busy' = busy \ {m.item}
    /\ UNCHANGED <<domain, requests, session, viewer>>

Registered(m) ==
    /\ m.ok /\ m.item = Form
    /\ Hear(m)
    /\ cards' = cards \cup m.row
    /\ UNCHANGED <<editing, behind>>

\* onChange: a card with the row's id, if there is one, is replaced.
Changed(rows) ==
    {IF \E d \in rows : d.id = c.id THEN CHOOSE d \in rows : d.id = c.id ELSE c : c \in cards}

Saved(m) ==
    /\ m.ok /\ m.item # Form /\ m.row # {}
    /\ Hear(m)
    /\ cards' = Changed(m.row)
    /\ editing' = editing \ {m.item}
    /\ UNCHANGED behind

\* Mutated form of CardsBut: cards are picked by their hostname.
CardsButHostname(i) ==
    {c \in cards : \A d \in cards : d.id = i => c.hostname # d.hostname}

\* onRemove
CardsBut(i) == {c \in cards : c.id # i}

\* The card goes, with its editor.
Removed(m) ==
    /\ m.ok /\ m.item # Form /\ m.row = {}
    /\ Hear(m)
    /\ cards' = CardsBut(m.item)
    /\ editing' = editing \ {m.item}
    /\ UNCHANGED behind

\* Mutated form of Refused: the early return without the finally block.
RefusedStaysBusy(m) ==
    /\ ~m.ok
    /\ mail' = mail \ {m}
    /\ UNCHANGED <<domain, requests, session, listVars, behind>>

\* The answer is an error: the list stays.
Refused(m) ==
    /\ ~m.ok
    /\ Hear(m)
    /\ UNCHANGED <<cards, editing, behind>>

\* The answer is lost: fetch throws, and the finally block is all that runs.
Lost(m) ==
    /\ Faults
    /\ m.ok
    /\ Hear(m)
    /\ behind' = TRUE
    /\ UNCHANGED <<cards, editing>>

Receive(m) == Registered(m) \/ Saved(m) \/ Removed(m) \/ Refused(m) \/ Lost(m)

Next ==
    \/ \E u \in Users : SignIn(u) \/ Elsewhere(u)
    \/ SignOut \/ Reload \/ RenderPage \/ SwitchSession
    \/ ClickRegister
    \/ \E c \in cards : ClickEdit(c) \/ ClickSave(c) \/ ClickRemove(c)
    \/ \E q \in requests : Serve(q)
    \/ \E m \in mail : Receive(m)

Spec == Init /\ [][Next]_vars

(***************************************************************************)
(* A request is served, and its answer arrives or is lost.                 *)
(***************************************************************************)
FairSpec ==
    /\ Spec
    /\ \A i \in Items :
         /\ WF_vars(\E q \in requests : q.item = i /\ Serve(q))
         /\ WF_vars(\E m \in mail : m.item = i /\ Receive(m))

-----------------------------------------------------------------------------
(* Properties *)

\* Every variable has its type, no item has two requests or answers, and those
\* that have one are exactly the ones whose buttons are disabled.
TypeOK ==
    /\ domain \subseteq Row
    /\ requests \subseteq Request
    /\ mail \subseteq Answer
    /\ session \in Users \cup {None}
    /\ viewer \in Users \cup {None}
    /\ cards \subseteq Card
    /\ editing \subseteq Ids
    /\ behind \in BOOLEAN
    /\ busy = {q.item : q \in requests} \cup {m.item : m \in mail}
    /\ Cardinality(requests) + Cardinality(mail) = Cardinality(busy)

\* Unless somebody else changed the account's domains, an answer was lost or in
\* doubt, or the session changed hands, the page is right about every item that
\* awaits nothing: a card shows its row, and a row without a card is one the
\* form still waits for.  In whatever order answers come, the page's own
\* changes never make a reload necessary.
ListIsRows ==
    Mounted /\ ~behind =>
        /\ \A c \in cards : c.id \notin busy => c \in Shown(OwnedBy(viewer))
        /\ \A c \in Shown(OwnedBy(viewer)) :
              Form \notin busy => \E d \in cards : d.id = c.id

\* A button that was clicked comes to life again, whatever became of its
\* request, unless the page goes first.
ButtonsRevive == \A i \in Items : i \in busy ~> i \notin busy
=============================================================================
