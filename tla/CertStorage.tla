---------------------------- MODULE CertStorage ----------------------------
(***************************************************************************)
(* The certificate store over bucket objects: Store, Delete, Exists and    *)
(* List of internal/certstore/gcs.go, as certmagic calls them, and the     *)
(* clean-up of the web tier (deleteCertsForHost of gcs-export.ts) over the *)
(* same objects.                                                           *)
(*                                                                         *)
(* A bucket has no directories: a directory is the objects whose names     *)
(* begin with its name and a slash, and is deleted one object at a time    *)
(* while a listing of it is read page by page.  Names are sequences of     *)
(* tokens, so that a name, a segment and the slash are told apart the way  *)
(* the code's string operations do.  Load and Stat are single requests     *)
(* that change nothing.                                                    *)
(***************************************************************************)
EXTENDS Integers, Sequences

CONSTANTS
    Names,     \* the names objects may have, in the order the bucket lists them
    Keys,      \* keys of the calls of Delete, Exists and List
    Hosts,     \* hosts that are cleaned up
    Callers,   \* calls under way at once
    Faults     \* whether requests may fail

ASSUME StorageAssumption ==
    /\ Names \in Seq(Seq(STRING))
    /\ Keys \subseteq Seq(STRING)
    /\ Hosts \subseteq STRING
    /\ Faults \in BOOLEAN

\* An object is known by the position of its name.
Objects == 1..Len(Names)

VARIABLES
    objects,   \* the objects there are
    call,      \* the call of each caller: its operation, and key or host
    at,        \* what it does next
    cursor,    \* how far its listing has been read
    page,      \* objects listed that it has yet to go through
    found,     \* whether it has deleted, or listed, anything
    reply,     \* the answers given by the last step
    kept,      \* history: objects there at every moment of the call so far
    failed     \* history: callers one of whose requests failed unnoticed

callVars == <<call, at, cursor, page, found, reply, failed>>
vars == <<objects, callVars, kept>>

Operations == {"delete", "exists", "list", "clean"}
Places == {"idle", "leaf", "list", "walk"}
NoCall == [op |-> "none", key |-> <<>>]
Silent == [c \in Callers |-> "none"]

-----------------------------------------------------------------------------
(* Names *)

Begins(prefix, name) ==
    Len(prefix) =< Len(name) /\ SubSeq(name, 1, Len(prefix)) = prefix

\* Mutated form of Under: a prefix without its slash.
UnderUnslashed(key) == {n \in Objects : Begins(key, Names[n]) /\ Names[n] # key}

\* The object of a key, and those under it as a directory.
Leaf(key) == {n \in Objects : Names[n] = key}
Under(key) == {n \in Objects : Begins(Append(key, "/"), Names[n])}

\* certObjectsForHost: the host is a whole segment of the name.
OfHost(h) ==
    {n \in Objects : \E i \in 1..Len(Names[n]) :
        Begins(<<"/", h, "/">>, SubSeq(Names[n], i, Len(Names[n])))}

\* certmagic's keys: no name is an object and a directory at once.
ASSUME DirectoryAssumption ==
    \A n, m \in Objects : ~Begins(Append(Names[n], "/"), Names[m])

Key(c) == call[c].key
Doing(c, op, place) == call[c].op = op /\ at[c] = place

\* What a caller's listing is about.
Scope(c) == IF call[c].op = "clean" THEN Objects ELSE Under(Key(c))

\* What an operation deletes, or looks for.
Target(c) ==
    CASE call[c].op = "clean" -> OfHost(Key(c)[1])
      [] call[c].op = "list" -> Under(Key(c))
      [] OTHER -> Leaf(Key(c)) \cup Under(Key(c))

-----------------------------------------------------------------------------
Init ==
    /\ objects \in SUBSET Objects
    /\ call = [c \in Callers |-> NoCall]
    /\ at = [c \in Callers |-> "idle"]
    /\ cursor = [c \in Callers |-> 0]
    /\ page = [c \in Callers |-> {}]
    /\ found = [c \in Callers |-> FALSE]
    /\ reply = Silent
    /\ kept = [c \in Callers |-> {}]
    /\ failed = {}

\* kept after a step that leaves the calls under way as they are.
Keep == kept' = [c \in Callers |-> kept[c] \cap objects']

Go(c, place) ==
    /\ at' = [at EXCEPT ![c] = place]
    /\ reply' = Silent
    /\ UNCHANGED call
    /\ Keep

Answer(c, code) ==
    /\ at' = [at EXCEPT ![c] = "idle"]
    /\ reply' = [Silent EXCEPT ![c] = code]
    /\ call' = [call EXCEPT ![c] = NoCall]
    /\ cursor' = [cursor EXCEPT ![c] = 0]
    /\ page' = [page EXCEPT ![c] = {}]
    /\ found' = [found EXCEPT ![c] = FALSE]
    /\ failed' = failed \ {c}
    /\ kept' = [d \in Callers |-> IF d = c THEN {} ELSE kept[d] \cap objects']

Begin(c, op, key, place) ==
    /\ at[c] = "idle"
    /\ at' = [at EXCEPT ![c] = place]
    /\ call' = [call EXCEPT ![c] = [op |-> op, key |-> key]]
    /\ kept' = [kept EXCEPT ![c] = objects]
    /\ reply' = Silent
    /\ UNCHANGED <<objects, cursor, page, found, failed>>

CallDelete(c) == \E key \in Keys : Begin(c, "delete", key, "leaf")
CallExists(c) == \E key \in Keys : Begin(c, "exists", key, "leaf")
CallList(c) == \E key \in Keys : Begin(c, "list", key, "list")
CallClean(c) == \E h \in Hosts : Begin(c, "clean", <<h>>, "list")

\* An object is written, by one request, whether or not it is there.
Store(n) ==
    /\ objects' = objects \cup {n}
    /\ reply' = Silent
    /\ Keep
    /\ UNCHANGED <<call, at, cursor, page, found, failed>>

-----------------------------------------------------------------------------
(* Listings *)

Ahead(c) == {n \in objects \cap Scope(c) : n > cursor[c]}

\* Mutated form of Turn: the next page begins one name too far.
TurnSkips(c) ==
    \E mark \in Ahead(c) :
        /\ page' = [page EXCEPT ![c] = @ \cup {n \in Ahead(c) : n =< mark}]
        /\ cursor' = [cursor EXCEPT ![c] = mark + 1]

\* The next page: what is ahead up to some object, its mark; a page that holds
\* everything may be known to be the last.
Turn(c) ==
    \E mark \in Ahead(c) :
        /\ page' = [page EXCEPT ![c] = @ \cup {n \in Ahead(c) : n =< mark}]
        /\ \/ cursor' = [cursor EXCEPT ![c] = mark]
           \/ /\ \A n \in Ahead(c) : n =< mark
              /\ cursor' = [cursor EXCEPT ![c] = Len(Names)]

-----------------------------------------------------------------------------
(* Mutated forms of the actions below *)

\* An object that could not be deleted is passed over, its error dropped.
DeleteNextRegardless(c) ==
    /\ Doing(c, "delete", "walk")
    /\ \E n \in page[c] :
         /\ \A m \in page[c] : n =< m
         /\ page' = [page EXCEPT ![c] = @ \ {n}]
         /\ \/ objects' = objects \ {n}
            \/ Faults /\ UNCHANGED objects
    /\ found' = [found EXCEPT ![c] = TRUE]
    /\ Go(c, IF page'[c] = {} THEN "list" ELSE "walk")
    /\ UNCHANGED <<cursor, failed>>

\* A key that is not an object does not exist.
ExistsLeafOnly(c) ==
    /\ Doing(c, "exists", "leaf")
    /\ UNCHANGED objects
    /\ Answer(c, IF Leaf(Key(c)) \cap objects # {} THEN "ok" ELSE "missing")

-----------------------------------------------------------------------------
(* Delete *)

\* obj.Delete of the key itself; absent, it is taken for a directory.
DeleteLeaf(c) ==
    /\ Doing(c, "delete", "leaf")
    /\ objects' = objects \ Leaf(Key(c))
    /\ IF Leaf(Key(c)) \cap objects # {}
       THEN Answer(c, "ok")
       ELSE Go(c, "list") /\ UNCHANGED <<cursor, page, found, failed>>

DeletePage(c) ==
    /\ Doing(c, "delete", "list")
    /\ UNCHANGED objects
    /\ Turn(c)
    /\ Go(c, "walk")
    /\ UNCHANGED <<found, failed>>

\* Next of the page, in order; that it is gone already is no error.
DeleteNext(c) ==
    /\ Doing(c, "delete", "walk")
    /\ \E n \in page[c] :
         /\ \A m \in page[c] : n =< m
         /\ objects' = objects \ {n}
         /\ page' = [page EXCEPT ![c] = @ \ {n}]
    /\ found' = [found EXCEPT ![c] = TRUE]
    /\ Go(c, IF page'[c] = {} THEN "list" ELSE "walk")
    /\ UNCHANGED <<cursor, failed>>

DeleteEnd(c) ==
    /\ Doing(c, "delete", "list")
    /\ UNCHANGED objects
    /\ Ahead(c) = {}
    /\ Answer(c, IF found[c] THEN "ok" ELSE "missing")

-----------------------------------------------------------------------------
(* Exists, List *)

\* The attributes of the key itself; any error leads on to the directory.
ExistsLeaf(c) ==
    /\ Doing(c, "exists", "leaf")
    /\ UNCHANGED objects
    /\ \/ Leaf(Key(c)) \cap objects # {} /\ Answer(c, "ok")
       \/ /\ Leaf(Key(c)) \cap objects = {} \/ Faults
          /\ Go(c, "list")
          /\ failed' = IF Leaf(Key(c)) \cap objects = {} THEN failed ELSE failed \cup {c}
          /\ UNCHANGED <<cursor, page, found>>

\* The first entry of the listing decides; an error is answered false as well,
\* kept apart from "missing" here.
ExistsUnder(c) ==
    /\ Doing(c, "exists", "list")
    /\ UNCHANGED objects
    /\ \/ Answer(c, IF Ahead(c) # {} THEN "ok" ELSE "missing")
       \/ Faults /\ Ahead(c) # {} /\ Answer(c, "false")

\* List collects every page; for children only, names are cut at their slash.
ListPage(c) ==
    /\ Doing(c, "list", "list")
    /\ UNCHANGED objects
    /\ Turn(c)
    /\ found' = [found EXCEPT ![c] = TRUE]
    /\ Go(c, "list")
    /\ UNCHANGED failed

ListEnd(c) ==
    /\ Doing(c, "list", "list")
    /\ UNCHANGED objects
    /\ Ahead(c) = {}
    /\ Answer(c, IF found[c] THEN "ok" ELSE "missing")

-----------------------------------------------------------------------------
(* deleteCertsForHost *)

\* getFiles reads all pages, then the host's files are picked.
CleanPage(c) ==
    /\ Doing(c, "clean", "list")
    /\ UNCHANGED objects
    /\ Turn(c)
    /\ Go(c, "list")
    /\ UNCHANGED <<found, failed>>

CleanPick(c) ==
    /\ Doing(c, "clean", "list")
    /\ UNCHANGED objects
    /\ Ahead(c) = {}
    /\ page' = [page EXCEPT ![c] = @ \cap OfHost(Key(c)[1])]
    /\ Go(c, "walk")
    /\ UNCHANGED <<cursor, found, failed>>

\* All of them are deleted at once, in any order; failures are swallowed.
CleanNext(c) ==
    /\ Doing(c, "clean", "walk")
    /\ \E n \in page[c] :
         /\ page' = [page EXCEPT ![c] = @ \ {n}]
         /\ \/ objects' = objects \ {n} /\ UNCHANGED failed
            \/ Faults /\ n \in objects /\ failed' = failed \cup {c} /\ UNCHANGED objects
    /\ Go(c, "walk")
    /\ UNCHANGED <<cursor, found>>

CleanEnd(c) ==
    /\ Doing(c, "clean", "walk")
    /\ UNCHANGED objects
    /\ page[c] = {}
    /\ Answer(c, "ok")

-----------------------------------------------------------------------------
\* A request of Delete or List or the listing of a clean-up fails, its delete
\* applied or not; or the process dies in any call.
Fail(c) ==
    /\ Faults
    /\ at[c] # "idle"
    /\ \/ UNCHANGED objects
       \/ Doing(c, "delete", "leaf") /\ objects' = objects \ Leaf(Key(c))
       \/ at[c] = "walk" /\ \E n \in page[c] : objects' = objects \ {n}
    /\ Answer(c, "error")

Next ==
    \/ \E n \in Objects : Store(n)
    \/ \E c \in Callers :
         \/ CallDelete(c) \/ CallExists(c) \/ CallList(c) \/ CallClean(c)
         \/ DeleteLeaf(c) \/ DeletePage(c) \/ DeleteNext(c) \/ DeleteEnd(c)
         \/ ExistsLeaf(c) \/ ExistsUnder(c) \/ ListPage(c) \/ ListEnd(c)
         \/ CleanPage(c) \/ CleanPick(c) \/ CleanNext(c) \/ CleanEnd(c)
         \/ Fail(c)

Spec == Init /\ [][Next]_vars

-----------------------------------------------------------------------------
(* Properties *)

\* Every variable has its type, and no call leaves anything behind.
TypeOK ==
    /\ objects \subseteq Objects
    /\ at \in [Callers -> Places]
    /\ cursor \in [Callers -> 0..Len(Names)]
    /\ page \in [Callers -> SUBSET Objects]
    /\ found \in [Callers -> BOOLEAN]
    /\ kept \in [Callers -> SUBSET Objects]
    /\ failed \subseteq Callers
    /\ \A c \in Callers :
         /\ at[c] = "idle" => call[c] = NoCall /\ cursor[c] = 0 /\ page[c] = {}
         /\ at[c] # "idle" => call[c].op \in Operations

\* A success is complete, whatever is stored and deleted meanwhile and however
\* the listing is cut into pages.  Of the objects there all along, a Delete
\* leaves none at its key "and, if key is a directory prefix, everything under
\* it" (no name is an object and a directory at once), a clean-up none of its
\* host's unless it swallowed a failure, and List misses none under its path.
CompleteOnSuccess ==
    [][\A c \in Callers :
         reply'[c] = "ok" =>
             /\ call[c].op \in {"delete", "clean"} /\ c \notin failed =>
                    kept[c] \cap Target(c) \cap objects' = {}
             /\ call[c].op = "list" => kept[c] \cap Target(c) \subseteq page[c]]_vars

\* What disappears is under the key of a Delete under way, or belongs to the
\* host of a clean-up: never to a name that merely begins the same, such as the
\* www variant of a host or a longer domain.
DeletesOwn ==
    [][\A n \in objects \ objects' :
         \E c \in Callers :
             \/ /\ call[c].op = "delete"
                /\ Names[n] = Key(c) \/ Begins(Append(Key(c), "/"), Names[n])
             \/ /\ call[c].op = "clean"
                /\ \E i \in 1..Len(Names[n]) - 2 :
                     SubSeq(Names[n], i, i + 2) = <<"/", Key(c)[1], "/">>]_vars

\* fs.ErrNotExist from Delete or List, and false from Exists unless a request of
\* it failed, mean that nothing at or under the key was there all the while.
MissingIsMissing ==
    [][\A c \in Callers :
         reply'[c] = "missing" /\ c \notin failed
             => kept[c] \cap Target(c) = {}]_vars
=============================================================================
