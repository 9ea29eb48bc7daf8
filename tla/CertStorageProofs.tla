------------------------- MODULE CertStorageProofs -------------------------
(***************************************************************************)
(* Proofs about CertStorage: type correctness, whose objects disappear,    *)
(* and what a success or a "missing" promises, for any names, keys, hosts  *)
(* and number of calls under way, with and without failing requests.       *)
(***************************************************************************)
EXTENDS CertStorage, SequenceTheorems, TLAPS

\* What one call does next.
CallStep(c) ==
    \/ CallDelete(c) \/ CallExists(c) \/ CallList(c) \/ CallClean(c)
    \/ DeleteLeaf(c) \/ DeletePage(c) \/ DeleteNext(c) \/ DeleteEnd(c)
    \/ ExistsLeaf(c) \/ ExistsUnder(c) \/ ListPage(c) \/ ListEnd(c)
    \/ CleanPage(c) \/ CleanPick(c) \/ CleanNext(c) \/ CleanEnd(c)
    \/ Fail(c)

\* TypeOK, and the type of the calls, which it leaves to their callers.
TypeInv ==
    /\ TypeOK
    /\ call \in [Callers -> [op : Operations \cup {"none"}, key : Seq(STRING)]]

\* What is fixed about a listing's positions.
LEMMA Positions == Len(Names) \in Nat /\ <<>> \in Seq(STRING)
BY StorageAssumption

\* What reading a page does to its caller's listing.
LEMMA TurnType ==
    ASSUME TypeOK, NEW c \in Callers, Turn(c)
    PROVE  /\ page' \in [Callers -> SUBSET Objects]
           /\ cursor' \in [Callers -> 0..Len(Names)]
           /\ \A d \in Callers \ {c} : page'[d] = page[d] /\ cursor'[d] = cursor[d]
<1>1. PICK mark \in Ahead(c) :
        /\ page' = [page EXCEPT ![c] = @ \cup {n \in Ahead(c) : n =< mark}]
        /\ cursor' = [cursor EXCEPT ![c] = mark] \/ cursor' = [cursor EXCEPT ![c] = Len(Names)]
  BY DEF Turn
<1>2. Ahead(c) \subseteq 1..Len(Names)
  BY DEF Ahead, TypeOK, Objects
<1>3. page[c] \cup {n \in Ahead(c) : n =< mark} \in SUBSET Objects
  BY <1>2 DEF TypeOK, Objects
<1>4. mark \in 0..Len(Names) /\ Len(Names) \in 0..Len(Names)
  BY <1>2, Positions
<1> QED
  BY <1>1, <1>3, <1>4 DEF TypeOK

\* An answer ends its call, and leaves the others alone.
LEMMA AnswerTypes ==
    ASSUME TypeInv, NEW c \in Callers, NEW code, Answer(c, code), objects' \subseteq Objects
    PROVE  TypeInv'
<1>1. /\ NoCall \in [op : Operations \cup {"none"}, key : Seq(STRING)]
      /\ 0 \in 0..Len(Names)
  BY Positions DEF NoCall
<1> QED
  BY <1>1 DEF TypeInv, TypeOK, Answer, Places

\* A call that goes on does not end, and leaves the others alone.
LEMMA GoTypes ==
    ASSUME TypeInv, NEW c \in Callers, at[c] # "idle",
           NEW place \in {"leaf", "list", "walk"}, Go(c, place),
           objects' \subseteq Objects, failed' \subseteq Callers,
           found' \in [Callers -> BOOLEAN],
           page' \in [Callers -> SUBSET Objects], cursor' \in [Callers -> 0..Len(Names)],
           \A d \in Callers \ {c} : page'[d] = page[d] /\ cursor'[d] = cursor[d]
    PROVE  TypeInv'
<1>1. kept' \in [Callers -> SUBSET Objects]
  BY DEF Go, Keep, TypeInv, TypeOK
<1> QED
  BY <1>1 DEF TypeInv, TypeOK, Go, Places

LEMMA BeginTypes ==
    ASSUME TypeInv, NEW c \in Callers, NEW op \in Operations, NEW key \in Seq(STRING),
           NEW place \in {"leaf", "list"}, Begin(c, op, key, place)
    PROVE  TypeInv'
BY DEF TypeInv, TypeOK, Begin, Places

LEMMA StepTypes == TypeInv /\ [Next]_vars => TypeInv'
<1> SUFFICES ASSUME TypeInv, [Next]_vars PROVE TypeInv'
  OBVIOUS
<1>1. ASSUME NEW c \in Callers, CallStep(c) PROVE TypeInv'
  <2> USE DEF Doing
  <2>1. CASE CallDelete(c) \/ CallExists(c) \/ CallList(c) \/ CallClean(c)
    <3>1. \A S : \A h \in S : <<h>> \in Seq(S)
      OBVIOUS
    <3>2. PICK op \in Operations, key \in Seq(STRING), place \in {"leaf", "list"} :
            Begin(c, op, key, place)
      <4>1. CASE CallDelete(c) \/ CallExists(c)
        BY <4>1, StorageAssumption DEF CallDelete, CallExists, Operations
      <4>2. CASE CallList(c)
        BY <4>2, StorageAssumption DEF CallList, Operations
      <4>3. CASE CallClean(c)
        <5>1. PICK h \in Hosts : Begin(c, "clean", <<h>>, "list")
          BY <4>3 DEF CallClean
        <5> QED
          BY <5>1, <3>1, StorageAssumption DEF Operations
      <4> QED
        BY <2>1, <4>1, <4>2, <4>3
    <3> QED
      BY <3>2, BeginTypes
  <2>2. CASE DeleteLeaf(c)
    <3>1. objects' \subseteq Objects
      BY <2>2 DEF DeleteLeaf, TypeInv, TypeOK
    <3> QED
      BY <2>2, <3>1, AnswerTypes, GoTypes DEF DeleteLeaf, TypeInv, TypeOK
  <2>3. CASE DeletePage(c) \/ ListPage(c) \/ CleanPage(c)
    BY <2>3, TurnType, GoTypes DEF DeletePage, ListPage, CleanPage, TypeInv, TypeOK
  <2>4. CASE DeleteNext(c) \/ CleanNext(c) \/ CleanPick(c)
    <3>1. /\ objects' \subseteq Objects /\ failed' \subseteq Callers
          /\ found' \in [Callers -> BOOLEAN]
      BY <2>4 DEF DeleteNext, CleanNext, CleanPick, TypeInv, TypeOK
    <3>2. \E rest \in SUBSET Objects : page' = [page EXCEPT ![c] = rest] /\ cursor' = cursor
      BY <2>4 DEF DeleteNext, CleanNext, CleanPick, TypeInv, TypeOK
    <3>3. \E place \in {"list", "walk"} : Go(c, place)
      BY <2>4 DEF DeleteNext, CleanNext, CleanPick
    <3>4. at[c] # "idle"
      BY <2>4 DEF DeleteNext, CleanNext, CleanPick
    <3>5. /\ page' \in [Callers -> SUBSET Objects] /\ cursor' \in [Callers -> 0..Len(Names)]
          /\ \A d \in Callers \ {c} : page'[d] = page[d] /\ cursor'[d] = cursor[d]
      BY <3>2 DEF TypeInv, TypeOK
    <3> QED
      BY <3>1, <3>3, <3>4, <3>5, GoTypes
  <2>5. CASE DeleteEnd(c) \/ ExistsUnder(c) \/ ListEnd(c) \/ CleanEnd(c)
    BY <2>5, AnswerTypes DEF DeleteEnd, ExistsUnder, ListEnd, CleanEnd, TypeInv, TypeOK
  <2>6. CASE ExistsLeaf(c)
    BY <2>6, AnswerTypes, GoTypes DEF ExistsLeaf, TypeInv, TypeOK
  <2>7. CASE Fail(c)
    BY <2>7, AnswerTypes DEF Fail, TypeInv, TypeOK
  <2> QED
    BY <1>1, <2>1, <2>2, <2>3, <2>4, <2>5, <2>6, <2>7 DEF CallStep
<1>2. ASSUME NEW n \in Objects, Store(n) PROVE TypeInv'
  BY <1>2 DEF Store, Keep, TypeInv, TypeOK
<1>3. CASE UNCHANGED vars
  BY <1>3 DEF vars, callVars, TypeInv, TypeOK
<1> QED
  BY <1>1, <1>2, <1>3 DEF Next, CallStep

LEMMA InitTypes == Init => TypeInv
BY Positions DEF Init, TypeInv, TypeOK, Operations, Places, NoCall

\* Every variable keeps its type, and every call that ends leaves nothing behind.
THEOREM Typing == Spec => []TypeOK
<1>1. TypeInv => TypeOK
  BY DEF TypeInv
<1> QED
  BY <1>1, InitTypes, StepTypes, PTL DEF Spec

-----------------------------------------------------------------------------
(***************************************************************************)
(* The inductive invariant.  Whatever was there at every moment of a call  *)
(* and has been passed by its listing is on the page it has yet to go      *)
(* through; what was not seen at the key at first was not always there;    *)
(* and the pages of a call that deletes hold nothing of anybody else.      *)
(***************************************************************************)

\* Nothing that is gone has been kept.
KeptThere(c) == kept[c] \subseteq objects

\* At its first request, and in Exists throughout, a call has listed nothing.
Unread(c) == at[c] = "leaf" \/ call[c].op = "exists" => cursor[c] = 0 /\ page[c] = {}

\* Who goes through a page, and what it holds at most.
PageOwn(c) ==
    /\ at[c] = "walk" => call[c].op \in {"delete", "clean"}
    /\ call[c].op = "delete" => page[c] \subseteq Under(Key(c))
    /\ Doing(c, "delete", "list") => page[c] = {}
    /\ Doing(c, "clean", "walk") => page[c] \subseteq OfHost(Key(c)[1])
    /\ call[c].op = "list" /\ ~found[c] => page[c] = {}

\* What a page holds at least.
Listing(c) == at[c] = "list" \/ Doing(c, "delete", "walk")
PageFull(c) ==
    /\ Listing(c) => {n \in kept[c] \cap Scope(c) : n =< cursor[c]} \subseteq page[c]
    /\ Doing(c, "clean", "walk") /\ c \notin failed => kept[c] \cap OfHost(Key(c)[1]) \subseteq page[c]

\* Past its first request, a Delete or Exists has found no object at its key.
LeafGone(c) ==
    call[c].op \in {"delete", "exists"} /\ at[c] \in {"list", "walk"} /\ c \notin failed
        => kept[c] \cap Leaf(Key(c)) = {}

CallInv(c) == KeptThere(c) /\ Unread(c) /\ PageOwn(c) /\ PageFull(c) /\ LeafGone(c)

IInv == TypeInv /\ \A c \in Callers : CallInv(c)

\* A step of another call, or of Store, leaves the invariant of a call: what it
\* has kept may only shrink.
LEMMA Bystander ==
    ASSUME NEW d \in Callers, CallInv(d),
           call'[d] = call[d], at'[d] = at[d], cursor'[d] = cursor[d],
           page'[d] = page[d], found'[d] = found[d], d \in failed' <=> d \in failed,
           kept'[d] \subseteq kept[d] \cap objects'
    PROVE  CallInv(d)'
<1> USE DEF CallInv, Doing, Key
<1>1. (KeptThere(d) /\ Unread(d) /\ PageOwn(d) /\ LeafGone(d))'
  BY DEF KeptThere, Unread, PageOwn, LeafGone, Under, OfHost, Leaf, Objects
<1>2. Scope(d)' = Scope(d) /\ OfHost(Key(d)[1])' = OfHost(Key(d)[1])
  BY DEF Scope, Under, OfHost, Objects
<1>3. PageFull(d)'
  BY <1>2 DEF PageFull, Listing
<1> QED
  BY <1>1, <1>3

\* A step of one call is no step of another.
LEMMA OthersStay ==
    ASSUME TypeInv, NEW c \in Callers, CallStep(c), NEW d \in Callers \ {c}, KeptThere(d)
    PROVE  /\ call'[d] = call[d] /\ at'[d] = at[d] /\ cursor'[d] = cursor[d]
           /\ page'[d] = page[d] /\ found'[d] = found[d]
           /\ d \in failed' <=> d \in failed
           /\ kept'[d] \subseteq kept[d] \cap objects'
<1> USE DEF TypeInv, TypeOK, Go, Keep, Answer
<1>1. CASE CallDelete(c) \/ CallExists(c) \/ CallList(c) \/ CallClean(c)
  BY <1>1 DEF CallDelete, CallExists, CallList, CallClean, Begin, KeptThere
<1>2. CASE DeleteLeaf(c) \/ DeleteEnd(c) \/ ExistsLeaf(c) \/ ExistsUnder(c)
           \/ ListEnd(c) \/ CleanEnd(c) \/ Fail(c)
  BY <1>2 DEF DeleteLeaf, DeleteEnd, ExistsLeaf, ExistsUnder, ListEnd, CleanEnd, Fail
<1>3. CASE DeletePage(c) \/ ListPage(c) \/ CleanPage(c)
  BY <1>3, TurnType DEF DeletePage, ListPage, CleanPage
<1>4. CASE DeleteNext(c) \/ CleanNext(c) \/ CleanPick(c)
  BY <1>4 DEF DeleteNext, CleanNext, CleanPick
<1> QED
  BY <1>1, <1>2, <1>3, <1>4 DEF CallStep

\* A page leaves out nothing that has been there all along.
LEMMA TurnReads ==
    ASSUME TypeInv, NEW c \in Callers, Turn(c), KeptThere(c), Listing(c), PageFull(c)
    PROVE  /\ {n \in kept[c] \cap Scope(c) : n =< cursor'[c]} \subseteq page'[c]
           /\ page'[c] \subseteq page[c] \cup Scope(c)
<1>1. PICK mark \in Ahead(c) :
        /\ page'[c] = page[c] \cup {n \in Ahead(c) : n =< mark}
        /\ \/ cursor'[c] = mark
           \/ \A n \in Ahead(c) : n =< mark
  BY DEF Turn, TypeInv, TypeOK
<1>2. \A n \in kept[c] \cap Scope(c) : n =< cursor[c] \/ n \in Ahead(c)
  BY DEF Ahead, KeptThere, TypeInv, TypeOK, Objects
<1> QED
  BY <1>1, <1>2 DEF Ahead, PageFull

LEMMA BeginInv ==
    ASSUME TypeInv, NEW c \in Callers,
           CallDelete(c) \/ CallExists(c) \/ CallList(c) \/ CallClean(c)
    PROVE  CallInv(c)'
<1>1. /\ kept'[c] = objects /\ objects' = objects /\ cursor'[c] = 0 /\ page'[c] = {}
      /\ at'[c] = "leaf" \/ (at'[c] = "list" /\ call'[c].op \in {"list", "clean"})
  BY DEF CallDelete, CallExists, CallList, CallClean, Begin, TypeInv, TypeOK
<1>2. \A n \in objects : ~(n =< 0)
  BY DEF TypeInv, TypeOK, Objects
<1> QED
  BY <1>1, <1>2
  DEF CallInv, KeptThere, Unread, PageOwn, PageFull, LeafGone, Doing, Listing

LEMMA AnswerInv ==
    ASSUME TypeInv, NEW c \in Callers, NEW code, Answer(c, code)
    PROVE  CallInv(c)'
<1>1. /\ at'[c] = "idle" /\ call'[c].op = "none"
      /\ kept'[c] = {} /\ page'[c] = {} /\ cursor'[c] = 0
  BY DEF Answer, TypeInv, TypeOK, NoCall
<1> QED
  BY <1>1 DEF CallInv, KeptThere, Unread, PageOwn, PageFull, LeafGone, Doing, Listing

\* The key, and what it stands for, last as long as the call.
LEMMA SameCall ==
    ASSUME NEW c \in Callers, call' = call
    PROVE  /\ Key(c)' = Key(c) /\ Scope(c)' = Scope(c)
           /\ \A key : Under(key)' = Under(key) /\ Leaf(key)' = Leaf(key)
           /\ \A h : OfHost(h)' = OfHost(h)
BY DEF Key, Scope, Under, Leaf, OfHost, Objects

LEMMA GoInv ==
    ASSUME TypeInv, NEW c \in Callers, CallInv(c),
           \/ DeleteLeaf(c) /\ Leaf(Key(c)) \cap objects = {}
           \/ ExistsLeaf(c) /\ at'[c] # "idle"
           \/ DeletePage(c) \/ DeleteNext(c) \/ ListPage(c)
           \/ CleanPage(c) \/ CleanPick(c) \/ CleanNext(c)
    PROVE  CallInv(c)'
<1> USE DEF CallInv, Doing, Listing
<1>1. call' = call /\ kept'[c] = kept[c] \cap objects'
  BY DEF DeleteLeaf, ExistsLeaf, DeletePage, DeleteNext, ListPage, CleanPage, CleanPick,
     CleanNext, Go, Keep, Answer, TypeInv, TypeOK
<1>2. KeptThere(c)'
  BY <1>1 DEF KeptThere
<1>3. CASE DeleteLeaf(c) /\ Leaf(Key(c)) \cap objects = {}
  <2>1. at'[c] = "list" /\ cursor'[c] = 0 /\ page'[c] = {}
    BY <1>3 DEF DeleteLeaf, Go, Unread, TypeInv, TypeOK
  <2>2. \A n \in kept'[c] : ~(n =< 0)
    BY <1>1 DEF TypeInv, TypeOK, Objects
  <2> QED
    BY <1>1, <1>2, <1>3, <2>1, <2>2, SameCall
    DEF Unread, PageOwn, PageFull, LeafGone, KeptThere, DeleteLeaf
<1>4. CASE ExistsLeaf(c) /\ at'[c] # "idle"
  <2>1. /\ at'[c] = "list" /\ cursor'[c] = 0 /\ page'[c] = {}
        /\ c \notin failed' => Leaf(Key(c)) \cap objects = {}
    BY <1>4 DEF ExistsLeaf, Go, Answer, Unread, TypeInv, TypeOK
  <2>2. \A n \in kept'[c] : ~(n =< 0)
    BY <1>1 DEF TypeInv, TypeOK, Objects
  <2> QED
    BY <1>1, <1>2, <1>4, <2>1, <2>2, SameCall
    DEF Unread, PageOwn, PageFull, LeafGone, KeptThere, ExistsLeaf
<1>5. CASE DeletePage(c) \/ ListPage(c) \/ CleanPage(c)
  <2>1. /\ Turn(c) /\ at[c] = "list" /\ objects' = objects /\ failed' = failed
        /\ call[c].op \in {"delete", "list", "clean"}
        /\ call[c].op = "list" => found'[c]
        /\ at'[c] = IF call[c].op = "delete" THEN "walk" ELSE "list"
    BY <1>5 DEF DeletePage, ListPage, CleanPage, Go, TypeInv, TypeOK
  <2>2. /\ {n \in kept[c] \cap Scope(c) : n =< cursor'[c]} \subseteq page'[c]
        /\ page'[c] \subseteq page[c] \cup Scope(c)
    BY <2>1, TurnReads
  <2>3. Unread(c)' /\ PageOwn(c)'
    BY <1>1, <2>1, <2>2, SameCall DEF Unread, PageOwn, Scope
  <2>4. PageFull(c)' /\ LeafGone(c)'
    BY <1>1, <2>1, <2>2, SameCall DEF PageFull, LeafGone
  <2> QED
    BY <1>2, <2>3, <2>4
<1>6. CASE DeleteNext(c)
  <2>1. PICK n \in page[c] : objects' = objects \ {n} /\ page'[c] = page[c] \ {n}
    BY <1>6 DEF DeleteNext, TypeInv, TypeOK
  <2>2. /\ call[c].op = "delete" /\ at[c] = "walk" /\ cursor' = cursor /\ failed' = failed
        /\ at'[c] \in {"list", "walk"} /\ (at'[c] = "list" => page'[c] = {})
    BY <1>6 DEF DeleteNext, Go, TypeInv, TypeOK
  <2>3. Unread(c)' /\ PageOwn(c)'
    BY <1>1, <2>1, <2>2, SameCall DEF Unread, PageOwn
  <2>4. PageFull(c)' /\ LeafGone(c)'
    BY <1>1, <2>1, <2>2, SameCall DEF PageFull, LeafGone
  <2> QED
    BY <1>2, <2>3, <2>4
<1>7. CASE CleanPick(c)
  <2>1. /\ call[c].op = "clean" /\ at[c] = "list" /\ at'[c] = "walk"
        /\ objects' = objects /\ failed' = failed /\ Ahead(c) = {}
        /\ page'[c] = page[c] \cap OfHost(Key(c)[1])
    BY <1>7 DEF CleanPick, Go, TypeInv, TypeOK
  <2>2. kept[c] \subseteq page[c]
    BY <2>1 DEF Ahead, Scope, KeptThere, PageFull, TypeInv, TypeOK, Objects
  <2> QED
    BY <1>1, <1>2, <2>1, <2>2, SameCall DEF Unread, PageOwn, PageFull, LeafGone
<1>8. CASE CleanNext(c)
  <2>1. PICK n \in page[c] :
          /\ page'[c] = page[c] \ {n}
          /\ (objects' = objects \ {n} /\ failed' = failed) \/ c \in failed'
    BY <1>8 DEF CleanNext, TypeInv, TypeOK
  <2>2. call[c].op = "clean" /\ at[c] = "walk" /\ at'[c] = "walk"
    BY <1>8 DEF CleanNext, Go, TypeInv, TypeOK
  <2> QED
    BY <1>1, <1>2, <2>1, <2>2, SameCall DEF Unread, PageOwn, PageFull, LeafGone
<1> QED
  BY <1>3, <1>4, <1>5, <1>6, <1>7, <1>8

LEMMA StepInv == IInv /\ [Next]_vars => IInv'
<1> SUFFICES ASSUME IInv, [Next]_vars PROVE IInv'
  OBVIOUS
<1>1. TypeInv'
  BY StepTypes DEF IInv
<1>2. ASSUME NEW d \in Callers PROVE CallInv(d)'
  <2>0. CallInv(d)
    BY DEF IInv
  <2>1. CASE \E n \in Objects : Store(n)
    BY <2>0, <2>1, Bystander DEF Store, Keep, IInv, TypeInv, TypeOK
  <2>2. CASE UNCHANGED vars
    BY <2>0, <2>2, Bystander DEF vars, callVars, CallInv, KeptThere
  <2>3. ASSUME NEW c \in Callers, CallStep(c), d # c PROVE CallInv(d)'
    BY <2>0, <2>3, OthersStay, Bystander DEF IInv, CallInv
  <2>4. CASE CallStep(d)
    <3>1. CASE CallDelete(d) \/ CallExists(d) \/ CallList(d) \/ CallClean(d)
      BY <3>1, BeginInv DEF IInv
    <3>2. CASE \E code : Answer(d, code)
      BY <3>2, AnswerInv DEF IInv
    <3>3. CASE \/ DeletePage(d) \/ DeleteNext(d) \/ ListPage(d)
               \/ CleanPage(d) \/ CleanPick(d) \/ CleanNext(d)
      BY <2>0, <3>3, GoInv DEF IInv
    <3>4. CASE DeleteLeaf(d) \/ ExistsLeaf(d)
      BY <2>0, <3>2, <3>4, GoInv DEF IInv, DeleteLeaf, ExistsLeaf, Go, TypeInv, TypeOK
    <3>5. CASE DeleteEnd(d) \/ ExistsUnder(d) \/ ListEnd(d) \/ CleanEnd(d) \/ Fail(d)
      BY <3>2, <3>5 DEF DeleteEnd, ExistsUnder, ListEnd, CleanEnd, Fail
    <3> QED
      BY <2>4, <3>1, <3>3, <3>4, <3>5 DEF CallStep
  <2> QED
    BY <2>1, <2>2, <2>3, <2>4 DEF Next, CallStep
<1> QED
  BY <1>1, <1>2 DEF IInv

LEMMA Invariance == Spec => []IInv
<1>1. Init => IInv
  <2>1. Init => TypeInv
    BY InitTypes
  <2>2. Init => \A c \in Callers : CallInv(c)
    BY DEF Init, CallInv, KeptThere, Unread, PageOwn, PageFull, LeafGone, Doing, Listing,
       NoCall
  <2> QED
    BY <2>1, <2>2 DEF IInv
<1> QED
  BY <1>1, StepInv, PTL DEF Spec

-----------------------------------------------------------------------------
(* What disappears *)

\* certObjectsForHost picks names that have the host between two slashes.
LEMMA Segment ==
    ASSUME NEW h, NEW n \in OfHost(h)
    PROVE  \E i \in 1..Len(Names[n]) - 2 : SubSeq(Names[n], i, i + 2) = <<"/", h, "/">>
<1> DEFINE name == Names[n]
<1>1. name \in Seq(STRING) /\ Len(name) \in Nat
  BY StorageAssumption DEF OfHost, Objects
<1>2. PICK i \in 1..Len(name) : Begins(<<"/", h, "/">>, SubSeq(name, i, Len(name)))
  BY DEF OfHost
<1> DEFINE rest == SubSeq(name, i, Len(name))
<1>3. Len(<<"/", h, "/">>) = 3
  OBVIOUS
<1>4. 3 =< Len(rest) /\ SubSeq(rest, 1, 3) = <<"/", h, "/">>
  BY <1>2, <1>3 DEF Begins
<1>5. Len(rest) = Len(name) - i + 1
  BY <1>1, <1>2, SubSeqProperties
<1>6. SubSeq(rest, 1, 3) = SubSeq(name, i + 1 - 1, i + 3 - 1)
  BY <1>1, <1>2, <1>4, <1>5, SubSeqOfSubSeq
<1>7. i \in 1..Len(name) - 2 /\ i + 1 - 1 = i /\ i + 3 - 1 = i + 2
  BY <1>1, <1>2, <1>4, <1>5
<1> QED
  BY <1>4, <1>6, <1>7

LEMMA WhoDeletes ==
    ASSUME IInv, [Next]_vars, NEW n \in objects \ objects'
    PROVE  \E c \in Callers :
             \/ call[c].op = "delete" /\ n \in Leaf(Key(c)) \cup Under(Key(c))
             \/ call[c].op = "clean" /\ n \in OfHost(Key(c)[1])
<1>1. PICK c \in Callers :
        \/ Doing(c, "delete", "leaf") /\ objects' = objects \ Leaf(Key(c))
        \/ at[c] = "walk" /\ n \in page[c]
  <2>1. CASE \E m \in Objects : Store(m)
    BY <2>1 DEF Store
  <2>2. ASSUME NEW d \in Callers, CallStep(d)
        PROVE  \/ Doing(d, "delete", "leaf") /\ objects' = objects \ Leaf(Key(d))
               \/ at[d] = "walk" /\ n \in page[d]
    BY <2>2 DEF CallStep, CallDelete, CallExists, CallList, CallClean, Begin,
       DeleteLeaf, DeletePage, DeleteNext, DeleteEnd, ExistsLeaf, ExistsUnder, ListPage,
       ListEnd, CleanPage, CleanPick, CleanNext, CleanEnd, Fail, Doing
  <2> QED
    BY <2>1, <2>2 DEF Next, CallStep, vars
<1> QED
  BY <1>1 DEF IInv, CallInv, PageOwn, Doing

\* Only what is at or under the key of a Delete, or of the host of a clean-up,
\* disappears, whatever else runs and fails.
THEOREM OwnDeletions == Spec => DeletesOwn
<1>1. IInv /\ [Next]_vars =>
        \A n \in objects \ objects' :
           \E c \in Callers :
             \/ /\ call[c].op = "delete"
                /\ Names[n] = Key(c) \/ Begins(Append(Key(c), "/"), Names[n])
             \/ /\ call[c].op = "clean"
                /\ \E i \in 1..Len(Names[n]) - 2 :
                     SubSeq(Names[n], i, i + 2) = <<"/", Key(c)[1], "/">>
  <2> SUFFICES ASSUME IInv, [Next]_vars, NEW n \in objects \ objects'
               PROVE  \E c \in Callers :
             \/ /\ call[c].op = "delete"
                /\ Names[n] = Key(c) \/ Begins(Append(Key(c), "/"), Names[n])
             \/ /\ call[c].op = "clean"
                /\ \E i \in 1..Len(Names[n]) - 2 :
                     SubSeq(Names[n], i, i + 2) = <<"/", Key(c)[1], "/">>
    OBVIOUS
  <2>1. PICK c \in Callers :
             \/ call[c].op = "delete" /\ n \in Leaf(Key(c)) \cup Under(Key(c))
             \/ call[c].op = "clean" /\ n \in OfHost(Key(c)[1])
    BY WhoDeletes
  <2>2. CASE call[c].op = "delete" /\ n \in Leaf(Key(c)) \cup Under(Key(c))
    BY <2>2 DEF Leaf, Under
  <2>3. CASE call[c].op = "clean" /\ n \in OfHost(Key(c)[1])
    BY <2>3, Segment
  <2> QED
    BY <2>1, <2>2, <2>3
<1> QED
  BY <1>1, Invariance, PTL DEF Spec, DeletesOwn

-----------------------------------------------------------------------------
(* What an answer promises *)

\* An answer "ok" or "missing" is the last step of its own call.
LEMMA WhoAnswers ==
    ASSUME TypeInv, Next, NEW c \in Callers, reply'[c] \in {"ok", "missing"}
    PROVE  /\ Answer(c, reply'[c])
           /\ \/ DeleteLeaf(c) \/ DeleteEnd(c) \/ ExistsLeaf(c) \/ ExistsUnder(c)
              \/ ListEnd(c) \/ CleanEnd(c)
<1>1. Silent[c] = "none"
  BY DEF Silent
<1>2. \A d \in Callers : \A code :
        Answer(d, code) => reply'[c] = IF d = c THEN code ELSE "none"
  BY <1>1 DEF Answer, Silent
<1>3. \A d \in Callers : \A place : ~Go(d, place)
  BY <1>1 DEF Go
<1>4. PICK d \in Callers :
        DeleteLeaf(d) \/ DeleteEnd(d) \/ ExistsLeaf(d) \/ ExistsUnder(d)
          \/ ListEnd(d) \/ CleanEnd(d) \/ Fail(d)
  BY <1>1, <1>3 DEF Next, Store, CallDelete, CallExists, CallList, CallClean, Begin,
     DeletePage, DeleteNext, ListPage, CleanPage, CleanPick, CleanNext
<1>5. \E code : Answer(d, code)
  BY <1>3, <1>4 DEF DeleteLeaf, DeleteEnd, ExistsLeaf, ExistsUnder, ListEnd, CleanEnd, Fail
<1>6. d = c /\ Answer(c, reply'[c])
  BY <1>2, <1>5
<1>7. ~Fail(c)
  BY <1>2 DEF Fail
<1> QED
  BY <1>4, <1>6, <1>7

\* When nothing is ahead of a listing, it has been read to its end.
LEMMA ReadToEnd ==
    ASSUME IInv, NEW c \in Callers, Listing(c), Ahead(c) = {}
    PROVE  kept[c] \cap Scope(c) \subseteq page[c]
BY DEF IInv, CallInv, KeptThere, PageFull, Ahead, TypeInv, TypeOK, Objects

\* A key that is an object is no directory.
LEMMA LeafApart == \A key : Leaf(key) # {} => Under(key) = {}
BY DirectoryAssumption DEF Leaf, Under

\* Of what was there all along, a successful Delete or clean-up leaves nothing,
\* and a successful List omits nothing.
THEOREM Complete == Spec => CompleteOnSuccess
<1>1. IInv /\ [Next]_vars =>
        [\A c \in Callers :
           reply'[c] = "ok" =>
             /\ call[c].op \in {"delete", "clean"} /\ c \notin failed =>
                    kept[c] \cap Target(c) \cap objects' = {}
             /\ call[c].op = "list" => kept[c] \cap Target(c) \subseteq page[c]]_vars
  <2> SUFFICES ASSUME IInv, Next, NEW c \in Callers, reply'[c] = "ok"
               PROVE  /\ call[c].op \in {"delete", "clean"} /\ c \notin failed =>
                             kept[c] \cap Target(c) \cap objects' = {}
                      /\ call[c].op = "list" => kept[c] \cap Target(c) \subseteq page[c]
    OBVIOUS
  <2> USE DEF Doing
  <2>1. /\ Answer(c, "ok")
        /\ \/ DeleteLeaf(c) \/ DeleteEnd(c) \/ ExistsLeaf(c) \/ ExistsUnder(c)
           \/ ListEnd(c) \/ CleanEnd(c)
    BY WhoAnswers DEF IInv
  <2>2. CASE DeleteLeaf(c)
    <3>1. Leaf(Key(c)) \cap objects # {}
      BY <2>1, <2>2 DEF DeleteLeaf, Go, Silent
    <3> QED
      BY <2>2, <3>1, LeafApart DEF DeleteLeaf, Target
  <2>3. CASE DeleteEnd(c)
    BY <2>3, ReadToEnd DEF DeleteEnd, Listing, Scope, Target, IInv, CallInv, PageOwn, LeafGone
  <2>4. CASE ExistsLeaf(c) \/ ExistsUnder(c)
    BY <2>4 DEF ExistsLeaf, ExistsUnder
  <2>5. CASE ListEnd(c)
    BY <2>5, ReadToEnd DEF ListEnd, Listing, Scope, Target
  <2>6. CASE CleanEnd(c)
    BY <2>6 DEF CleanEnd, Target, IInv, CallInv, PageFull
  <2> QED
    BY <2>1, <2>2, <2>3, <2>4, <2>5, <2>6
<1> QED
  BY <1>1, Invariance, PTL DEF Spec, CompleteOnSuccess

\* A key reported missing had nothing at or under it that was there all along.
THEOREM Missing == Spec => MissingIsMissing
<1>1. IInv /\ [Next]_vars =>
        [\A c \in Callers :
           reply'[c] = "missing" /\ c \notin failed => kept[c] \cap Target(c) = {}]_vars
  <2> SUFFICES ASSUME IInv, Next, NEW c \in Callers, reply'[c] = "missing", c \notin failed
               PROVE  kept[c] \cap Target(c) = {}
    OBVIOUS
  <2> USE DEF Doing
  <2>1. /\ Answer(c, "missing")
        /\ \/ DeleteLeaf(c) \/ DeleteEnd(c) \/ ExistsLeaf(c) \/ ExistsUnder(c)
           \/ ListEnd(c) \/ CleanEnd(c)
    BY WhoAnswers DEF IInv
  <2>2. \A code : Answer(c, code) => code = "missing"
    <3>1. \A code : Answer(c, code) => reply'[c] = code
      BY DEF Answer, Silent
    <3> QED
      BY <3>1
  <2>3. CASE DeleteEnd(c)
    BY <2>3, ReadToEnd DEF DeleteEnd, Listing, Scope, Target, IInv, CallInv, PageOwn, LeafGone
  <2>4. CASE ExistsUnder(c)
    BY <2>2, <2>4, ReadToEnd
    DEF ExistsUnder, Listing, Scope, Target, IInv, CallInv, Unread, LeafGone
  <2>5. CASE ListEnd(c)
    BY <2>2, <2>5, ReadToEnd
    DEF ListEnd, Listing, Scope, Target, IInv, CallInv, PageOwn, TypeInv, TypeOK
  <2>6. ~DeleteLeaf(c) /\ ~ExistsLeaf(c) /\ ~CleanEnd(c)
    <3>1. \A place : ~Go(c, place)
      BY <2>1 DEF Go, Answer, Silent
    <3> QED
      BY <2>2, <3>1 DEF DeleteLeaf, ExistsLeaf, CleanEnd
  <2> QED
    BY <2>1, <2>3, <2>4, <2>5, <2>6
<1> QED
  BY <1>1, Invariance, PTL DEF Spec, MissingIsMissing

=============================================================================
