------------------------------ MODULE CertLock ------------------------------
(***************************************************************************)
(* The distributed lock of the certificate store: Lock and Unlock of       *)
(* internal/certstore/gcs.go, for one lock name.                           *)
(*                                                                         *)
(* A lock is one bucket object.  Lock creates it if it is absent; when it  *)
(* is present, Lock reads its metadata and, if it is older than lockTTL,   *)
(* deletes exactly the generation it read and tries again.  Unlock deletes *)
(* whatever object is there.  Nothing renews a lock while it is held.      *)
(*                                                                         *)
(* The callers are the goroutines and instances of redirectd that certmagic*)
(* drives; every bucket request is one step, so any two callers interleave *)
(* between requests.  Time passes in Tick, one unit at a time.             *)
(***************************************************************************)
EXTENDS Integers

CONSTANTS
    Procs,        \* callers of Lock and Unlock
    Generations,  \* generation numbers the bucket gives to lock objects
    None,         \* no generation: no lock object, or nothing remembered
    TTL,          \* lockTTL
    MaxHold,      \* longest time from the creation of a lock to its Unlock
    MaxSkew       \* largest difference between a caller's clock and the bucket's

ASSUME LockAssumption ==
    /\ TTL \in Nat
    /\ MaxHold \in Nat
    /\ MaxSkew \in Nat
    /\ None \notin Generations

(***************************************************************************)
(* No holder outlives its lease, whatever the clocks say.  The callers'    *)
(* timeouts must provide it; gcs.go does not.                              *)
(***************************************************************************)
HoldsBounded == MaxHold + MaxSkew =< TTL

\* Ages above this bound are not told apart: every clock finds them stale.
MaxAge == TTL + MaxSkew + 1

VARIABLES
    gen,      \* generation of the lock object, None when there is none
    age,      \* time since the lock object was created (attrs.Created)
    pc,       \* where each caller stands in Lock / Unlock
    seen,     \* attrs.Generation that a caller read, None outside the stale path
    mine,     \* history: generation that a caller's own create made
    heldFor   \* time since the lock a caller holds was created

vars == <<gen, age, pc, seen, mine, heldFor>>

\* create: about to create the object;  attrs: was refused, about to read the
\* metadata;  judge: metadata read;  steal: found stale, about to delete it;
\* wait: in the two-second pause;  held: Lock has returned nil.
Places == {"idle", "create", "attrs", "judge", "steal", "wait", "held"}

Init ==
    /\ gen = None
    /\ age = 0
    /\ pc = [p \in Procs |-> "idle"]
    /\ seen = [p \in Procs |-> None]
    /\ mine = [p \in Procs |-> None]
    /\ heldFor = [p \in Procs |-> 0]

Holding(p) == pc[p] = "held"
Trying(p) == pc[p] \notin {"idle", "held"}

\* The bucket never gives a generation out twice; reusing one that nobody
\* remembers cannot be noticed.
Fresh(g) == g # gen /\ \A p \in Procs : g # seen[p] /\ g # mine[p]

GoTo(p, place) == pc' = [pc EXCEPT ![p] = place]

\* What a caller that stops holding or trying forgets.
Leave(p) ==
    /\ GoTo(p, "idle")
    /\ seen' = [seen EXCEPT ![p] = None]
    /\ mine' = [mine EXCEPT ![p] = None]
    /\ heldFor' = [heldFor EXCEPT ![p] = 0]

\* What time.Since(attrs.Created) may be on a caller's clock: exact up to the
\* skew for the object still there, anything for one replaced meanwhile.
Elapsed(p) ==
    IF seen[p] = gen THEN {age + s : s \in -MaxSkew..MaxSkew} ELSE 0..MaxAge

-----------------------------------------------------------------------------
(* Mutated forms of the actions below, one for each property *)

\* The wrong field of the metadata is remembered.
ReadAttrsCreated(p) ==
    /\ pc[p] = "attrs"
    /\ gen # None
    /\ seen' = [seen EXCEPT ![p] = age]
    /\ GoTo(p, "judge")
    /\ UNCHANGED <<gen, age, mine, heldFor>>

\* The stale lock is deleted without GenerationMatch.
StealAnyGeneration(p) ==
    /\ pc[p] = "steal"
    /\ gen' = None
    /\ age' = 0
    /\ seen' = [seen EXCEPT ![p] = None]
    /\ GoTo(p, "create")
    /\ UNCHANGED <<mine, heldFor>>

\* A lock is stale one unit early.
FindStaleEarly(p) ==
    /\ pc[p] = "judge"
    /\ \E elapsed \in Elapsed(p) : elapsed >= TTL
    /\ GoTo(p, "steal")
    /\ UNCHANGED <<gen, age, seen, mine, heldFor>>

\* A refused create only waits: nobody looks at the age of the lock.
CreateRefusedWaits(p) ==
    /\ pc[p] = "create"
    /\ gen # None
    /\ GoTo(p, "wait")
    /\ UNCHANGED <<gen, age, seen, mine, heldFor>>

-----------------------------------------------------------------------------
(* Lock *)

CallLock(p) ==
    /\ pc[p] = "idle"
    /\ GoTo(p, "create")
    /\ UNCHANGED <<gen, age, seen, mine, heldFor>>

\* The create-if-absent succeeds and Lock returns nil.
Create(p) ==
    /\ pc[p] = "create"
    /\ gen = None
    /\ \E g \in Generations :
         /\ Fresh(g)
         /\ gen' = g
         /\ mine' = [mine EXCEPT ![p] = g]
    /\ age' = 0
    /\ heldFor' = [heldFor EXCEPT ![p] = 0]
    /\ GoTo(p, "held")
    /\ UNCHANGED seen

\* 412: somebody's object is there.
CreateRefused(p) ==
    /\ pc[p] = "create"
    /\ gen # None
    /\ GoTo(p, "attrs")
    /\ UNCHANGED <<gen, age, seen, mine, heldFor>>

\* Any other error of the write, the object not created: Lock returns it.
CreateFails(p) ==
    /\ pc[p] = "create"
    /\ GoTo(p, "idle")
    /\ UNCHANGED <<gen, age, seen, mine, heldFor>>

\* The object is created but its reply is lost.  The storage client retries a
\* write that carries a precondition: it then meets its own object (412) and
\* Lock goes on as if another caller held it, or the error reaches Lock, which
\* returns it.  Either way the object stays, with nobody holding the lock.
CreateUnacknowledged(p) ==
    /\ pc[p] = "create"
    /\ gen = None
    /\ \E g \in Generations : Fresh(g) /\ gen' = g
    /\ age' = 0
    /\ \E place \in {"idle", "attrs"} : GoTo(p, place)
    /\ UNCHANGED <<seen, mine, heldFor>>

\* obj.Attrs(ctx) returns the metadata of the object now there.
ReadAttrs(p) ==
    /\ pc[p] = "attrs"
    /\ gen # None
    /\ seen' = [seen EXCEPT ![p] = gen]
    /\ GoTo(p, "judge")
    /\ UNCHANGED <<gen, age, mine, heldFor>>

\* obj.Attrs(ctx) fails: the object is gone, or the request failed.
AttrsFail(p) ==
    /\ pc[p] = "attrs"
    /\ GoTo(p, "wait")
    /\ UNCHANGED <<gen, age, seen, mine, heldFor>>

FindStale(p) ==
    /\ pc[p] = "judge"
    /\ \E elapsed \in Elapsed(p) : elapsed > TTL
    /\ GoTo(p, "steal")
    /\ UNCHANGED <<gen, age, seen, mine, heldFor>>

FindFresh(p) ==
    /\ pc[p] = "judge"
    /\ \E elapsed \in Elapsed(p) : ~(elapsed > TTL)
    /\ seen' = [seen EXCEPT ![p] = None]
    /\ GoTo(p, "wait")
    /\ UNCHANGED <<gen, age, mine, heldFor>>

\* Delete with GenerationMatch: only the generation that was read.
Steal(p) ==
    /\ pc[p] = "steal"
    /\ gen' = IF gen = seen[p] THEN None ELSE gen
    /\ age' = IF gen = seen[p] THEN 0 ELSE age
    /\ seen' = [seen EXCEPT ![p] = None]
    /\ GoTo(p, "create")
    /\ UNCHANGED <<mine, heldFor>>

\* The error of that delete is ignored: back to the create all the same.
StealFails(p) ==
    /\ pc[p] = "steal"
    /\ seen' = [seen EXCEPT ![p] = None]
    /\ GoTo(p, "create")
    /\ UNCHANGED <<gen, age, mine, heldFor>>

\* The two seconds are over.
Retry(p) ==
    /\ pc[p] = "wait"
    /\ GoTo(p, "create")
    /\ UNCHANGED <<gen, age, seen, mine, heldFor>>

\* ctx is done first: Lock returns ctx.Err().
Cancel(p) ==
    /\ pc[p] = "wait"
    /\ GoTo(p, "idle")
    /\ UNCHANGED <<gen, age, seen, mine, heldFor>>

-----------------------------------------------------------------------------
(* Unlock, crashes, time *)

\* Deletes the object that is there, whoever created it; none there is no error.
Unlock(p) ==
    /\ pc[p] = "held"
    /\ gen' = None
    /\ age' = 0
    /\ Leave(p)

\* The request of Unlock fails before it takes effect.
UnlockFails(p) ==
    /\ pc[p] = "held"
    /\ Leave(p)
    /\ UNCHANGED <<gen, age>>

\* The instance dies, in Lock or while it holds the lock; the object stays.
Crash(p) ==
    /\ pc[p] # "idle"
    /\ Leave(p)
    /\ UNCHANGED <<gen, age>>

\* One unit of time, no holder past MaxHold.
Tick ==
    /\ \A p \in Procs : Holding(p) => heldFor[p] < MaxHold
    /\ age' = IF gen # None /\ age < MaxAge THEN age + 1 ELSE age
    /\ heldFor' = [p \in Procs |-> IF Holding(p) THEN heldFor[p] + 1 ELSE 0]
    /\ UNCHANGED <<gen, pc, seen, mine>>

LockStep(p) ==
    \/ CallLock(p)
    \/ Create(p)
    \/ CreateRefused(p)
    \/ CreateFails(p)
    \/ CreateUnacknowledged(p)
    \/ ReadAttrs(p)
    \/ AttrsFail(p)
    \/ FindStale(p)
    \/ FindFresh(p)
    \/ Steal(p)
    \/ StealFails(p)
    \/ Retry(p)
    \/ Cancel(p)

UnlockStep(p) == Unlock(p) \/ UnlockFails(p)

Next ==
    \/ \E p \in Procs : LockStep(p) \/ UnlockStep(p) \/ Crash(p)
    \/ Tick

Spec == Init /\ [][Next]_vars

(***************************************************************************)
(* Time passes, a caller's loop goes on and a holder unlocks; a request    *)
(* that is tried again and again does not fail, and its caller does not    *)
(* die, every time (strong fairness).  A lock is sure to be found stale    *)
(* only past MaxAge.  Calling Lock, cancelling and crashing are free.      *)
(***************************************************************************)
Fairness ==
    /\ WF_vars(Tick)
    /\ \A p \in Procs :
         /\ WF_vars(LockStep(p) /\ ~CallLock(p))
         /\ WF_vars(UnlockStep(p))
         /\ SF_vars(Create(p))
         /\ SF_vars(CreateRefused(p))
         /\ SF_vars(ReadAttrs(p))
         /\ SF_vars(age = MaxAge /\ FindStale(p))
         /\ SF_vars(Steal(p))

FairSpec == Spec /\ Fairness

-----------------------------------------------------------------------------
(* Properties *)

\* Every variable has its type, and clocks stay within their bounds.
TypeOK ==
    /\ gen \in Generations \cup {None}
    /\ age \in 0..MaxAge
    /\ pc \in [Procs -> Places]
    /\ seen \in [Procs -> Generations \cup {None}]
    /\ mine \in [Procs -> Generations \cup {None}]
    /\ heldFor \in [Procs -> 0..MaxHold]

\* At most one caller is between a successful Lock and its Unlock, through any
\* interleaving of steals, lost replies and crashes: the lock certmagic relies
\* on so that one instance at a time talks to the CA for a name (gcs_test.go
\* calls a second acquisition "mutual exclusion broken").
MutualExclusion ==
    \A p, q \in Procs : Holding(p) /\ Holding(q) => p = q

\* A holder that has held for no more than lockTTL (on the worst clock) still
\* has its own lock object: nobody has stolen it, and no other caller's Unlock
\* has removed it.
LeaseKept ==
    \A p \in Procs :
        Holding(p) /\ heldFor[p] + MaxSkew =< TTL => gen = mine[p]

\* A lock left behind by a crash, a lost reply or a failed Unlock does not block
\* its name for ever: as long as somebody tries, somebody acquires the lock.
Progress ==
    (\E p \in Procs : Trying(p))
        ~> ((\E p \in Procs : Holding(p)) \/ (\A p \in Procs : ~Trying(p)))
=============================================================================
