--------------------------- MODULE CertLockProofs ---------------------------
(***************************************************************************)
(* Proofs about CertLock: type correctness for all constants, and mutual   *)
(* exclusion and the integrity of the lease when holders are bounded by    *)
(* the TTL (HoldsBounded), for any number of callers.                      *)
(***************************************************************************)
EXTENDS CertLock, TLAPS

\* Every variable keeps its type, through every step of every caller.
THEOREM Typing == Spec => []TypeOK
<1> USE LockAssumption DEF TypeOK, Places, MaxAge
<1>1. Init => TypeOK
  BY DEF Init
<1>2. TypeOK /\ [Next]_vars => TypeOK'
  <2> SUFFICES ASSUME TypeOK, [Next]_vars PROVE TypeOK'
    OBVIOUS
  <2>1. ASSUME NEW p \in Procs, LockStep(p) PROVE TypeOK'
    <3>1. CASE CallLock(p) \/ CreateRefused(p) \/ CreateFails(p) \/ AttrsFail(p)
               \/ Retry(p) \/ Cancel(p) \/ FindStale(p)
      BY <3>1 DEF CallLock, CreateRefused, CreateFails, AttrsFail, Retry, Cancel,
                  FindStale, GoTo
    <3>2. CASE Create(p) \/ CreateUnacknowledged(p)
      BY <3>2 DEF Create, CreateUnacknowledged, GoTo
    <3>3. CASE ReadAttrs(p) \/ FindFresh(p) \/ Steal(p) \/ StealFails(p)
      BY <3>3 DEF ReadAttrs, FindFresh, Steal, StealFails, GoTo
    <3> QED
      BY <2>1, <3>1, <3>2, <3>3 DEF LockStep
  <2>2. ASSUME NEW p \in Procs, UnlockStep(p) \/ Crash(p) PROVE TypeOK'
    BY <2>2 DEF UnlockStep, Unlock, UnlockFails, Crash, Leave, GoTo
  <2>3. CASE Tick
    BY <2>3 DEF Tick, Holding
  <2>4. CASE UNCHANGED vars
    BY <2>4 DEF vars
  <2> QED
    BY <2>1, <2>2, <2>3, <2>4 DEF Next
<1> QED
  BY <1>1, <1>2, PTL DEF Spec

-----------------------------------------------------------------------------
(***************************************************************************)
(* The inductive invariant.  A holder's object is the one in the bucket    *)
(* and is as old as the holder has held it; hence it is younger than any   *)
(* clock takes for stale, and a caller about to steal the object in the    *)
(* bucket can only be stealing one without a holder.                       *)
(***************************************************************************)

\* A holder still has its object, which is as old as the hold.
HolderHasObject ==
    \A p \in Procs :
        Holding(p) => gen = mine[p] /\ gen # None /\ age = heldFor[p]

\* A caller past the metadata read remembers a generation.
JudgeRemembers ==
    \A p \in Procs : pc[p] \in {"judge", "steal"} => seen[p] # None

\* The object a caller is about to steal is past its lease on some clock.
StealOnlyStale ==
    \A p \in Procs : pc[p] = "steal" /\ gen = seen[p] => age + MaxSkew > TTL

IInv ==
    /\ TypeOK
    /\ HolderHasObject
    /\ MutualExclusion
    /\ JudgeRemembers
    /\ StealOnlyStale

\* Requests that leave the object, its age and every holder alone: only the
\* caller's own place, and what it has seen, change.
LEMMA QuietStep ==
    ASSUME IInv, TypeOK', NEW p \in Procs,
           \/ CallLock(p) \/ CreateRefused(p) \/ CreateFails(p) \/ AttrsFail(p)
           \/ Retry(p) \/ Cancel(p) \/ ReadAttrs(p) \/ FindFresh(p) \/ StealFails(p)
    PROVE  IInv'
<1> USE DEF IInv, TypeOK, Places, CallLock, CreateRefused, CreateFails, AttrsFail,
            Retry, Cancel, ReadAttrs, FindFresh, StealFails, GoTo, Holding
<1>1. HolderHasObject' /\ MutualExclusion'
  BY DEF HolderHasObject, MutualExclusion
<1>2. JudgeRemembers' /\ StealOnlyStale'
  BY DEF JudgeRemembers, StealOnlyStale
<1> QED
  BY <1>1, <1>2

\* A create finds no object, hence no holder, and its generation is in nobody's
\* memory, hence in no planned theft.
LEMMA CreateStep ==
    ASSUME IInv, TypeOK', NEW p \in Procs, Create(p) \/ CreateUnacknowledged(p)
    PROVE  IInv'
<1> USE LockAssumption DEF IInv, TypeOK, Places, GoTo, Holding
<1>1. \A q \in Procs : ~Holding(q)
  BY DEF Create, CreateUnacknowledged, HolderHasObject
<1>2. PICK g \in Generations : gen' = g /\ Fresh(g)
  BY DEF Create, CreateUnacknowledged
<1>3. HolderHasObject' /\ MutualExclusion'
  BY <1>1, <1>2 DEF Create, CreateUnacknowledged, HolderHasObject, MutualExclusion
<1>4. JudgeRemembers'
  BY DEF Create, CreateUnacknowledged, JudgeRemembers
<1>5. StealOnlyStale'
  BY <1>2 DEF Create, CreateUnacknowledged, Fresh, StealOnlyStale
<1> QED
  BY <1>3, <1>4, <1>5

\* Finding the object in the bucket stale means it is past its lease on that
\* caller's clock, hence by at most the skew.
LEMMA FindStaleStep ==
    ASSUME IInv, TypeOK', NEW p \in Procs, FindStale(p)
    PROVE  IInv'
<1> USE LockAssumption DEF IInv, TypeOK, Places, GoTo, Holding, FindStale
<1>1. HolderHasObject' /\ MutualExclusion' /\ JudgeRemembers'
  BY DEF HolderHasObject, MutualExclusion, JudgeRemembers
<1>2. seen[p] = gen => age + MaxSkew > TTL
  <2> SUFFICES ASSUME seen[p] = gen PROVE age + MaxSkew > TTL
    OBVIOUS
  <2>1. PICK s \in -MaxSkew..MaxSkew : age + s > TTL
    BY DEF Elapsed
  <2> QED
    BY <2>1
<1>3. StealOnlyStale'
  BY <1>2 DEF StealOnlyStale
<1> QED
  BY <1>1, <1>3

\* The heart of the matter: with holds bounded, the object that a steal deletes
\* has no holder, so deleting it disturbs nobody.
LEMMA StealStep ==
    ASSUME HoldsBounded, IInv, TypeOK', NEW p \in Procs, Steal(p)
    PROVE  IInv'
<1> USE LockAssumption DEF IInv, TypeOK, Places, GoTo, Holding, Steal
<1>1. gen = seen[p] => \A q \in Procs : ~Holding(q)
  BY DEF HoldsBounded, HolderHasObject, StealOnlyStale
<1>2. HolderHasObject' /\ MutualExclusion'
  BY <1>1 DEF HolderHasObject, MutualExclusion
<1>3. JudgeRemembers' /\ StealOnlyStale'
  BY DEF JudgeRemembers, StealOnlyStale
<1> QED
  BY <1>2, <1>3

\* A caller that leaves was the only holder or not a holder; if its Unlock
\* deletes an object, that object is its own.
LEMMA LeaveStep ==
    ASSUME IInv, TypeOK', NEW p \in Procs, UnlockStep(p) \/ Crash(p)
    PROVE  IInv'
<1> USE DEF IInv, TypeOK, Places, Leave, GoTo, Holding, UnlockStep, Unlock,
            UnlockFails, Crash
<1>1. HolderHasObject' /\ MutualExclusion'
  BY DEF HolderHasObject, MutualExclusion
<1>2. JudgeRemembers' /\ StealOnlyStale'
  BY DEF JudgeRemembers, StealOnlyStale
<1> QED
  BY <1>1, <1>2

\* Time ages the object and the hold alike, the hold never past MaxHold.
LEMMA TickStep ==
    ASSUME HoldsBounded, IInv, TypeOK', Tick
    PROVE  IInv'
<1> USE LockAssumption DEF IInv, TypeOK, Places, Holding, Tick, MaxAge
<1>1. HolderHasObject'
  BY DEF HoldsBounded, HolderHasObject
<1>2. MutualExclusion' /\ JudgeRemembers'
  BY DEF MutualExclusion, JudgeRemembers
<1>3. StealOnlyStale'
  BY DEF StealOnlyStale, JudgeRemembers
<1> QED
  BY <1>1, <1>2, <1>3

\* With holds bounded, the invariant holds in every behaviour.
THEOREM Invariance == HoldsBounded => (Spec => []IInv)
<1> SUFFICES ASSUME HoldsBounded PROVE Spec => []IInv
  OBVIOUS
<1>1. Init => IInv
  BY LockAssumption DEF Init, IInv, TypeOK, Places, MaxAge, HolderHasObject,
     MutualExclusion, JudgeRemembers, StealOnlyStale, Holding
<1>2. IInv /\ TypeOK' /\ [Next]_vars => IInv'
  <2> SUFFICES ASSUME IInv, TypeOK', [Next]_vars PROVE IInv'
    OBVIOUS
  <2>1. ASSUME NEW p \in Procs, LockStep(p) PROVE IInv'
    BY <2>1, QuietStep, CreateStep, FindStaleStep, StealStep DEF LockStep
  <2>2. ASSUME NEW p \in Procs, UnlockStep(p) \/ Crash(p) PROVE IInv'
    BY <2>2, LeaveStep
  <2>3. CASE Tick
    BY <2>3, TickStep
  <2>4. CASE UNCHANGED vars
    BY <2>4 DEF vars, IInv, TypeOK, HolderHasObject, MutualExclusion,
       JudgeRemembers, StealOnlyStale, Holding
  <2> QED
    BY <2>1, <2>2, <2>3, <2>4 DEF Next
<1> QED
  BY <1>1, <1>2, Typing, PTL DEF Spec

\* With holds bounded by the lease, no two callers ever hold the lock at once,
\* for any number of callers and any TTL.
THEOREM Exclusion == HoldsBounded => (Spec => []MutualExclusion)
<1>1. IInv => MutualExclusion
  BY DEF IInv
<1> QED
  BY <1>1, Invariance, PTL

\* With holds bounded by the lease, a holder's lock object is never taken away.
THEOREM Lease == HoldsBounded => (Spec => []LeaseKept)
<1>1. IInv => LeaseKept
  BY DEF IInv, LeaseKept, HolderHasObject
<1> QED
  BY <1>1, Invariance, PTL
=============================================================================
