--------------------------- MODULE MappingsProofs ---------------------------
(***************************************************************************)
(* Proofs about Mappings, for any names, targets and lists of public       *)
(* suffixes, and for any list of mappings: the two tiers' normal forms and *)
(* records agree, edits act on a list as on a table of hosts or are        *)
(* refused, and what is saved is sorted.                                   *)
(*                                                                         *)
(* Marshal and Without go through a list of any length.  What they compute *)
(* is proved by induction, which is had from the well-foundedness of the   *)
(* natural numbers (Least) without an operator as a parameter.             *)
(***************************************************************************)
EXTENDS Mappings, SequenceTheorems, FunctionTheorems, FiniteSetTheorems,
        WellFoundedInduction, TLAPS

-----------------------------------------------------------------------------
(* Spellings *)

\* A spelling with a trailing dot before a port is half undone by NormalizeHost.
HalfUndone(h) == h.form = {"dot", "port"}

\* A normal form, and what it is made of: nothing but the name.
LEMMA NormalForm ==
    ASSUME NEW h \in Host
    PROVE  /\ NormalizeHost(h) \in Host /\ NormalizeHost(h).name = h.name
           /\ NormalizeHost(h).form = IF HalfUndone(h) THEN {"dot"} ELSE {}
<1>1. CASE "port" \in h.form
  BY <1>1 DEF NormalizeHost, StripPort, StripDot, Host, HalfUndone
<1>2. CASE "port" \notin h.form
  BY <1>2 DEF NormalizeHost, StripPort, StripDot, Host, HalfUndone
<1> QED
  BY <1>1, <1>2

\* Normalizing again changes nothing, except for such a spelling.
LEMMA Idempotent ==
    ASSUME NEW h \in Host, NormalizeHost(h).form = {}
    PROVE  NormalizeHost(NormalizeHost(h)) = NormalizeHost(h)
<1>1. NormalizeHost(h) \in Host
  BY NormalForm
<1>2. \A g \in Host : g.form = {} => NormalizeHost(g) = g
  BY DEF NormalizeHost, StripPort, StripDot, Host
<1> QED
  BY <1>1, <1>2

\* However a host is typed, a registration that is accepted and a lookup by what
\* was typed are about the same entries.
THEOREM AsTyped == Spec => []RegisteredAsTyped
<1>1. ASSUME NEW h \in Host, HOSTNAME_RE(normalizeHost(h))
      PROVE  /\ Entries(config, NormalizeHost(h)) = Entries(config, normalizeHost(h))
             /\ Resolve(config, h) = Resolve(config, normalizeHost(h))
  <2>1. normalizeHost(h) = NormalizeHost(h)
    BY DEF normalizeHost, NormalizeHost
  <2>2. NormalizeHost(NormalizeHost(h)) = NormalizeHost(h)
    BY <1>1, <2>1, Idempotent DEF HOSTNAME_RE
  <2> QED
    BY <2>1, <2>2 DEF Resolve
<1>2. RegisteredAsTyped
  BY <1>1 DEF RegisteredAsTyped
<1> QED
  BY <1>2, PTL

-----------------------------------------------------------------------------
(* Records *)

\* On a name that both lists of public suffixes classify alike, both tiers derive
\* the same records.
THEOREM SameRecords == Spec => []RecordsAgree
<1>1. ASSUME NEW name, NEW canonicalHost,
             getDomain(name) # {}, EffectiveTLDPlusOne(name) = getDomain(name)
      PROVE  DNSInstructions(name, canonicalHost) = dnsInstructions(name, canonicalHost)
  <2>1. IsApex(name) <=> isApex(name)
    BY <1>1 DEF IsApex, isApex
  <2>2. ApexOf(name) = apexOf(name)
    BY <1>1 DEF ApexOf, apexOf
  <2> QED
    BY <2>1, <2>2 DEF DNSInstructions, dnsInstructions
<1>2. RecordsAgree
  BY <1>1 DEF RecordsAgree
<1> QED
  BY <1>2, PTL

-----------------------------------------------------------------------------
(* Induction, and folds along a list *)

\* Every set of natural numbers has a least one.
LEMMA Least ==
    ASSUME NEW T, T \subseteq Nat, T # {}
    PROVE  \E x \in T : \A y \in T : x =< y
<1> DEFINE R == {rs \in Nat \X Nat : rs[1] < rs[2]}
<1>1. R = OpToRel(<, Nat)
  BY DEF OpToRel
<1>2. IsWellFoundedOn(R, Nat)
  BY <1>1, NatLessThanWellFounded
<1>3. PICK x \in T : \A y \in T : <<y, x>> \notin R
  <2> HIDE DEF R
  <2> QED
    BY <1>2, WFMin
<1>4. ASSUME NEW y \in T PROVE x =< y
  <2>1. <<y, x>> \notin R /\ x \in Nat /\ y \in Nat
    <3> HIDE DEF R
    <3> QED
      BY <1>3
  <2>2. ~ (y < x)
    BY <2>1
  <2> QED
    BY <2>1, <2>2
<1> QED
  BY <1>4

\* Every set of indices has a last one.
LEMMA Greatest ==
    ASSUME NEW n \in Nat, NEW T, T \subseteq 1..n, T # {}
    PROVE  \E x \in T : \A y \in T : y =< x
<1> DEFINE D == {n - x : x \in T}
<1>1. D \subseteq Nat /\ D # {}
  <2>1. \A x \in T : n - x \in Nat
    OBVIOUS
  <2>2. PICK x \in T : TRUE
    OBVIOUS
  <2>3. n - x \in D
    OBVIOUS
  <2> QED
    BY <2>1, <2>3
<1>2. PICK d \in D : \A e \in D : d =< e
  <2> HIDE DEF D
  <2> QED
    BY <1>1, Least
<1>3. PICK x \in T : d = n - x
  OBVIOUS
<1>4. ASSUME NEW y \in T PROVE y =< x
  <2>1. d =< n - y
    BY <1>2
  <2> QED
    BY <2>1, <1>3
<1> QED
  BY <1>4

\* What holds of 0, and of n + 1 if of n, holds up to N.
LEMMA Ascent ==
    ASSUME NEW N \in Nat, NEW S, 0 \in S, \A n \in 0..N - 1 : n \in S => n + 1 \in S
    PROVE  \A n \in 0..N : n \in S
<1> DEFINE T == {n \in 0..N : n \notin S}
<1> SUFFICES ASSUME T # {} PROVE FALSE
  OBVIOUS
<1>1. PICK x \in T : \A y \in T : x =< y
  <2>1. T \subseteq Nat
    OBVIOUS
  <2> QED
    BY <2>1, Least
<1>2. x # 0
  OBVIOUS
<1>3. x - 1 \in 0..N - 1 /\ x - 1 \notin T
  BY <1>1, <1>2
<1>4. x - 1 \in S
  BY <1>3
<1> QED
  BY <1>3, <1>4

\* Max, as FoldLeft uses it, is that one.
LEMMA MaxIs ==
    ASSUME NEW n \in Nat, NEW s, s \subseteq 1..n, s # {}
    PROVE  Max(s) \in s /\ \A y \in s : y =< Max(s)
<1>1. PICK x \in s : \A y \in s : y =< x
  BY Greatest
<1>2. \A y \in s : x >= y
  BY <1>1
<1>3. Max(s) \in s /\ \A y \in s : Max(s) >= y
  BY <1>2 DEF Max
<1> QED
  BY <1>3

\* FoldLeft's function on sets of indices; the step F takes an index and what
\* there is so far.
IsFold(iter, N, A, base, F) ==
    /\ iter \in [SUBSET (1..N) -> A]
    /\ \A s \in SUBSET (1..N) :
         iter[s] = IF s = {} THEN base ELSE F[<<Max(s), iter[s \ {Max(s)}]>>]

\* There is such a function.
LEMMA Folding ==
    ASSUME NEW N \in Nat, NEW A, NEW base \in A, NEW F \in [(1..N) \X A -> A]
    PROVE  \E iter : IsFold(iter, N, A, base, F)
<1> DEFINE Folds(n, iter) == \A s \in SUBSET (1..n) :
             iter[s] = IF s = {} THEN base ELSE F[<<Max(s), iter[s \ {Max(s)}]>>]
           S == {n \in 0..N : \E iter \in [SUBSET (1..n) -> A] : Folds(n, iter)}
<1>1. 0 \in S
  <2>1. [s \in SUBSET (1..0) |-> base] \in [SUBSET (1..0) -> A]
    OBVIOUS
  <2>2. 1..0 = {}
    OBVIOUS
  <2>3. Folds(0, [s \in SUBSET (1..0) |-> base])
    BY <2>2
  <2> HIDE DEF Folds
  <2>4. \E iter \in [SUBSET (1..0) -> A] : Folds(0, iter)
    BY <2>1, <2>3
  <2>5. 0 \in 0..N
    OBVIOUS
  <2> QED
    BY <2>4, <2>5
<1>2. ASSUME NEW n \in 0..N - 1, n \in S
      PROVE  n + 1 \in S
  <2>1. PICK iter \in [SUBSET (1..n) -> A] : Folds(n, iter)
    BY <1>2
  <2> DEFINE next == [s \in SUBSET (1..n + 1) |->
                        IF n + 1 \in s THEN F[<<n + 1, iter[s \ {n + 1}]>>] ELSE iter[s]]
  <2>2. \A s \in SUBSET (1..n + 1) : s \ {n + 1} \in SUBSET (1..n)
    OBVIOUS
  <2>3. \A s \in SUBSET (1..n + 1) : n + 1 \notin s => s \in SUBSET (1..n)
    OBVIOUS
  <2>4. next \in [SUBSET (1..n + 1) -> A]
    <3>1. ASSUME NEW s \in SUBSET (1..n + 1), n + 1 \in s
          PROVE  F[<<n + 1, iter[s \ {n + 1}]>>] \in A
      <4>1. iter[s \ {n + 1}] \in A
        BY <2>1, <2>2
      <4>2. n + 1 \in 1..N
        OBVIOUS
      <4> QED
        BY <4>1, <4>2
    <3>2. ASSUME NEW s \in SUBSET (1..n + 1), n + 1 \notin s
          PROVE  iter[s] \in A
      BY <2>1, <2>3, <3>2
    <3> QED
      BY <3>1, <3>2
  <2>5. ASSUME NEW s \in SUBSET (1..n)
        PROVE  next[s] = iter[s]
    <3>1. s \in SUBSET (1..n + 1) /\ n + 1 \notin s
      OBVIOUS
    <3> QED
      BY <3>1
  <2>6. ASSUME NEW s \in SUBSET (1..n + 1)
        PROVE  next[s] = IF s = {} THEN base ELSE F[<<Max(s), next[s \ {Max(s)}]>>]
    <3>1. CASE n + 1 \in s
      <4>1. Max(s) = n + 1
        <5>1. n + 1 \in Nat
          OBVIOUS
        <5>2. Max(s) \in s /\ n + 1 =< Max(s)
          BY <3>1, <5>1, MaxIs
        <5>3. Max(s) \in 1..n + 1
          BY <5>2
        <5> QED
          BY <5>2, <5>3
      <4>2. next[s] = F[<<n + 1, iter[s \ {n + 1}]>>]
        BY <3>1
      <4>3. next[s \ {n + 1}] = iter[s \ {n + 1}]
        BY <2>2, <2>5
      <4> HIDE DEF next
      <4> QED
        BY <3>1, <4>1, <4>2, <4>3
    <3>2. CASE n + 1 \notin s
      <4>1. s \in SUBSET (1..n) /\ next[s] = iter[s]
        BY <2>3, <2>5, <3>2
      <4>2. next[s \ {Max(s)}] = iter[s \ {Max(s)}]
        BY <4>1, <2>5
      <4> HIDE DEF next
      <4> QED
        BY <2>1, <4>1, <4>2
    <3> QED
      BY <3>1, <3>2
  <2> HIDE DEF next
  <2>7. Folds(n + 1, next)
    BY <2>6
  <2> HIDE DEF Folds
  <2>8. \E f \in [SUBSET (1..n + 1) -> A] : Folds(n + 1, f)
    BY <2>4, <2>7
  <2>9. n + 1 \in 0..N
    OBVIOUS
  <2> QED
    BY <2>8, <2>9
<1>3. N \in S
  <2> HIDE DEF S
  <2>1. \A n \in 0..N : n \in S
    BY <1>1, <1>2, Ascent
  <2> QED
    BY <2>1
<1> QED
  BY <1>3 DEF IsFold

\* The sets of indices that a fold along a list comes through.
LEMMA Stretch ==
    ASSUME NEW N \in Nat, NEW n \in 0..N - 1
    PROVE  /\ 1..n + 1 \in SUBSET (1..N) /\ 1..n + 1 # {}
           /\ Max(1..n + 1) = n + 1 /\ (1..n + 1) \ {n + 1} = 1..n
<1>1. 1..n + 1 \in SUBSET (1..N) /\ n + 1 \in 1..n + 1 /\ (1..n + 1) \ {n + 1} = 1..n
  OBVIOUS
<1>2. Max(1..n + 1) \in 1..n + 1 /\ n + 1 =< Max(1..n + 1)
  <2>1. n + 1 \in Nat
    OBVIOUS
  <2> QED
    BY <1>1, <2>1, MaxIs
<1> QED
  BY <1>1, <1>2

\* Marshal places one mapping after the other.
LEMMA Marshalling ==
    ASSUME NEW c \in Seq(Mapping),
           \A sorted \in Seq(Mapping), m \in Mapping : Place(sorted, m) \in Seq(Mapping)
    PROVE  \E f : /\ f[0] = <<>> /\ Marshal(c) = f[Len(c)]
                  /\ \A n \in 0..Len(c) - 1 : f[n + 1] = Place(f[n], c[n + 1])
<1> DEFINE A == Seq(Mapping)
           N == Len(c)
           G(iter) == [s \in SUBSET (1..N) |->
                         IF s = {} THEN <<>> ELSE Place(iter[s \ {Max(s)}], c[Max(s)])]
           F == [p \in (1..N) \X A |-> Place(p[2], c[p[1]])]
<1>1. N \in Nat /\ DOMAIN c = 1..N /\ <<>> \in A
  OBVIOUS
<1>2. F \in [(1..N) \X A -> A]
  <2>1. \A p \in (1..N) \X A : p[2] \in A /\ c[p[1]] \in Mapping
    BY <1>1
  <2>2. \A p \in (1..N) \X A : Place(p[2], c[p[1]]) \in A
    BY <2>1
  <2> QED
    BY <2>2
<1>3. PICK g : IsFold(g, N, A, <<>>, F)
  <2> HIDE DEF F, A, N
  <2> QED
    BY <1>1, <1>2, Folding
<1>4. \A s \in SUBSET (1..N) : s # {} => <<Max(s), g[s \ {Max(s)}]>> \in (1..N) \X A
  BY <1>1, <1>3, MaxIs DEF IsFold
<1>5. g = G(g)
  <2>1. \A s \in SUBSET (1..N) : s # {} =>
          F[<<Max(s), g[s \ {Max(s)}]>>] = Place(g[s \ {Max(s)}], c[Max(s)])
    BY <1>4
  <2> HIDE DEF F, A, N
  <2> QED
    BY <1>3, <2>1 DEF IsFold
<1> DEFINE h == CHOOSE iter : iter = G(iter)
<1>6. h = G(h)
  <2> HIDE DEF G
  <2> QED
    BY <1>5
<1>7. Marshal(c) = h[1..N]
  BY <1>1 DEF Marshal, FoldLeft, MapThenFoldSet
<1> DEFINE f == [n \in 0..N |-> h[1..n]]
<1>8. f[0] = <<>> /\ f[N] = h[1..N]
  <2>1. 1..0 = {} /\ 0 \in 0..N /\ N \in 0..N
    BY <1>1
  <2>2. h[{}] = <<>>
    <3> HIDE DEF h
    <3> QED
      BY <1>6
  <2> HIDE DEF h, N
  <2> QED
    BY <2>1, <2>2
<1>9. ASSUME NEW n \in 0..N - 1
      PROVE  f[n + 1] = Place(f[n], c[n + 1])
  <2> HIDE DEF h, N
  <2>1. h[1..n + 1] = Place(h[1..n], c[n + 1])
    <3> DEFINE s == 1..n + 1
    <3>1. s \in SUBSET (1..N) /\ s # {} /\ Max(s) = n + 1 /\ s \ {n + 1} = 1..n
      BY <1>1, Stretch
    <3> HIDE DEF s
    <3>2. h[s] = Place(h[s \ {Max(s)}], c[Max(s)])
      BY <1>6, <3>1
    <3>3. h[s] = Place(h[1..n], c[n + 1])
      BY <3>1, <3>2
    <3> QED
      BY <3>3 DEF s
  <2>2. n \in 0..N /\ n + 1 \in 0..N
    BY <1>1
  <2> QED
    BY <2>1, <2>2
<1> HIDE DEF f, h
<1> QED
  BY <1>7, <1>8, <1>9

-----------------------------------------------------------------------------
(* The sort *)

Sorted(c) == \A i, j \in DOMAIN c : i < j => Rank(c[i]) =< Rank(c[j])

\* A mapping's rank is a number, so that ranks can be compared.
LEMMA RankIsPosition == ASSUME NEW m \in Mapping PROVE Rank(m) \in Int
<1> DEFINE h == NormalizeHost(m.host)
           p == CHOOSE i \in DOMAIN Names : Names[i] = h.name
<1>1. h.name \in HostNames
  BY NormalForm DEF Mapping, Host
<1>2. \E i \in DOMAIN Names : Names[i] = h.name
  BY <1>1 DEF HostNames
<1>3. p \in DOMAIN Names
  BY <1>2
<1>4. DOMAIN Names \subseteq Int
  BY MappingsAssumption DEF MappingsAssumption
<1>5. Rank(m) = 2 * p + IF h.form = {} THEN 0 ELSE 1
  BY DEF Rank
<1> HIDE DEF p
<1> QED
  BY <1>3, <1>4, <1>5

\* A mapping goes in at one place, and nothing else moves but to make room.
LEMMA Placing ==
    ASSUME NEW sorted \in Seq(Mapping), NEW m \in Mapping
    PROVE  \E k \in 0..Len(sorted) :
             /\ k = Cardinality({i \in DOMAIN sorted : Rank(sorted[i]) =< Rank(m)})
             /\ Place(sorted, m) \in Seq(Mapping)
             /\ Len(Place(sorted, m)) = Len(sorted) + 1
             /\ \A i \in 1..k : Place(sorted, m)[i] = sorted[i]
             /\ Place(sorted, m)[k + 1] = m
             /\ \A i \in k + 2..Len(sorted) + 1 : Place(sorted, m)[i] = sorted[i - 1]
<1> DEFINE S == {i \in DOMAIN sorted : Rank(sorted[i]) =< Rank(m)}
           n == Len(sorted)
           k == Cardinality(S)
<1>1. n \in Nat /\ DOMAIN sorted = 1..n /\ S \in SUBSET (1..n)
  OBVIOUS
<1>2. k \in 0..n
  <2> HIDE DEF S, n
  <2>1. IsFiniteSet(1..n) /\ Cardinality(1..n) = n
    <3>1. n \in Int /\ 1 \in Int /\ ~ (1 > n /\ n # 0) /\ n - 1 + 1 = n
      BY <1>1
    <3>2. IsFiniteSet(1..n) /\ Cardinality(1..n) = IF 1 > n THEN 0 ELSE n - 1 + 1
      BY <3>1, FS_Interval
    <3> QED
      BY <1>1, <3>1, <3>2
  <2>2. IsFiniteSet(S) /\ Cardinality(S) =< Cardinality(1..n)
    BY <1>1, <2>1, FS_Subset
  <2>3. Cardinality(S) \in Nat
    BY <2>2, FS_CardinalityType
  <2> QED
    BY <1>1, <2>1, <2>2, <2>3
<1> HIDE DEF S, k, n
<1> DEFINE low == SubSeq(sorted, 1, k)
           high == SubSeq(sorted, k + 1, n)
           front == low \o <<m>>
<1>3. low \in Seq(Mapping) /\ Len(low) = k /\ \A i \in 1..k : low[i] = sorted[i]
  <2>1. \A i \in 1..k : sorted[i] \in Mapping
    BY <1>1, <1>2
  <2>2. k \in Int /\ 1 \in Int /\ k >= 0
    BY <1>1, <1>2
  <2> QED
    BY <2>1, <2>2, SubSeqProperties
<1>4. high \in Seq(Mapping) /\ Len(high) = n - k
      /\ \A i \in 1..n - k : high[i] = sorted[k + i]
  <2>1. \A i \in k + 1..n : sorted[i] \in Mapping
    BY <1>1, <1>2
  <2>2. k + 1 \in Int /\ n \in Int /\ k =< n
    BY <1>1, <1>2
  <2>3. high \in Seq(Mapping) /\ Len(high) = (IF k + 1 <= n THEN n - (k + 1) + 1 ELSE 0)
        /\ \A i \in 1..n - (k + 1) + 1 : high[i] = sorted[k + 1 + i - 1]
    BY <2>1, <2>2, SubSeqProperties
  <2> QED
    BY <1>1, <1>2, <2>3
<1> HIDE DEF low, high
<1>5. front \in Seq(Mapping) /\ Len(front) = k + 1 /\ front[k + 1] = m
      /\ \A i \in 1..k : front[i] = sorted[i]
  <2>1. <<m>> \in Seq(Mapping) /\ Len(<<m>>) = 1
    OBVIOUS
  <2>2. front \in Seq(Mapping) /\ Len(front) = k + 1
        /\ \A i \in 1..k + 1 : front[i] = IF i <= k THEN low[i] ELSE <<m>>[i - k]
    BY <1>3, <2>1, ConcatProperties
  <2> HIDE DEF front
  <2> QED
    BY <1>1, <1>2, <1>3, <2>2
<1> HIDE DEF front
<1>6. /\ front \o high \in Seq(Mapping) /\ Len(front \o high) = n + 1
      /\ \A i \in 1..n + 1 :
           (front \o high)[i] = IF i <= k + 1 THEN front[i] ELSE high[i - (k + 1)]
  <2>1. k + 1 + (n - k) = n + 1
    BY <1>1, <1>2
  <2>2. /\ front \o high \in Seq(Mapping)
        /\ Len(front \o high) = Len(front) + Len(high)
        /\ \A i \in 1..Len(front) + Len(high) :
             (front \o high)[i] =
                IF i <= Len(front) THEN front[i] ELSE high[i - Len(front)]
    BY <1>4, <1>5, ConcatProperties
  <2> QED
    BY <1>4, <1>5, <2>1, <2>2
<1>7. Place(sorted, m) = front \o high
  BY DEF Place, front, low, high, k, n, S
<1>8. \A i \in 1..k : (front \o high)[i] = sorted[i]
  BY <1>1, <1>2, <1>5, <1>6
<1>9. (front \o high)[k + 1] = m
  BY <1>1, <1>2, <1>5, <1>6
<1>10. \A i \in k + 2..n + 1 : (front \o high)[i] = sorted[i - 1]
  BY <1>1, <1>2, <1>4, <1>6
<1> QED
  BY <1>2, <1>6, <1>7, <1>8, <1>9, <1>10 DEF k, n, S

\* It comes after those not above it, and before the others.
LEMMA PlacingSorts ==
    ASSUME NEW sorted \in Seq(Mapping), Sorted(sorted), NEW m \in Mapping
    PROVE  Sorted(Place(sorted, m))
<1> DEFINE S == {i \in DOMAIN sorted : Rank(sorted[i]) =< Rank(m)}
           n == Len(sorted)
           p == Place(sorted, m)
<1>1. PICK k \in 0..n : /\ k = Cardinality(S) /\ p \in Seq(Mapping) /\ Len(p) = n + 1
                        /\ \A i \in 1..k : p[i] = sorted[i]
                        /\ p[k + 1] = m
                        /\ \A i \in k + 2..n + 1 : p[i] = sorted[i - 1]
  BY Placing
<1>2. n \in Nat /\ DOMAIN sorted = 1..n /\ DOMAIN p = 1..n + 1
  BY <1>1
<1>3. /\ Rank(m) \in Int
      /\ \A i \in 1..n : Rank(sorted[i]) \in Int
  BY <1>2, RankIsPosition
<1>4. \A a, b \in 1..n : a =< b => Rank(sorted[a]) =< Rank(sorted[b])
  BY <1>2, <1>3 DEF Sorted
<1>5. \A i : i \in S <=> i \in 1..n /\ Rank(sorted[i]) =< Rank(m)
  BY <1>2
<1> HIDE DEF p, S, n
<1>6. S = 1..k
  <2>1. S \subseteq 1..n
    BY <1>5
  <2>2. CASE S = {}
    <3>1. k = 0
      BY <1>1, <2>2, FS_EmptySet
    <3> QED
      BY <2>2, <3>1
  <2>3. CASE S # {}
    <3>1. PICK x \in S : \A y \in S : y =< x
      BY <1>2, <2>1, <2>3, Greatest
    <3>2. x \in 1..n /\ Rank(sorted[x]) =< Rank(m)
      BY <1>5
    <3>3. ASSUME NEW y \in 1..x PROVE y \in S
      <4>1. y \in 1..n /\ Rank(sorted[y]) =< Rank(sorted[x])
        BY <1>2, <1>4, <3>2
      <4> QED
        BY <1>3, <1>5, <3>2, <4>1
    <3>4. S = 1..x
      <4>1. \A y : y \in S => y \in 1..x
        BY <1>2, <1>5, <3>1, <3>2
      <4> QED
        BY <3>3, <4>1
    <3>5. Cardinality(1..x) = x
      <4>1. x \in Int /\ 1 \in Int /\ ~ (1 > x) /\ x - 1 + 1 = x
        BY <3>2
      <4> QED
        BY <4>1, FS_Interval
    <3> QED
      BY <1>1, <3>4, <3>5
  <2> QED
    BY <2>2, <2>3
<1>7. \A i \in 1..k : Rank(sorted[i]) =< Rank(m)
  BY <1>5, <1>6
<1>8. ASSUME NEW i \in k + 1..n PROVE Rank(m) =< Rank(sorted[i])
  <2>1. i \in 1..n /\ i \notin 1..k
    BY <1>1, <1>2
  <2>2. i \notin S
    BY <1>6, <2>1
  <2> QED
    BY <1>3, <1>5, <2>1, <2>2
<1>9. ASSUME NEW i \in 1..n + 1, NEW j \in 1..n + 1, i < j
      PROVE  Rank(p[i]) =< Rank(p[j])
  <2>1. CASE j =< k
    BY <1>1, <1>2, <1>4, <1>9, <2>1
  <2>2. CASE j = k + 1
    BY <1>1, <1>2, <1>7, <1>9, <2>2
  <2>3. CASE j > k + 1
    <3>1. p[j] = sorted[j - 1] /\ j - 1 \in k + 1..n
      BY <1>1, <1>2, <2>3
    <3>2. CASE i =< k
      BY <1>1, <1>2, <1>4, <3>1, <3>2
    <3>3. CASE i = k + 1
      BY <1>1, <1>8, <3>1, <3>3
    <3>4. CASE i > k + 1
      <4>1. p[i] = sorted[i - 1] /\ i - 1 \in 1..n /\ i - 1 =< j - 1
        BY <1>1, <1>2, <1>9, <3>4
      <4> QED
        BY <1>1, <1>2, <1>4, <3>1, <4>1
    <3> QED
      BY <1>1, <1>2, <3>2, <3>3, <3>4
  <2> QED
    BY <1>1, <1>2, <2>1, <2>2, <2>3
<1> QED
  BY <1>2, <1>9 DEF Sorted, p

-----------------------------------------------------------------------------
(* Lists as tables of hosts *)

Has(c, m) == \E i \in DOMAIN c : c[i] = m

\* No two mappings of a list are for one host, as Validate demands.
OneEach(c) ==
    \A i, j \in DOMAIN c : NormalizeHost(c[i].host) = NormalizeHost(c[j].host) => i = j

\* Placing adds the mapping, loses none, and makes no host double that was not
\* there.
LEMMA PlacingKeeps ==
    ASSUME NEW sorted \in Seq(Mapping), NEW m \in Mapping
    PROVE  /\ \A x : Has(Place(sorted, m), x) <=> Has(sorted, x) \/ x = m
           /\ OneEach(sorted) /\ (\A x : Has(sorted, x) =>
                                    NormalizeHost(x.host) # NormalizeHost(m.host))
                => OneEach(Place(sorted, m))
<1> DEFINE n == Len(sorted)
           p == Place(sorted, m)
<1>1. PICK k \in 0..n : /\ p \in Seq(Mapping) /\ Len(p) = n + 1
                        /\ \A i \in 1..k : p[i] = sorted[i]
                        /\ p[k + 1] = m
                        /\ \A i \in k + 2..n + 1 : p[i] = sorted[i - 1]
  BY Placing
<1>2. n \in Nat /\ DOMAIN sorted = 1..n /\ DOMAIN p = 1..n + 1
  BY <1>1
<1> HIDE DEF n, p
<1> DEFINE from(i) == IF i =< k THEN i ELSE i - 1
           to(i) == IF i =< k THEN i ELSE i + 1
<1>3. \A i \in 1..n + 1 : i # k + 1 => from(i) \in 1..n /\ p[i] = sorted[from(i)]
  BY <1>1, <1>2
<1>4. \A i \in 1..n : to(i) \in 1..n + 1 /\ p[to(i)] = sorted[i]
  <2>1. ASSUME NEW i \in 1..n, i > k
        PROVE  p[i + 1] = sorted[i]
    <3>1. i + 1 \in k + 2..n + 1 /\ (i + 1) - 1 = i
      BY <1>1, <1>2, <2>1
    <3> QED
      BY <1>1, <3>1
  <2> QED
    BY <1>1, <1>2, <2>1
<1>5. k + 1 \in 1..n + 1
  BY <1>1, <1>2
<1>6. ASSUME NEW x
      PROVE  Has(p, x) <=> Has(sorted, x) \/ x = m
  <2>1. Has(p, x) => Has(sorted, x) \/ x = m
    BY <1>1, <1>2, <1>3 DEF Has
  <2>2. Has(sorted, x) => Has(p, x)
    BY <1>2, <1>4 DEF Has
  <2>3. x = m => Has(p, x)
    BY <1>1, <1>2, <1>5 DEF Has
  <2> QED
    BY <2>1, <2>2, <2>3
<1>7. ASSUME OneEach(sorted),
             \A x : Has(sorted, x) => NormalizeHost(x.host) # NormalizeHost(m.host),
             NEW i \in 1..n + 1, NEW j \in 1..n + 1,
             NormalizeHost(p[i].host) = NormalizeHost(p[j].host)
      PROVE  i = j
  <2>1. \A a \in 1..n : NormalizeHost(sorted[a].host) # NormalizeHost(m.host)
    BY <1>2, <1>7 DEF Has
  <2>2. i = k + 1 <=> j = k + 1
    <3>1. i = k + 1 => p[i] = m
      BY <1>1
    <3>2. j = k + 1 => p[j] = m
      BY <1>1
    <3>3. i # k + 1 => NormalizeHost(p[i].host) # NormalizeHost(m.host)
      BY <1>3, <2>1
    <3>4. j # k + 1 => NormalizeHost(p[j].host) # NormalizeHost(m.host)
      BY <1>3, <2>1
    <3> QED
      BY <1>7, <3>1, <3>2, <3>3, <3>4
  <2>3. CASE i # k + 1 /\ j # k + 1
    <3>1. from(i) = from(j)
      <4>1. from(i) \in 1..n /\ p[i] = sorted[from(i)]
        BY <1>3, <2>3
      <4>2. from(j) \in 1..n /\ p[j] = sorted[from(j)]
        BY <1>3, <2>3
      <4> HIDE DEF from
      <4> QED
        BY <1>2, <1>7, <4>1, <4>2 DEF OneEach
    <3> QED
      BY <1>1, <1>2, <2>3, <3>1
  <2> QED
    BY <2>2, <2>3
<1>8. OneEach(sorted) /\ (\A x : Has(sorted, x) =>
                            NormalizeHost(x.host) # NormalizeHost(m.host)) => OneEach(p)
  BY <1>2, <1>7 DEF OneEach
<1> QED
  BY <1>6, <1>8 DEF p

\* Marshal sorts: the list is in order, has what the other has, and no host
\* becomes double.
LEMMA Marshalled ==
    ASSUME NEW c \in Seq(Mapping)
    PROVE  /\ Marshal(c) \in Seq(Mapping) /\ Sorted(Marshal(c))
           /\ \A x : Has(Marshal(c), x) <=> Has(c, x)
           /\ OneEach(c) => OneEach(Marshal(c))
<1> DEFINE N == Len(c)
<1>1. N \in Nat /\ DOMAIN c = 1..N /\ \A i \in 1..N : c[i] \in Mapping
  OBVIOUS
<1>2. \A sorted \in Seq(Mapping), m \in Mapping : Place(sorted, m) \in Seq(Mapping)
  BY Placing
<1>3. PICK f : /\ f[0] = <<>> /\ Marshal(c) = f[N]
               /\ \A n \in 0..N - 1 : f[n + 1] = Place(f[n], c[n + 1])
  BY <1>2, Marshalling
<1> HIDE DEF N
<1> DEFINE Done(n) == /\ f[n] \in Seq(Mapping) /\ Sorted(f[n])
                      /\ \A x : Has(f[n], x) <=> \E i \in 1..n : c[i] = x
                      /\ OneEach(c) => OneEach(f[n])
           S == {n \in 0..N : Done(n)}
<1>4. Done(0)
  <2>1. f[0] \in Seq(Mapping) /\ DOMAIN f[0] = {} /\ 1..0 = {}
    BY <1>3
  <2> QED
    BY <2>1 DEF Sorted, Has, OneEach
<1>5. ASSUME NEW n \in 0..N - 1, Done(n)
      PROVE  Done(n + 1)
  <2>1. n + 1 \in 1..N /\ c[n + 1] \in Mapping /\ f[n + 1] = Place(f[n], c[n + 1])
    BY <1>1, <1>3
  <2>2. f[n + 1] \in Seq(Mapping) /\ Sorted(f[n + 1])
    BY <1>2, <1>5, <2>1, PlacingSorts
  <2>3. \A x : Has(f[n + 1], x) <=> Has(f[n], x) \/ x = c[n + 1]
    BY <1>5, <2>1, PlacingKeeps
  <2>4. 1..n + 1 = (1..n) \cup {n + 1}
    BY <1>1
  <2>5. \A x : Has(f[n + 1], x) <=> \E i \in 1..n + 1 : c[i] = x
    BY <1>5, <2>3, <2>4
  <2>6. ASSUME OneEach(c) PROVE OneEach(f[n + 1])
    <3>1. ASSUME NEW x, Has(f[n], x)
          PROVE  NormalizeHost(x.host) # NormalizeHost(c[n + 1].host)
      <4>1. PICK i \in 1..n : c[i] = x
        BY <1>5, <3>1
      <4>2. i \in 1..N /\ i # n + 1
        BY <1>1
      <4> QED
        BY <1>1, <2>1, <2>6, <4>1, <4>2 DEF OneEach
    <3> QED
      BY <1>5, <2>1, <2>6, <3>1, PlacingKeeps
  <2> QED
    BY <2>2, <2>5, <2>6
<1>6. Done(N)
  <2> HIDE DEF Done
  <2>1. 0 \in S /\ \A n \in 0..N - 1 : n \in S => n + 1 \in S
    BY <1>1, <1>4, <1>5
  <2> HIDE DEF S
  <2>2. N \in S
    BY <1>1, <2>1, Ascent
  <2> QED
    BY <2>2 DEF S
<1> QED
  BY <1>1, <1>3, <1>6 DEF Has

\* Appending adds the mapping, and makes its host double if it was there.
LEMMA AppendKeeps ==
    ASSUME NEW c \in Seq(Mapping), NEW m \in Mapping
    PROVE  /\ Append(c, m) \in Seq(Mapping)
           /\ \A x : Has(Append(c, m), x) <=> Has(c, x) \/ x = m
           /\ OneEach(Append(c, m)) <=>
                 OneEach(c) /\ \A x : Has(c, x) =>
                                  NormalizeHost(x.host) # NormalizeHost(m.host)
<1> DEFINE n == Len(c)
           a == Append(c, m)
<1>1. /\ a \in Seq(Mapping) /\ DOMAIN a = 1..n + 1 /\ n \in Nat /\ DOMAIN c = 1..n
      /\ \A i \in 1..n : a[i] = c[i]
      /\ a[n + 1] = m
  BY AppendProperties
<1> HIDE DEF n, a
<1>2. \A i \in 1..n + 1 : i \in 1..n \/ i = n + 1
  BY <1>1
<1>3. \A i \in 1..n : i \in 1..n + 1
  BY <1>1
<1>4. \A x : Has(a, x) <=> Has(c, x) \/ x = m
  BY <1>1, <1>2, <1>3 DEF Has
<1>5. ASSUME OneEach(c),
             \A x : Has(c, x) => NormalizeHost(x.host) # NormalizeHost(m.host)
      PROVE  OneEach(a)
  <2>1. \A i \in 1..n : NormalizeHost(c[i].host) # NormalizeHost(m.host)
    BY <1>1, <1>5 DEF Has
  <2> QED
    BY <1>1, <1>2, <1>5, <2>1 DEF OneEach
<1>6. ASSUME OneEach(a)
      PROVE  OneEach(c) /\ \A x : Has(c, x) => NormalizeHost(x.host) # NormalizeHost(m.host)
  <2>1. \A i \in 1..n : i # n + 1
    BY <1>1
  <2>2. n + 1 \in DOMAIN a
    BY <1>1
  <2>3. \A i \in 1..n : NormalizeHost(c[i].host) # NormalizeHost(m.host)
    BY <1>1, <1>3, <1>6, <2>1, <2>2 DEF OneEach
  <2> QED
    BY <1>1, <1>3, <1>6, <2>3 DEF OneEach, Has
<1> QED
  BY <1>1, <1>4, <1>5, <1>6 DEF a

\* Remove goes through the list and keeps what is for other hosts.
Keep(out, m, host) ==
    IF NormalizeHost(m.host) = NormalizeHost(host) THEN out ELSE Append(out, m)

\* Without is that loop.
LEMMA Removing ==
    ASSUME NEW c \in Seq(Mapping), NEW host
    PROVE  \E f : /\ f[0] = <<>> /\ Without(c, host) = f[Len(c)]
                  /\ \A n \in 0..Len(c) - 1 : f[n + 1] = Keep(f[n], c[n + 1], host)
<1> DEFINE A == Seq(Mapping)
           N == Len(c)
           G(iter) == [s \in SUBSET (1..N) |->
                         IF s = {} THEN <<>>
                         ELSE Keep(iter[s \ {Max(s)}], c[Max(s)], host)]
           F == [p \in (1..N) \X A |-> Keep(p[2], c[p[1]], host)]
<1>1. N \in Nat /\ DOMAIN c = 1..N /\ <<>> \in A
  OBVIOUS
<1>2. F \in [(1..N) \X A -> A]
  <2>1. \A p \in (1..N) \X A : p[2] \in A /\ c[p[1]] \in Mapping
    BY <1>1
  <2>2. \A p \in (1..N) \X A : Keep(p[2], c[p[1]], host) \in A
    BY <2>1, AppendKeeps DEF Keep
  <2> QED
    BY <2>2
<1>3. PICK g : IsFold(g, N, A, <<>>, F)
  <2> HIDE DEF F, A, N
  <2> QED
    BY <1>1, <1>2, Folding
<1>4. \A s \in SUBSET (1..N) : s # {} => <<Max(s), g[s \ {Max(s)}]>> \in (1..N) \X A
  BY <1>1, <1>3, MaxIs DEF IsFold
<1>5. g = G(g)
  <2>1. \A s \in SUBSET (1..N) : s # {} =>
          F[<<Max(s), g[s \ {Max(s)}]>>] = Keep(g[s \ {Max(s)}], c[Max(s)], host)
    BY <1>4
  <2> HIDE DEF F, A, N
  <2> QED
    BY <1>3, <2>1 DEF IsFold
<1> DEFINE h == CHOOSE iter : iter = G(iter)
<1>6. h = G(h)
  <2> HIDE DEF G
  <2> QED
    BY <1>5
<1>7. Without(c, host) = h[1..N]
  BY <1>1 DEF Without, FoldLeft, MapThenFoldSet, Keep
<1> DEFINE f == [n \in 0..N |-> h[1..n]]
<1>8. f[0] = <<>> /\ f[N] = h[1..N]
  <2>1. 1..0 = {} /\ 0 \in 0..N /\ N \in 0..N
    BY <1>1
  <2>2. h[{}] = <<>>
    <3> HIDE DEF h
    <3> QED
      BY <1>6
  <2> HIDE DEF h, N
  <2> QED
    BY <2>1, <2>2
<1>9. ASSUME NEW n \in 0..N - 1
      PROVE  f[n + 1] = Keep(f[n], c[n + 1], host)
  <2> HIDE DEF h, N
  <2>1. h[1..n + 1] = Keep(h[1..n], c[n + 1], host)
    <3> DEFINE s == 1..n + 1
    <3>1. s \in SUBSET (1..N) /\ s # {} /\ Max(s) = n + 1 /\ s \ {n + 1} = 1..n
      BY <1>1, Stretch
    <3> HIDE DEF s
    <3>2. h[s] = Keep(h[s \ {Max(s)}], c[Max(s)], host)
      BY <1>6, <3>1
    <3>3. h[s] = Keep(h[1..n], c[n + 1], host)
      BY <3>1, <3>2
    <3> QED
      BY <3>3 DEF s
  <2>2. n \in 0..N /\ n + 1 \in 0..N
    BY <1>1
  <2> QED
    BY <2>1, <2>2
<1> HIDE DEF f, h
<1> QED
  BY <1>7, <1>8, <1>9

\* No host is double but g, if that is.
OneElse(c, g) ==
    \A i, j \in DOMAIN c :
        /\ NormalizeHost(c[i].host) = NormalizeHost(c[j].host)
        /\ NormalizeHost(c[i].host) # g
        => i = j

\* Remove loses what is for the host, and nothing else: a host that is double
\* stays so.
LEMMA Removed ==
    ASSUME NEW c \in Seq(Mapping), NEW host
    PROVE  /\ Without(c, host) \in Seq(Mapping)
           /\ \A x : Has(Without(c, host), x) <=>
                       Has(c, x) /\ NormalizeHost(x.host) # NormalizeHost(host)
           /\ OneEach(Without(c, host)) <=> OneElse(c, NormalizeHost(host))
<1> DEFINE N == Len(c)
<1>1. N \in Nat /\ DOMAIN c = 1..N /\ \A i \in 1..N : c[i] \in Mapping
  OBVIOUS
<1>2. PICK f : /\ f[0] = <<>> /\ Without(c, host) = f[N]
               /\ \A n \in 0..N - 1 : f[n + 1] = Keep(f[n], c[n + 1], host)
  BY Removing
<1> HIDE DEF N
<1> DEFINE Kept(x) == NormalizeHost(x.host) # NormalizeHost(host)
           One(n) == \A i, j \in 1..n :
                        NormalizeHost(c[i].host) = NormalizeHost(c[j].host) /\ Kept(c[i])
                            => i = j
           Done(n) == /\ f[n] \in Seq(Mapping)
                      /\ \A x : Has(f[n], x) <=> Kept(x) /\ \E i \in 1..n : c[i] = x
                      /\ OneEach(f[n]) <=> One(n)
           S == {n \in 0..N : Done(n)}
<1>3. Done(0)
  <2>1. f[0] \in Seq(Mapping) /\ DOMAIN f[0] = {} /\ 1..0 = {}
    BY <1>2
  <2> QED
    BY <2>1 DEF Has, OneEach
<1>4. ASSUME NEW n \in 0..N - 1, Done(n)
      PROVE  Done(n + 1)
  <2>1. n + 1 \in 1..N /\ c[n + 1] \in Mapping /\ f[n + 1] = Keep(f[n], c[n + 1], host)
    BY <1>1, <1>2
  <2>2. 1..n + 1 = (1..n) \cup {n + 1}
    BY <1>1
  <2>3. CASE ~ Kept(c[n + 1])
    <3>1. f[n + 1] = f[n]
      BY <2>1, <2>3 DEF Keep
    <3>2. One(n + 1) <=> One(n)
      BY <2>2, <2>3
    <3> HIDE DEF One
    <3> QED
      BY <1>4, <2>2, <2>3, <3>1, <3>2
  <2>4. CASE Kept(c[n + 1])
    <3>1. f[n + 1] = Append(f[n], c[n + 1])
      BY <2>1, <2>4 DEF Keep
    <3>2. /\ f[n + 1] \in Seq(Mapping)
          /\ \A x : Has(f[n + 1], x) <=> Has(f[n], x) \/ x = c[n + 1]
          /\ OneEach(f[n + 1]) <=>
                OneEach(f[n]) /\ \A x : Has(f[n], x) =>
                                    NormalizeHost(x.host) # NormalizeHost(c[n + 1].host)
      BY <1>4, <2>1, <3>1, AppendKeeps
    <3>3. \A x : Has(f[n + 1], x) <=> Kept(x) /\ \E i \in 1..n + 1 : c[i] = x
      BY <1>4, <2>2, <2>4, <3>2
    <3> DEFINE Apart == \A i \in 1..n :
                          NormalizeHost(c[i].host) # NormalizeHost(c[n + 1].host)
    <3>4. OneEach(f[n + 1]) <=> One(n) /\ Apart
      BY <1>4, <2>4, <3>2
    <3>5. One(n + 1) <=> One(n) /\ Apart
      <4>1. \A i \in 1..n : i # n + 1
        BY <1>1
      <4> QED
        BY <2>2, <2>4, <4>1
    <3> HIDE DEF One, Apart
    <3> QED
      BY <3>2, <3>3, <3>4, <3>5
  <2> QED
    BY <2>3, <2>4
<1>5. Done(N)
  <2> HIDE DEF Done
  <2>1. 0 \in S /\ \A n \in 0..N - 1 : n \in S => n + 1 \in S
    BY <1>1, <1>3, <1>4
  <2> HIDE DEF S
  <2>2. N \in S
    BY <1>1, <2>1, Ascent
  <2> QED
    BY <2>2 DEF S
<1>6. One(N) <=> OneElse(c, NormalizeHost(host))
  BY <1>1 DEF OneElse
<1> HIDE DEF One
<1> QED
  BY <1>1, <1>2, <1>5, <1>6 DEF Has

\* A list has a mapping for a host at most once.
OneFor(c, g) == \A i, j \in Entries(c, g) : i = j

\* What is found for a host: the target of the mapping for it, if there is one.
LEMMA ByTable ==
    ASSUME NEW c \in Seq(Mapping), NEW g, OneFor(c, g)
    PROVE  /\ \A x : Has(c, x) /\ NormalizeHost(x.host) = g => Lookup(c, g) = x.target
           /\ (\A x : Has(c, x) => NormalizeHost(x.host) # g) => Lookup(c, g) = None
<1>1. ASSUME NEW x, Has(c, x), NormalizeHost(x.host) = g
      PROVE  Lookup(c, g) = x.target
  <2>1. PICK i \in DOMAIN c : c[i] = x
    BY <1>1 DEF Has
  <2>2. Entries(c, g) = {i} /\ i \in Int
    BY <1>1, <2>1 DEF Entries, OneFor
  <2>3. (CHOOSE j \in Entries(c, g) : \A k \in Entries(c, g) : k =< j) = i
    BY <2>2
  <2> QED
    BY <2>1, <2>2, <2>3 DEF Lookup
<1>2. ASSUME \A x : Has(c, x) => NormalizeHost(x.host) # g
      PROVE  Lookup(c, g) = None
  BY <1>2 DEF Lookup, Entries, Has
<1> QED
  BY <1>1, <1>2

\* A list without a double host has each at most once.
LEMMA OneEachOneFor ==
    ASSUME NEW c, NEW g, OneEach(c) \/ \E n : n # g /\ OneElse(c, n)
    PROVE  OneFor(c, g)
BY DEF OneEach, OneElse, OneFor, Entries

\* Lists with the same mapping for a host give the same answer.
LEMMA SameLookup ==
    ASSUME NEW c \in Seq(Mapping), NEW d \in Seq(Mapping), NEW g,
           OneFor(c, g), OneFor(d, g),
           \A x : NormalizeHost(x.host) = g => (Has(c, x) <=> Has(d, x))
    PROVE  Lookup(c, g) = Lookup(d, g)
<1>1. CASE \E x : Has(c, x) /\ NormalizeHost(x.host) = g
  BY <1>1, ByTable
<1>2. CASE ~ \E x : Has(c, x) /\ NormalizeHost(x.host) = g
  BY <1>2, ByTable
<1> QED
  BY <1>1, <1>2

\* Whatever spelling add is given, it leaves a list of mappings.
LEMMA UpsertType ==
    ASSUME NEW c \in Seq(Mapping), NEW h \in Host, NEW t \in Targets
    PROVE  Upsert(c, h, t) \in Seq(Mapping)
<1> DEFINE new == [host |-> NormalizeHost(h), target |-> t]
<1>1. new \in Mapping
  BY NormalForm DEF Mapping
<1>2. Append(c, new) \in Seq(Mapping)
  BY <1>1, AppendProperties
<1>3. [i \in DOMAIN c |-> IF i \in Entries(c, new.host) THEN new ELSE c[i]]
        \in Seq(Mapping)
  BY <1>1
<1> QED
  BY <1>2, <1>3 DEF Upsert

\* Add puts its mapping in the place of what there is for its host.  The list has
\* no double host then if it had none before, except that the mapping may have
\* come beside another one for what its host is normalized to.
LEMMA Upserted ==
    ASSUME NEW c \in Seq(Mapping), NEW h \in Host, NEW t \in Targets
    PROVE  LET n == NormalizeHost(h)
               k == NormalizeHost(n)
               new == [host |-> n, target |-> t]
           IN /\ \A x : Has(Upsert(c, h, t), x) <=>
                          x = new \/ (Has(c, x) /\ NormalizeHost(x.host) # n)
              /\ OneEach(Upsert(c, h, t)) <=>
                    OneElse(c, n) /\ OneFor(c, n) /\ (k # n => Entries(c, k) = {})
<1> DEFINE n == NormalizeHost(h)
           k == NormalizeHost(n)
           new == [host |-> n, target |-> t]
           norm(i) == NormalizeHost(c[i].host)
<1>1. new \in Mapping /\ new.host = n /\ NormalizeHost(new.host) = k
  BY NormalForm DEF Mapping
<1>2. DOMAIN c = 1..Len(c)
  OBVIOUS
<1> HIDE DEF new, n, k
<1>3. CASE Entries(c, n) = {}
  <2>1. Upsert(c, h, t) = Append(c, new)
    BY <1>3 DEF Upsert, new, n
  <2>2. \A x : Has(c, x) => NormalizeHost(x.host) # n
    BY <1>3 DEF Has, Entries
  <2>3. OneEach(c) <=> OneElse(c, n) /\ OneFor(c, n)
    BY <1>3 DEF OneEach, OneElse, OneFor, Entries
  <2>4. (\A x : Has(c, x) => NormalizeHost(x.host) # k) <=> (k # n => Entries(c, k) = {})
    BY <2>2 DEF Has, Entries
  <2> QED
    BY <1>1, <2>1, <2>2, <2>3, <2>4, AppendKeeps DEF new, n, k
<1>4. CASE Entries(c, n) # {}
  <2> DEFINE u == [j \in DOMAIN c |-> IF j \in Entries(c, n) THEN new ELSE c[j]]
  <2>1. Upsert(c, h, t) = u
    BY <1>4 DEF Upsert, new, n
  <2>2. PICK a \in DOMAIN c : a \in Entries(c, n)
    BY <1>4 DEF Entries
  <2>3. \A j : j \in Entries(c, n) <=> j \in DOMAIN c /\ norm(j) = n
    BY DEF Entries
  <2>4. \A j \in DOMAIN c : /\ j \in Entries(c, n) => u[j] = new
                            /\ j \notin Entries(c, n) => u[j] = c[j]
    OBVIOUS
  <2>5. DOMAIN u = DOMAIN c
    OBVIOUS
  <2> HIDE DEF u
  <2>6. \A x : Has(u, x) <=> x = new \/ (Has(c, x) /\ NormalizeHost(x.host) # n)
    BY <2>2, <2>3, <2>4, <2>5 DEF Has
  <2>7. \A j \in DOMAIN c : /\ j \in Entries(c, n) => NormalizeHost(u[j].host) = k
                            /\ j \notin Entries(c, n) => NormalizeHost(u[j].host) = norm(j)
    BY <1>1, <2>4
  <2>8. OneEach(u) => OneElse(c, n) /\ OneFor(c, n) /\ (k # n => Entries(c, k) = {})
    <3> SUFFICES ASSUME OneEach(u)
                 PROVE  OneElse(c, n) /\ OneFor(c, n) /\ (k # n => Entries(c, k) = {})
      OBVIOUS
    <3>1. \A i, j \in DOMAIN c :
            NormalizeHost(u[i].host) = NormalizeHost(u[j].host) => i = j
      BY <2>5 DEF OneEach
    <3>2. OneElse(c, n)
      BY <2>3, <2>7, <3>1 DEF OneElse
    <3>3. OneFor(c, n)
      BY <2>3, <2>7, <3>1 DEF OneFor
    <3>4. ASSUME k # n, NEW j \in Entries(c, k)
          PROVE  FALSE
      <4>1. j \in DOMAIN c /\ norm(j) = k /\ j \notin Entries(c, n)
        BY <3>4, <2>3 DEF Entries
      <4> QED
        BY <2>2, <2>7, <3>1, <4>1
    <3> QED
      BY <3>2, <3>3, <3>4
  <2>9. OneElse(c, n) /\ OneFor(c, n) /\ (k # n => Entries(c, k) = {}) => OneEach(u)
    <3> SUFFICES ASSUME OneElse(c, n), OneFor(c, n), k # n => Entries(c, k) = {},
                        NEW i \in DOMAIN c, NEW j \in DOMAIN c,
                        NormalizeHost(u[i].host) = NormalizeHost(u[j].host)
                 PROVE  i = j
      BY <2>5 DEF OneEach
    <3>1. \A l \in DOMAIN c : l \notin Entries(c, n) => norm(l) # k
      BY <2>3 DEF Entries
    <3>2. i \in Entries(c, n) <=> j \in Entries(c, n)
      BY <2>7, <3>1
    <3> QED
      BY <2>3, <2>7, <3>2 DEF OneElse, OneFor
  <2> QED
    BY <2>1, <2>6, <2>8, <2>9 DEF new, n, k
<1> QED
  BY <1>3, <1>4

-----------------------------------------------------------------------------
(* The web tier's table *)

\* A registered host is its own normal form, by the Go function too.
LEMMA RegisteredIsNormal ==
    ASSUME NEW h \in Registered
    PROVE  h \in Host /\ NormalizeHost(h) = h
<1>1. PICK g \in Host : h = normalizeHost(g) /\ HOSTNAME_RE(normalizeHost(g))
  BY DEF Registered
<1>2. h = NormalizeHost(g) /\ h.form = {}
  BY <1>1 DEF normalizeHost, NormalizeHost, HOSTNAME_RE
<1> QED
  BY <1>2, NormalForm, Idempotent

\* A table has no more rows than there are hosts.
LEMMA TableIsFinite == ASSUME NEW rows \in Tables PROVE IsFiniteSet(rows)
<1> DEFINE Position(m) == CHOOSE i \in DOMAIN Names : Names[i] = m.host.name
           T == (DOMAIN Names) \X SUBSET {"dot", "port"}
           e == [m \in rows |-> <<Position(m), m.host.form>>]
<1>1. \A m \in rows : m.host \in Host
  BY RegisteredIsNormal DEF Tables
<1>2. ASSUME NEW m \in rows
      PROVE  Position(m) \in DOMAIN Names /\ Names[Position(m)] = m.host.name
  <2>1. \E i \in DOMAIN Names : Names[i] = m.host.name
    BY <1>1 DEF Host, HostNames
  <2> QED
    BY <2>1
<1> HIDE DEF Position
<1>3. e \in [rows -> T]
  <2>1. ASSUME NEW m \in rows PROVE <<Position(m), m.host.form>> \in T
    <3>1. m.host.form \in SUBSET {"dot", "port"}
      BY <1>1 DEF Host
    <3> QED
      BY <1>2, <3>1
  <2> HIDE DEF T
  <2> QED
    BY <2>1
<1>4. ASSUME NEW m \in rows, NEW n \in rows, e[m] = e[n]
      PROVE  m = n
  <2>1. m.host.name = n.host.name /\ m.host.form = n.host.form
    BY <1>2, <1>4
  <2>2. m.host = n.host
    BY <1>1, <2>1 DEF Host
  <2> QED
    BY <2>2 DEF Tables
<1>5. e \in Injection(rows, T)
  BY <1>3, <1>4 DEF Injection, IsInjective
<1>6. IsFiniteSet(T)
  <2>1. DOMAIN Names = 1..Len(Names) /\ Len(Names) \in Nat
    BY MappingsAssumption DEF MappingsAssumption
  <2>2. IsFiniteSet(DOMAIN Names)
    BY <2>1, FS_Interval
  <2>3. IsFiniteSet({"dot", "port"})
    <3>1. IsFiniteSet({"dot"})
      BY FS_Singleton
    <3>2. IsFiniteSet({"dot"} \cup {"port"})
      BY <3>1, FS_AddElement
    <3>3. {"dot", "port"} = {"dot"} \cup {"port"}
      OBVIOUS
    <3> QED
      BY <3>2, <3>3
  <2>4. IsFiniteSet(SUBSET {"dot", "port"})
    BY <2>3, FS_SUBSET
  <2> QED
    BY <2>2, <2>4, FS_Product
<1> HIDE DEF e, T
<1> QED
  BY <1>5, <1>6, FS_Injection

\* The rows as a list.
LEMMA Listed ==
    ASSUME NEW rows \in Tables
    PROVE  SetToSeq(rows) \in Seq(Mapping)
<1> DEFINE n == Cardinality(rows)
           list == SetToSeq(rows)
<1>1. n \in Nat /\ ExistsBijection(1..n, rows)
  BY TableIsFinite, FS_CardinalityType
<1> HIDE DEF n
<1>2. \E f \in [1..n -> rows] : IsInjective(f)
  BY <1>1 DEF ExistsBijection, Bijection, Injection
<1>3. list \in [1..n -> rows] /\ IsInjective(list)
  BY <1>2 DEF SetToSeq, n
<1>4. \A m \in rows : m \in Mapping
  BY RegisteredIsNormal DEF Tables, Mapping
<1> HIDE DEF list
<1>5. list \in Seq(Mapping)
  BY <1>1, <1>3, <1>4
<1> QED
  BY <1>5 DEF list

-----------------------------------------------------------------------------
(* The config *)

\* Whatever a hand has written is a list of mappings.
LEMMA InitType == Init => TypeOK
<1> SUFFICES ASSUME Init PROVE config \in Seq(Mapping)
  BY DEF TypeOK
<1>1. ASSUME config \in Mapping \X Mapping PROVE config \in Seq(Mapping)
  <2>1. PICK a \in Mapping, b \in Mapping : config = <<a, b>>
    BY <1>1
  <2> QED
    BY <2>1
<1>2. ASSUME config \in {<<m>> : m \in Mapping} PROVE config \in Seq(Mapping)
  <2>1. PICK a \in Mapping : config = <<a>>
    BY <1>2
  <2> QED
    BY <2>1
<1>3. config = <<>> => config \in Seq(Mapping)
  OBVIOUS
<1> QED
  BY <1>1, <1>2, <1>3 DEF Init, Seeds

\* Whoever writes, writes one, in order.
LEMMA StepSorts ==
    ASSUME TypeOK, [Next]_vars
    PROVE  TypeOK' /\ (vars' # vars => Sorted(config'))
<1>1. ASSUME NEW c \in Seq(Mapping), config' = Marshal(c)
      PROVE  TypeOK' /\ Sorted(config')
  BY <1>1, Marshalled DEF TypeOK
<1>2. CASE cmdAdd
  <2>1. PICK h \in Host, t \in Targets : Save(Upsert(config, h, t))
    BY <1>2 DEF cmdAdd
  <2> QED
    BY <1>1, <2>1, UpsertType DEF TypeOK, Save
<1>3. CASE cmdRemove
  <2>1. PICK h \in Host : Save(Without(config, h))
    BY <1>3 DEF cmdRemove
  <2> QED
    BY <1>1, <2>1, Removed DEF TypeOK, Save
<1>4. CASE exportConfigToGCS
  <2>1. PICK rows \in Tables : config' = Marshal(SetToSeq(rows))
    BY <1>4 DEF exportConfigToGCS
  <2> QED
    BY <1>1, <2>1, Listed
<1>5. CASE UNCHANGED vars
  BY <1>5 DEF vars, TypeOK
<1> QED
  BY <1>2, <1>3, <1>4, <1>5 DEF Next

\* The config stays a list of mappings.
THEOREM Typing == Spec => []TypeOK
<1>1. TypeOK /\ [Next]_vars => TypeOK'
  BY StepSorts
<1> QED
  BY <1>1, InitType, PTL DEF Spec

\* Every list that is saved is sorted, from whatever list it was made.
THEOREM Order == Spec => SavesSorted
<1>1. TypeOK /\ [Next]_vars =>
        [\A i, j \in DOMAIN config' : i < j => Rank(config'[i]) =< Rank(config'[j])]_vars
  BY StepSorts DEF Sorted
<1> QED
  BY <1>1, Typing, PTL DEF Spec, SavesSorted

-----------------------------------------------------------------------------
(* The edits *)

\* A mapping in which Validate finds nothing wrong by itself.
Fine(m) == Qualified(NormalizeHost(m.host)) /\ m.target \notin Loose

\* Validate, by what a list has.
LEMMA Validated ==
    ASSUME NEW c
    PROVE  Validate(c) <=> OneEach(c) /\ \A x : Has(c, x) => Fine(x)
BY DEF Validate, OneEach, Has, Fine

\* What is left by remove is in order if the list is, but for the host.
LEMMA RestIsFine ==
    ASSUME NEW c \in Seq(Mapping), NEW h
    PROVE  Validate(Without(c, h)) <=>
             /\ OneElse(c, NormalizeHost(h))
             /\ \A x : Has(c, x) /\ NormalizeHost(x.host) # NormalizeHost(h) => Fine(x)
BY Removed, Validated

\* After remove the host has no mapping of its own and the others have what they
\* had.
LEMMA RemoveEdit ==
    ASSUME TypeOK, NEW h \in Host, Validate(Without(config, h))
    PROVE  LET removed == Marshal(Without(config, h)) IN
           /\ Lookup(removed, NormalizeHost(h)) = None
           /\ \A g : g # NormalizeHost(h) => Lookup(removed, g) = Lookup(config, g)
<1> DEFINE removed == Marshal(Without(config, h))
<1>1. /\ removed \in Seq(Mapping) /\ OneEach(removed)
      /\ \A x : Has(removed, x) <=>
                  Has(config, x) /\ NormalizeHost(x.host) # NormalizeHost(h)
  BY Removed, Marshalled, Validated DEF TypeOK
<1>2. OneElse(config, NormalizeHost(h)) /\ config \in Seq(Mapping)
  BY RestIsFine DEF TypeOK
<1> HIDE DEF removed
<1>3. Lookup(removed, NormalizeHost(h)) = None
  BY <1>1, ByTable, OneEachOneFor
<1>4. ASSUME NEW g, g # NormalizeHost(h)
      PROVE  Lookup(removed, g) = Lookup(config, g)
  <2>1. \A x : NormalizeHost(x.host) = g => (Has(removed, x) <=> Has(config, x))
    BY <1>1, <1>4
  <2>2. OneFor(removed, g) /\ OneFor(config, g)
    BY <1>1, <1>2, <1>4, OneEachOneFor
  <2> QED
    BY <1>1, <1>2, <2>1, <2>2, SameLookup
<1> QED
  BY <1>3, <1>4 DEF removed

\* Add is refused for the rest of the list, for its host or target, for a host
\* that is double, or for one that it would make so.
LEMMA AddRefused ==
    ASSUME TypeOK, NEW h \in Host, NEW t \in Targets
    PROVE  LET n == NormalizeHost(h)
               k == NormalizeHost(n)
           IN  Validate(Upsert(config, h, t)) <=>
                 /\ Validate(Without(config, h))
                 /\ Qualified(k) /\ t \notin Loose
                 /\ OneFor(config, n)
                 /\ k # n => Entries(config, k) = {}
<1> DEFINE n == NormalizeHost(h)
           k == NormalizeHost(n)
           new == [host |-> n, target |-> t]
           added == Upsert(config, h, t)
<1>1. /\ \A x : Has(added, x) <=> x = new \/ (Has(config, x) /\ NormalizeHost(x.host) # n)
      /\ OneEach(added) <=>
            OneElse(config, n) /\ OneFor(config, n) /\ (k # n => Entries(config, k) = {})
  BY Upserted DEF TypeOK
<1>2. Fine(new) <=> Qualified(k) /\ t \notin Loose
  BY DEF Fine
<1> HIDE DEF new, added
<1>3. Validate(added) <=> OneEach(added) /\ \A x : Has(added, x) => Fine(x)
  BY Validated
<1>4. Validate(Without(config, h)) <=>
        /\ OneElse(config, n)
        /\ \A x : Has(config, x) /\ NormalizeHost(x.host) # n => Fine(x)
  BY RestIsFine DEF TypeOK
<1> HIDE DEF n, k
<1>5. (\A x : Has(added, x) => Fine(x)) <=>
        Fine(new) /\ \A x : Has(config, x) /\ NormalizeHost(x.host) # n => Fine(x)
  BY <1>1
<1>6. Validate(added) <=>
        /\ Validate(Without(config, h))
        /\ Qualified(k) /\ t \notin Loose
        /\ OneFor(config, n)
        /\ k # n => Entries(config, k) = {}
  BY <1>1, <1>2, <1>3, <1>4, <1>5
<1> QED
  BY <1>6 DEF added, n, k

\* An add that Save lets through gives its host the target; the others have what
\* they had.
LEMMA AddEdit ==
    ASSUME TypeOK, NEW h \in Host, NEW t \in Targets, Validate(Upsert(config, h, t))
    PROVE  LET n == NormalizeHost(h)
               k == NormalizeHost(n)
               saved == Marshal(Upsert(config, h, t))
           IN /\ Lookup(saved, k) = t /\ Resolve(saved, k) = t
              /\ k # n => Lookup(saved, n) = None
              /\ \A g : g \notin {k, n} => Lookup(saved, g) = Lookup(config, g)
<1> DEFINE n == NormalizeHost(h)
           k == NormalizeHost(n)
           new == [host |-> n, target |-> t]
           added == Upsert(config, h, t)
           saved == Marshal(added)
<1>1. /\ \A x : Has(added, x) <=> x = new \/ (Has(config, x) /\ NormalizeHost(x.host) # n)
      /\ OneEach(added) /\ OneElse(config, n) /\ config \in Seq(Mapping)
  BY Upserted, Validated DEF TypeOK
<1>2. saved \in Seq(Mapping) /\ OneEach(saved) /\ \A x : Has(saved, x) <=> Has(added, x)
  BY <1>1, UpsertType, Marshalled
<1>3. NormalizeHost(new.host) = k /\ new.target = t
  OBVIOUS
<1>4. NormalizeHost(k) = k
  <2>1. n \in Host /\ n.form # {"dot", "port"}
    BY NormalForm
  <2>2. k.form = {}
    BY <2>1, NormalForm DEF HalfUndone
  <2> QED
    BY <2>1, <2>2, Idempotent
<1> HIDE DEF saved, added, new, n, k
<1>5. Lookup(saved, k) = t
  <2>1. Has(saved, new) /\ OneFor(saved, k)
    BY <1>1, <1>2, OneEachOneFor
  <2> QED
    BY <1>2, <1>3, <2>1, ByTable
<1>6. Resolve(saved, k) = t
  BY <1>4, <1>5, MappingsAssumption DEF Resolve, MappingsAssumption
<1>7. ASSUME k # n PROVE Lookup(saved, n) = None
  <2>1. \A x : Has(saved, x) => NormalizeHost(x.host) # n
    BY <1>1, <1>2, <1>3, <1>7
  <2> QED
    BY <1>2, <2>1, ByTable, OneEachOneFor
<1>8. ASSUME NEW g, g \notin {k, n}
      PROVE  Lookup(saved, g) = Lookup(config, g)
  <2>1. \A x : NormalizeHost(x.host) = g => (Has(saved, x) <=> Has(config, x))
    BY <1>1, <1>2, <1>3, <1>8
  <2>2. OneFor(saved, g) /\ OneFor(config, g)
    BY <1>1, <1>2, <1>8, OneEachOneFor
  <2> QED
    BY <1>1, <1>2, <2>1, <2>2, SameLookup
<1> QED
  BY <1>5, <1>6, <1>7, <1>8 DEF saved, added, n, k

\* On a list of any length, with hosts in any spelling, double or without a dot,
\* an edit does what it does to a table of hosts, or Save refuses it for one of
\* the reasons stated.
THEOREM TableEdits == Spec => []EditsAreTableEdits
<1>1. ASSUME TypeOK
      PROVE  EditsAreTableEdits
  BY <1>1, RemoveEdit, AddRefused, AddEdit DEF EditsAreTableEdits, OneFor
<1>2. TypeOK => EditsAreTableEdits
  BY <1>1
<1> QED
  BY <1>2, Typing, PTL

=============================================================================
