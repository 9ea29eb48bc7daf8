------------------------------ MODULE Mappings ------------------------------
(***************************************************************************)
(* The config model of internal/mappings as the operators' commands use    *)
(* it: a list of mappings whose hosts may be spelled in several ways, the  *)
(* edits, the lookup, the validation and the sort of the saved list; what  *)
(* the web tier registers a typed host as, and its export of the table;    *)
(* and the DNS records that both tiers derive from a host, each with its   *)
(* own list of public suffixes.                                            *)
(*                                                                         *)
(* Nobody validates what a Load returns, so the list may be any that a     *)
(* hand has written: a host twice in two spellings, one without a dot.     *)
(* Cli and Service leave the spellings and the order of the list out; the  *)
(* properties here say what that costs.                                    *)
(***************************************************************************)
EXTENDS Integers, FiniteSets, SequencesExt

CONSTANTS
    Names,      \* host names as sequences of labels, in the order of their text
    Targets,    \* targets of mappings
    Loose,      \* targets that Validate refuses and the web tier does not
    Icann,      \* suffixes both lists of public suffixes have
    Private,    \* suffixes of private registries, in the Go list only
    Canonical,  \* the canonical host of the service
    None        \* no target, no canonical host

ASSUME MappingsAssumption ==
    /\ Names \in Seq(Range(Names))
    /\ Loose \subseteq Targets
    /\ None \notin Targets

VARIABLE config   \* the mappings in the config file or object

vars == <<config>>

HostNames == {Names[i] : i \in DOMAIN Names}

\* A host as text: a name, and what follows it.
Host == [name : HostNames, form : SUBSET {"dot", "port"}]
Mapping == [host : Host, target : Targets]

-----------------------------------------------------------------------------
(* mappings.go *)

\* A dot that trails the text, and what follows a colon.
StripDot(h) == IF "port" \in h.form THEN h ELSE [h EXCEPT !.form = {}]
StripPort(h) == [h EXCEPT !.form = @ \ {"port"}]

\* The dot goes before the port does: "a.com.:443" keeps its dot.
NormalizeHost(h) == StripPort(StripDot(h))

\* The mappings index() finds for a normalized host; the last one counts.
Entries(c, h) == {i \in DOMAIN c : NormalizeHost(c[i].host) = h}
Lookup(c, h) ==
    IF Entries(c, h) = {} THEN None
    ELSE c[CHOOSE i \in Entries(c, h) : \A j \in Entries(c, h) : j =< i].target

Bare(h) == [h EXCEPT !.name = Tail(@)]

\* A host without a mapping inherits that of its name without "www.".
Resolve(c, host) ==
    LET h == NormalizeHost(host) IN
    IF Lookup(c, h) = None /\ Head(h.name) = "www" THEN Lookup(c, Bare(h)) ELSE Lookup(c, h)

\* The text has a dot, inside or behind the name.
Qualified(h) == Len(h.name) > 1 \/ "dot" \in h.form

Validate(c) ==
    /\ \A i \in DOMAIN c : Qualified(NormalizeHost(c[i].host)) /\ c[i].target \notin Loose
    /\ \A i, j \in DOMAIN c :
         NormalizeHost(c[i].host) = NormalizeHost(c[j].host) => i = j

\* Mutated forms of Upsert: spellings are compared; the host is its own target.
UpsertSpelled(c, host, t) ==
    LET new == [host |-> NormalizeHost(host), target |-> t] IN
    IF \A i \in DOMAIN c : c[i].host # new.host THEN Append(c, new)
    ELSE [i \in DOMAIN c |-> IF c[i].host = new.host THEN new ELSE c[i]]
UpsertEcho(c, host, t) ==
    LET new == [host |-> NormalizeHost(host), target |-> host] IN
    IF Entries(c, new.host) = {} THEN Append(c, new)
    ELSE [i \in DOMAIN c |-> IF i \in Entries(c, new.host) THEN new ELSE c[i]]

Upsert(c, host, t) ==
    LET new == [host |-> NormalizeHost(host), target |-> t] IN
    IF Entries(c, new.host) = {} THEN Append(c, new)
    ELSE [i \in DOMAIN c |-> IF i \in Entries(c, new.host) THEN new ELSE c[i]]

Without(c, host) ==
    FoldLeft(LAMBDA out, m :
               IF NormalizeHost(m.host) = NormalizeHost(host) THEN out ELSE Append(out, m),
             <<>>, c)

-----------------------------------------------------------------------------
(* store.go: Marshal writes the mappings sorted by host *)

\* A name with a dot behind it comes right after the name.
Rank(m) ==
    LET h == NormalizeHost(m.host) IN
    2 * (CHOOSE i \in DOMAIN Names : Names[i] = h.name) + IF h.form = {} THEN 0 ELSE 1

\* Mutated form of Place: the first mapping is never passed.
PlaceAfterFirst(sorted, m) ==
    LET k == Cardinality({i \in DOMAIN sorted : i = 1 \/ Rank(sorted[i]) =< Rank(m)}) IN
    SubSeq(sorted, 1, k) \o <<m>> \o SubSeq(sorted, k + 1, Len(sorted))

\* One round of the insertion sort: a mapping moves past those greater than it.
Place(sorted, m) ==
    LET k == Cardinality({i \in DOMAIN sorted : Rank(sorted[i]) =< Rank(m)}) IN
    SubSeq(sorted, 1, k) \o <<m>> \o SubSeq(sorted, k + 1, Len(sorted))

Marshal(c) == FoldLeft(Place, <<>>, c)

-----------------------------------------------------------------------------
(* domains.ts and gcs-export.ts: what the web tier registers and publishes *)

\* Mutated form of normalizeHost: the port goes first.
normalizeHostPortFirst(h) == StripDot(StripPort(h))

normalizeHost(h) == StripPort(StripDot(h))

\* registerSchema accepts a typed host that normalizes to a fully-qualified name.
HOSTNAME_RE(h) == h.form = {} /\ Qualified(h)
Registered == {normalizeHost(h) : h \in {g \in Host : HOSTNAME_RE(normalizeHost(g))}}

\* The rows by hostname; a destination may be any that new URL() parses.
Tables == {rows \in SUBSET [host : Registered, target : Targets] :
             \A m, n \in rows : m.host = n.host => m = n}

-----------------------------------------------------------------------------
(* dns.go and domains.ts *)

LastLabels(name, k) == SubSeq(name, Len(name) - k + 1, Len(name))

\* External: the registrable domain of a name by a list of public suffixes, as
\* a set, empty for a name that is a suffix itself; a last label that no rule
\* names is a suffix.
Registrable(name, suffixes) ==
    LET k == CHOOSE n \in 1..Len(name) :
               /\ n = 1 \/ LastLabels(name, n) \in suffixes
               /\ \A m \in n + 1..Len(name) : LastLabels(name, m) \notin suffixes
    IN IF k < Len(name) THEN {LastLabels(name, k + 1)} ELSE {}

Record(type, name, value, optional) ==
    [type |-> type, name |-> name, value |-> value, optional |-> optional]

\* Mutated form of IsApex: labels are counted.
IsApexByCount(name) == Len(name) = 2

\* Go: a name the list cannot classify is an apex if it has two labels.
EffectiveTLDPlusOne(name) == Registrable(name, Icann \cup Private)
IsApex(name) ==
    \/ EffectiveTLDPlusOne(name) = {name}
    \/ EffectiveTLDPlusOne(name) = {} /\ Len(name) = 2
ApexOf(name) ==
    IF EffectiveTLDPlusOne(name) = {} THEN name
    ELSE CHOOSE apex \in EffectiveTLDPlusOne(name) : TRUE

DNSInstructions(name, canonicalHost) ==
    IF IsApex(name)
    THEN <<Record("A", name, "static IP", FALSE),
           Record("CNAME", <<"www">> \o name, name, TRUE)>>
    ELSE IF canonicalHost # None
    THEN <<Record("CNAME", name, canonicalHost, FALSE)>>
    ELSE <<Record("CNAME", name, ApexOf(name), FALSE)>>

\* TypeScript: such a name is none.
getDomain(name) == Registrable(name, Icann)
isApex(name) == getDomain(name) = {name}
apexOf(name) ==
    IF getDomain(name) = {} THEN name ELSE CHOOSE apex \in getDomain(name) : TRUE

dnsInstructions(name, canonicalHost) ==
    IF isApex(name)
    THEN <<Record("A", name, "static IP", FALSE),
           Record("CNAME", <<"www">> \o name, name, TRUE)>>
    ELSE IF canonicalHost # None
    THEN <<Record("CNAME", name, canonicalHost, FALSE)>>
    ELSE <<Record("CNAME", name, apexOf(name), FALSE)>>

-----------------------------------------------------------------------------
(* The commands, one at a time, on a list that somebody may have written *)

Seeds == {<<>>} \cup {<<m>> : m \in Mapping} \cup (Mapping \X Mapping)

Init == config \in Seeds

Save(c) == Validate(c) /\ config' = Marshal(c)

cmdAdd == \E h \in Host, t \in Targets : Save(Upsert(config, h, t))

cmdRemove ==
    \E h \in Host :
        /\ Entries(config, NormalizeHost(h)) # {}
        /\ Save(Without(config, h))

\* The web tier writes the table's rows, sorted, over whatever is there.  They
\* come in any order, but as their hosts differ, one list of them is sorted.
exportConfigToGCS == \E rows \in Tables : config' = Marshal(SetToSeq(rows))

Next == cmdAdd \/ cmdRemove \/ exportConfigToGCS

Spec == Init /\ [][Next]_vars

-----------------------------------------------------------------------------
(* Properties *)

\* The config is a list of mappings.
TypeOK == config \in Seq(Mapping)

\* Whatever list a hand has left and however hosts are spelled in it and on the
\* command line, an edit that Save lets through does to the list what it does to
\* a table of hosts: after remove the host has no mapping, after add it resolves
\* to its target, and every other host's own mapping is as before.  And Save lets
\* an add through exactly if nothing is wrong with the rest of the list, the host
\* or the target, and the host is there at most once; it refuses to mend a host
\* that is there in two spellings, which a remove does.  Of "a.com.:443", which
\* is normalized to "a.com." and, when it is read again, to "a.com", it is the
\* latter that add gives a mapping, and only if there is none.
EditsAreTableEdits ==
    \A h \in Host :
        LET n == NormalizeHost(h)
            k == NormalizeHost(n)
            rest == Without(config, h)
            Kept(saved, edited) ==
                \A g \in {NormalizeHost(f) : f \in Host} \ edited :
                    Lookup(saved, g) = Lookup(config, g)
        IN /\ Validate(rest) =>
                  Lookup(Marshal(rest), n) = None /\ Kept(Marshal(rest), {n})
           /\ \A t \in Targets :
                LET added == Upsert(config, h, t) IN
                /\ Validate(added) <=>
                     /\ Validate(rest)
                     /\ Qualified(k) /\ t \notin Loose
                     /\ \A i, j \in Entries(config, n) : i = j
                     /\ k # n => Entries(config, k) = {}
                /\ Validate(added) =>
                     /\ Resolve(Marshal(added), k) = t
                     /\ k # n => Lookup(Marshal(added), n) = None
                     /\ Kept(Marshal(added), {k, n})

\* Whatever spelling a tenant registers a host under, the redirect tier and the
\* operators' commands find under that spelling what the web tier's row is about:
\* the two normal forms, each written for itself, differ on no host that the
\* registration accepts.
RegisteredAsTyped ==
    \A h \in Host :
        HOSTNAME_RE(normalizeHost(h)) =>
            /\ Entries(config, NormalizeHost(h)) = Entries(config, normalizeHost(h))
            /\ Resolve(config, h) = Resolve(config, normalizeHost(h))

\* "stable, pretty JSON (sorted by host)": every list that a command or the web
\* tier saves is sorted, whatever list was there.
SavesSorted ==
    [][\A i, j \in DOMAIN config' : i < j => Rank(config'[i]) =< Rank(config'[j])]_vars

\* The two tiers tell a tenant the same records ("mirrors the web app's
\* dnsInstructions() exactly") for every mapped host below a suffix that both
\* lists agree on.
RecordsAgree ==
    \A i \in DOMAIN config, canonicalHost \in {Canonical, None} :
        LET name == NormalizeHost(config[i].host).name IN
        getDomain(name) # {} /\ EffectiveTLDPlusOne(name) = getDomain(name)
            => DNSInstructions(name, canonicalHost) = dnsInstructions(name, canonicalHost)
=============================================================================
