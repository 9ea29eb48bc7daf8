-------------------------------- MODULE Cli --------------------------------
(***************************************************************************)
(* The operators' edits of the config object: the add and remove commands  *)
(* of cmd/f3redirect over internal/mappings (Upsert, Remove, Validate and  *)
(* the stores' Load and Save).  Each loads the whole config, edits it and  *)
(* writes it back, with nothing that keeps others out in between.          *)
(*                                                                         *)
(* Nobody validates a config that is loaded: the web tier writes targets   *)
(* that Validate refuses, and the object may start as any list a hand has  *)
(* written, with a host in two spellings or without a dot.  A command      *)
(* names its host by the normal form, which is its own normal form; that   *)
(* of a host typed with a dot before a port is not, and is in Mappings.    *)
(***************************************************************************)
EXTENDS FiniteSets

CONSTANTS
    Operators,   \* f3redirect processes running at once
    Hosts,       \* normalized hosts
    Dotless,     \* those that are no fully-qualified domains
    Texts,       \* hosts as written in a config, normalized or not
    NormalizeHost(_),
    Dests,       \* targets
    Loose,       \* targets that the web tier accepts and Validate does not
    Seeds,       \* configs that a hand has written
    Faults       \* whether loads and saves may fail

ASSUME CliAssumption ==
    /\ Hosts \subseteq Texts
    /\ \A x \in Texts : NormalizeHost(x) \in Hosts
    /\ \A h \in Hosts : NormalizeHost(h) = h
    /\ Loose \subseteq Dests
    /\ Seeds \subseteq SUBSET [host : Texts, target : Dests]
    /\ Faults \in BOOLEAN

\* A list may have a host twice in the same letters: one more spelling of it.
ASSUME SeedsAssumption ==
    \A config \in Seeds : \A m, n \in config : m.host = n.host => m = n

VARIABLES
    object,      \* the mappings in the config object
    stage,       \* whether a process is between its Load and its Save
    order,       \* the command of each such process, as a set of at most one
    draft,       \* the config it has edited and is about to save
    overtaken    \* history: processes whose Load the object has changed since

cliVars == <<stage, order, draft, overtaken>>
vars == <<object, cliVars>>

Mapping == [host : Texts, target : Dests]
Order == [command : {"add"}, host : Hosts, target : Dests]
            \cup [command : {"remove"}, host : Hosts]

\* No host twice, whatever its spelling.
HostsUnique(config) ==
    \A m, n \in config : NormalizeHost(m.host) = NormalizeHost(n.host) => m = n

\* What the web tier exports: fully-qualified hosts, each once, any targets.
Exported == {config \in SUBSET [host : Hosts \ Dotless, target : Dests] : HostsUnique(config)}

Init ==
    /\ object \in Seeds
    /\ stage = [o \in Operators |-> "idle"]
    /\ order = [o \in Operators |-> {}]
    /\ draft = [o \in Operators |-> {}]
    /\ overtaken = {}

-----------------------------------------------------------------------------
(* internal/mappings, on sets of mappings: the order of the list is layout *)

On(config, h) == {m \in config : NormalizeHost(m.host) = h}

\* Mutated forms of Upsert: arguments swapped; other mappings lost; the host's
\* own mapping kept beside the new one.
UpsertSwapped(config, h, t) ==
    (config \ On(config, h)) \cup {[host |-> t, target |-> h]}
UpsertAlone(config, h, t) == {[host |-> h, target |-> t]}
UpsertBeside(config, h, t) == config \cup {[host |-> h, target |-> t]}

\* Every mapping of the host gets the target, or there is a new one.  The code
\* rewrites the spelling too; here it stays, to tell the mappings of a host apart.
Upsert(config, h, t) ==
    (config \ On(config, h)) \cup
        {[host |-> x, target |-> t] :
            x \in IF On(config, h) = {} THEN {h} ELSE {m.host : m \in On(config, h)}}

Without(config, h) == config \ On(config, h)

\* Every host a fully-qualified one and there once, every target an absolute
\* http(s) URL with a host.
Validate(config) ==
    /\ HostsUnique(config)
    /\ \A m \in config : NormalizeHost(m.host) \notin Dotless /\ m.target \notin Loose

-----------------------------------------------------------------------------
(* The commands *)

Edit(o, c, config) ==
    /\ stage[o] = "idle"
    /\ stage' = [stage EXCEPT ![o] = "save"]
    /\ order' = [order EXCEPT ![o] = {c}]
    /\ draft' = [draft EXCEPT ![o] = config]
    /\ UNCHANGED <<object, overtaken>>

\* cmdAdd up to its Save.
Add(o) ==
    \E h \in Hosts, t \in Dests :
        Edit(o, [command |-> "add", host |-> h, target |-> t], Upsert(object, h, t))

\* cmdRemove up to its Save; a host without a mapping ends it here.
Remove(o) ==
    \E h \in Hosts :
        /\ On(object, h) # {}
        /\ Edit(o, [command |-> "remove", host |-> h], Without(object, h))

\* Those who have loaded an object that is no longer there.
Overtake ==
    overtaken' = IF object' = object
                 THEN {o \in overtaken : stage'[o] = "save"}
                 ELSE {o \in Operators : stage'[o] = "save"}

Finish(o) ==
    /\ stage' = [stage EXCEPT ![o] = "idle"]
    /\ order' = [order EXCEPT ![o] = {}]
    /\ draft' = [draft EXCEPT ![o] = {}]
    /\ Overtake

\* Save validates the config, then writes the object unconditionally.
Save(o) ==
    /\ stage[o] = "save"
    /\ Validate(draft[o])
    /\ object' = draft[o]
    /\ Finish(o)

SaveRefused(o) ==
    /\ stage[o] = "save"
    /\ ~Validate(draft[o])
    /\ UNCHANGED object
    /\ Finish(o)

\* The write fails or its reply is lost, or the process is killed.
SaveFails(o) ==
    /\ Faults
    /\ stage[o] = "save"
    /\ \/ UNCHANGED object
       \/ Validate(draft[o]) /\ object' = draft[o]
    /\ Finish(o)

OperatorStep(o) == Add(o) \/ Remove(o) \/ Save(o) \/ SaveRefused(o) \/ SaveFails(o)

\* External: the web tier writes its own config.
WebWrite ==
    /\ object' \in Exported
    /\ UNCHANGED <<stage, order, draft>>
    /\ Overtake

Next == WebWrite \/ \E o \in Operators : OperatorStep(o)

Spec == Init /\ [][Next]_vars

-----------------------------------------------------------------------------
(* Properties *)

\* Every variable has its type.
TypeOK ==
    /\ object \subseteq Mapping
    /\ stage \in [Operators -> {"idle", "save"}]
    /\ order \in [Operators -> SUBSET Order]
    /\ draft \in [Operators -> SUBSET Mapping]
    /\ overtaken \subseteq Operators

\* The process whose save, if any, makes this step.
Writes(o) == stage[o] = "save" /\ stage'[o] = "idle"

\* A command whose Load has not been overtaken changes the object at its own
\* host only; so what it drops or brings back elsewhere is always an edit made
\* between its Load and its Save, by another command or the web tier.
EditsOwnHost ==
    [][\A o \in Operators \ overtaken, c \in Order :
         Writes(o) /\ c \in order[o] =>
             \A h \in Hosts \ {c.host} : On(object', h) = On(object, h)]_vars

\* What is wrong with a command on a config: the rest of the config, which the
\* command does not touch; and of an add its host or target, or that the host is
\* there more than once, which it does not mend.
Faulty(config, c) ==
    \/ ~Validate(config \ On(config, c.host))
    \/ c.command = "add" /\ (c.host \in Dotless \/ c.target \in Loose)
    \/ c.command = "add" /\ ~HostsUnique(On(config, c.host))

\* A command that nobody has overtaken is refused or takes effect by what is in
\* the object then and there: one bad mapping, be it the web tier's or a hand's,
\* refuses every command but those for its own host, a remove mends whatever is
\* wrong with its host, and nothing that commands have done refuses another.
RefusedWhenFaulty ==
    [][\A o \in Operators \ overtaken, c \in Order :
         c \in order[o] =>
             /\ SaveRefused(o) => Faulty(object, c)
             /\ Writes(o) /\ object' # object => ~Faulty(object, c)]_vars
=============================================================================
