------------------------------ MODULE Service ------------------------------
(***************************************************************************)
(* The service: the web tier (Registry), the operators' CLI (Cli) and the  *)
(* redirect servers (Live) around the one config object they share.  The   *)
(* web tier and the CLI write it, without knowing of each other; every     *)
(* server reads it at intervals; certificates are obtained by servers for  *)
(* the hosts in the snapshot they have, and collected by the web tier.     *)
(***************************************************************************)
EXTENDS Integers, FiniteSets

CONSTANTS
    Reqs, Users, Hosts, Dests, Ids, None, Faults,   \* Registry
    Operators, Loose,                               \* Cli
    Servers, NoConfig,                              \* Live
    Seeds,                                          \* configs the object may start with
    Bare(_)                                         \* a host without a leading "www."

VARIABLES
    object,                                               \* shared
    domain, certs, phase, job, body, reply, overlap,      \* Registry
    stage, order, draft, overtaken,                       \* Cli
    run, cfg, got                                         \* Live

webVars == <<domain, certs, phase, job, body, reply, overlap>>
cliVars == <<stage, order, draft, overtaken>>
liveVars == <<run, cfg, got>>
vars == <<object, webVars, cliVars, liveVars>>

Configs == SUBSET [host : Hosts, target : Dests]
AnyOrder(v, w) == TRUE

\* Both writers write hosts in their normal form and with a dot; lists that a
\* hand has written, and commands for other hosts, are in Cli.
Itself(h) == h

Web == INSTANCE Registry
Ops == INSTANCE Cli WITH Texts <- Hosts, NormalizeHost <- Itself, Dotless <- {}
Tier == INSTANCE Live WITH Contents <- Configs, Newer <- AnyOrder

\* Somebody may have seeded the object; the table starts empty.
Init ==
    /\ object \in Seeds
    /\ domain = {} /\ certs = {} /\ overlap = {}
    /\ phase = [r \in Reqs |-> "idle"]
    /\ job = [r \in Reqs |-> Web!NoJob]
    /\ body = [r \in Reqs |-> {}]
    /\ reply = Web!Silent
    /\ stage = [o \in Operators |-> "idle"]
    /\ order = [o \in Operators |-> {}]
    /\ draft = [o \in Operators |-> {}]
    /\ overtaken = {}
    /\ run = [s \in Servers |-> "down"]
    /\ cfg = [s \in Servers |-> NoConfig]
    /\ got = [s \in Servers |-> NoConfig]

\* A request's step; a change of the object overtakes the commands under way.
RequestStep(r) ==
    /\ Web!Post(r) \/ Web!Put(r) \/ Web!Delete(r) \/ Web!Step(r) \/ Web!Abort(r)
    /\ UNCHANGED <<stage, order, draft, liveVars>>
    /\ Ops!Overtake

CommandStep(o) == Ops!OperatorStep(o) /\ UNCHANGED <<webVars, liveVars>>

ServerStep(s) == Tier!ServerStep(s) /\ UNCHANGED <<webVars, cliVars>>

\* Config.IsRegistered: a host's own mapping, or the one its "www." inherits.
IsRegistered(config, h) == \E m \in config : m.host \in {h, Bare(h)}

\* A handshake for a host that is registered in a server's snapshot (the Decide
\* function of cmd/redirectd) and has no certificate gets it one.
Handshake(s, h) ==
    /\ cfg[s] # NoConfig
    /\ IsRegistered(cfg[s], h)
    /\ h \notin certs
    /\ Web!IssueCert(h)
    /\ UNCHANGED <<cliVars, liveVars>>

Next ==
    \/ \E r \in Reqs : RequestStep(r)
    \/ \E o \in Operators : CommandStep(o)
    \/ \E s \in Servers : ServerStep(s) \/ \E h \in Hosts : Handshake(s, h)

Spec == Init /\ [][Next]_vars

(***************************************************************************)
(* A request that has begun goes on; servers reload as in Live.            *)
(***************************************************************************)
Fairness ==
    /\ \A r \in Reqs : WF_vars(Web!Step(r) /\ RequestStep(r))
    /\ \A s \in Servers :
         /\ WF_vars(Tier!Start(s) /\ ServerStep(s))
         /\ WF_vars(Tier!Tick(s) /\ ServerStep(s))
         /\ SF_vars(Tier!Load(s) /\ ServerStep(s))
         /\ SF_vars(Tier!Install(s) /\ ServerStep(s))

FairSpec == Spec /\ Fairness

-----------------------------------------------------------------------------
(* Properties *)

Idle == Web!Active = {} /\ \A o \in Operators : stage[o] = "idle"

\* When the registry comes to rest, every server ends up serving exactly what
\* is registered: a redirect that was added or changed is live, one that was
\* removed is not, without a restart.
ServersConverge ==
    <>[]Idle =>
        \A s \in Servers :
            /\ <>[](cfg[s] \in {Web!Export(domain), NoConfig})
            /\ []<>(cfg[s] = Web!Export(domain))

\* Who can take down a redirect that is and stays registered: an operator who
\* asks for it, a command whose Load was overtaken, or an export that overlapped
\* another request.  No other write of either writer drops it.
ClaimedNotDropped ==
    [][\A m \in object :
         \/ Ops!On(object', m.host) # {}
         \/ ~(Web!Claimed(m.host) /\ \E row \in domain' : row.hostname = m.host)
         \/ \E o \in Operators :
              /\ Ops!Writes(o)
              /\ o \in overtaken \/ [command |-> "remove", host |-> m.host] \in order[o]
         \/ \E r \in overlap : phase[r] = "save"]_vars

\* A removed host's certificate does not "linger after the redirect is deleted"
\* (gcs-export.ts): with nothing in flight and every server up to date, no host
\* that does not resolve has one.
NoLingeringCert ==
    Idle /\ (\A s \in Servers : cfg[s] = object)
        => \A h \in certs : IsRegistered(object, h)
=============================================================================
