-------------------------------- MODULE Live --------------------------------
(***************************************************************************)
(* The hot-reloading view of the config object in redirectd:               *)
(* internal/redirect/live.go, started by run in cmd/redirectd/main.go.     *)
(*                                                                         *)
(* NewLive loads the object once and the process exits if that fails (its  *)
(* container is restarted).  Then Watch reloads it at every tick, one      *)
(* reload at a time; a failed reload keeps the last good snapshot.  The    *)
(* read of the object and the store of the snapshot are separate steps:    *)
(* the object may be written in between.                                   *)
(***************************************************************************)
CONSTANTS
    Servers,       \* redirectd processes, each restarted when it stops
    Contents,      \* configs the object may hold
    Newer(_, _),   \* Newer(v, w): content v may be written after content w
    NoConfig,      \* no snapshot
    Faults         \* whether loads may fail

ASSUME LiveAssumption ==
    /\ Faults \in BOOLEAN
    /\ NoConfig \notin Contents

\* Being written later is an order.
Transitive ==
    \A u, v, w \in Contents : Newer(u, v) /\ Newer(v, w) => Newer(u, w)

VARIABLES
    object,   \* content of the config object
    run,      \* what each process is doing about its config
    cfg,      \* the snapshot Resolve and IsRegistered consult
    got       \* a config read from the object and not yet stored

liveVars == <<run, cfg, got>>
vars == <<object, liveVars>>

RunStates == {"down", "watching", "loading", "loaded"}

Init ==
    /\ object \in Contents
    /\ run = [s \in Servers |-> "down"]
    /\ cfg = [s \in Servers |-> NoConfig]
    /\ got = [s \in Servers |-> NoConfig]

-----------------------------------------------------------------------------
(* Mutated forms of the actions below *)

\* A failed reload leaves no snapshot.
LoadFailsForgets(s) ==
    /\ Faults
    /\ run[s] = "loading"
    /\ run' = [run EXCEPT ![s] = IF cfg[s] = NoConfig THEN "down" ELSE "watching"]
    /\ cfg' = [cfg EXCEPT ![s] = NoConfig]
    /\ UNCHANGED <<object, got>>

\* A failed reload stores the zero Config that Load returned with its error.
LoadFailsStoresZero(s) ==
    /\ Faults
    /\ run[s] = "loading"
    /\ run' = [run EXCEPT ![s] = IF cfg[s] = NoConfig THEN "down" ELSE "watching"]
    /\ cfg' = IF cfg[s] = NoConfig
              THEN cfg ELSE [cfg EXCEPT ![s] = CHOOSE v \in Contents : TRUE]
    /\ UNCHANGED <<object, got>>

\* Only the first load is stored.
InstallOnce(s) ==
    /\ run[s] = "loaded"
    /\ cfg' = IF cfg[s] = NoConfig THEN [cfg EXCEPT ![s] = got[s]] ELSE cfg
    /\ got' = [got EXCEPT ![s] = NoConfig]
    /\ run' = [run EXCEPT ![s] = "watching"]
    /\ UNCHANGED object

-----------------------------------------------------------------------------
\* External: one of the writers of the object replaces it.
Write ==
    /\ \E v \in Contents : Newer(v, object) /\ object' = v
    /\ UNCHANGED liveVars

\* run calls NewLive.
Start(s) ==
    /\ run[s] = "down"
    /\ run' = [run EXCEPT ![s] = "loading"]
    /\ UNCHANGED <<object, cfg, got>>

\* The ticker fires; ticks during a reload are dropped.
Tick(s) ==
    /\ run[s] = "watching"
    /\ run' = [run EXCEPT ![s] = "loading"]
    /\ UNCHANGED <<object, cfg, got>>

\* The bucket serves store.Load the object as it is now.
Load(s) ==
    /\ run[s] = "loading"
    /\ got' = [got EXCEPT ![s] = object]
    /\ run' = [run EXCEPT ![s] = "loaded"]
    /\ UNCHANGED <<object, cfg>>

\* store.Load fails: NewLive returns the error and the process exits; Reload
\* keeps the snapshot.
LoadFails(s) ==
    /\ Faults
    /\ run[s] = "loading"
    /\ run' = [run EXCEPT ![s] = IF cfg[s] = NoConfig THEN "down" ELSE "watching"]
    /\ UNCHANGED <<object, cfg, got>>

\* l.cfg.Store(&cfg)
Install(s) ==
    /\ run[s] = "loaded"
    /\ cfg' = [cfg EXCEPT ![s] = got[s]]
    /\ got' = [got EXCEPT ![s] = NoConfig]
    /\ run' = [run EXCEPT ![s] = "watching"]
    /\ UNCHANGED object

\* A signal, a failed listener, a crash or a reset of the VM.
Stop(s) ==
    /\ run[s] # "down"
    /\ run' = [run EXCEPT ![s] = "down"]
    /\ cfg' = [cfg EXCEPT ![s] = NoConfig]
    /\ got' = [got EXCEPT ![s] = NoConfig]
    /\ UNCHANGED object

ServerStep(s) ==
    Start(s) \/ Tick(s) \/ Load(s) \/ LoadFails(s) \/ Install(s) \/ Stop(s)

Next == Write \/ \E s \in Servers : ServerStep(s)

Spec == Init /\ [][Next]_vars

-----------------------------------------------------------------------------
(* Properties *)

\* Every variable has its type, and a process has a snapshot exactly when its
\* first load is behind it.
TypeOK ==
    /\ object \in Contents
    /\ run \in [Servers -> RunStates]
    /\ cfg \in [Servers -> Contents \cup {NoConfig}]
    /\ got \in [Servers -> Contents \cup {NoConfig}]
    /\ \A s \in Servers :
         /\ got[s] # NoConfig <=> run[s] = "loaded"
         /\ run[s] = "watching" => cfg[s] # NoConfig
         /\ run[s] = "down" => cfg[s] = NoConfig

\* A process never goes back to an older config than the one it serves, and
\* never serves none once it has one: failed and slow reloads included.
NeverBack ==
    [][\A s \in Servers :
         cfg[s] # NoConfig /\ run'[s] # "down"
             => \/ cfg'[s] = cfg[s]
                \/ cfg'[s] # NoConfig /\ Newer(cfg'[s], cfg[s])]_vars
=============================================================================
