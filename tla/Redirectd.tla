----------------------------- MODULE Redirectd -----------------------------
(***************************************************************************)
(* A redirectd process from start to end: run in cmd/redirectd/main.go.    *)
(*                                                                         *)
(* Besides the goroutine of Live, which loads and reloads the config, run  *)
(* has one per listener (HTTPS and HTTP), which reports its end on errCh,  *)
(* and itself waits for the first such report or for a signal.  A report   *)
(* ends the process.  A signal cancels the context of the loads and shuts  *)
(* the two servers down, one after the other, within one deadline.  The    *)
(* container is restarted, whatever ended it.                              *)
(***************************************************************************)
EXTENDS Live, Integers

CONSTANT Intervals   \* values of RELOAD_INTERVAL

ASSUME IntervalsAssumption == Intervals \subseteq Int

VARIABLES
    interval,   \* RELOAD_INTERVAL of the deployment
    main,       \* where run is in each process
    hung,       \* whether the load under way will never return by itself
    signalled,  \* whether the process has been told to stop
    listener,   \* what each server's goroutine is doing
    errCh,      \* listeners whose end has been reported
    calls,      \* servers with a request under way
    late,       \* whether the deadline of the shutdown has passed
    exit        \* how the process last ended

procVars == <<main, hung, signalled, listener, errCh, calls, late, exit>>
allVars == <<vars, interval, procVars>>

Listeners == {"https", "http"}

Places == {"down", "load", "launch", "select", "drain https", "drain http"}

NewProcess == [l \in Listeners |-> "off"]

RInit ==
    /\ Init
    /\ interval \in Intervals
    /\ main = [s \in Servers |-> "down"]
    /\ hung = [s \in Servers |-> FALSE]
    /\ signalled = [s \in Servers |-> FALSE]
    /\ listener = [s \in Servers |-> NewProcess]
    /\ errCh = [s \in Servers |-> {}]
    /\ calls = [s \in Servers |-> {}]
    /\ late = [s \in Servers |-> FALSE]
    /\ exit = [s \in Servers |-> "none"]

At(s, place) == main[s] = place

Go(s, place) == main' = [main EXCEPT ![s] = place]

\* The process is gone, with its goroutines and connections.
Exit(s, status) ==
    /\ Go(s, "down")
    /\ hung' = [hung EXCEPT ![s] = FALSE]
    /\ signalled' = [signalled EXCEPT ![s] = FALSE]
    /\ listener' = [listener EXCEPT ![s] = NewProcess]
    /\ errCh' = [errCh EXCEPT ![s] = {}]
    /\ calls' = [calls EXCEPT ![s] = {}]
    /\ late' = [late EXCEPT ![s] = FALSE]
    /\ exit' = [exit EXCEPT ![s] = status]
    /\ UNCHANGED interval

\* run returns or panics, or the process is killed, whatever Watch is doing.
End(s, status) == Stop(s) /\ Exit(s, status)

-----------------------------------------------------------------------------
(* Loading: NewLive and the goroutine of Watch *)

\* Mutated form of StartUp: run goes on while the first config is loaded.
StartUpAtOnce(s) ==
    /\ Start(s)
    /\ Go(s, "launch")
    /\ exit' = [exit EXCEPT ![s] = "none"]
    /\ UNCHANGED <<interval, hung, signalled, listener, errCh, calls, late>>

StartUp(s) ==
    /\ Start(s)
    /\ Go(s, "load")
    /\ exit' = [exit EXCEPT ![s] = "none"]
    /\ UNCHANGED <<interval, hung, signalled, listener, errCh, calls, late>>

TickerFires(s) ==
    /\ interval > 0
    /\ Tick(s)
    /\ UNCHANGED <<interval, procVars>>

\* A ticker needs a positive interval: NewTicker panics, and the process ends.
WatchPanics(s) ==
    /\ interval =< 0
    /\ run[s] = "watching"
    /\ End(s, "panic")

ReadConfig(s) ==
    /\ ~hung[s]
    /\ Load(s)
    /\ UNCHANGED <<interval, procVars>>

\* External: the bucket never answers.  Neither context has a deadline.
Hang(s) ==
    /\ Faults
    /\ run[s] = "loading"
    /\ hung' = [hung EXCEPT ![s] = TRUE]
    /\ UNCHANGED <<vars, interval, main, signalled, listener, errCh, calls, late, exit>>

\* A load fails, or returns since a signal cancelled its context; the first one
\* takes the process with it.
ReadFails(s) ==
    /\ hung[s] => signalled[s]
    /\ LoadFails(s)
    /\ IF At(s, "load")
       THEN Exit(s, "error")
       ELSE /\ hung' = [hung EXCEPT ![s] = FALSE]
            /\ UNCHANGED <<interval, main, signalled, listener, errCh, calls, late, exit>>

\* The first config lets run go on.
StoreConfig(s) ==
    /\ Install(s)
    /\ IF At(s, "load") THEN Go(s, "launch") ELSE UNCHANGED main
    /\ UNCHANGED <<interval, hung, signalled, listener, errCh, calls, late, exit>>

-----------------------------------------------------------------------------
(* Serving *)

\* The TLS stack and the handler are built, and the listeners' goroutines begin.
Launch(s) ==
    /\ At(s, "launch")
    /\ Go(s, "select")
    /\ listener' = [listener EXCEPT ![s] = [l \in Listeners |-> "binding"]]
    /\ UNCHANGED <<vars, interval, hung, signalled, errCh, calls, late, exit>>

\* server.Build or NewAdminProxy returns an error.
LaunchFails(s) == Faults /\ At(s, "launch") /\ End(s, "error")

Bind(s, l) ==
    /\ listener[s][l] = "binding"
    /\ listener' = [listener EXCEPT ![s][l] = "open"]
    /\ UNCHANGED <<vars, interval, main, hung, signalled, errCh, calls, late, exit>>

\* The port is taken, or Accept fails: the goroutine reports it and ends.
ListenerFails(s, l) ==
    /\ Faults
    /\ listener[s][l] \in {"binding", "open"}
    /\ listener' = [listener EXCEPT ![s][l] = "shut"]
    /\ errCh' = [errCh EXCEPT ![s] = @ \cup {l}]
    /\ UNCHANGED <<vars, interval, main, hung, signalled, calls, late, exit>>

\* A request comes in; it may take any time.
Request(s, l) ==
    /\ listener[s][l] = "open"
    /\ calls' = [calls EXCEPT ![s] = @ \cup {l}]
    /\ UNCHANGED <<vars, interval, main, hung, signalled, listener, errCh, late, exit>>

Respond(s, l) ==
    /\ l \in calls[s]
    /\ calls' = [calls EXCEPT ![s] = @ \ {l}]
    /\ UNCHANGED <<vars, interval, main, hung, signalled, listener, errCh, late, exit>>

\* Mutated form of Report: a report that is no "server closed" is only logged.
ReportLogged(s) ==
    /\ At(s, "select")
    /\ errCh[s] # {}
    /\ errCh' = [errCh EXCEPT ![s] = {}]
    /\ UNCHANGED <<vars, interval, main, hung, signalled, listener, calls, late, exit>>

\* case err := <-errCh
Report(s) ==
    /\ At(s, "select")
    /\ errCh[s] # {}
    /\ End(s, "error")

-----------------------------------------------------------------------------
(* Stopping *)

\* SIGTERM or SIGINT: the context is cancelled.
Signal(s) ==
    /\ main[s] # "down"
    /\ signalled' = [signalled EXCEPT ![s] = TRUE]
    /\ UNCHANGED <<vars, interval, main, hung, listener, errCh, calls, late, exit>>

\* Shutdown closes the server's listener, now or as soon as it is bound.
Close(s, l) == listener' = [listener EXCEPT ![s][l] = "shut"]

\* case <-ctx.Done(), and the beginning of httpsSrv.Shutdown.
BeginShutdown(s) ==
    /\ At(s, "select")
    /\ signalled[s]
    /\ Go(s, "drain https")
    /\ Close(s, "https")
    /\ UNCHANGED <<vars, interval, hung, signalled, errCh, calls, late, exit>>

\* Mutated forms of Drained: the listeners are closed, and nothing waited for;
\* without a deadline.
DrainedAtOnce(s, l) == TRUE
DrainedForGood(s, l) == l \notin calls[s]

\* Shutdown returns: no request is left, or the deadline has passed.
Drained(s, l) == l \notin calls[s] \/ late[s]

\* httpsSrv.Shutdown returns, and httpSrv.Shutdown begins.
ShutdownHttp(s) ==
    /\ At(s, "drain https")
    /\ Drained(s, "https")
    /\ Go(s, "drain http")
    /\ Close(s, "http")
    /\ UNCHANGED <<vars, interval, hung, signalled, errCh, calls, late, exit>>

\* httpSrv.Shutdown returns, and so does run.
FinishShutdown(s) ==
    /\ At(s, "drain http")
    /\ Drained(s, "http")
    /\ End(s, "ok")

\* The ten seconds that both shutdowns have are over.
Deadline(s) ==
    /\ main[s] \in {"drain https", "drain http"}
    /\ late' = [late EXCEPT ![s] = TRUE]
    /\ UNCHANGED <<vars, interval, main, hung, signalled, listener, errCh, calls, exit>>

\* External: the process or its VM dies.
Crash(s) == End(s, "killed")

-----------------------------------------------------------------------------
LoadStep(s) ==
    StartUp(s) \/ TickerFires(s) \/ WatchPanics(s) \/ ReadConfig(s) \/ Hang(s)
        \/ ReadFails(s) \/ StoreConfig(s)

ServeStep(s) ==
    \/ Launch(s) \/ LaunchFails(s) \/ Report(s)
    \/ \E l \in Listeners : Bind(s, l) \/ ListenerFails(s, l) \/ Request(s, l) \/ Respond(s, l)

StopStep(s) ==
    Signal(s) \/ BeginShutdown(s) \/ ShutdownHttp(s) \/ FinishShutdown(s)
        \/ Deadline(s) \/ Crash(s)

RNext ==
    \/ Write /\ UNCHANGED <<interval, procVars>>
    \/ \E s \in Servers : LoadStep(s) \/ ServeStep(s) \/ StopStep(s)

RSpec == RInit /\ [][RNext]_allVars

(***************************************************************************)
(* The container is restarted, the ticker fires and goroutines run; time   *)
(* passes; a load that is tried for ever does not fail or hang every time, *)
(* and is not cut off by the end of the process every time.  Nothing makes *)
(* a request end.                                                          *)
(***************************************************************************)
ProcessFairness(s) ==
    /\ WF_allVars(StartUp(s))
    /\ WF_allVars(TickerFires(s) \/ WatchPanics(s))
    /\ SF_allVars(ReadConfig(s))
    /\ SF_allVars(StoreConfig(s))
    /\ WF_allVars(signalled[s] /\ ReadFails(s))
    /\ WF_allVars(Launch(s))
    /\ WF_allVars(Report(s) \/ BeginShutdown(s))
    /\ WF_allVars(ShutdownHttp(s))
    /\ WF_allVars(FinishShutdown(s))
    /\ WF_allVars(Deadline(s))

FairRSpec == RSpec /\ \A s \in Servers : ProcessFairness(s)

-----------------------------------------------------------------------------
(* Properties *)

\* Every variable has its type; and what the process serves with is there: a
\* listener that takes requests, and a request, have a config to look up, as
\* l.cfg.Load() assumes when it dereferences the snapshot.
ProcessTypes ==
    /\ interval \in Intervals
    /\ main \in [Servers -> Places]
    /\ hung \in [Servers -> BOOLEAN]
    /\ signalled \in [Servers -> BOOLEAN]
    /\ listener \in [Servers -> [Listeners -> {"off", "binding", "open", "shut"}]]
    /\ errCh \in [Servers -> SUBSET Listeners]
    /\ calls \in [Servers -> SUBSET Listeners]
    /\ late \in [Servers -> BOOLEAN]
    /\ exit \in [Servers -> {"none", "ok", "error", "panic", "killed"}]

ProcessOK ==
    /\ ProcessTypes
    /\ \A s \in Servers :
         /\ main[s] = "down" <=> run[s] = "down"
         /\ \A l \in Listeners :
              listener[s][l] = "open" \/ l \in calls[s] => cfg[s] # NoConfig

\* A process that was told to stop and says it did (exit code 0) has answered
\* every request it took, on either port, unless the ten seconds were over.
GracefulStop ==
    [][\A s \in Servers :
         exit'[s] = "ok" /\ exit[s] # "ok" => calls[s] = {} \/ late[s]]_allVars

\* A process that was told to stop is gone sooner or later, whatever its
\* requests, its listeners, its first load or a hanging load do.
SignalEnds == \A s \in Servers : signalled[s] ~> main[s] = "down"

\* No process lives on with a part of it dead: one listener, or the reloads of a
\* RELOAD_INTERVAL that is not positive.
NoHalfLife ==
    \A s \in Servers :
        (errCh[s] # {} \/ (run[s] = "watching" /\ interval =< 0)) ~> main[s] = "down"

\* When the object stays as it is, every process serves it sooner or later, and
\* from then on whenever it serves: "new mappings take effect without a
\* restart" (live.go).  Not so one whose load never returns, until it ends.
CatchesUp ==
    \A s \in Servers :
        interval > 0 /\ []<>~hung[s] =>
            /\ []<>(cfg[s] = object)
            /\ <>[](cfg[s] \in {object, NoConfig})
=============================================================================
