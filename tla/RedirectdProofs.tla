-------------------------- MODULE RedirectdProofs ---------------------------
(***************************************************************************)
(* Proofs about Live and Redirectd, for any number of processes, configs   *)
(* and reload intervals: a process never goes back to an older config,     *)
(* serves with a config only, and exits with code 0 only when its requests *)
(* are answered or its time is over.                                       *)
(***************************************************************************)
EXTENDS Redirectd, TLAPS

(***************************************************************************)
(* Live                                                                    *)
(***************************************************************************)

\* Every variable keeps its type; a process watches only with a snapshot.
THEOREM Typing == Spec => []TypeOK
<1> USE LiveAssumption DEF TypeOK, RunStates
<1>1. Init => TypeOK
  BY DEF Init
<1>2. TypeOK /\ [Next]_vars => TypeOK'
  <2> SUFFICES ASSUME TypeOK, [Next]_vars PROVE TypeOK'
    OBVIOUS
  <2>1. CASE Write
    BY <2>1 DEF Write, liveVars
  <2>2. ASSUME NEW s \in Servers, Start(s) \/ Tick(s) PROVE TypeOK'
    BY <2>2 DEF Start, Tick
  <2>3. ASSUME NEW s \in Servers, Load(s) \/ LoadFails(s) PROVE TypeOK'
    BY <2>3 DEF Load, LoadFails
  <2>4. ASSUME NEW s \in Servers, Install(s) \/ Stop(s) PROVE TypeOK'
    BY <2>4 DEF Install, Stop
  <2>5. CASE UNCHANGED vars
    BY <2>5 DEF vars, liveVars
  <2> QED
    BY <2>1, <2>2, <2>3, <2>4, <2>5 DEF Next, ServerStep
<1> QED
  BY <1>1, <1>2, PTL DEF Spec

\* v is w or was written after it.
Since(v, w) == v = w \/ Newer(v, w)

\* What a process has read is no older than what it serves, and the object is
\* no older than either.
InOrder ==
    \A s \in Servers :
        /\ cfg[s] # NoConfig => Since(object, cfg[s])
        /\ got[s] # NoConfig => Since(object, got[s])
        /\ cfg[s] # NoConfig /\ got[s] # NoConfig => Since(got[s], cfg[s])

\* No process ever goes back to an older config or loses the one it has, when
\* contents are written in an order.
THEOREM Forward == Transitive => (Spec => NeverBack)
<1> SUFFICES ASSUME Transitive PROVE Spec => NeverBack
  OBVIOUS
<1> USE LiveAssumption DEF TypeOK
<1>1. Init => InOrder
  BY DEF Init, InOrder
<1>2. TypeOK /\ TypeOK' /\ InOrder /\ [Next]_vars => InOrder'
  <2> SUFFICES ASSUME TypeOK, TypeOK', InOrder, [Next]_vars PROVE InOrder'
    OBVIOUS
  <2>1. CASE Write
    BY <2>1 DEF Write, liveVars, InOrder, Since, Transitive
  <2>2. ASSUME NEW s \in Servers, Start(s) \/ Tick(s) \/ LoadFails(s) PROVE InOrder'
    BY <2>2 DEF Start, Tick, LoadFails, InOrder
  <2>3. ASSUME NEW s \in Servers, Load(s) PROVE InOrder'
    BY <2>3 DEF Load, InOrder, Since
  <2>4. ASSUME NEW s \in Servers, Install(s) \/ Stop(s) PROVE InOrder'
    BY <2>4 DEF Install, Stop, InOrder, Since
  <2>5. CASE UNCHANGED vars
    BY <2>5 DEF vars, liveVars, InOrder
  <2> QED
    BY <2>1, <2>2, <2>3, <2>4, <2>5 DEF Next, ServerStep
<1>3. TypeOK /\ TypeOK' /\ InOrder /\ [Next]_vars =>
        \A s \in Servers :
            cfg[s] # NoConfig /\ run'[s] # "down"
                => \/ cfg'[s] = cfg[s]
                   \/ cfg'[s] # NoConfig /\ Newer(cfg'[s], cfg[s])
  <2> SUFFICES ASSUME TypeOK, TypeOK', InOrder, [Next]_vars, NEW s \in Servers,
                      cfg[s] # NoConfig, run'[s] # "down"
               PROVE  \/ cfg'[s] = cfg[s]
                      \/ cfg'[s] # NoConfig /\ Newer(cfg'[s], cfg[s])
    OBVIOUS
  <2>1. CASE UNCHANGED cfg
    BY <2>1
  <2>2. ASSUME NEW q \in Servers, Install(q) \/ Stop(q)
        PROVE  \/ cfg'[s] = cfg[s]
               \/ cfg'[s] # NoConfig /\ Newer(cfg'[s], cfg[s])
    BY <2>2 DEF Install, Stop, InOrder, Since
  <2> QED
    BY <2>1, <2>2 DEF Next, ServerStep, Write, Start, Tick, Load, LoadFails, liveVars, vars
<1> QED
  BY <1>1, <1>2, <1>3, Typing, PTL DEF Spec, NeverBack

-----------------------------------------------------------------------------
(***************************************************************************)
(* Redirectd                                                               *)
(***************************************************************************)

-----------------------------------------------------------------------------
(* What a process does to its config *)

\* The end of a process is a stop of its server, and a new process.
LEMMA EndStep ==
    ASSUME NEW s \in Servers, NEW status, End(s, status)
    PROVE  Stop(s) /\ Exit(s, status)
BY DEF End

\* Every step is a step of Live or leaves its variables alone.
LEMMA LiveStep == [RNext]_allVars => [Next]_vars
<1> SUFFICES ASSUME [RNext]_allVars PROVE [Next]_vars
  OBVIOUS
<1>1. CASE Write
  BY <1>1 DEF Next
<1>2. ASSUME NEW s \in Servers, LoadStep(s) PROVE [Next]_vars
  BY <1>2 DEF LoadStep, StartUp, TickerFires, WatchPanics, ReadConfig, Hang, ReadFails,
              StoreConfig, End, Next, ServerStep
<1>3. ASSUME NEW s \in Servers, ServeStep(s) PROVE [Next]_vars
  BY <1>3 DEF ServeStep, Launch, LaunchFails, Report, Bind, ListenerFails, Request,
              Respond, End, Next, ServerStep
<1>4. ASSUME NEW s \in Servers, StopStep(s) PROVE [Next]_vars
  BY <1>4 DEF StopStep, Signal, BeginShutdown, ShutdownHttp, FinishShutdown, Deadline,
              Crash, End, Next, ServerStep
<1>5. CASE UNCHANGED allVars
  BY <1>5 DEF allVars
<1> QED
  BY <1>1, <1>2, <1>3, <1>4, <1>5 DEF RNext

\* So what is proved of Live holds of the processes.
LEMMA LiveProcess == RSpec => Spec
<1>1. RInit => Init
  BY DEF RInit
<1> QED
  BY <1>1, LiveStep, PTL DEF RSpec, Spec

LEMMA ServerTypes == RSpec => []TypeOK
BY LiveProcess, Typing, PTL

\* No process goes back, whatever its goroutines, signals and failures do.
THEOREM ProcessForward == Transitive => (RSpec => NeverBack)
<1> SUFFICES ASSUME Transitive PROVE RSpec => NeverBack
  OBVIOUS
<1>1. Spec => NeverBack
  BY Forward
<1> QED
  BY <1>1, LiveProcess, PTL

-----------------------------------------------------------------------------
(* Where the process is, what it serves and with which config *)

Draining == {"drain https", "drain http"}

\* The first config is loaded before anything is served, and a server that has
\* been shut down takes no more requests; run is past the first shutdown when
\* its requests are answered or the time is over.
Placed(s) ==
    /\ main[s] = "down" <=> run[s] = "down"
    /\ main[s] = "load" <=> run[s] # "down" /\ cfg[s] = NoConfig
    /\ main[s] \in {"down", "load", "launch"} =>
         /\ listener[s] = NewProcess
         /\ calls[s] = {}
    /\ main[s] \in Draining => listener[s]["https"] = "shut"
    /\ main[s] = "drain http" =>
         /\ listener[s]["http"] = "shut"
         /\ "https" \notin calls[s] \/ late[s]

InPlace == \A s \in Servers : Placed(s)

IInv == TypeOK /\ ProcessTypes /\ InPlace

LEMMA InitIInv == RInit => IInv
BY LiveAssumption DEF RInit, Init, IInv, TypeOK, ProcessTypes, InPlace, Placed, RunStates,
   Places, Listeners, NewProcess, Draining

\* A step of one process leaves the others where they are.
Untouched(s) ==
    \A p \in Servers \ {s} :
        /\ run'[p] = run[p] /\ cfg'[p] = cfg[p] /\ main'[p] = main[p]
        /\ listener'[p] = listener[p] /\ calls'[p] = calls[p] /\ late'[p] = late[p]

LEMMA OthersPlaced ==
    ASSUME InPlace, NEW s \in Servers, Untouched(s), Placed(s)'
    PROVE  InPlace'
<1>1. ASSUME NEW p \in Servers \ {s} PROVE Placed(p)'
  <2>1. Placed(p)
    BY DEF InPlace
  <2> QED
    BY <2>1 DEF Placed, Untouched
<1> QED
  BY <1>1 DEF InPlace

\* What becomes of a listener.
LEMMA SetListener ==
    ASSUME ProcessTypes, NEW s \in Servers, NEW l \in Listeners,
           NEW place \in {"off", "binding", "open", "shut"},
           listener' = [listener EXCEPT ![s][l] = place]
    PROVE  /\ listener' \in [Servers -> [Listeners -> {"off", "binding", "open", "shut"}]]
           /\ \A p \in Servers \ {s} : listener'[p] = listener[p]
           /\ listener'[s][l] = place
           /\ \A k \in Listeners \ {l} : listener'[s][k] = listener[s][k]
BY DEF ProcessTypes

\* An exit leaves a process as it was before its start.
LEMMA ExitStep ==
    ASSUME IInv, NEW s \in Servers, Stop(s),
           NEW status \in {"ok", "error", "panic", "killed"}, Exit(s, status)
    PROVE  ProcessTypes' /\ InPlace'
<1> USE DEF IInv
<1>1. ProcessTypes'
  BY DEF ProcessTypes, Exit, Go, Places, NewProcess, Listeners
<1>2. Untouched(s)
  BY DEF TypeOK, ProcessTypes, Stop, Exit, Go, Untouched
<1>3. Placed(s)'
  BY DEF TypeOK, ProcessTypes, Placed, Stop, Exit, Go, Draining
<1> QED
  BY <1>1, <1>2, <1>3, OthersPlaced

\* The steps of loading.
LEMMA LoadStepKeeps ==
    ASSUME IInv, TypeOK', NEW s \in Servers, LoadStep(s)
    PROVE  ProcessTypes' /\ InPlace'
<1> USE LiveAssumption DEF IInv
<1>0. Placed(s)
  BY DEF InPlace
<1>1. CASE StartUp(s)
  <2>1. ProcessTypes'
    BY <1>1 DEF StartUp, Start, Go, Places, ProcessTypes
  <2>2. Untouched(s)
    BY <1>0, <1>1 DEF StartUp, Start, Go, Places, Draining, TypeOK, ProcessTypes, Untouched
  <2>3. Placed(s)'
    BY <1>0, <1>1 DEF StartUp, Start, Go, Places, Draining, TypeOK, ProcessTypes, Placed
  <2> QED
    BY <2>1, <2>2, <2>3, OthersPlaced
<1>2. CASE TickerFires(s)
  <2>1. ProcessTypes'
    BY <1>0, <1>2 DEF TickerFires, Tick, procVars, ProcessTypes
  <2>2. Untouched(s)
    BY <1>0, <1>2 DEF TickerFires, Tick, procVars, TypeOK, ProcessTypes, Untouched
  <2>3. Placed(s)'
    BY <1>0, <1>2 DEF TickerFires, Tick, procVars, TypeOK, ProcessTypes, Placed
  <2> QED
    BY <2>1, <2>2, <2>3, OthersPlaced
<1>3. CASE WatchPanics(s)
  BY <1>3, EndStep, ExitStep DEF WatchPanics
<1>4. CASE ReadConfig(s)
  <2>1. ProcessTypes'
    BY <1>0, <1>4 DEF ReadConfig, Load, procVars, ProcessTypes
  <2>2. Untouched(s)
    BY <1>0, <1>4 DEF ReadConfig, Load, procVars, TypeOK, ProcessTypes, Untouched
  <2>3. Placed(s)'
    BY <1>0, <1>4 DEF ReadConfig, Load, procVars, TypeOK, ProcessTypes, Placed
  <2> QED
    BY <2>1, <2>2, <2>3, OthersPlaced
<1>5. CASE Hang(s)
  <2>1. ProcessTypes'
    BY <1>0, <1>5 DEF Hang, vars, liveVars, ProcessTypes
  <2>2. Untouched(s)
    BY <1>0, <1>5 DEF Hang, vars, liveVars, TypeOK, ProcessTypes, Untouched
  <2>3. Placed(s)'
    BY <1>0, <1>5 DEF Hang, vars, liveVars, TypeOK, ProcessTypes, Placed
  <2> QED
    BY <2>1, <2>2, <2>3, OthersPlaced
<1>6. CASE ReadFails(s) /\ At(s, "load")
  <2>1. Stop(s)
    BY <1>0, <1>6 DEF ReadFails, LoadFails, At, Stop, TypeOK, Placed
  <2> QED
    BY <1>6, <2>1, ExitStep DEF ReadFails
<1>7. CASE ReadFails(s) /\ ~At(s, "load")
  <2>1. ProcessTypes'
    BY <1>0, <1>7 DEF ReadFails, LoadFails, At, ProcessTypes
  <2>2. Untouched(s)
    BY <1>0, <1>7 DEF ReadFails, LoadFails, At, TypeOK, ProcessTypes, Untouched
  <2>3. Placed(s)'
    BY <1>0, <1>7 DEF ReadFails, LoadFails, At, TypeOK, ProcessTypes, Placed
  <2> QED
    BY <2>1, <2>2, <2>3, OthersPlaced
<1>8. CASE StoreConfig(s)
  <2>1. /\ run[s] = "loaded" /\ run' = [run EXCEPT ![s] = "watching"]
        /\ cfg' = [cfg EXCEPT ![s] = got[s]]
        /\ UNCHANGED <<interval, hung, signalled, listener, errCh, calls, late, exit>>
    BY <1>8 DEF StoreConfig, Install
  <2>2. main' = [main EXCEPT ![s] = IF main[s] = "load" THEN "launch" ELSE main[s]]
    BY <1>8 DEF StoreConfig, At, Go, ProcessTypes
  <2>3. ProcessTypes'
    BY <2>1, <2>2 DEF ProcessTypes, Places
  <2>4. Untouched(s)
    BY <2>1, <2>2 DEF TypeOK, ProcessTypes, Untouched
  <2>5. got[s] # NoConfig
    BY <2>1 DEF TypeOK
  <2>6. /\ run'[s] = "watching" /\ cfg'[s] # NoConfig
        /\ main'[s] = IF main[s] = "load" THEN "launch" ELSE main[s]
    BY <2>1, <2>2, <2>5 DEF TypeOK, ProcessTypes
  <2>7. Placed(s)'
    BY <1>0, <2>1, <2>6 DEF Placed, Draining
  <2> QED
    BY <2>3, <2>4, <2>7, OthersPlaced
<1> QED
  BY <1>1, <1>2, <1>3, <1>4, <1>5, <1>6, <1>7, <1>8 DEF LoadStep

\* The steps of serving.
LEMMA ServeStepKeeps ==
    ASSUME IInv, NEW s \in Servers, ServeStep(s)
    PROVE  ProcessTypes' /\ InPlace'
<1> USE DEF IInv
<1>0. Placed(s)
  BY DEF InPlace
<1>1. CASE Launch(s)
  <2>1. ProcessTypes'
    BY <1>0, <1>1 DEF Launch, At, Go, vars, liveVars, Places, Listeners, Draining, ProcessTypes
  <2>2. Untouched(s)
    BY <1>0, <1>1 DEF Launch, At, Go, vars, liveVars, Places, Listeners, Draining, TypeOK,
                      ProcessTypes, Untouched
  <2>3. Placed(s)'
    BY <1>0, <1>1 DEF Launch, At, Go, vars, liveVars, Places, Listeners, Draining, TypeOK,
                      ProcessTypes, Placed
  <2> QED
    BY <2>1, <2>2, <2>3, OthersPlaced
<1>2. CASE LaunchFails(s)
  BY <1>2, EndStep, ExitStep DEF LaunchFails
<1>3. CASE Report(s)
  BY <1>3, EndStep, ExitStep DEF Report
<1>4. ASSUME NEW l \in Listeners, Bind(s, l) \/ ListenerFails(s, l)
      PROVE  ProcessTypes' /\ InPlace'
  <2>1. PICK place \in {"open", "shut"} : listener' = [listener EXCEPT ![s][l] = place]
    BY <1>4 DEF Bind, ListenerFails
  <2>2. /\ listener[s][l] \in {"binding", "open"}
        /\ UNCHANGED <<vars, interval, main, hung, signalled, calls, late, exit>>
    BY <1>4 DEF Bind, ListenerFails
  <2>3. errCh' \in [Servers -> SUBSET Listeners]
    BY <1>4 DEF Bind, ListenerFails, ProcessTypes
  <2>4. ProcessTypes'
    BY <2>1, <2>2, <2>3, SetListener DEF ProcessTypes
  <2>5. Untouched(s)
    BY <2>1, <2>2, SetListener DEF vars, liveVars, Untouched
  <2>6. listener[s] # NewProcess
    BY <2>2 DEF NewProcess
  <2>7. \A k \in Listeners \ {l} : listener'[s][k] = listener[s][k]
    BY <2>1, SetListener
  <2>8. Placed(s)'
    <3>1. main[s] \notin {"down", "load", "launch", "drain http"}
      BY <1>0, <2>2, <2>6 DEF Placed, Draining, Listeners
    <3>2. main[s] = "drain https" => listener'[s]["https"] = "shut"
      <4>1. main[s] = "drain https" => listener[s]["https"] = "shut" /\ l # "https"
        BY <1>0, <2>2 DEF Placed, Draining
      <4> QED
        BY <2>7, <4>1 DEF Listeners
    <3>3. UNCHANGED <<run, cfg, main>>
      BY <2>2 DEF vars, liveVars
    <3> QED
      BY <1>0, <3>1, <3>2, <3>3 DEF Placed, Draining
  <2> QED
    BY <2>4, <2>5, <2>8, OthersPlaced
<1>5. ASSUME NEW l \in Listeners, Request(s, l) \/ Respond(s, l)
      PROVE  ProcessTypes' /\ InPlace'
  <2>1. ProcessTypes'
    BY <1>5 DEF Request, Respond, vars, liveVars, ProcessTypes
  <2>2. Untouched(s)
    BY <1>5 DEF Request, Respond, vars, liveVars, TypeOK, ProcessTypes, Untouched
  <2>3. Placed(s)'
    <3>1. CASE Request(s, l)
      <4>1. listener[s] # NewProcess /\ calls'[s] = calls[s] \cup {l}
        BY <3>1 DEF Request, NewProcess, ProcessTypes
      <4>2. l = "https" => main[s] \notin Draining
        BY <1>0, <3>1 DEF Request, Placed
      <4>3. UNCHANGED <<run, cfg, main, listener, late>>
        BY <3>1 DEF Request, vars, liveVars
      <4> QED
        BY <1>0, <4>1, <4>2, <4>3 DEF Placed, Draining, Listeners
    <3>2. CASE Respond(s, l)
      <4>1. calls'[s] = calls[s] \ {l} /\ UNCHANGED <<run, cfg, main, listener, late>>
        BY <3>2 DEF Respond, vars, liveVars, ProcessTypes
      <4> QED
        BY <1>0, <4>1 DEF Placed
    <3> QED
      BY <1>5, <3>1, <3>2
  <2> QED
    BY <2>1, <2>2, <2>3, OthersPlaced
<1> QED
  BY <1>1, <1>2, <1>3, <1>4, <1>5 DEF ServeStep

\* The steps of stopping.
LEMMA StopStepKeeps ==
    ASSUME IInv, NEW s \in Servers, StopStep(s)
    PROVE  ProcessTypes' /\ InPlace'
<1> USE DEF IInv
<1>0. Placed(s)
  BY DEF InPlace
<1>1. CASE Signal(s)
  <2>1. ProcessTypes'
    BY <1>0, <1>1 DEF Signal, vars, liveVars, ProcessTypes
  <2>2. Untouched(s)
    BY <1>0, <1>1 DEF Signal, vars, liveVars, TypeOK, ProcessTypes, Untouched
  <2>3. Placed(s)'
    BY <1>0, <1>1 DEF Signal, vars, liveVars, TypeOK, ProcessTypes, Placed
  <2> QED
    BY <2>1, <2>2, <2>3, OthersPlaced
<1>2. CASE BeginShutdown(s)
  <2>1. /\ main[s] = "select" /\ main' = [main EXCEPT ![s] = "drain https"]
        /\ listener' = [listener EXCEPT ![s]["https"] = "shut"]
        /\ UNCHANGED <<vars, interval, hung, signalled, errCh, calls, late, exit>>
    BY <1>2 DEF BeginShutdown, At, Go, Close
  <2>2. ProcessTypes'
    BY <2>1, SetListener DEF ProcessTypes, Places, Listeners
  <2>3. Untouched(s)
    BY <2>1, SetListener DEF vars, liveVars, ProcessTypes, Untouched, Listeners
  <2>5. main'[s] = "drain https"
    BY <2>1 DEF ProcessTypes
  <2>6. Placed(s)'
    BY <1>0, <2>1, <2>5, SetListener DEF vars, liveVars, Placed, Draining, Listeners
  <2> QED
    BY <2>2, <2>3, <2>6, OthersPlaced
<1>3. CASE ShutdownHttp(s)
  <2>1. /\ main[s] = "drain https" /\ main' = [main EXCEPT ![s] = "drain http"]
        /\ listener' = [listener EXCEPT ![s]["http"] = "shut"]
        /\ UNCHANGED <<vars, interval, hung, signalled, errCh, calls, late, exit>>
    BY <1>3 DEF ShutdownHttp, At, Go, Close
  <2>2. ProcessTypes'
    BY <2>1, SetListener DEF ProcessTypes, Places, Listeners
  <2>3. Untouched(s)
    BY <2>1, SetListener DEF vars, liveVars, ProcessTypes, Untouched, Listeners
  <2>4. "https" \notin calls[s] \/ late[s]
    BY <1>3 DEF ShutdownHttp, Drained
  <2>5. main'[s] = "drain http"
    BY <2>1 DEF ProcessTypes
  <2>6. Placed(s)'
    <3>1. listener'[s]["https"] = "shut" /\ listener'[s]["http"] = "shut"
      <4>1. "http" \in Listeners /\ "https" \in Listeners \ {"http"}
        BY DEF Listeners
      <4>2. /\ listener'[s]["http"] = "shut"
            /\ \A k \in Listeners \ {"http"} : listener'[s][k] = listener[s][k]
        BY <2>1, <4>1, SetListener
      <4> QED
        BY <1>0, <2>1, <4>1, <4>2 DEF Placed, Draining
    <3>2. UNCHANGED <<run, cfg, calls, late>>
      BY <2>1 DEF vars, liveVars
    <3> QED
      BY <1>0, <2>1, <2>4, <2>5, <3>1, <3>2 DEF Placed, Draining
  <2> QED
    BY <2>2, <2>3, <2>6, OthersPlaced
<1>4. CASE FinishShutdown(s)
  BY <1>4, EndStep, ExitStep DEF FinishShutdown
<1>5. CASE Deadline(s)
  <2>1. ProcessTypes'
    BY <1>0, <1>5 DEF Deadline, vars, liveVars, ProcessTypes
  <2>2. Untouched(s)
    BY <1>0, <1>5 DEF Deadline, vars, liveVars, TypeOK, ProcessTypes, Untouched
  <2>3. Placed(s)'
    BY <1>0, <1>5 DEF Deadline, vars, liveVars, TypeOK, ProcessTypes, Placed
  <2> QED
    BY <2>1, <2>2, <2>3, OthersPlaced
<1>6. CASE Crash(s)
  BY <1>6, EndStep, ExitStep DEF Crash
<1> QED
  BY <1>1, <1>2, <1>3, <1>4, <1>5, <1>6 DEF StopStep

THEOREM Inductive == RSpec => []IInv
<1>1. IInv /\ TypeOK' /\ [RNext]_allVars => IInv'
  <2> SUFFICES ASSUME IInv, TypeOK', [RNext]_allVars PROVE ProcessTypes' /\ InPlace'
    BY DEF IInv
  <2>1. CASE Write /\ UNCHANGED <<interval, procVars>>
    BY <2>1 DEF Write, liveVars, procVars, IInv, TypeOK, ProcessTypes, InPlace, Placed
  <2>2. CASE UNCHANGED allVars
    BY <2>2 DEF allVars, vars, liveVars, procVars, IInv, TypeOK, ProcessTypes, InPlace, Placed
  <2> QED
    BY <2>1, <2>2, LoadStepKeeps, ServeStepKeeps, StopStepKeeps DEF RNext
<1> QED
  BY <1>1, InitIInv, ServerTypes, PTL DEF RSpec

\* Whatever is served is served with a config.
THEOREM ServesLoaded == RSpec => []ProcessOK
<1>1. IInv => ProcessOK
  BY DEF IInv, InPlace, Placed, ProcessOK, ProcessTypes, Places, NewProcess, Listeners
<1> QED
  BY <1>1, Inductive, PTL

-----------------------------------------------------------------------------
\* No request is cut off by an exit with code 0 before the time is over.
THEOREM Graceful == RSpec => GracefulStop
<1>1. IInv /\ [RNext]_allVars =>
        [\A s \in Servers :
            exit'[s] = "ok" /\ exit[s] # "ok" => calls[s] = {} \/ late[s]]_allVars
  <2> SUFFICES ASSUME IInv, [RNext]_allVars, NEW s \in Servers,
                      exit'[s] = "ok", exit[s] # "ok"
               PROVE  calls[s] = {} \/ late[s]
    OBVIOUS
  <2> USE DEF IInv
  <2>1. PICK p \in Servers : LoadStep(p) \/ ServeStep(p) \/ StopStep(p)
    BY DEF RNext, procVars, allVars
  <2>2. CASE LoadStep(p)
    BY <2>2 DEF LoadStep, StartUp, TickerFires, WatchPanics, ReadConfig, Hang, ReadFails,
                StoreConfig, End, Exit, procVars, ProcessTypes
  <2>3. CASE ServeStep(p)
    BY <2>3 DEF ServeStep, Launch, LaunchFails, Report, Bind, ListenerFails, Request,
                Respond, End, Exit, ProcessTypes
  <2>4. CASE StopStep(p)
    <3>1. FinishShutdown(p) /\ p = s
      BY <2>4 DEF StopStep, Signal, BeginShutdown, ShutdownHttp, FinishShutdown, Deadline,
                  Crash, End, Exit, ProcessTypes
    <3>2. main[s] = "drain http" /\ ("http" \notin calls[s] \/ late[s])
      BY <3>1 DEF FinishShutdown, At, Drained
    <3> QED
      <4>1. calls[s] \subseteq {"https", "http"}
        BY DEF ProcessTypes, Listeners
      <4>2. "https" \notin calls[s] \/ late[s]
        BY <3>2 DEF InPlace, Placed
      <4> QED
        BY <3>2, <4>1, <4>2
  <2> QED
    BY <2>1, <2>2, <2>3, <2>4
<1> QED
  BY <1>1, Inductive, PTL DEF RSpec, GracefulStop
=============================================================================
