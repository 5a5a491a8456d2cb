------------------------------ MODULE Shutdown ------------------------------
(***************************************************************************)
(* The life of one worker process: ApplicationServer over uvicorn.Server,  *)
(* the lifespan of the application, RequestWork's admission and drain, and  *)
(* LifecycleHandler's services.  Signals are Python signal handlers, so    *)
(* one may fall between any two steps; the watchdog is a thread and needs  *)
(* no event loop.  uvicorn is modelled from how http_server.py overrides   *)
(* it.                                                                     *)
(***************************************************************************)
EXTENDS Integers, Sequences, FiniteSets, SequencesExt

CONSTANTS Requests,   \* requests that may reach the process
          Services,   \* the registered services, in order
          Hooked,     \* those with a quiesce() hook
          NoService   \* no service is being stopped

ASSUME RequestsAssumption == IsFiniteSet(Requests)
ASSUME ServicesAssumption ==
    /\ Services \in Seq(ToSet(Services)) /\ Len(Services) > 0
    /\ \A i, j \in DOMAIN Services : Services[i] = Services[j] => i = j
    /\ Hooked \subseteq ToSet(Services) /\ NoService \notin ToSet(Services)

VARIABLES server,           \* where uvicorn's serve() is
          lifespan,         \* where the lifespan task is
          watchdog,         \* _watchdog is armed: shutdown has begun
          shouldExit,       \* Server.should_exit
          draining,         \* RequestWork.draining_at is set
          elapsed,          \* RequestWork.remaining() is 0
          workFailed,       \* RequestWork.failed
          quiescing, startupCompleted, shutdownStarted,
          shutdownFailed,   \* LifecycleHandler
          startedServices,  \* LifecycleHandler._started_services
          stopping,         \* the service popped and being stopped
          admitting,        \* services with a hook that take new work
          brokenStops,      \* history: services whose stop() failed
          request,          \* state of each request's tasks
          gathered,         \* what drain() gathers after its expiry
          exit              \* "none", "zero", "one", "forced"

work == <<draining, elapsed, workFailed>>
phase == <<quiescing, startupCompleted, shutdownStarted>>
service == <<startedServices, stopping, brokenStops>>
vars == <<server, lifespan, watchdog, shouldExit, work, phase, shutdownFailed,
          service, admitting, request, gathered, exit>>

RequestStates == {"new", "refused", "running", "retained", "cancelling",
                  "done", "cancelled"}

TypeOK ==
    /\ server \in {"load", "startup", "bind", "main", "close", "lifespan",
                   "unbound", "gone"}
    /\ lifespan \in {"off", "resume", "reset", "starting", "rollback",
                     "running", "drain", "gather", "stopping", "over"}
    /\ watchdog \in BOOLEAN /\ shouldExit \in BOOLEAN
    /\ draining \in BOOLEAN /\ elapsed \in BOOLEAN /\ workFailed \in BOOLEAN
    /\ quiescing \in BOOLEAN /\ startupCompleted \in BOOLEAN
    /\ shutdownStarted \in BOOLEAN /\ shutdownFailed \in BOOLEAN
    /\ startedServices \in Seq(ToSet(Services))
    /\ stopping \in ToSet(Services) \cup {NoService}
    /\ admitting \in SUBSET Hooked
    /\ brokenStops \in SUBSET ToSet(Services)
    /\ request \in [Requests -> RequestStates]
    /\ gathered \in SUBSET Requests
    /\ exit \in {"none", "zero", "one", "forced"}

Init ==
    /\ server = "load" /\ lifespan = "off"
    /\ watchdog = FALSE /\ shouldExit = FALSE
    /\ draining = FALSE /\ elapsed = FALSE /\ workFailed = FALSE
    /\ quiescing = FALSE /\ startupCompleted = FALSE
    /\ shutdownStarted = FALSE /\ shutdownFailed = FALSE
    /\ startedServices = <<>> /\ stopping = NoService
    /\ admitting = {} /\ brokenStops = {}
    /\ request = [r \in Requests |-> "new"] /\ gathered = {}
    /\ exit = "none"

-----------------------------------------------------------------------------
Alive == exit = "none"

\* Tracked tasks that are not done.
Pending == {r \in Requests :
              request[r] \in {"running", "retained", "cancelling"}}

Cancel(tasks) ==
    request' = [r \in Requests |-> IF r \in tasks THEN "cancelling"
                                                  ELSE request[r]]

\* LifecycleHandler.quiesce: only services already started have their hook
\* called.  RequestWork.quiesce keeps the first draining_at.
Quiesce ==
    /\ quiescing' = TRUE
    /\ admitting' = admitting \ ToSet(startedServices)

\* Variant: nothing to do, not even the watchdog, before the app is loaded.
BeginShutdownLoaded ==
    IF server = "load"
      THEN UNCHANGED <<watchdog, quiescing, admitting, draining>>
      ELSE watchdog' = TRUE /\ Quiesce /\ draining' = TRUE

\* _begin_shutdown: the application's part needs a loaded configuration.
BeginShutdown ==
    /\ watchdog' = TRUE
    /\ IF server = "load"
         THEN UNCHANGED <<quiescing, admitting, draining>>
         ELSE Quiesce /\ draining' = TRUE

\* The process ends: sys.exit in order, or os._exit.
Terminate(code) ==
    /\ exit' = code
    /\ server' = "gone"

-----------------------------------------------------------------------------
(* Signals and the watchdog thread.                                        *)

\* handle_exit, or request_shutdown: the first begins the shutdown.
Signal ==
    /\ Alive /\ ~watchdog
    /\ BeginShutdown
    /\ shouldExit' = TRUE
    /\ UNCHANGED <<server, lifespan, elapsed, workFailed, startupCompleted,
                   shutdownStarted, shutdownFailed, service, request,
                   gathered, exit>>

\* A repeated signal and the watchdog's expiry end in _force_exit alike.
ForceExit ==
    /\ Alive /\ watchdog
    /\ Terminate("forced")
    /\ UNCHANGED <<lifespan, watchdog, shouldExit, work, phase,
                   shutdownFailed, service, admitting, request, gathered>>

\* The drain budget, counted from draining_at, runs out.
Elapse ==
    /\ Alive /\ draining /\ ~elapsed
    /\ elapsed' = TRUE
    /\ UNCHANGED <<server, lifespan, watchdog, shouldExit, draining,
                   workFailed, phase, shutdownFailed, service, admitting,
                   request, gathered, exit>>

-----------------------------------------------------------------------------
(* Startup.                                                                *)
Load ==
    /\ Alive /\ server = "load"
    /\ \/ server' = "startup" /\ lifespan' = "resume" /\ exit' = exit
       \/ Terminate("one") /\ lifespan' = lifespan
    /\ UNCHANGED <<watchdog, shouldExit, work, phase, shutdownFailed,
                   service, admitting, request, gathered>>

\* lifespan: request_work.resume().
Resume ==
    /\ Alive /\ lifespan = "resume"
    /\ Pending = {}
    /\ lifespan' = "reset"
    /\ draining' = FALSE /\ elapsed' = FALSE /\ workFailed' = FALSE
    /\ UNCHANGED <<server, watchdog, shouldExit, phase, shutdownFailed,
                   service, admitting, request, gathered, exit>>

\* lifecycle.startup() up to the first service.
BeginStartup ==
    /\ Alive /\ lifespan = "reset"
    /\ lifespan' = "starting"
    /\ quiescing' = FALSE /\ shutdownFailed' = FALSE
    /\ shutdownStarted' = FALSE /\ startupCompleted' = FALSE
    /\ startedServices' = <<>>
    /\ UNCHANGED <<server, watchdog, shouldExit, work, stopping, brokenStops,
                   admitting, request, gathered, exit>>

\* Variant: every service is taken to have a quiesce hook.
StartServiceHooked ==
    /\ Alive /\ lifespan = "starting"
    /\ LET svc == Services[Len(startedServices) + 1]
           last == Len(startedServices) + 1 = Len(Services) IN
       /\ startedServices' = Append(startedServices, svc)
       /\ admitting' = admitting \cup {svc}
       /\ startupCompleted' = last
       /\ lifespan' = IF last THEN "running" ELSE "starting"
       /\ server' = IF last THEN "bind" ELSE server
    /\ UNCHANGED <<watchdog, shouldExit, work, quiescing, shutdownStarted,
                   shutdownFailed, stopping, brokenStops, request, gathered,
                   exit>>

\* await svc.start(), which may fail; the last one completes the startup.
StartService ==
    /\ Alive /\ lifespan = "starting"
    /\ LET svc == Services[Len(startedServices) + 1]
           last == Len(startedServices) + 1 = Len(Services) IN
       \/ /\ startedServices' = Append(startedServices, svc)
          /\ admitting' = admitting \cup ({svc} \cap Hooked)
          /\ startupCompleted' = last
          /\ lifespan' = IF last THEN "running" ELSE "starting"
          /\ server' = IF last THEN "bind" ELSE server
       \/ /\ lifespan' = "rollback"
          /\ UNCHANGED <<startedServices, admitting, startupCompleted, server>>
    /\ UNCHANGED <<watchdog, shouldExit, work, quiescing, shutdownStarted,
                   shutdownFailed, stopping, brokenStops, request, gathered,
                   exit>>

\* Variant: a signal during startup is left to the main loop.
BindThenServe ==
    /\ Alive /\ server = "bind"
    /\ server' = "main"
    /\ UNCHANGED <<lifespan, watchdog, shouldExit, work, phase,
                   shutdownFailed, service, admitting, request, gathered,
                   exit>>

\* Listeners open; startup() goes on without an await to the shutdown a
\* signal has asked for meanwhile.  A bind error ends the lifespan instead.
Bind ==
    /\ Alive /\ server = "bind"
    /\ \/ /\ ~shouldExit /\ server' = "main"
          /\ UNCHANGED <<watchdog, quiescing, admitting, draining>>
       \/ /\ shouldExit /\ server' = "close" /\ BeginShutdown
       \/ /\ server' = "unbound"
          /\ UNCHANGED <<watchdog, quiescing, admitting, draining>>
    /\ UNCHANGED <<lifespan, shouldExit, elapsed, workFailed,
                   startupCompleted, shutdownStarted, shutdownFailed, service,
                   request, gathered, exit>>

-----------------------------------------------------------------------------
(* Requests.  RequestAdmission tracks the task it admits, the deadline     *)
(* middleware its child; a response that is over may leave its work behind. *)
Arrive(r) ==
    /\ Alive /\ server \in {"main", "close"} /\ request[r] = "new"
    /\ request' = [request EXCEPT ![r] =
                     IF draining THEN "refused" ELSE "running"]
    /\ UNCHANGED <<server, lifespan, watchdog, shouldExit, work, phase,
                   shutdownFailed, service, admitting, gathered, exit>>

Detach(r) ==
    /\ Alive /\ request[r] = "running"
    /\ request' = [request EXCEPT ![r] = "retained"]
    /\ UNCHANGED <<server, lifespan, watchdog, shouldExit, work, phase,
                   shutdownFailed, service, admitting, gathered, exit>>

\* Work ends by itself; cancelled work may still end in its own way.
Settle(r) ==
    /\ Alive /\ r \in Pending
    /\ \/ request' = [request EXCEPT ![r] = "done"]
       \/ /\ request[r] = "cancelling"
          /\ request' = [request EXCEPT ![r] = "cancelled"]
    /\ UNCHANGED <<server, lifespan, watchdog, shouldExit, work, phase,
                   shutdownFailed, service, admitting, gathered, exit>>

-----------------------------------------------------------------------------
(* ApplicationServer.shutdown.                                             *)
LeaveMainLoop ==
    /\ Alive /\ server = "main" /\ shouldExit
    /\ server' = "close"
    /\ BeginShutdown
    /\ UNCHANGED <<lifespan, shouldExit, elapsed, workFailed,
                   startupCompleted, shutdownStarted, shutdownFailed, service,
                   request, gathered, exit>>

\* _wait_tasks_to_complete: connections and tracked work are over.
TasksComplete ==
    /\ Alive /\ server = "close" /\ Pending = {}
    /\ server' = "lifespan"
    /\ UNCHANGED <<lifespan, watchdog, shouldExit, work, phase,
                   shutdownFailed, service, admitting, request, gathered,
                   exit>>

\* Variant: the expiry is not recorded as a failure.
TasksExpireUnrecorded ==
    /\ Alive /\ server = "close" /\ elapsed /\ Pending # {}
    /\ server' = "lifespan"
    /\ \/ Cancel({r \in Pending : request[r] # "retained"})
       \/ Cancel(Pending)
    /\ UNCHANGED <<lifespan, watchdog, shouldExit, work, phase,
                   shutdownFailed, service, admitting, gathered, exit>>

\* The budget expires first.  uvicorn then cancels the request tasks; the
\* drain, when its own wait expired before, has cancelled every task.
TasksExpire ==
    /\ Alive /\ server = "close" /\ elapsed /\ Pending # {}
    /\ server' = "lifespan"
    /\ workFailed' = TRUE
    /\ \/ Cancel({r \in Pending : request[r] # "retained"})
       \/ Cancel(Pending)
    /\ UNCHANGED <<lifespan, watchdog, shouldExit, draining, elapsed, phase,
                   shutdownFailed, service, admitting, gathered, exit>>

-----------------------------------------------------------------------------
(* The lifespan's finally: quiesce, drain, lifecycle.shutdown.             *)
EndLifespan ==
    /\ Alive /\ server \in {"lifespan", "unbound"} /\ lifespan = "running"
    /\ lifespan' = "drain"
    /\ Quiesce
    /\ draining' = TRUE
    /\ UNCHANGED <<server, watchdog, shouldExit, elapsed, workFailed,
                   startupCompleted, shutdownStarted, shutdownFailed, service,
                   request, gathered, exit>>

\* lifecycle.shutdown() up to the first stop().
BeginStop ==
    /\ lifespan' = "stopping"
    /\ shutdownStarted' = TRUE
    /\ Quiesce

DrainDone ==
    /\ Alive /\ lifespan = "drain" /\ Pending = {}
    /\ BeginStop
    /\ UNCHANGED <<server, watchdog, shouldExit, work, startupCompleted,
                   shutdownFailed, service, request, gathered, exit>>

\* Variant: the drain waits on without cancelling.
DrainExpiresPatiently ==
    /\ Alive /\ lifespan = "drain" /\ elapsed /\ Pending # {}
    /\ lifespan' = "gather"
    /\ workFailed' = TRUE
    /\ gathered' = Pending
    /\ UNCHANGED <<server, watchdog, shouldExit, draining, elapsed, phase,
                   shutdownFailed, service, admitting, request, exit>>

\* remaining() is over: cancel everything and gather it, however long.
DrainExpires ==
    /\ Alive /\ lifespan = "drain" /\ elapsed /\ Pending # {}
    /\ lifespan' = "gather"
    /\ workFailed' = TRUE
    /\ gathered' = Pending
    /\ Cancel(Pending)
    /\ UNCHANGED <<server, watchdog, shouldExit, draining, elapsed, phase,
                   shutdownFailed, service, admitting, exit>>

\* Variant: cancelled work is not waited for.
GatherSkipped ==
    /\ Alive /\ lifespan = "gather"
    /\ BeginStop
    /\ UNCHANGED <<server, watchdog, shouldExit, work, startupCompleted,
                   shutdownFailed, service, request, gathered, exit>>

GatherDone ==
    /\ Alive /\ lifespan = "gather" /\ gathered \cap Pending = {}
    /\ BeginStop
    /\ UNCHANGED <<server, watchdog, shouldExit, work, startupCompleted,
                   shutdownFailed, service, request, gathered, exit>>

\* Variant: pop(0).
PopFirst ==
    /\ Alive /\ lifespan \in {"rollback", "stopping"}
    /\ stopping = NoService /\ startedServices # <<>>
    /\ stopping' = Head(startedServices)
    /\ startedServices' = Tail(startedServices)
    /\ admitting' = admitting \ {Head(startedServices)}
    /\ UNCHANGED <<server, lifespan, watchdog, shouldExit, work, phase,
                   shutdownFailed, brokenStops, request, gathered, exit>>

\* _stop_started_services: pop the last one and await its stop(), which
\* quiesces a hooked service again.
PopService ==
    /\ Alive /\ lifespan \in {"rollback", "stopping"}
    /\ stopping = NoService /\ startedServices # <<>>
    /\ stopping' = Last(startedServices)
    /\ startedServices' = Front(startedServices)
    /\ admitting' = admitting \ {Last(startedServices)}
    /\ UNCHANGED <<server, lifespan, watchdog, shouldExit, work, phase,
                   shutdownFailed, brokenStops, request, gathered, exit>>

StopService ==
    /\ Alive /\ stopping # NoService
    /\ stopping' = NoService
    /\ \/ UNCHANGED <<shutdownFailed, brokenStops>>
       \/ /\ shutdownFailed' = TRUE
          /\ brokenStops' = brokenStops \cup {stopping}
    /\ UNCHANGED <<server, lifespan, watchdog, shouldExit, work, phase,
                   startedServices, admitting, request, gathered, exit>>

\* Variant: a failed startup leaves what it had started.
StartupFailsUnrolled ==
    /\ Alive /\ lifespan = "rollback"
    /\ lifespan' = "over"
    /\ shutdownFailed' = TRUE /\ shutdownStarted' = TRUE
    /\ draining' = TRUE /\ Quiesce
    /\ startupCompleted' = FALSE
    /\ Terminate("one")
    /\ UNCHANGED <<watchdog, shouldExit, elapsed, workFailed, service,
                   request, gathered>>

\* A failed startup, its services rolled back: the lifespan's except and
\* finally find nothing to drain or stop; the server has not started.
StartupFails ==
    /\ Alive /\ lifespan = "rollback"
    /\ stopping = NoService /\ startedServices = <<>> /\ Pending = {}
    /\ lifespan' = "over"
    /\ shutdownFailed' = TRUE /\ shutdownStarted' = TRUE
    /\ draining' = TRUE /\ Quiesce
    /\ startupCompleted' = FALSE
    /\ Terminate("one")
    /\ UNCHANGED <<watchdog, shouldExit, elapsed, workFailed, service,
                   request, gathered>>

\* The services are stopped, the lifespan is over and run() reports.
Exit ==
    /\ Alive /\ lifespan = "stopping"
    /\ stopping = NoService /\ startedServices = <<>>
    /\ lifespan' = "over"
    /\ startupCompleted' = FALSE
    /\ Terminate(IF server = "unbound" \/ workFailed \/ shutdownFailed
                   THEN "one" ELSE "zero")
    /\ UNCHANGED <<watchdog, shouldExit, work, quiescing, shutdownStarted,
                   shutdownFailed, service, admitting, request, gathered>>

-----------------------------------------------------------------------------
Startup == Load \/ Resume \/ BeginStartup \/ StartService \/ Bind

Stop == \/ LeaveMainLoop \/ TasksComplete \/ TasksExpire \/ EndLifespan
        \/ DrainDone \/ DrainExpires \/ GatherDone \/ PopService
        \/ StopService \/ StartupFails \/ Exit

Next == \/ Signal \/ ForceExit \/ Elapse \/ Startup \/ Stop
        \/ \E r \in Requests : Arrive(r) \/ Detach(r) \/ Settle(r)

Spec == Init /\ [][Next]_vars

\* Only the watchdog thread is fair: the event loop may be blocked and work
\* may never settle.
WatchdogFairness == WF_vars(ForceExit)

\* The event loop runs, a service's stop() returns, and work settles once it
\* is cancelled, though it may hang until then.
CooperativeFairness ==
    /\ WF_vars(Startup) /\ WF_vars(Stop) /\ WF_vars(Elapse)
    /\ \A r \in Requests : WF_vars(request[r] = "cancelling" /\ Settle(r))

-----------------------------------------------------------------------------
(* Properties.                                                             *)

\* No service is stopped under a request's work: not under work retained
\* after its response, and not under work whose cancellation is still
\* settling (request_work.py 41-56, application.py 89-91).
ServicesOutliveWork == Pending # {} => startedServices = Services

\* Services go down in the reverse order of their start: what is up, and
\* the service being stopped on top of it, is a prefix of the registration.
StopsInReverse ==
    LET up == IF stopping = NoService THEN startedServices
                                      ELSE Append(startedServices, stopping)
    IN  \A i \in DOMAIN up : up[i] = Services[i]

\* Exit zero, "Application exited (code 0)", means that nothing was lost: no
\* request was cancelled, every service was stopped and every stop worked.
CleanExitIsClean ==
    exit = "zero" =>
        /\ \A r \in Requests : request[r] \in {"new", "refused", "done"}
        /\ startedServices = <<>> /\ stopping = NoService
        /\ brokenStops = {} /\ admitting = {}

\* Unless it is forced, the process leaves no service running, also when the
\* signal, a failing start or a bind error falls into the startup.
NoServiceLeft ==
    exit \in {"zero", "one"} => startedServices = <<>> /\ stopping = NoService

\* Services come down in order and completely.
ServicesComeDown == TypeOK /\ StopsInReverse /\ NoServiceLeft

\* Once shutdown has begun no request is admitted, although the lifespan may
\* have reopened RequestWork in between (http_server.py 52-68, 74-75).
NoAdmissionAfterShutdown ==
    [][\A r \in Requests :
          request[r] = "new" /\ request'[r] = "running" => ~watchdog]_vars

\* A requested shutdown ends the process.  The watchdog thread alone is
\* enough, with a blocked event loop and work that never settles; and so is
\* the drain alone, when the loop runs and work settles once cancelled.
ShutdownTerminates ==
    /\ WatchdogFairness => (shouldExit ~> ~Alive)
    /\ CooperativeFairness => (shouldExit ~> ~Alive)

\* docs/deployment.md: "Startup completion does not reopen admission after
\* shutdown has begun."  Once the shutdown has closed RequestWork's admission
\* it stays closed.
AdmissionStaysClosed == [][watchdog /\ draining => draining']_vars

=============================================================================
