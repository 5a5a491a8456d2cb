--------------------------- MODULE ShutdownProofs ---------------------------
(***************************************************************************)
(* The shutdown of one worker for any number of requests and any list of   *)
(* services.  The argument: where uvicorn is decides where the lifespan    *)
(* may be, requests have work only while every service is up, and each     *)
(* loss on the way (a cancelled request, a broken stop) is remembered by   *)
(* the flag that decides the exit code.                                    *)
(***************************************************************************)
EXTENDS Shutdown, TLAPS

-----------------------------------------------------------------------------
(* The inductive invariant. *)

Before == {"off", "resume", "reset", "starting", "rollback"}
Up == {"running", "drain", "gather"}

\* The server awaits the lifespan's startup and asks for its shutdown last.
LocationInv ==
    /\ server = "load" => lifespan = "off"
    /\ server = "startup" => lifespan \in Before \ {"off"}
    /\ server \in {"bind", "main", "close"} => lifespan = "running"
    /\ server \in {"lifespan", "unbound"} => lifespan \in Up \cup {"stopping"}
    /\ server = "gone" <=> ~Alive

\* What is up is a prefix of the registration, with the service being
\* stopped next to it; all of it is up between startup and the last drain.
ServiceInv ==
    /\ Len(startedServices) <= Len(Services)
    /\ \A i \in 1 .. Len(startedServices) : startedServices[i] = Services[i]
    /\ stopping # NoService =>
         /\ lifespan \in {"rollback", "stopping"}
         /\ Len(startedServices) < Len(Services)
         /\ stopping = Services[Len(startedServices) + 1]
    /\ lifespan \in {"off", "resume", "reset"} => startedServices = <<>>
    /\ lifespan = "starting" => Len(startedServices) < Len(Services)
    /\ lifespan \in Up => startedServices = Services

\* Only services that are up take new work.
AdmittingInv == \A s \in admitting : \E i \in 1 .. Len(startedServices) : s = startedServices[i]

\* Requests have work only while every service is up; the gather after an
\* expired drain waits for all of it; a cancelled request marks the drain
\* as failed.
RequestInv ==
    /\ lifespan \in Before => \A r \in Requests : request[r] = "new"
    /\ \A r \in Pending : lifespan \in Up
    /\ lifespan = "gather" => Pending \subseteq gathered
    /\ ~workFailed => \A r \in Requests : request[r] \notin {"cancelling", "cancelled"}

\* A broken stop marks the shutdown as failed.
FailureInv ==
    /\ lifespan \in {"off", "resume", "reset", "starting"} => brokenStops = {}
    /\ ~shutdownFailed => brokenStops = {}

\* While requests can arrive, a shutdown that has begun has closed admission.
AdmissionInv ==
    /\ watchdog => shouldExit
    /\ server \in {"main", "close"} /\ watchdog => draining

Inv == /\ TypeOK /\ LocationInv /\ ServiceInv /\ AdmittingInv /\ RequestInv
       /\ FailureInv /\ AdmissionInv /\ CleanExitIsClean /\ NoServiceLeft

-----------------------------------------------------------------------------
(* Facts on the sequence of services. *)
LEMMA ServicesSeq ==
    /\ Services \in Seq(ToSet(Services)) /\ Len(Services) \in Nat /\ Len(Services) > 0
    /\ \A i \in 1 .. Len(Services) : Services[i] \in ToSet(Services)
    /\ NoService \notin ToSet(Services)
  BY ServicesAssumption DEF ToSet

LEMMA LastFront ==
    ASSUME NEW S, NEW s \in Seq(S), s # <<>>
    PROVE  /\ Len(s) > 0 /\ Last(s) = s[Len(s)] /\ Last(s) \in S
           /\ Front(s) \in Seq(S) /\ Len(Front(s)) = Len(s) - 1
           /\ \A i \in 1 .. Len(s) - 1 : Front(s)[i] = s[i]
  <1>1. Len(s) \in Nat /\ Len(s) > 0 /\ s[Len(s)] \in S
    OBVIOUS
  <1>2. /\ SubSeq(s, 1, Len(s) - 1) \in Seq(S)
        /\ Len(SubSeq(s, 1, Len(s) - 1)) = Len(s) - 1
        /\ \A i \in 1 .. Len(s) - 1 : SubSeq(s, 1, Len(s) - 1)[i] = s[i]
    <2>0. Len(s) - 1 \in 0 .. Len(s)
      BY <1>1
    <2>1. PICK n \in 0 .. Len(s) : n = Len(s) - 1
      BY <2>0
    <2>2. SubSeq(s, 1, n) \in Seq(S) /\ Len(SubSeq(s, 1, n)) = n
      OBVIOUS
    <2>3. \A i \in 1 .. n : SubSeq(s, 1, n)[i] = s[i]
      OBVIOUS
    <2> QED BY <2>1, <2>2, <2>3
  <1> QED BY <1>1, <1>2 DEF Last, Front

LEMMA AppendFacts ==
    ASSUME NEW S, NEW s \in Seq(S), NEW e \in S
    PROVE  /\ Append(s, e) \in Seq(S) /\ Len(Append(s, e)) = Len(s) + 1
           /\ \A i \in 1 .. Len(s) : Append(s, e)[i] = s[i]
           /\ Append(s, e)[Len(s) + 1] = e
  OBVIOUS

LEMMA SameSeq ==
    ASSUME NEW S, NEW s \in Seq(S), NEW t \in Seq(S), Len(s) = Len(t),
           \A i \in 1 .. Len(s) : s[i] = t[i]
    PROVE  s = t
  OBVIOUS

(* What has been started is in ToSet(startedServices), so quiesce() closes *)
(* every service that admits work.                                         *)
LEMMA QuiesceCloses ==
    ASSUME TypeOK, AdmittingInv
    PROVE  admitting \ ToSet(startedServices) = {}
  <1>1. DOMAIN startedServices = 1 .. Len(startedServices)
    BY DEF TypeOK
  <1> QED BY <1>1 DEF AdmittingInv, ToSet

LEMMA Initial == Init => Inv
  <1> SUFFICES ASSUME Init PROVE Inv
    OBVIOUS
  <1> USE DEF Init
  <1>1. TypeOK
    <2>1. startedServices \in Seq(ToSet(Services))
      OBVIOUS
    <2>2. request \in [Requests -> RequestStates]
      BY DEF RequestStates
    <2> QED BY <2>1, <2>2 DEF TypeOK
  <1>2. LocationInv /\ AdmittingInv /\ FailureInv /\ AdmissionInv
    BY DEF LocationInv, AdmittingInv, FailureInv, AdmissionInv, Alive, Before, Up
  <1>3. ServiceInv
    BY ServicesSeq DEF ServiceInv, Up
  <1>4. RequestInv
    BY DEF RequestInv, Pending, Before, Up
  <1>5. CleanExitIsClean /\ NoServiceLeft
    BY DEF CleanExitIsClean, NoServiceLeft
  <1> QED BY <1>1, <1>2, <1>3, <1>4, <1>5 DEF Inv

(* A step that leaves the process alive keeps what is said of its exit. *)
LEMMA StillAlive ==
    ASSUME Alive, exit' = exit
    PROVE  CleanExitIsClean' /\ NoServiceLeft'
  BY DEF Alive, CleanExitIsClean, NoServiceLeft

-----------------------------------------------------------------------------
(* Signals, the watchdog and the drain's clock. *)
LEMMA SignalStep ==
    ASSUME Inv, Signal \/ ForceExit \/ Elapse PROVE Inv'
  <1> USE DEF Inv, work, phase, service
  <1>1. CASE Signal
    <2>1. TypeOK'
      <3>1. /\ admitting' \in SUBSET Hooked
            /\ watchdog' = TRUE /\ shouldExit' = TRUE
            /\ quiescing' \in BOOLEAN /\ draining' \in BOOLEAN
        BY <1>1 DEF Signal, BeginShutdown, Quiesce, TypeOK
      <3> QED BY <1>1, <3>1 DEF Signal, TypeOK
    <2>2. LocationInv' /\ ServiceInv' /\ RequestInv' /\ FailureInv'
      BY <1>1 DEF Signal, LocationInv, ServiceInv, RequestInv, FailureInv, Alive, Pending
    <2>3. AdmittingInv'
      BY <1>1 DEF Signal, BeginShutdown, Quiesce, AdmittingInv
    <2>4. AdmissionInv'
      BY <1>1 DEF Signal, BeginShutdown, AdmissionInv
    <2> QED BY <1>1, <2>1, <2>2, <2>3, <2>4, StillAlive DEF Signal
  <1>2. CASE ForceExit
    <2>1. TypeOK' /\ LocationInv' /\ AdmissionInv'
      BY <1>2 DEF ForceExit, Terminate, TypeOK, LocationInv, AdmissionInv, Alive
    <2>2. ServiceInv' /\ AdmittingInv' /\ RequestInv' /\ FailureInv'
      BY <1>2 DEF ForceExit, ServiceInv, AdmittingInv, RequestInv, FailureInv, Pending
    <2>3. CleanExitIsClean' /\ NoServiceLeft'
      BY <1>2 DEF ForceExit, Terminate, CleanExitIsClean, NoServiceLeft
    <2> QED BY <2>1, <2>2, <2>3
  <1>3. CASE Elapse
    <2>1. TypeOK' /\ LocationInv' /\ AdmissionInv'
      BY <1>3 DEF Elapse, TypeOK, LocationInv, AdmissionInv, Alive
    <2>2. ServiceInv' /\ AdmittingInv' /\ RequestInv' /\ FailureInv'
      BY <1>3 DEF Elapse, ServiceInv, AdmittingInv, RequestInv, FailureInv, Pending
    <2> QED BY <1>3, <2>1, <2>2, StillAlive DEF Elapse
  <1> QED BY <1>1, <1>2, <1>3

-----------------------------------------------------------------------------
(* Startup. *)
LEMMA StartupStep ==
    ASSUME Inv, Load \/ Resume \/ BeginStartup \/ Bind PROVE Inv'
  <1> USE DEF Inv, work, phase, service
  <1>1. CASE Load
    <2>1. TypeOK' /\ LocationInv' /\ AdmissionInv'
      BY <1>1 DEF Load, Terminate, TypeOK, LocationInv, AdmissionInv, Alive, Before
    <2>2. ServiceInv' /\ AdmittingInv' /\ RequestInv' /\ FailureInv'
      BY <1>1 DEF Load, LocationInv, ServiceInv, AdmittingInv, RequestInv, FailureInv,
                  Pending, Before, Up
    <2>3. CleanExitIsClean' /\ NoServiceLeft'
      BY <1>1 DEF Load, Terminate, Alive, LocationInv, ServiceInv, CleanExitIsClean,
                  NoServiceLeft
    <2> QED BY <2>1, <2>2, <2>3
  <1>2. CASE Resume
    <2>1. server \notin {"main", "close"}
      BY <1>2 DEF Resume, LocationInv
    <2>2. TypeOK' /\ LocationInv' /\ AdmissionInv'
      BY <1>2, <2>1 DEF Resume, TypeOK, LocationInv, AdmissionInv, Alive, Before, Up
    <2>3. ServiceInv' /\ AdmittingInv' /\ RequestInv' /\ FailureInv'
      BY <1>2 DEF Resume, ServiceInv, AdmittingInv, RequestInv, FailureInv,
                  Pending, Before, Up
    <2> QED BY <1>2, <2>2, <2>3, StillAlive DEF Resume
  <1>3. CASE BeginStartup
    <2>1. TypeOK'
      <3>1. startedServices' \in Seq(ToSet(Services))
        BY <1>3 DEF BeginStartup
      <3> QED BY <1>3, <3>1 DEF BeginStartup, TypeOK
    <2>2. LocationInv' /\ AdmissionInv'
      BY <1>3 DEF BeginStartup, LocationInv, AdmissionInv, Alive, Before, Up
    <2>3. ServiceInv' /\ AdmittingInv'
      <3>1. startedServices = <<>> /\ startedServices' = <<>> /\ Len(<<>>) = 0
        BY <1>3 DEF BeginStartup, ServiceInv
      <3>2. ServiceInv'
        BY <1>3, <3>1, ServicesSeq DEF BeginStartup, ServiceInv, Up
      <3>3. AdmittingInv'
        BY <1>3, <3>1 DEF BeginStartup, AdmittingInv
      <3> QED BY <3>2, <3>3
    <2>4. RequestInv' /\ FailureInv'
      BY <1>3 DEF BeginStartup, RequestInv, FailureInv, Pending, Before, Up
    <2> QED BY <1>3, <2>1, <2>2, <2>3, <2>4, StillAlive DEF BeginStartup
  <1>4. CASE Bind
    <2>1. server' \in {"main", "close", "unbound"} /\ lifespan = "running"
      BY <1>4 DEF Bind, LocationInv
    <2>2. TypeOK'
      <3>1. /\ admitting' \in SUBSET Hooked /\ watchdog' \in BOOLEAN
            /\ quiescing' \in BOOLEAN /\ draining' \in BOOLEAN
        BY <1>4 DEF Bind, BeginShutdown, Quiesce, TypeOK
      <3> QED BY <1>4, <2>1, <3>1 DEF Bind, TypeOK
    <2>3. LocationInv'
      BY <1>4, <2>1 DEF Bind, LocationInv, Alive, Up
    <2>4. AdmissionInv'
      BY <1>4 DEF Bind, BeginShutdown, Quiesce, AdmissionInv
    <2>5. ServiceInv' /\ RequestInv' /\ FailureInv'
      BY <1>4 DEF Bind, ServiceInv, RequestInv, FailureInv, Pending
    <2>6. AdmittingInv'
      BY <1>4 DEF Bind, BeginShutdown, Quiesce, AdmittingInv
    <2> QED BY <1>4, <2>2, <2>3, <2>4, <2>5, <2>6, StillAlive DEF Bind
  <1> QED BY <1>1, <1>2, <1>3, <1>4

LEMMA StartServiceStep == ASSUME Inv, StartService PROVE Inv'
  <1> USE DEF Inv, work, phase, service
  <1> DEFINE n == Len(startedServices)
             svc == Services[n + 1]
  <1>1. /\ Alive /\ exit' = exit /\ lifespan = "starting"
        /\ startedServices \in Seq(ToSet(Services)) /\ n \in Nat /\ n < Len(Services)
        /\ svc \in ToSet(Services) /\ server = "startup"
    BY ServicesSeq DEF StartService, TypeOK, LocationInv, ServiceInv, Alive
  <1>2. CASE lifespan' = "rollback" /\ UNCHANGED <<startedServices, admitting,
                                                   startupCompleted, server>>
    <2>1. TypeOK' /\ LocationInv' /\ AdmissionInv'
      BY <1>1, <1>2 DEF StartService, TypeOK, LocationInv, AdmissionInv, Alive, Before
    <2>2. ServiceInv' /\ AdmittingInv' /\ RequestInv' /\ FailureInv'
      BY <1>1, <1>2 DEF StartService, ServiceInv, AdmittingInv, RequestInv,
                        FailureInv, Pending, Before, Up
    <2> QED BY <1>1, <2>1, <2>2, StillAlive
  <1>3. CASE /\ startedServices' = Append(startedServices, svc)
             /\ admitting' = admitting \cup ({svc} \cap Hooked)
             /\ startupCompleted' = (n + 1 = Len(Services))
             /\ lifespan' = IF n + 1 = Len(Services) THEN "running" ELSE "starting"
             /\ server' = IF n + 1 = Len(Services) THEN "bind" ELSE server
    <2>1. /\ startedServices' \in Seq(ToSet(Services)) /\ Len(startedServices') = n + 1
          /\ \A i \in 1 .. n : startedServices'[i] = startedServices[i]
          /\ startedServices'[n + 1] = svc
      BY <1>1, <1>3, AppendFacts
    <2>2. \A i \in 1 .. Len(startedServices') : startedServices'[i] = Services[i]
      BY <1>1, <2>1 DEF ServiceInv
    <2>3. TypeOK'
      <3>1. admitting' \in SUBSET Hooked /\ startupCompleted' \in BOOLEAN
        BY <1>3 DEF TypeOK
      <3>2. server' \in {"startup", "bind"} /\ lifespan' \in {"running", "starting"}
        BY <1>1, <1>3
      <3> QED BY <2>1, <3>1, <3>2 DEF StartService, TypeOK
    <2>4. LocationInv'
      BY <1>1, <1>3 DEF LocationInv, Alive, Before, Up
    <2>5. AdmissionInv'
      BY <1>1, <1>3 DEF StartService, AdmissionInv
    <2>6. ServiceInv'
      <3>1. stopping' = NoService
        BY <1>1 DEF StartService, ServiceInv
      <3>2. n + 1 = Len(Services) => startedServices' = Services
        BY <2>1, <2>2, SameSeq, ServicesSeq
      <3>3. Len(startedServices') <= Len(Services)
        BY <1>1, <2>1, ServicesSeq
      <3>4. n + 1 # Len(Services) => Len(startedServices') < Len(Services)
        BY <1>1, <2>1, ServicesSeq
      <3> QED BY <1>3, <2>2, <3>1, <3>2, <3>3, <3>4 DEF ServiceInv, Up
    <2>7. AdmittingInv'
      <3>1. ASSUME NEW s \in admitting'
            PROVE  \E i \in 1 .. Len(startedServices') : s = startedServices'[i]
        <4>1. CASE s = svc
          BY <1>1, <2>1, <4>1
        <4>2. CASE s # svc
          <5>1. s \in admitting
            BY <1>3, <3>1, <4>2
          <5>2. PICK i \in 1 .. n : s = startedServices[i]
            BY <5>1 DEF AdmittingInv
          <5>3. i \in 1 .. Len(startedServices') /\ s = startedServices'[i]
            BY <1>1, <2>1, <5>2
          <5> QED BY <5>3
        <4> QED BY <4>1, <4>2
      <3> QED BY <3>1 DEF AdmittingInv
    <2>8. RequestInv' /\ FailureInv'
      BY <1>1, <1>3 DEF StartService, RequestInv, FailureInv, Pending, Before, Up
    <2> QED BY <1>1, <2>3, <2>4, <2>5, <2>6, <2>7, <2>8, StillAlive
  <1> QED BY <1>2, <1>3 DEF StartService

-----------------------------------------------------------------------------
(* Requests. *)
LEMMA RequestStep ==
    ASSUME Inv, NEW r \in Requests, Arrive(r) \/ Detach(r) \/ Settle(r)
    PROVE  Inv'
  <1> USE DEF Inv, work, phase, service
  <1>1. /\ Alive /\ exit' = exit
        /\ UNCHANGED <<server, lifespan, watchdog, shouldExit, work, phase,
                       shutdownFailed, service, admitting, gathered, exit>>
    BY DEF Arrive, Detach, Settle
  <1>2. PICK state \in RequestStates :
          /\ request' = [request EXCEPT ![r] = state]
          /\ state \in {"running", "retained", "refused", "done"} \/ request[r] = "cancelling"
          /\ state \in {"running", "retained", "cancelling"} => lifespan = "running" \/ r \in Pending
          /\ lifespan \in Up
    BY DEF Arrive, Detach, Settle, LocationInv, RequestInv, RequestStates, Pending, Up
  <1>3. /\ request' \in [Requests -> RequestStates] /\ request'[r] = state
        /\ \A q \in Requests \ {r} : request'[q] = request[q]
    BY <1>2 DEF TypeOK
  <1>4. TypeOK'
    BY <1>1, <1>3 DEF TypeOK
  <1>5. LocationInv' /\ ServiceInv' /\ AdmittingInv' /\ FailureInv' /\ AdmissionInv'
    BY <1>1 DEF LocationInv, ServiceInv, AdmittingInv, FailureInv, AdmissionInv, Alive
  <1>6. RequestInv'
    BY <1>1, <1>2, <1>3 DEF RequestInv, Pending, Before, Up
  <1> QED BY <1>1, <1>4, <1>5, <1>6, StillAlive

-----------------------------------------------------------------------------
(* The server's shutdown and the lifespan's drain. *)
LEMMA Quiesced ==
    ASSUME Inv, Quiesce
    PROVE  quiescing' = TRUE /\ admitting' = {}
  BY QuiesceCloses DEF Inv, Quiesce

\* Cancelling some of the pending requests leaves the others as they are.
LEMMA Cancelled ==
    ASSUME Inv, NEW tasks \in SUBSET Pending, Cancel(tasks)
    PROVE  /\ request' \in [Requests -> RequestStates]
           /\ Pending' = Pending
           /\ \A r \in Requests : r \in tasks \/ request'[r] = request[r]
  <1>1. \A r \in Requests : request'[r] = IF r \in tasks THEN "cancelling" ELSE request[r]
    BY DEF Cancel
  <1>2. request' \in [Requests -> RequestStates]
    BY DEF Cancel, RequestStates, Inv, TypeOK
  <1> QED BY <1>1, <1>2 DEF Pending

LEMMA DrainStep ==
    ASSUME Inv,
           \/ LeaveMainLoop \/ TasksComplete \/ TasksExpire \/ EndLifespan
           \/ DrainDone \/ DrainExpires \/ GatherDone
    PROVE  Inv'
  <1> USE DEF Inv, work, phase, service
  <1>1. CASE LeaveMainLoop
    <2>1. Quiesce /\ draining' = TRUE /\ watchdog' = TRUE /\ shouldExit /\ server' = "close"
      BY <1>1 DEF LeaveMainLoop, BeginShutdown
    <2>2. quiescing' = TRUE /\ admitting' = {}
      BY <2>1, Quiesced
    <2>3. TypeOK' /\ LocationInv' /\ AdmissionInv'
      BY <1>1, <2>1, <2>2 DEF LeaveMainLoop, TypeOK, LocationInv, AdmissionInv, Alive
    <2>4. ServiceInv' /\ AdmittingInv' /\ RequestInv' /\ FailureInv'
      BY <1>1, <2>2 DEF LeaveMainLoop, ServiceInv, AdmittingInv, RequestInv,
                        FailureInv, Pending
    <2> QED BY <1>1, <2>3, <2>4, StillAlive DEF LeaveMainLoop
  <1>2. CASE TasksComplete
    <2>1. TypeOK' /\ LocationInv' /\ AdmissionInv'
      BY <1>2 DEF TasksComplete, TypeOK, LocationInv, AdmissionInv, Alive, Up
    <2>2. ServiceInv' /\ AdmittingInv' /\ RequestInv' /\ FailureInv'
      BY <1>2 DEF TasksComplete, ServiceInv, AdmittingInv, RequestInv, FailureInv, Pending
    <2> QED BY <1>2, <2>1, <2>2, StillAlive DEF TasksComplete
  <1>3. CASE TasksExpire
    <2>1. PICK tasks \in SUBSET Pending : Cancel(tasks)
      BY <1>3 DEF TasksExpire
    <2>2. /\ request' \in [Requests -> RequestStates]
          /\ Pending' = Pending /\ workFailed' = TRUE
      BY <1>3, <2>1, Cancelled DEF TasksExpire
    <2>3. TypeOK' /\ LocationInv' /\ AdmissionInv'
      BY <1>3, <2>2 DEF TasksExpire, TypeOK, LocationInv, AdmissionInv, Alive, Up
    <2>4. ServiceInv' /\ AdmittingInv' /\ FailureInv'
      BY <1>3 DEF TasksExpire, ServiceInv, AdmittingInv, FailureInv
    <2>5. lifespan' = "running"
      BY <1>3 DEF TasksExpire, LocationInv
    <2>6. RequestInv'
      BY <2>2, <2>5 DEF RequestInv, Before, Up
    <2> QED BY <1>3, <2>3, <2>4, <2>6, StillAlive DEF TasksExpire
  <1>4. CASE EndLifespan
    <2>1. quiescing' = TRUE /\ admitting' = {}
      BY <1>4, Quiesced DEF EndLifespan
    <2>2. TypeOK' /\ LocationInv' /\ AdmissionInv'
      BY <1>4, <2>1 DEF EndLifespan, TypeOK, LocationInv, AdmissionInv, Alive, Up
    <2>3. ServiceInv' /\ AdmittingInv' /\ FailureInv'
      BY <1>4, <2>1 DEF EndLifespan, ServiceInv, AdmittingInv, FailureInv, Up
    <2>4. RequestInv'
      BY <1>4 DEF EndLifespan, RequestInv, Pending, Before, Up
    <2> QED BY <1>4, <2>2, <2>3, <2>4, StillAlive DEF EndLifespan
  <1>5. CASE DrainExpires
    <2>1. /\ request' \in [Requests -> RequestStates]
          /\ Pending' = Pending /\ workFailed' = TRUE /\ lifespan' = "gather"
          /\ gathered' = Pending /\ gathered' \subseteq Requests
      BY <1>5, Cancelled DEF DrainExpires, Pending
    <2>2. server \notin {"load", "startup", "bind", "main", "close"}
      BY <1>5 DEF DrainExpires, LocationInv, Before
    <2>3. TypeOK' /\ LocationInv' /\ AdmissionInv'
      BY <1>5, <2>1, <2>2 DEF DrainExpires, TypeOK, LocationInv, AdmissionInv, Alive, Up
    <2>4. ServiceInv' /\ AdmittingInv' /\ FailureInv'
      BY <1>5 DEF DrainExpires, ServiceInv, AdmittingInv, FailureInv, Up
    <2>5. RequestInv'
      BY <2>1 DEF RequestInv, Before, Up
    <2> QED BY <1>5, <2>3, <2>4, <2>5, StillAlive DEF DrainExpires
  <1>6. CASE DrainDone \/ GatherDone
    <2>1. /\ Alive /\ exit' = exit /\ BeginStop /\ Pending = {}
          /\ lifespan \in {"drain", "gather"}
          /\ UNCHANGED <<server, watchdog, shouldExit, work, startupCompleted,
                         shutdownFailed, service, request, gathered, exit>>
      BY <1>6 DEF DrainDone, GatherDone, RequestInv
    <2>2. /\ quiescing' = TRUE /\ admitting' = {}
          /\ lifespan' = "stopping" /\ shutdownStarted' = TRUE
      BY <2>1, Quiesced DEF BeginStop
    <2>3. server \notin {"load", "startup", "bind", "main", "close"}
      BY <2>1 DEF LocationInv, Before
    <2>4. TypeOK' /\ LocationInv' /\ AdmissionInv'
      BY <2>1, <2>2, <2>3 DEF TypeOK, LocationInv, AdmissionInv, Alive, Up
    <2>5. ServiceInv' /\ AdmittingInv' /\ FailureInv'
      BY <2>1, <2>2 DEF ServiceInv, AdmittingInv, FailureInv, Up
    <2>6. RequestInv'
      BY <2>1, <2>2 DEF RequestInv, Pending, Before, Up
    <2> QED BY <2>1, <2>4, <2>5, <2>6, StillAlive
  <1> QED BY <1>1, <1>2, <1>3, <1>4, <1>5, <1>6

-----------------------------------------------------------------------------
(* The services come down. *)
LEMMA PopServiceStep == ASSUME Inv, PopService PROVE Inv'
  <1> USE DEF Inv, work, phase, service
  <1>1. /\ Alive /\ exit' = exit /\ lifespan \in {"rollback", "stopping"}
        /\ startedServices \in Seq(ToSet(Services)) /\ startedServices # <<>>
        /\ UNCHANGED <<server, lifespan, watchdog, shouldExit, work, phase,
                       shutdownFailed, brokenStops, request, gathered, exit>>
    BY DEF PopService, TypeOK
  <1> DEFINE n == Len(startedServices)
  <1>2. /\ n \in Nat /\ n > 0
        /\ stopping' = startedServices[n] /\ stopping' \in ToSet(Services)
        /\ startedServices' \in Seq(ToSet(Services)) /\ Len(startedServices') = n - 1
        /\ \A i \in 1 .. n - 1 : startedServices'[i] = startedServices[i]
        /\ admitting' = admitting \ {startedServices[n]}
    BY <1>1, LastFront DEF PopService
  <1>3. TypeOK'
    BY <1>1, <1>2 DEF TypeOK
  <1>4. LocationInv' /\ AdmissionInv' /\ RequestInv' /\ FailureInv'
    BY <1>1 DEF LocationInv, AdmissionInv, RequestInv, FailureInv, Alive, Pending
  <1>5. ServiceInv'
    <2>1. n <= Len(Services) /\ \A i \in 1 .. n : startedServices[i] = Services[i]
      BY DEF ServiceInv
    <2>2. /\ Len(startedServices') < Len(Services)
          /\ stopping' = Services[Len(startedServices') + 1]
      BY <1>2, <2>1, ServicesSeq
    <2>3. \A i \in 1 .. Len(startedServices') : startedServices'[i] = Services[i]
      BY <1>2, <2>1
    <2> QED BY <1>1, <2>2, <2>3, ServicesSeq DEF ServiceInv, Up
  <1>6. AdmittingInv'
    <2>1. ASSUME NEW s \in admitting'
          PROVE  \E i \in 1 .. Len(startedServices') : s = startedServices'[i]
      <3>1. s \in admitting /\ s # startedServices[n]
        BY <1>2, <2>1
      <3>2. PICK i \in 1 .. n : s = startedServices[i]
        BY <3>1 DEF AdmittingInv
      <3>3. i \in 1 .. Len(startedServices') /\ s = startedServices'[i]
        BY <1>2, <3>1, <3>2
      <3> QED BY <3>3
    <2> QED BY <2>1 DEF AdmittingInv
  <1> QED BY <1>1, <1>3, <1>4, <1>5, <1>6, StillAlive

LEMMA EndStep ==
    ASSUME Inv, StopService \/ StartupFails \/ Exit PROVE Inv'
  <1> USE DEF Inv, work, phase, service
  <1>1. CASE StopService
    <2>1. TypeOK'
      <3>1. stopping \in ToSet(Services)
        BY <1>1 DEF StopService, TypeOK
      <3>2. brokenStops' \in SUBSET ToSet(Services) /\ shutdownFailed' \in BOOLEAN
        BY <1>1, <3>1 DEF StopService, TypeOK
      <3> QED BY <1>1, <3>2 DEF StopService, TypeOK
    <2>2. LocationInv' /\ AdmissionInv' /\ AdmittingInv' /\ RequestInv'
      BY <1>1 DEF StopService, LocationInv, AdmissionInv, AdmittingInv, RequestInv,
                  Alive, Pending
    <2>3. ServiceInv' /\ FailureInv'
      BY <1>1 DEF StopService, ServiceInv, FailureInv
    <2> QED BY <1>1, <2>1, <2>2, <2>3, StillAlive DEF StopService
  <1>2. CASE StartupFails
    <2>1. /\ quiescing' = TRUE /\ admitting' = {} /\ lifespan' = "over"
          /\ exit' = "one" /\ server' = "gone"
          /\ startedServices' = <<>> /\ stopping' = NoService
      BY <1>2, Quiesced DEF StartupFails, Terminate
    <2>2. TypeOK'
      BY <1>2, <2>1 DEF StartupFails, TypeOK
    <2>3. LocationInv' /\ AdmissionInv' /\ AdmittingInv'
      BY <1>2, <2>1 DEF StartupFails, LocationInv, AdmissionInv, AdmittingInv, Alive
    <2>4. ServiceInv'
      BY <1>2, <2>1 DEF StartupFails, ServiceInv, Up
    <2>5. RequestInv' /\ FailureInv'
      BY <1>2, <2>1 DEF StartupFails, RequestInv, FailureInv, Pending, Before, Up
    <2>6. CleanExitIsClean' /\ NoServiceLeft'
      BY <2>1 DEF CleanExitIsClean, NoServiceLeft
    <2> QED BY <2>2, <2>3, <2>4, <2>5, <2>6
  <1>3. CASE Exit
    <2>1. /\ lifespan = "stopping" /\ lifespan' = "over" /\ server' = "gone"
          /\ startedServices' = <<>> /\ startedServices = <<>> /\ stopping' = NoService
          /\ exit' \in {"zero", "one"}
          /\ exit' = "zero" => ~workFailed /\ ~shutdownFailed
      BY <1>3 DEF Exit, Terminate
    <2>2. TypeOK'
      BY <1>3, <2>1 DEF Exit, TypeOK
    <2>3. LocationInv' /\ AdmissionInv' /\ AdmittingInv'
      BY <1>3, <2>1 DEF Exit, LocationInv, AdmissionInv, AdmittingInv, Alive
    <2>4. ServiceInv'
      BY <1>3, <2>1 DEF Exit, ServiceInv, Up
    <2>5. Pending = {}
      BY <2>1 DEF RequestInv, Up
    <2>6. RequestInv' /\ FailureInv'
      BY <1>3, <2>1, <2>5 DEF Exit, RequestInv, FailureInv, Pending, Before, Up
    <2>7. NoServiceLeft'
      BY <2>1 DEF NoServiceLeft
    <2>8. CleanExitIsClean'
      <3>1. admitting = {}
        <4>1. Len(startedServices) = 0
          BY <2>1
        <4> QED BY <4>1 DEF AdmittingInv
      <3>2. exit' = "zero" =>
              /\ \A r \in Requests : request[r] \in {"new", "refused", "done"}
              /\ brokenStops = {}
        BY <2>1, <2>5 DEF TypeOK, RequestInv, FailureInv, Pending, RequestStates
      <3> QED BY <1>3, <2>1, <3>1, <3>2 DEF Exit, CleanExitIsClean
    <2> QED BY <2>2, <2>3, <2>4, <2>6, <2>7, <2>8
  <1> QED BY <1>1, <1>2, <1>3

-----------------------------------------------------------------------------
LEMMA InductiveStep == Inv /\ [Next]_vars => Inv'
  <1> SUFFICES ASSUME Inv, [Next]_vars PROVE Inv'
    OBVIOUS
  <1>1. CASE UNCHANGED vars
    BY <1>1 DEF vars, work, phase, service, Inv, TypeOK, LocationInv, ServiceInv,
                AdmittingInv, RequestInv, FailureInv, AdmissionInv,
                CleanExitIsClean, NoServiceLeft, Alive, Pending
  <1>2. CASE Startup
    BY <1>2, StartupStep, StartServiceStep DEF Startup
  <1>3. CASE Stop
    BY <1>3, DrainStep, PopServiceStep, EndStep DEF Stop
  <1>4. CASE Signal \/ ForceExit \/ Elapse
    BY <1>4, SignalStep
  <1>5. CASE \E r \in Requests : Arrive(r) \/ Detach(r) \/ Settle(r)
    BY <1>5, RequestStep
  <1> QED BY <1>1, <1>2, <1>3, <1>4, <1>5 DEF Next

(* The invariant holds of every behaviour. *)
THEOREM Invariance == Spec => []Inv
  BY Initial, InductiveStep, PTL DEF Spec

-----------------------------------------------------------------------------
(* No service is stopped while a request has work left, retained or being  *)
(* cancelled (request_work.py 41-56, application.py 89-91).                *)
THEOREM WorkKeepsServices == Spec => []ServicesOutliveWork
  <1>1. Inv => ServicesOutliveWork
    BY DEF Inv, RequestInv, ServiceInv, ServicesOutliveWork
  <1> QED BY <1>1, Invariance, PTL

(* Exit code zero means that no request was cancelled, every service was   *)
(* stopped and every stop worked (http_server.py, run).                    *)
THEOREM ZeroMeansClean == Spec => []CleanExitIsClean
  <1>1. Inv => CleanExitIsClean
    BY DEF Inv
  <1> QED BY <1>1, Invariance, PTL

(* Services come down in the reverse order of their start, also out of a   *)
(* failed startup, and none is left by a process that was not forced       *)
(* (lifecycle_handler.py, _stop_started_services).                         *)
THEOREM OrderlyStop == Spec => []ServicesComeDown
  <1>1. Inv => StopsInReverse
    <2> SUFFICES ASSUME Inv PROVE StopsInReverse
      OBVIOUS
    <2>1. /\ startedServices \in Seq(ToSet(Services)) /\ Len(startedServices) \in Nat
          /\ DOMAIN startedServices = 1 .. Len(startedServices)
          /\ \A i \in 1 .. Len(startedServices) : startedServices[i] = Services[i]
      BY DEF Inv, TypeOK, ServiceInv
    <2>2. CASE stopping = NoService
      BY <2>1, <2>2 DEF StopsInReverse
    <2>3. CASE stopping # NoService
      <3>1. /\ stopping \in ToSet(Services)
            /\ stopping = Services[Len(startedServices) + 1]
        BY <2>3 DEF Inv, TypeOK, ServiceInv
      <3>2. PICK up : up = Append(startedServices, stopping)
        OBVIOUS
      <3>3. /\ up \in Seq(ToSet(Services)) /\ Len(up) = Len(startedServices) + 1
            /\ \A i \in 1 .. Len(startedServices) : up[i] = startedServices[i]
            /\ up[Len(startedServices) + 1] = stopping
        BY <2>1, <3>1, <3>2, AppendFacts
      <3>4. DOMAIN up = 1 .. Len(startedServices) + 1
        BY <3>3
      <3>5. \A i \in DOMAIN up : up[i] = Services[i]
        BY <2>1, <3>1, <3>3, <3>4
      <3> QED BY <2>3, <3>2, <3>5 DEF StopsInReverse
    <2> QED BY <2>2, <2>3
  <1>2. Inv => ServicesComeDown
    BY <1>1 DEF Inv, ServicesComeDown
  <1> QED BY <1>2, Invariance, PTL

(* Once shutdown has begun no request is admitted, although a starting     *)
(* lifespan may have reopened RequestWork (http_server.py 52-68, 74-75).   *)
THEOREM ShutdownAdmitsNothing == Spec => NoAdmissionAfterShutdown
  <1>1. Inv /\ [Next]_vars =>
          [\A r \in Requests :
              request[r] = "new" /\ request'[r] = "running" => ~watchdog]_vars
    <2> SUFFICES ASSUME Inv, Next, NEW r \in Requests,
                        request[r] = "new", request'[r] = "running"
                 PROVE  ~watchdog
      BY DEF vars
    <2>1. ASSUME NEW q \in Requests, Arrive(q)
          PROVE  ~watchdog
      <3>1. ~draining /\ server \in {"main", "close"}
        BY <2>1 DEF Arrive, Inv, TypeOK
      <3> QED BY <3>1 DEF Inv, AdmissionInv
    <2>2. ASSUME NEW q \in Requests, Detach(q) \/ Settle(q)
          PROVE  FALSE
      BY <2>2 DEF Detach, Settle, Pending, Inv, TypeOK
    <2>3. ASSUME NEW tasks \in SUBSET Pending, Cancel(tasks)
          PROVE  FALSE
      BY <2>3 DEF Cancel, Pending
    <2>4. CASE TasksExpire \/ DrainExpires
      BY <2>3, <2>4 DEF TasksExpire, DrainExpires
    <2>5. CASE UNCHANGED request
      BY <2>5
    <2> QED BY <2>1, <2>2, <2>4, <2>5
        DEF Next, Startup, Stop, Signal, ForceExit, Elapse, Load, Resume,
            BeginStartup, StartService, Bind, LeaveMainLoop, TasksComplete,
            EndLifespan, DrainDone, GatherDone, PopService, StopService,
            StartupFails, Exit
  <1> QED BY <1>1, Invariance, PTL DEF Spec, NoAdmissionAfterShutdown

=============================================================================
