----------------------------- MODULE Readiness -----------------------------
(***************************************************************************)
(* The readiness of the application: DatabaseReadiness' shared probe and   *)
(* cache, DatabaseService's start and stop around it, the checks of        *)
(* LifecycleHandler and the two callers, GET /ready and GET /system.  A    *)
(* step is what runs between two awaits.  The done callback of a probe     *)
(* task, _finished, is queued on the event loop when the task ends: other  *)
(* tasks that are ready may run before it, I/O may not complete before it. *)
(***************************************************************************)
EXTENDS Integers, FiniteSets

CONSTANTS Callers,   \* requests for /ready and /system
          Probes,    \* probe tasks in the order of creation, bound
          NoProbe,
          CacheTime, \* cache_ms
          MaxTime,   \* bound: the clock stops here
          MaxStarts  \* bound: how often the service is started

ASSUME ReadinessAssumption ==
    /\ CacheTime \in Nat /\ MaxTime \in Nat /\ MaxStarts \in Nat
    /\ IsFiniteSet(Callers) /\ Probes \subseteq Nat /\ NoProbe \notin Probes

VARIABLES now,
          stopped, active, cached,  \* DatabaseReadiness
          probe,      \* per task: where it is, its result, cancelled, its end
          service,    \* DatabaseService: "off", "up", "stopping", "disposed"
          starts,     \* history: how often resume() ran
          quiescing,  \* LifecycleHandler._quiescing, and cleanup's too
          caller,     \* per request: what it has learnt so far
          dirty       \* history: leases returned with an unread answer

db == <<stopped, active, cached>>
vars == <<now, db, probe, service, starts, quiescing, caller, dirty>>

NoCache == [until |-> 0, by |-> NoProbe]

Unused == [at |-> "unused", result |-> "none", cancelled |-> FALSE,
           ended |-> 0, start |-> 0]

\* What a request has asked and heard: the flags it read, then the checks.
Fresh == [at |-> "new", ready |-> FALSE, db |-> "todo", cleanup |-> FALSE,
          probe |-> NoProbe, asked |-> 0, start |-> 0]

Working == {"acquire", "select", "invalidate", "return"}
Results == {"up", "down", "cancelled"}

Init ==
    /\ now = 0 /\ stopped = TRUE /\ active = NoProbe /\ cached = NoCache
    /\ probe = [p \in Probes |-> Unused]
    /\ service = "off" /\ starts = 0 /\ quiescing = FALSE
    /\ caller = [c \in Callers |-> Fresh] /\ dirty = 0

Tick == /\ now < MaxTime /\ now' = now + 1
        /\ UNCHANGED <<db, probe, service, starts, quiescing, caller, dirty>>

-----------------------------------------------------------------------------
(* DatabaseService.                                                        *)

\* init_db: the revision is current, resume().  It took I/O, so no callback
\* of an earlier probe is left.
InitDb ==
    /\ service \in {"off", "disposed"} /\ starts < MaxStarts
    /\ \A p \in Probes : probe[p].at # "done"
    /\ service' = "up" /\ starts' = starts + 1 /\ quiescing' = FALSE
    /\ stopped' = FALSE /\ cached' = NoCache
    /\ UNCHANGED <<now, active, probe, caller, dirty>>

\* Shutdown has begun; quiesce() also stops the cleanup service's admission.
Quiesce ==
    /\ service = "up" /\ ~quiescing
    /\ quiescing' = TRUE
    /\ UNCHANGED <<now, db, probe, service, starts, caller, dirty>>

\* close_db: stop() up to the await of the probe it cancels.
CloseDb ==
    /\ service = "up" /\ quiescing
    /\ service' = "stopping"
    /\ stopped' = TRUE /\ cached' = NoCache
    /\ probe' = [p \in Probes |-> IF p = active
                                  THEN [probe[p] EXCEPT !.cancelled = TRUE]
                                  ELSE probe[p]]
    /\ UNCHANGED <<now, active, starts, quiescing, caller, dirty>>

\* Variant: stop() does not await the probe it has cancelled.
ProbeAwaitedNot == TRUE

ProbeAwaited == active # NoProbe => probe[active].at \notin Working

\* The probe has ended, one way or another: engine.dispose().
Dispose ==
    /\ service = "stopping" /\ ProbeAwaited
    /\ active' = NoProbe
    /\ service' = "disposed"
    /\ UNCHANGED <<now, stopped, cached, probe, starts, quiescing, caller, dirty>>

-----------------------------------------------------------------------------
(* The probe task.                                                         *)
Goto(p, at) == probe' = [probe EXCEPT ![p].at = at]

End(p, result) ==
    probe' = [probe EXCEPT ![p].at = "done", ![p].result = result]

\* What an interruption ends the probe with: asyncio.timeout turns its own
\* cancellation into a TimeoutError, stop()'s goes through.
Interruption(p) == IF probe[p].cancelled THEN "cancelled" ELSE "down"

Step(p, at) ==
    /\ probe[p].at = at
    /\ UNCHANGED <<now, db, service, starts, quiescing, caller>>

\* engine.connect(): a lease, or pool and connect errors, the deadline or
\* the cancellation.
Acquire(p) ==
    /\ Step(p, "acquire")
    /\ \/ ~probe[p].cancelled /\ Goto(p, "select")
       \/ End(p, Interruption(p))
    /\ UNCHANGED dirty

\* Variant: a failed SELECT goes back to the pool with its connection.
SelectUnretired(p) ==
    /\ Step(p, "select")
    /\ \/ ~probe[p].cancelled /\ Goto(p, "return") /\ UNCHANGED dirty
       \/ End(p, Interruption(p)) /\ dirty' = dirty + 1

\* SELECT 1 answers; or it fails or is interrupted.
Select(p) ==
    /\ Step(p, "select")
    /\ \/ ~probe[p].cancelled /\ Goto(p, "return")
       \/ Goto(p, "invalidate")
    /\ UNCHANGED dirty

\* connection.invalidate(), whose own error would hide a cancellation.
Invalidate(p) ==
    /\ Step(p, "invalidate")
    /\ \/ End(p, Interruption(p))
       \/ End(p, "down")
    /\ UNCHANGED dirty

\* The connection goes back in time, or not.
Return(p) ==
    /\ Step(p, "return")
    /\ \/ ~probe[p].cancelled /\ End(p, "up")
       \/ End(p, Interruption(p))
    /\ UNCHANGED dirty

\* _finished.
Finished(p) ==
    /\ probe[p].at = "done"
    /\ probe' = [probe EXCEPT ![p].at = "finished", ![p].ended = now]
    /\ active' = IF active = p THEN NoProbe ELSE active
    /\ cached' = IF probe[p].result # "cancelled" /\ ~stopped
                 THEN [until |-> now + CacheTime, by |-> p] ELSE cached
    /\ UNCHANGED <<now, stopped, service, starts, quiescing, caller, dirty>>

-----------------------------------------------------------------------------
(* The callers.                                                            *)
Learn(c, result, p) ==
    caller' = [caller EXCEPT ![c].db = result, ![c].probe = p]

\* SystemService.ready reads is_ready() first and then gathers the checks;
\* SystemDiagnosticsService.collect starts its database check.
Begin(c) ==
    /\ service # "off" /\ caller[c].at = "new"
    /\ caller' = [caller EXCEPT ![c].at = "checking",
                                ![c].ready = service = "up" /\ ~quiescing]
    /\ UNCHANGED <<now, db, probe, service, starts, quiescing, dirty>>

\* Variant: a cached result has no expiry.
CacheHitForever == cached.by # NoProbe

CacheHit == cached.by # NoProbe /\ now < cached.until

Ask(c) ==
    /\ caller[c].at = "checking" /\ caller[c].db = "todo"
    /\ UNCHANGED <<now, service, starts, quiescing, dirty>>

\* The tasks that check_services gathers take their first steps one after
\* the other: the cleanup service's check, which awaits nothing, is done then.
Asked(c, result, p) ==
    caller' = [caller EXCEPT ![c].db = result, ![c].probe = p,
                             ![c].cleanup = service = "up" /\ ~quiescing,
                             ![c].asked = now, ![c].start = starts]

\* DatabaseReadiness.check, in the order of its returns.
CheckStopped(c) ==
    /\ Ask(c) /\ stopped
    /\ Asked(c, "down", NoProbe)
    /\ UNCHANGED <<db, probe>>

CheckJoins(c) ==
    /\ Ask(c) /\ ~stopped /\ active # NoProbe
    /\ Asked(c, IF probe[active].at = "done" THEN probe[active].result
                                             ELSE "joined", active)
    /\ UNCHANGED <<db, probe>>

CheckCached(c) ==
    /\ Ask(c) /\ ~stopped /\ active = NoProbe /\ CacheHit
    /\ Asked(c, probe[cached.by].result, cached.by)
    /\ UNCHANGED <<db, probe>>

CheckProbes(c, p) ==
    /\ Ask(c) /\ ~stopped /\ active = NoProbe /\ ~CacheHit
    /\ probe[p].at = "unused" /\ \A q \in Probes : q < p => probe[q].at # "unused"
    /\ probe' = [probe EXCEPT ![p].at = "acquire", ![p].start = starts]
    /\ active' = p
    /\ Asked(c, "joined", p)
    /\ UNCHANGED <<stopped, cached>>

\* Variant: the caller does not wait for the probe.
ShieldDoneAtOnce(c) == TRUE

ShieldDone(c) == probe[caller[c].probe].at = "finished"

\* The shielded probe has ended; its cancellation reaches the caller too.
Hear(c) ==
    /\ caller[c].db = "joined" /\ ShieldDone(c)
    /\ Learn(c, probe[caller[c].probe].result, caller[c].probe)
    /\ UNCHANGED <<now, db, probe, service, starts, quiescing, dirty>>

\* Variant: the caller that gives up takes the shared probe for its own.
GiveUpUnshielded(c) ==
    /\ caller[c].at = "checking" /\ caller[c].db = "joined"
    /\ Learn(c, "down", NoProbe)
    /\ active' = NoProbe
    /\ UNCHANGED <<now, stopped, cached, probe, service, starts, quiescing, dirty>>

\* Variant: the lifecycle waits for the check without a deadline.
GiveUpNever(c) == FALSE /\ UNCHANGED vars

\* _check_service's or _database_status' wait_for expires: down.
GiveUp(c) ==
    /\ caller[c].at = "checking" /\ caller[c].db = "joined"
    /\ Learn(c, "down", NoProbe)
    /\ UNCHANGED <<now, db, probe, service, starts, quiescing, dirty>>

\* The answer: 200 or 503, connected or disconnected, or the cancellation.
\* What the request knew goes with it.
Answer(c) ==
    /\ caller[c].at = "checking"
    /\ caller[c].db \in Results
    /\ caller' = [caller EXCEPT ![c] = [Fresh EXCEPT !.at =
         CASE caller[c].db = "cancelled" -> "cancelled"
           [] caller[c].ready /\ caller[c].db = "up" /\ caller[c].cleanup
                -> "200"
           [] OTHER -> "503"]]
    /\ UNCHANGED <<now, db, probe, service, starts, quiescing, dirty>>

-----------------------------------------------------------------------------
ProbeStep(p) == \/ Acquire(p) \/ Select(p) \/ Invalidate(p) \/ Return(p)
                \/ Finished(p)

Check(c) == \/ CheckStopped(c) \/ CheckJoins(c) \/ CheckCached(c)
            \/ \E p \in Probes : CheckProbes(c, p)

Next == \/ Tick \/ InitDb \/ Quiesce \/ CloseDb \/ Dispose
        \/ \E p \in Probes : ProbeStep(p)
        \/ \E c \in Callers : \/ Begin(c) \/ Check(c) \/ Hear(c) \/ GiveUp(c) \/ Answer(c)

Spec == Init /\ [][Next]_vars

\* The event loop runs the callers and fires their timers.  The probe is not
\* fair: the server may never answer, and its clean-up may hang.
FairSpec ==
    /\ Spec
    /\ \A c \in Callers : WF_vars(Check(c) \/ GiveUp(c) \/ Answer(c))

-----------------------------------------------------------------------------
(* Properties.                                                             *)

TypeOK ==
    /\ now \in 0 .. MaxTime /\ starts \in 0 .. MaxStarts /\ dirty \in Nat
    /\ stopped \in BOOLEAN /\ quiescing \in BOOLEAN
    /\ active \in Probes \cup {NoProbe}
    /\ cached \in [until : Nat, by : Probes \cup {NoProbe}]
    /\ probe \in [Probes -> [at : Working \cup {"unused", "done", "finished"},
                             result : Results \cup {"none"},
                             cancelled : BOOLEAN, ended : Nat, start : Nat]]
    /\ service \in {"off", "up", "stopping", "disposed"}
    /\ caller \in [Callers ->
         [at : {"new", "checking", "200", "503", "cancelled"}, ready : BOOLEAN,
          db : Results \cup {"todo", "joined"}, cleanup : BOOLEAN,
          probe : Probes \cup {NoProbe}, asked : Nat, start : Nat]]

\* Callers share one probe: however they join, give up and return, there is
\* never a second one beside it (database_readiness.py 31-45).
AtMostOneProbe == Cardinality({p \in Probes : probe[p].at \in Working}) <= 1

\* The engine is disposed only after the probe's clean-up: no probe holds or
\* asks for a lease of a stopped service, not even one that outlived all its
\* callers (database_readiness.py 68-85, database.py 71-73).
ProbeWithinService ==
    \A p \in Probes : probe[p].at \in Working => service \in {"up", "stopping"}

\* A caller that heard "up" has evidence: a successful probe of this start of
\* the service, ended less than the cache time before it asked, or later.
UpIsEvidence ==
    \A c \in Callers : caller[c].db = "up" =>
        LET p == probe[caller[c].probe]
        IN  /\ p.result = "up" /\ p.start = caller[c].start
            /\ p.at = "finished" =>
                  p.ended >= caller[c].asked \/ caller[c].asked < p.ended + CacheTime

\* No connection goes back to the pool with an answer it has not read: only
\* the probe's own connection is given up, and always (55-63).
PoolStaysClean == dirty = 0

\* However callers come, give up and return and the service is stopped and
\* started again, the probe is one, ends before the engine is disposed and
\* leaves nothing behind in the pool.
ProbeIsContained == TypeOK /\ AtMostOneProbe /\ ProbeWithinService /\ PoolStaysClean

\* Every check is answered, even when the probe hangs for ever: the deadline
\* of the caller does not depend on it (lifecycle_handler.py 104-118).
EveryCheckAnswered ==
    \A c \in Callers : caller[c].at = "checking" ~> caller[c].at \in {"200", "503", "cancelled"}

=============================================================================
