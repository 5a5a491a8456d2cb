------------------------ MODULE IdempotencyCleanup -------------------------
(***************************************************************************)
(* IdempotencyCleanupService: a timer and direct callers share one sweep   *)
(* task, which deletes expired records batch by batch.  quiesce() may come *)
(* from a signal at any time; stop() must leave no sweep behind, because   *)
(* the database service is stopped next.                                   *)
(***************************************************************************)
EXTENDS Integers, FiniteSets

CONSTANTS Callers,     \* the timer and direct callers of sweep()
          Timer,       \* the timer task among them
          Sweeps,      \* sweep tasks, bound
          NoSweep,
          MaxBatches,  \* IDEMPOTENCY_CLEANUP_MAX_BATCHES
          BatchSize,   \* IDEMPOTENCY_CLEANUP_BATCH_SIZE
          MaxRows,     \* bound: expired records at a time
          MaxStarts    \* bound: how often the service is started

ASSUME CleanupAssumption ==
    /\ MaxBatches \in Nat \ {0} /\ BatchSize \in Nat \ {0}
    /\ MaxRows \in Nat /\ MaxStarts \in Nat
    /\ Timer \in Callers /\ NoSweep \notin Sweeps
    /\ IsFiniteSet(Callers) /\ IsFiniteSet(Sweeps)

VARIABLES accepting,  \* _accepting; the event _stop is set when it is false
          service,    \* "off", "up", "timer" or "sweep" (what stop() awaits)
          pending,    \* _pending
          sweep,      \* per task: "unused", "loop", "batch", "done", "failed"
          batches,    \* per task: batches begun
          caller,     \* per caller: "off", "idle", "joined", "ended"
          joined,     \* per caller: the task it awaits
          rows,       \* expired records in the table
          starts, late  \* history: starts; batches deleted since quiesce()

cleanupVars == <<accepting, service, pending, sweep, batches, caller, joined,
                 rows, starts, late>>

Running == {s \in Sweeps : sweep[s] \in {"loop", "batch"}}

CleanupInit ==
    /\ accepting = FALSE /\ service = "off" /\ pending = NoSweep
    /\ sweep = [s \in Sweeps |-> "unused"] /\ batches = [s \in Sweeps |-> 0]
    /\ caller = [c \in Callers |-> IF c = Timer THEN "off" ELSE "idle"]
    /\ joined = [c \in Callers |-> NoSweep]
    /\ rows = 0 /\ starts = 0 /\ late = 0

-----------------------------------------------------------------------------
(* The service.                                                            *)
Start ==
    /\ service = "off" /\ starts < MaxStarts
    /\ accepting' = TRUE /\ service' = "up" /\ starts' = starts + 1 /\ late' = 0
    /\ caller' = [caller EXCEPT ![Timer] = "idle"]
    /\ UNCHANGED <<pending, sweep, batches, joined, rows>>

Quiesce ==
    /\ service = "up" /\ accepting
    /\ accepting' = FALSE
    /\ UNCHANGED <<service, pending, sweep, batches, caller, joined, rows, starts, late>>

\* Variant: stop() relies on an earlier quiesce().
StopAcceptsNot == accepting

StopAccepts == FALSE

\* stop(): quiesce, then await the timer.
Stop ==
    /\ service = "up"
    /\ accepting' = StopAccepts /\ service' = "timer"
    /\ UNCHANGED <<pending, sweep, batches, caller, joined, rows, starts, late>>

\* The timer has ended; look at _pending.
TimerAwaited ==
    /\ service = "timer" /\ caller[Timer] = "ended"
    /\ caller' = [caller EXCEPT ![Timer] = "off"]
    /\ service' = IF pending = NoSweep THEN "off" ELSE "sweep"
    /\ UNCHANGED <<accepting, pending, sweep, batches, joined, rows, starts, late>>

\* Variant: a sweep that a direct caller began is nobody's business.
SweepUnawaited ==
    /\ service = "sweep"
    /\ service' = "off"
    /\ UNCHANGED <<accepting, pending, sweep, batches, caller, joined, rows, starts, late>>

\* await shield(pending): the sweep has ended, or its error leaves stop().
SweepAwaited ==
    /\ service = "sweep" /\ pending \notin Running
    /\ service' = "off"
    /\ UNCHANGED <<accepting, pending, sweep, batches, caller, joined, rows, starts, late>>

-----------------------------------------------------------------------------
(* sweep(): the timer calls it when its interval is over.                  *)

\* _run: the event is set and the loop is left.
TimerStops ==
    /\ caller[Timer] = "idle" /\ ~accepting
    /\ caller' = [caller EXCEPT ![Timer] = "ended"]
    /\ UNCHANGED <<accepting, service, pending, sweep, batches, joined, rows, starts, late>>

\* A sweep is pending: share it.
Join(c) ==
    /\ caller[c] = "idle" /\ pending # NoSweep
    /\ caller' = [caller EXCEPT ![c] = "joined"]
    /\ joined' = [joined EXCEPT ![c] = pending]
    /\ UNCHANGED <<accepting, service, pending, sweep, batches, rows, starts, late>>

\* None is pending: create one, unless the service is quiescing.
Create(c, s) ==
    /\ caller[c] = "idle" /\ pending = NoSweep /\ accepting
    /\ sweep[s] = "unused"
    /\ sweep' = [sweep EXCEPT ![s] = "loop"]
    /\ pending' = s
    /\ caller' = [caller EXCEPT ![c] = "joined"]
    /\ joined' = [joined EXCEPT ![c] = s]
    /\ UNCHANGED <<accepting, service, batches, rows, starts, late>>

\* Variant: the finally clause clears whatever is pending.
ClearPendingAny(c) == NoSweep

\* The finally clause: only the sweep this caller awaited is forgotten.
ClearPending(c) == IF pending = joined[c] THEN NoSweep ELSE pending

\* Variant: an error of the sweep ends the timer.
AfterSweepFatal(c) == IF c # Timer \/ sweep[joined[c]] = "failed" THEN "ended" ELSE "idle"

\* The timer logs an error and goes on; another caller has its answer.
AfterSweep(c) == IF c = Timer THEN "idle" ELSE "ended"

Return(c) ==
    /\ caller[c] = "joined" /\ joined[c] \notin Running
    /\ pending' = ClearPending(c)
    /\ caller' = [caller EXCEPT ![c] = AfterSweep(c)]
    /\ joined' = [joined EXCEPT ![c] = NoSweep]
    /\ UNCHANGED <<accepting, service, sweep, batches, rows, starts, late>>

-----------------------------------------------------------------------------
(* _sweep().                                                               *)

\* Variant: every batch of the sweep is begun, whatever quiesce() says.
MoreBatchesInsists(s) == batches[s] < MaxBatches

\* Variant: one batch too many.
MoreBatchesExtra(s) == accepting /\ batches[s] <= MaxBatches

MoreBatches(s) == accepting /\ batches[s] < MaxBatches

NextBatch(s) ==
    /\ sweep[s] = "loop"
    /\ IF MoreBatches(s)
       THEN /\ sweep' = [sweep EXCEPT ![s] = "batch"]
            /\ batches' = [batches EXCEPT ![s] = @ + 1]
       ELSE sweep' = [sweep EXCEPT ![s] = "done"] /\ UNCHANGED batches
    /\ UNCHANGED <<accepting, service, pending, caller, joined, rows, starts, late>>

\* purge_expired_batch in its transaction; a short batch is the last.
Purge(s) ==
    /\ sweep[s] = "batch"
    /\ LET removed == IF rows < BatchSize THEN rows ELSE BatchSize
       IN  /\ rows' = rows - removed
           /\ sweep' = [sweep EXCEPT ![s] = IF removed < BatchSize THEN "done" ELSE "loop"]
    /\ late' = IF accepting THEN late ELSE late + 1
    /\ UNCHANGED <<accepting, service, pending, batches, caller, joined, starts>>

PurgeFails(s) ==
    /\ sweep[s] = "batch"
    /\ sweep' = [sweep EXCEPT ![s] = "failed"]
    /\ UNCHANGED <<accepting, service, pending, batches, caller, joined, rows, starts, late>>

\* The task is collected; its identity may be used again (a bound's device).
Collect(s) ==
    /\ sweep[s] \in {"done", "failed"} /\ pending # s
    /\ \A c \in Callers : joined[c] # s
    /\ sweep' = [sweep EXCEPT ![s] = "unused"]
    /\ batches' = [batches EXCEPT ![s] = 0]
    /\ UNCHANGED <<accepting, service, pending, caller, joined, rows, starts, late>>

\* A record expires, or another replica or a reused key removes one.
RecordExpires == /\ rows < MaxRows /\ rows' = rows + 1
                 /\ UNCHANGED <<accepting, service, pending, sweep, batches, caller,
                                joined, starts, late>>
OtherReplica == /\ rows > 0 /\ rows' = rows - 1
                /\ UNCHANGED <<accepting, service, pending, sweep, batches, caller,
                               joined, starts, late>>

-----------------------------------------------------------------------------
Call(c) == Join(c) \/ \E s \in Sweeps : Create(c, s)

SweepStep(s) == NextBatch(s) \/ Purge(s) \/ PurgeFails(s) \/ Collect(s)

CleanupNext ==
    \/ Start \/ Quiesce \/ Stop \/ TimerAwaited \/ SweepAwaited \/ TimerStops
    \/ \E c \in Callers : Call(c) \/ Return(c)
    \/ \E s \in Sweeps : SweepStep(s)
    \/ RecordExpires \/ OtherReplica

CleanupSpec == CleanupInit /\ [][CleanupNext]_cleanupVars

\* The loop runs its tasks and timers, every batch ends in time, and not
\* every batch fails.
FairSpec ==
    /\ CleanupSpec
    /\ WF_cleanupVars(TimerAwaited) /\ WF_cleanupVars(SweepAwaited)
    /\ WF_cleanupVars(TimerStops)
    /\ WF_cleanupVars(Call(Timer)) /\ \A c \in Callers : WF_cleanupVars(Return(c))
    /\ \A s \in Sweeps : /\ WF_cleanupVars(SweepStep(s))
                         /\ SF_cleanupVars(Purge(s)) /\ WF_cleanupVars(Collect(s))

-----------------------------------------------------------------------------
(* Properties.                                                             *)

CleanupTypeOK ==
    /\ accepting \in BOOLEAN /\ service \in {"off", "up", "timer", "sweep"}
    /\ pending \in Sweeps \cup {NoSweep}
    /\ sweep \in [Sweeps -> {"unused", "loop", "batch", "done", "failed"}]
    /\ batches \in [Sweeps -> 0 .. MaxBatches]
    /\ caller \in [Callers -> {"off", "idle", "joined", "ended"}]
    /\ joined \in [Callers -> Sweeps \cup {NoSweep}]
    /\ rows \in 0 .. MaxRows /\ starts \in 0 .. MaxStarts /\ late \in Nat

\* Overlapping calls share work: a caller that returns late, after another
\* has cleared _pending and a third has begun anew, does not make room for a
\* second sweep (idempotency_cleanup_service.py 57-72).
AtMostOneSweep == Cardinality(Running) <= 1

\* stop() returns only when no sweep uses the database, whoever began it:
\* the timer, or a direct caller that stop() knows nothing of (34-41).
NoSweepOutlivesService == service = "off" => Running = {}

\* After quiesce() the batch in flight is settled and no other is begun: at
\* most one batch ends between it and the end of stop().
AtMostOneLateBatch == late <= 1

\* The shutdown contract of the service: one sweep at a time, at most one
\* batch after quiesce(), none after stop().
StopIsClean ==
    CleanupTypeOK /\ AtMostOneSweep /\ NoSweepOutlivesService /\ AtMostOneLateBatch

\* stop() returns.
StopReturns == service = "timer" ~> service = "off"

\* A full backlog does not stay, although batches fail and sweeps are cut
\* short: the timer survives the errors of its sweeps (46-55).
BacklogDrains == rows = MaxRows ~> rows < MaxRows \/ ~accepting

\* Neither a failing database nor a backlog larger than a sweep keeps the
\* service from its work or from its end.
CleanupProgresses == StopReturns /\ BacklogDrains

=============================================================================
