---------------------------- MODULE DatabasePool ----------------------------
(***************************************************************************)
(* app/common/handlers/database_pool.py: the Admission gate in front of    *)
(* SQLAlchemy's queue pool.  `active' counts admitted callers, `waiters'   *)
(* is the deque of futures of queued ones.  Every caller is an asyncio     *)
(* task, so a step runs from one await to the next: a future that was      *)
(* resolved, failed or cancelled is noticed only when its task is resumed, *)
(* and other tasks run in between.  asyncio.timeout and a cancelled        *)
(* request are one event here, Interrupt.                                  *)
(***************************************************************************)
EXTENDS Integers, Sequences, FiniteSets, SequencesExt

CONSTANTS Tasks,       \* the request tasks that use the engine
          Limit,       \* Admission.limit, the pool's size
          QueueLimit   \* Admission.queue_limit

ASSUME TasksAssumption == IsFiniteSet(Tasks)
ASSUME LimitAssumption == Limit \in Nat \ {0}
ASSUME QueueLimitAssumption == QueueLimit \in Nat

VARIABLES active,     \* Admission.active
          waiters,    \* Admission.waiters; the task stands for its future
          closed,     \* Admission.closed
          future,     \* state of the future a task awaits in acquire
          cancelReq,  \* tasks cancelled after their future was done
          pc,         \* where a task is in _acquire_record/_do_return_conn
          idle,       \* records parked in the native queue
          overflow    \* QueuePool._overflow, -Limit when nothing is open

vars == <<active, waiters, closed, future, cancelReq, pc, idle, overflow>>

FutureStates == {"none", "pending", "result", "cancelled", "exception"}

\* "outside": no slot and no wait; "leased": the record is in _leased.
PcStates == {"outside", "waiting", "connecting", "closing", "leased"}

TypeOK ==
    /\ active \in Nat
    /\ waiters \in Seq(Tasks)
    /\ closed \in BOOLEAN
    /\ future \in [Tasks -> FutureStates]
    /\ cancelReq \in SUBSET Tasks
    /\ pc \in [Tasks -> PcStates]
    /\ idle \in Nat
    /\ overflow \in Int

Init ==
    /\ active = 0
    /\ waiters = <<>>
    /\ closed = FALSE
    /\ future = [t \in Tasks |-> "none"]
    /\ cancelReq = {}
    /\ pc = [t \in Tasks |-> "outside"]
    /\ idle = 0
    /\ overflow = -Limit

-----------------------------------------------------------------------------
(* Admission.release: pop waiters until one is not done and give it the    *)
(* slot; when none is left the slot is given up.  f is the future function *)
(* once the releasing task has left acquire.                               *)

(* Variant: pop() instead of popleft(). *)
HandOffLast(f) ==
    \E i \in 1..Len(waiters) :
        /\ f[waiters[i]] = "pending"
        /\ \A j \in (i + 1)..Len(waiters) : f[waiters[j]] # "pending"
        /\ waiters' = SubSeq(waiters, 1, i - 1)
        /\ future' = [f EXCEPT ![waiters[i]] = "result"]
        /\ active' = active

HandOff(f) ==
    \E i \in 1..Len(waiters) :
        /\ f[waiters[i]] = "pending"
        /\ \A j \in 1..(i - 1) : f[waiters[j]] # "pending"
        /\ waiters' = SubSeq(waiters, i + 1, Len(waiters))
        /\ future' = [f EXCEPT ![waiters[i]] = "result"]
        /\ active' = active

(* Variant: the slot is given up although somebody waits. *)
FreeSlotPastWaiters(f) ==
    /\ waiters' = waiters
    /\ future' = f
    /\ active' = active - 1

FreeSlot(f) ==
    /\ \A i \in 1..Len(waiters) : f[waiters[i]] # "pending"
    /\ waiters' = <<>>
    /\ future' = f
    /\ active' = active - 1

Release(f) == HandOff(f) \/ FreeSlot(f)

(* super()._do_get for a task that holds a slot.  A parked record is taken *)
(* without an await; otherwise the native pool opens a connection while    *)
(* its overflow counter allows one (max_overflow = 0).                     *)

TakeRecord(t) ==
    \/ /\ idle > 0
       /\ idle' = idle - 1
       /\ pc' = [pc EXCEPT ![t] = IF closed THEN "closing" ELSE "leased"]
       /\ UNCHANGED overflow
    \/ /\ idle = 0
       /\ overflow < 0
       /\ overflow' = overflow + 1
       /\ pc' = [pc EXCEPT ![t] = "connecting"]
       /\ UNCHANGED idle

-----------------------------------------------------------------------------
(* Admission.acquire up to its await. *)

AcquireRefused(t) ==
    /\ pc[t] = "outside"
    /\ closed \/ (active >= Limit /\ Len(waiters) >= QueueLimit)
    /\ UNCHANGED vars

(* Variant: off by one at the limit. *)
AcquireFreeOneMore(t) ==
    /\ pc[t] = "outside"
    /\ ~closed
    /\ active <= Limit
    /\ active' = active + 1
    /\ TakeRecord(t)
    /\ UNCHANGED <<waiters, closed, future, cancelReq>>

AcquireFree(t) ==
    /\ pc[t] = "outside"
    /\ ~closed
    /\ active < Limit
    /\ active' = active + 1
    /\ TakeRecord(t)
    /\ UNCHANGED <<waiters, closed, future, cancelReq>>

Enqueue(t) ==
    /\ pc[t] = "outside"
    /\ ~closed
    /\ active >= Limit
    /\ Len(waiters) < QueueLimit
    /\ waiters' = Append(waiters, t)
    /\ future' = [future EXCEPT ![t] = "pending"]
    /\ pc' = [pc EXCEPT ![t] = "waiting"]
    /\ UNCHANGED <<active, closed, cancelReq, idle, overflow>>

(* The acquire timeout or a cancellation reaches a queued task.  A pending *)
(* future is cancelled in place (it stays in the deque); a done one cannot *)
(* be, so the task is told to raise when it is resumed.                    *)
Interrupt(t) ==
    /\ pc[t] = "waiting"
    /\ IF future[t] = "pending"
       THEN /\ future' = [future EXCEPT ![t] = "cancelled"]
            /\ UNCHANGED cancelReq
       ELSE /\ future[t] \in {"result", "exception"}
            /\ t \notin cancelReq
            /\ cancelReq' = cancelReq \cup {t}
            /\ UNCHANGED future
    /\ UNCHANGED <<active, waiters, closed, pc, idle, overflow>>

(* The task is resumed from `await waiter' holding the slot it was given. *)
ResumeGranted(t) ==
    /\ pc[t] = "waiting"
    /\ future[t] = "result"
    /\ t \notin cancelReq
    /\ future' = [future EXCEPT ![t] = "none"]
    /\ TakeRecord(t)
    /\ UNCHANGED <<active, waiters, closed, cancelReq>>

(* Variant: a cancelled task forgets the slot it was given. *)
ResumeGrantedCancelledKeeps(t) ==
    /\ pc[t] = "waiting"
    /\ future[t] = "result"
    /\ t \in cancelReq
    /\ pc' = [pc EXCEPT ![t] = "outside"]
    /\ cancelReq' = cancelReq \ {t}
    /\ future' = [future EXCEPT ![t] = "none"]
    /\ UNCHANGED <<active, waiters, closed, idle, overflow>>

(* It was given the slot and cancelled before it ran: the except branch    *)
(* passes the slot on.                                                     *)
ResumeGrantedCancelled(t) ==
    /\ pc[t] = "waiting"
    /\ future[t] = "result"
    /\ t \in cancelReq
    /\ pc' = [pc EXCEPT ![t] = "outside"]
    /\ cancelReq' = cancelReq \ {t}
    /\ Release([future EXCEPT ![t] = "none"])
    /\ UNCHANGED <<closed, idle, overflow>>

(* Variant: a waiter that was never given a slot releases one. *)
ResumeFailedReleases(t) ==
    /\ pc[t] = "waiting"
    /\ future[t] \in {"cancelled", "exception"}
    /\ pc' = [pc EXCEPT ![t] = "outside"]
    /\ cancelReq' = cancelReq \ {t}
    /\ Release([future EXCEPT ![t] = "none"])
    /\ UNCHANGED <<closed, idle, overflow>>

(* It was cancelled while queued, or the pool was closed: it removes its   *)
(* future if release or close has not popped it already, and owns nothing. *)
ResumeFailed(t) ==
    /\ pc[t] = "waiting"
    /\ future[t] \in {"cancelled", "exception"}
    /\ \/ /\ \A i \in 1..Len(waiters) : waiters[i] # t
          /\ UNCHANGED waiters
       \/ \E i \in 1..Len(waiters) :
             /\ waiters[i] = t
             /\ waiters' = RemoveAt(waiters, i)
    /\ future' = [future EXCEPT ![t] = "none"]
    /\ pc' = [pc EXCEPT ![t] = "outside"]
    /\ cancelReq' = cancelReq \ {t}
    /\ UNCHANGED <<active, closed, idle, overflow>>

-----------------------------------------------------------------------------
(* The rest of _acquire_record, and _do_return_conn. *)

(* Variant: `closed' is not looked at again after the connect. *)
ConnectedUnchecked(t) ==
    /\ pc[t] = "connecting"
    /\ pc' = [pc EXCEPT ![t] = "leased"]
    /\ UNCHANGED <<active, waiters, closed, future, cancelReq, idle, overflow>>

(* The physical connection is up; a pool closed meanwhile gets rid of it. *)
Connected(t) ==
    /\ pc[t] = "connecting"
    /\ pc' = [pc EXCEPT ![t] = IF closed THEN "closing" ELSE "leased"]
    /\ UNCHANGED <<active, waiters, closed, future, cancelReq, idle, overflow>>

(* Variant: the native counter keeps the connection that failed. *)
ConnectFailedCounted(t) ==
    /\ pc[t] = "connecting"
    /\ pc' = [pc EXCEPT ![t] = "outside"]
    /\ Release(future)
    /\ UNCHANGED <<closed, cancelReq, idle, overflow>>

(* The connection attempt fails, times out or is cancelled. *)
ConnectFailed(t) ==
    /\ pc[t] = "connecting"
    /\ overflow' = overflow - 1
    /\ pc' = [pc EXCEPT ![t] = "outside"]
    /\ Release(future)
    /\ UNCHANGED <<closed, cancelReq, idle>>

(* record.close() ended, normally or not. *)
RecordClosed(t) ==
    /\ pc[t] = "closing"
    /\ pc' = [pc EXCEPT ![t] = "outside"]
    /\ Release(future)
    /\ UNCHANGED <<closed, cancelReq, idle, overflow>>

ReturnParked(t) ==
    /\ pc[t] = "leased"
    /\ ~closed
    /\ idle' = idle + 1
    /\ pc' = [pc EXCEPT ![t] = "outside"]
    /\ Release(future)
    /\ UNCHANGED <<closed, cancelReq, overflow>>

ReturnClosing(t) ==
    /\ pc[t] = "leased"
    /\ closed
    /\ pc' = [pc EXCEPT ![t] = "closing"]
    /\ UNCHANGED <<active, waiters, closed, future, cancelReq, idle, overflow>>

(* Variant: the queue is cleared without failing its futures. *)
DisposeSilently ==
    /\ ~closed
    /\ closed' = TRUE
    /\ waiters' = <<>>
    /\ idle' = 0
    /\ overflow' = -Limit
    /\ UNCHANGED <<active, future, cancelReq, pc>>

(* dispose: close the gate, fail every queued future, then let the native  *)
(* pool drop its parked records and reset its counter.                     *)
Dispose ==
    /\ ~closed
    /\ closed' = TRUE
    /\ waiters' = <<>>
    /\ future' = [t \in Tasks |->
                    IF future[t] = "pending" /\ \E i \in 1..Len(waiters) : waiters[i] = t
                    THEN "exception" ELSE future[t]]
    /\ idle' = 0
    /\ overflow' = -Limit
    /\ UNCHANGED <<active, cancelReq, pc>>

-----------------------------------------------------------------------------
Resume(t) == ResumeGranted(t) \/ ResumeGrantedCancelled(t) \/ ResumeFailed(t)

Connect(t) == Connected(t) \/ ConnectFailed(t)

Return(t) == ReturnParked(t) \/ ReturnClosing(t)

Next ==
    \/ Dispose
    \/ \E t \in Tasks :
         \/ AcquireRefused(t)
         \/ AcquireFree(t)
         \/ Enqueue(t)
         \/ Interrupt(t)
         \/ Resume(t)
         \/ Connect(t)
         \/ RecordClosed(t)
         \/ Return(t)

(* The event loop resumes every task whose future is done; a connection    *)
(* attempt is bounded by connect_timeout_ms; a holder returns its record   *)
(* because request work is bounded by its deadline and by the drain.  No   *)
(* fairness of Interrupt: nothing below relies on the acquire timeout.     *)
Fairness ==
    \A t \in Tasks :
        /\ WF_vars(Resume(t))
        /\ WF_vars(Connect(t))
        /\ WF_vars(RecordClosed(t))
        /\ WF_vars(Return(t))

Spec == Init /\ [][Next]_vars

FairSpec == Spec /\ Fairness

-----------------------------------------------------------------------------
Granted == {t \in Tasks : pc[t] = "waiting" /\ future[t] = "result"}

RecordUsers == {t \in Tasks : pc[t] \in {"connecting", "closing", "leased"}}

Holders == Granted \cup RecordUsers

(* `active' is exactly the number of tasks that own a slot, whichever way  *)
(* a grant, a cancellation, a connection failure and a close interleave:   *)
(* no slot is lost and none is released twice.                             *)
SlotAccounting == active = Cardinality(Holders)

(* Never more owners than the configured pool size. *)
WithinLimit == active <= Limit

(* A task queues only for slots that are really taken, and the queue stays *)
(* within its limit: release never frees a slot past a queued future.      *)
QueueOnlyWhenFull ==
    /\ Len(waiters) <= QueueLimit
    /\ waiters # <<>> => active = Limit

(* Both limits hold and no slot is idle while somebody waits for one.      *)
PoolIsBounded == TypeOK /\ WithinLimit /\ QueueOnlyWhenFull

(* A task owning a slot never has to wait again in the native pool, so the *)
(* acquire timeout covers queueing and connecting only: a parked record or *)
(* room for a new connection is left for every granted task and for every  *)
(* free slot, also across dispose.                                         *)
SlotMeansRecord ==
    /\ Granted # {} => idle > 0 \/ overflow < 0
    /\ ~closed /\ active < Limit => idle > 0 \/ overflow < 0

(* No task starts to hold a record once the pool is closed. *)
NoLeaseAfterClose ==
    [][closed => \A t \in Tasks : pc'[t] = "leased" => pc[t] = "leased"]_vars

(* A slot goes to the longest-queued live waiter: whoever is granted, no   *)
(* pending future stood in front of it.                                    *)
FirstComeFirstServed ==
    [][\A i \in 1..Len(waiters) :
          (future[waiters[i]] = "pending" /\ future'[waiters[i]] = "result")
          => \A j \in 1..(i - 1) : future[waiters[j]] # "pending"]_vars

(* Holders that return their records are enough for every queued task to   *)
(* leave the queue, without any timeout.                                   *)
NoStarvation == \A t \in Tasks : (pc[t] = "waiting") ~> (pc[t] # "waiting")
=============================================================================
