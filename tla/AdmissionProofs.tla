-------------------------- MODULE AdmissionProofs ---------------------------
(***************************************************************************)
(* The two admission controls, for every limit and every number of users.  *)
(*                                                                         *)
(* The database pool: slots are counted as two disjoint sets, the tasks    *)
(* that were granted one and have not run yet (Granted) and those that use *)
(* a record (RecordUsers); both are followed through every interleaving    *)
(* with cancellations and dispose.                                         *)
(*                                                                         *)
(* The rate limiter: the ring of a client holds the last of the admissions *)
(* a full history would show, and all that is missing from it has left the *)
(* window; the table is sorted by expiry, so its head is the entry that    *)
(* goes first.  From this follow the accounting, the quota, Retry-After,   *)
(* and that the limiter implements a sliding window over the history.      *)
(***************************************************************************)
EXTENDS DatabasePool, RateLimiter, FiniteSetTheorems, WellFoundedInduction, TLAPS

-----------------------------------------------------------------------------
(* The database pool: its inductive invariant. *)

(* The deque holds each waiting task once, and only futures that have      *)
(* neither a result nor an exception; a task awaits a future exactly while *)
(* it is queued.  A closed pool has no queue.                              *)
QueueInv ==
    /\ \A i \in 1..Len(waiters) : /\ pc[waiters[i]] = "waiting"
                                  /\ future[waiters[i]] \in {"pending", "cancelled"}
    /\ \A i, j \in 1..Len(waiters) : waiters[i] = waiters[j] => i = j
    /\ \A t \in Tasks : pc[t] = "waiting" <=> future[t] # "none"
    /\ closed => waiters = <<>>

(* What active counts. *)
CountInv == active = Cardinality(Granted) + Cardinality(RecordUsers)

(* The native pool's counter: while the pool is open it counts the parked  *)
(* and the used records; dispose resets it under the feet of the users, so *)
(* afterwards only the granted tasks are sure to find room.  A record is   *)
(* closed only by a closed pool.                                           *)
NativeInv ==
    /\ ~closed => overflow + Limit = idle + Cardinality(RecordUsers)
    /\ closed => idle = 0 /\ overflow + Cardinality(Granted) <= 0
    /\ \A t \in Tasks : pc[t] = "closing" => closed

Inv ==
    /\ TypeOK
    /\ QueueInv
    /\ CountInv
    /\ WithinLimit
    /\ QueueOnlyWhenFull
    /\ NativeInv

-----------------------------------------------------------------------------
(* A concatenation, position by position. *)
LEMMA Joined ==
    ASSUME NEW S, NEW a \in Seq(S), NEW b \in Seq(S)
    PROVE  /\ a \o b \in Seq(S) /\ Len(a \o b) = Len(a) + Len(b)
           /\ \A k \in 1 .. (Len(a) + Len(b)) :
                (a \o b)[k] = IF k <= Len(a) THEN a[k] ELSE b[k - Len(a)]
  OBVIOUS

(* Granted and RecordUsers are finite and disjoint, and make up Holders. *)
LEMMA HolderSets ==
    ASSUME TypeOK
    PROVE  /\ IsFiniteSet(Granted) /\ Cardinality(Granted) \in Nat
           /\ IsFiniteSet(RecordUsers) /\ Cardinality(RecordUsers) \in Nat
           /\ Cardinality(Holders) = Cardinality(Granted) + Cardinality(RecordUsers)
  <1>1. IsFiniteSet(Granted) /\ IsFiniteSet(RecordUsers)
    BY TasksAssumption, FS_Subset DEF Granted, RecordUsers
  <1>2. Cardinality(Granted) \in Nat /\ Cardinality(RecordUsers) \in Nat
    BY <1>1, FS_CardinalityType
  <1>3. Granted \cap RecordUsers = {}
    BY DEF Granted, RecordUsers
  <1>4. Cardinality(Granted \cup RecordUsers)
          = Cardinality(Granted) + Cardinality(RecordUsers) - Cardinality({})
    BY <1>1, <1>3, FS_Union
  <1>5. Cardinality({}) = 0
    BY FS_EmptySet
  <1> QED BY <1>1, <1>2, <1>4, <1>5 DEF Holders

(* How one added or removed task changes a cardinality. *)
LEMMA CountOne ==
    ASSUME NEW S, IsFiniteSet(S), NEW x
    PROVE  /\ Cardinality(S) \in Nat
           /\ x \notin S => Cardinality(S \cup {x}) = Cardinality(S) + 1
           /\ x \in S => Cardinality(S \ {x}) = Cardinality(S) - 1
           /\ IsFiniteSet(S \cup {x}) /\ IsFiniteSet(S \ {x})
           /\ x \in S => Cardinality(S) > 0
  <1>1. Cardinality(S) \in Nat
    BY FS_CardinalityType
  <1>2. x \notin S => Cardinality(S \cup {x}) = Cardinality(S) + 1
    BY FS_AddElement
  <1>3. x \in S => Cardinality(S \ {x}) = Cardinality(S) - 1
    BY FS_RemoveElement
  <1>4. IsFiniteSet(S \cup {x}) /\ IsFiniteSet(S \ {x})
    BY FS_AddElement, FS_RemoveElement
  <1>5. x \in S => Cardinality(S \ {x}) \in Nat
    BY <1>4, FS_CardinalityType
  <1> QED BY <1>1, <1>2, <1>3, <1>4, <1>5

(* Facts on the deque operations that the actions use. *)
LEMMA DropFront ==
    ASSUME NEW s \in Seq(Tasks), NEW i \in 1..Len(s)
    PROVE  /\ SubSeq(s, i + 1, Len(s)) \in Seq(Tasks)
           /\ Len(SubSeq(s, i + 1, Len(s))) = Len(s) - i
           /\ \A k \in 1..(Len(s) - i) :
                SubSeq(s, i + 1, Len(s))[k] = s[i + k]
  OBVIOUS

(* The deque without its i-th future. *)
LEMMA RemoveAtFacts ==
    ASSUME NEW s \in Seq(Tasks), NEW i \in 1..Len(s)
    PROVE  /\ RemoveAt(s, i) \in Seq(Tasks)
           /\ Len(RemoveAt(s, i)) = Len(s) - 1
           /\ \A k \in 1..(Len(s) - 1) :
                RemoveAt(s, i)[k] = IF k < i THEN s[k] ELSE s[k + 1]
  <1>1. PICK A : A = SubSeq(s, 1, i - 1)
    OBVIOUS
  <1>2. PICK B : B = SubSeq(s, i + 1, Len(s))
    OBVIOUS
  <1>3. /\ A \in Seq(Tasks) /\ Len(A) = i - 1
        /\ \A k \in 1..(i - 1) : A[k] = s[k]
    BY <1>1
  <1>4. /\ B \in Seq(Tasks) /\ Len(B) = Len(s) - i
        /\ \A k \in 1..(Len(s) - i) : B[k] = s[i + k]
    BY <1>2, DropFront
  <1>5. /\ A \o B \in Seq(Tasks) /\ Len(A \o B) = (i - 1) + (Len(s) - i)
        /\ \A k \in 1..((i - 1) + (Len(s) - i)) :
             (A \o B)[k] = IF k <= i - 1 THEN A[k] ELSE B[k - (i - 1)]
    <2>1. Len(A) = i - 1 /\ Len(B) = Len(s) - i /\ A \in Seq(Tasks) /\ B \in Seq(Tasks)
      BY <1>3, <1>4
    <2>2. /\ A \o B \in Seq(Tasks) /\ Len(A \o B) = Len(A) + Len(B)
          /\ \A k \in 1..(Len(A) + Len(B)) :
                (A \o B)[k] = IF k <= Len(A) THEN A[k] ELSE B[k - Len(A)]
      BY <2>1, Joined
    <2> QED BY <2>1, <2>2
  <1>6. (i - 1) + (Len(s) - i) = Len(s) - 1
    OBVIOUS
  <1>7. RemoveAt(s, i) = A \o B
    BY <1>1, <1>2 DEF RemoveAt
  <1>8. ASSUME NEW k \in 1..(Len(s) - 1)
        PROVE  (IF k <= i - 1 THEN A[k] ELSE B[k - (i - 1)])
                 = IF k < i THEN s[k] ELSE s[k + 1]
    <2>1. CASE k <= i - 1
      BY <1>3, <2>1
    <2>2. CASE ~(k <= i - 1)
      <3>1. k - (i - 1) \in 1..(Len(s) - i) /\ i + (k - (i - 1)) = k + 1 /\ ~(k < i)
        BY <2>2
      <3> QED BY <1>4, <2>2, <3>1
    <2> QED BY <2>1, <2>2
  <1> QED BY <1>5, <1>6, <1>7, <1>8

-----------------------------------------------------------------------------
(* The two ways Admission.release ends, for a task t that gives up a slot; *)
(* f is the future function without t's own finished future.               *)
LEMMA HandOffKeeps ==
    ASSUME TypeOK, QueueInv, NEW t \in Tasks,
           NEW f \in [Tasks -> FutureStates],
           f = [future EXCEPT ![t] = "none"],
           pc[t] # "waiting" \/ future[t] = "result",
           pc' = [pc EXCEPT ![t] = "outside"],
           closed' = closed,
           HandOff(f)
    PROVE  /\ waiters' \in Seq(Tasks) /\ future' \in [Tasks -> FutureStates]
           /\ QueueInv'
           /\ ~closed /\ waiters # <<>>
           /\ Len(waiters') < Len(waiters)
           /\ RecordUsers' = RecordUsers \ {t}
           /\ \E u \in Tasks : /\ u \notin Granted \ {t}
                               /\ Granted' = (Granted \ {t}) \cup {u}
  <1>1. PICK i \in 1..Len(waiters) :
          /\ f[waiters[i]] = "pending"
          /\ waiters' = SubSeq(waiters, i + 1, Len(waiters))
          /\ future' = [f EXCEPT ![waiters[i]] = "result"]
    BY DEF HandOff
  <1> DEFINE u == waiters[i]
  <1>2. /\ u \in Tasks /\ u # t /\ pc[u] = "waiting" /\ future[u] = "pending"
        /\ waiters \in Seq(Tasks)
    BY <1>1 DEF TypeOK, QueueInv
  <1>3. /\ waiters' \in Seq(Tasks)
        /\ Len(waiters') = Len(waiters) - i
        /\ \A k \in 1..Len(waiters') : waiters'[k] = waiters[i + k]
    BY <1>1, <1>2, DropFront
  <1>4. /\ future' \in [Tasks -> FutureStates]
        /\ \A x \in Tasks : future'[x] = IF x = u THEN "result"
                                         ELSE IF x = t THEN "none" ELSE future[x]
        /\ \A x \in Tasks : pc'[x] = IF x = t THEN "outside" ELSE pc[x]
    BY <1>1, <1>2 DEF TypeOK, FutureStates
  <1> HIDE DEF u
  <1>5. ~closed /\ waiters # <<>> /\ Len(waiters') < Len(waiters)
    BY <1>2, <1>3 DEF QueueInv
  <1>6. ASSUME NEW k \in 1..Len(waiters')
        PROVE  /\ waiters'[k] = waiters[i + k] /\ i + k \in 1..Len(waiters)
               /\ waiters'[k] # u /\ waiters'[k] # t /\ waiters'[k] \in Tasks
    BY <1>2, <1>3 DEF QueueInv, u
  <1>7. QueueInv'
    <2>1. \A k \in 1..Len(waiters') : /\ pc'[waiters'[k]] = "waiting"
                                      /\ future'[waiters'[k]] \in {"pending", "cancelled"}
      BY <1>4, <1>6 DEF QueueInv
    <2>2. \A j, k \in 1..Len(waiters') : waiters'[j] = waiters'[k] => j = k
      BY <1>2, <1>3, <1>6 DEF QueueInv
    <2>3. \A x \in Tasks : pc'[x] = "waiting" <=> future'[x] # "none"
      BY <1>2, <1>4 DEF QueueInv
    <2> QED BY <1>5, <2>1, <2>2, <2>3 DEF QueueInv
  <1>8. RecordUsers' = RecordUsers \ {t}
    BY <1>4 DEF RecordUsers
  <1>9. u \notin Granted \ {t} /\ Granted' = (Granted \ {t}) \cup {u}
    BY <1>2, <1>4 DEF Granted
  <1> QED BY <1>2, <1>3, <1>4, <1>5, <1>7, <1>8, <1>9

(* A slot that nobody waits for goes back: the queue is left empty. *)
LEMMA FreeSlotKeeps ==
    ASSUME TypeOK, QueueInv, NEW t \in Tasks,
           NEW f \in [Tasks -> FutureStates],
           f = [future EXCEPT ![t] = "none"],
           pc' = [pc EXCEPT ![t] = "outside"],
           closed' = closed,
           FreeSlot(f)
    PROVE  /\ waiters' \in Seq(Tasks) /\ future' \in [Tasks -> FutureStates]
           /\ QueueInv'
           /\ waiters' = <<>>
           /\ RecordUsers' = RecordUsers \ {t}
           /\ Granted' = Granted \ {t}
  <1>1. /\ \A x \in Tasks : future'[x] = IF x = t THEN "none" ELSE future[x]
        /\ \A x \in Tasks : pc'[x] = IF x = t THEN "outside" ELSE pc[x]
        /\ waiters' = <<>> /\ future' = f
    BY DEF FreeSlot, TypeOK
  <1>2. QueueInv'
    BY <1>1 DEF QueueInv
  <1>3. RecordUsers' = RecordUsers \ {t} /\ Granted' = Granted \ {t}
    BY <1>1 DEF RecordUsers, Granted
  <1> QED BY <1>1, <1>2, <1>3

(* Releasing a slot that t owns keeps everything that does not concern the *)
(* native pool.                                                            *)
LEMMA ReleaseKeeps ==
    ASSUME Inv, NEW t \in Tasks, t \in Granted \/ t \in RecordUsers,
           NEW f \in [Tasks -> FutureStates],
           f = [future EXCEPT ![t] = "none"],
           pc' = [pc EXCEPT ![t] = "outside"],
           closed' = closed,
           Release(f)
    PROVE  /\ waiters' \in Seq(Tasks) /\ future' \in [Tasks -> FutureStates]
           /\ active' \in Nat /\ pc' \in [Tasks -> PcStates]
           /\ QueueInv' /\ CountInv' /\ WithinLimit' /\ QueueOnlyWhenFull'
           /\ RecordUsers' = RecordUsers \ {t}
           /\ closed => Granted' = Granted \ {t}
           /\ IsFiniteSet(Granted) /\ IsFiniteSet(RecordUsers)
  <1>1. /\ IsFiniteSet(Granted) /\ Cardinality(Granted) \in Nat
        /\ IsFiniteSet(RecordUsers) /\ Cardinality(RecordUsers) \in Nat
    BY HolderSets DEF Inv
  <1>2. /\ active = Cardinality(Granted) + Cardinality(RecordUsers)
        /\ active \in Nat /\ active <= Limit /\ Limit \in Nat
        /\ Len(waiters) <= QueueLimit /\ (waiters # <<>> => active = Limit)
        /\ TypeOK /\ QueueInv
    BY LimitAssumption DEF Inv, CountInv, TypeOK, WithinLimit, QueueOnlyWhenFull
  <1>3. ~(t \in Granted /\ t \in RecordUsers)
    BY DEF Granted, RecordUsers
  <1>4. /\ pc' \in [Tasks -> PcStates]
        /\ pc[t] # "waiting" \/ future[t] = "result"
    BY <1>2 DEF TypeOK, PcStates, Granted, RecordUsers
  <1>5. /\ IsFiniteSet(Granted \ {t})
        /\ Cardinality(Granted \ {t}) + Cardinality(RecordUsers \ {t}) = active - 1
        /\ Cardinality(Granted \ {t}) \in Nat
        /\ Cardinality(RecordUsers \ {t}) \in Nat
    <2>1. IsFiniteSet(Granted \ {t})
      BY <1>1, CountOne
    <2>2. CASE t \in Granted
      <3>1. Cardinality(Granted \ {t}) = Cardinality(Granted) - 1 /\ Cardinality(Granted) > 0
        BY <1>1, <2>2, CountOne
      <3>2. RecordUsers \ {t} = RecordUsers
        BY <1>3, <2>2
      <3>3. Cardinality(RecordUsers \ {t}) = Cardinality(RecordUsers)
        BY <3>2
      <3> QED BY <1>1, <1>2, <2>1, <3>1, <3>3
    <2>3. CASE t \in RecordUsers
      <3>1. /\ Cardinality(RecordUsers \ {t}) = Cardinality(RecordUsers) - 1
            /\ Cardinality(RecordUsers) > 0
        BY <1>1, <2>3, CountOne
      <3>2. Granted \ {t} = Granted
        BY <1>3, <2>3
      <3>3. Cardinality(Granted \ {t}) = Cardinality(Granted)
        BY <3>2
      <3> QED BY <1>1, <1>2, <2>1, <3>1, <3>3
    <2> QED BY <2>2, <2>3
  <1>6. CASE HandOff(f)
    <2>1. /\ waiters' \in Seq(Tasks) /\ future' \in [Tasks -> FutureStates]
          /\ QueueInv'
          /\ ~closed /\ waiters # <<>> /\ Len(waiters') < Len(waiters)
          /\ RecordUsers' = RecordUsers \ {t}
          /\ \E u \in Tasks : /\ u \notin Granted \ {t}
                              /\ Granted' = (Granted \ {t}) \cup {u}
      BY <1>2, <1>4, <1>6, HandOffKeeps
    <2>2. active' = active
      BY <1>6 DEF HandOff
    <2>3. Cardinality(Granted') = Cardinality(Granted \ {t}) + 1
      BY <1>5, <2>1, CountOne
    <2>4. CountInv' /\ WithinLimit'
      <3>1. Cardinality(RecordUsers') = Cardinality(RecordUsers \ {t})
        BY <2>1
      <3>2. active' = Cardinality(Granted') + Cardinality(RecordUsers')
        BY <1>2, <1>5, <2>2, <2>3, <3>1
      <3> QED BY <1>2, <2>2, <3>2 DEF CountInv, WithinLimit
    <2>5. QueueOnlyWhenFull'
      <3>1. Len(waiters) \in Nat /\ Len(waiters') \in Nat
        BY <1>2, <2>1 DEF TypeOK
      <3> QED BY <1>2, <2>1, <2>2, <3>1, QueueLimitAssumption DEF QueueOnlyWhenFull
    <2> QED BY <1>1, <1>2, <1>4, <2>1, <2>2, <2>4, <2>5
  <1>7. CASE FreeSlot(f)
    <2>1. /\ waiters' \in Seq(Tasks) /\ future' \in [Tasks -> FutureStates]
          /\ QueueInv' /\ waiters' = <<>>
          /\ RecordUsers' = RecordUsers \ {t}
          /\ Granted' = Granted \ {t}
      BY <1>2, <1>7, FreeSlotKeeps
    <2>2. active' = active - 1
      BY <1>7 DEF FreeSlot
    <2>3. active' \in Nat /\ CountInv' /\ WithinLimit'
      <3>1. /\ Cardinality(RecordUsers') = Cardinality(RecordUsers \ {t})
            /\ Cardinality(Granted') = Cardinality(Granted \ {t})
        BY <2>1
      <3>2. active' = Cardinality(Granted') + Cardinality(RecordUsers') /\ active' \in Nat
        BY <1>2, <1>5, <2>2, <3>1
      <3> QED BY <1>2, <2>2, <3>2 DEF CountInv, WithinLimit
    <2>4. QueueOnlyWhenFull'
      BY <2>1, QueueLimitAssumption DEF QueueOnlyWhenFull
    <2> QED BY <1>1, <1>4, <2>1, <2>3, <2>4
  <1> QED BY <1>6, <1>7 DEF Release

(* Taking a record with a slot in hand. *)
LEMMA TakeRecordKeeps ==
    ASSUME Inv, NEW t \in Tasks, t \notin RecordUsers, TakeRecord(t)
    PROVE  /\ pc' \in [Tasks -> PcStates] /\ idle' \in Nat /\ overflow' \in Int
           /\ RecordUsers' = RecordUsers \cup {t}
           /\ Cardinality(RecordUsers') = Cardinality(RecordUsers) + 1
           /\ \A x \in Tasks : x # t => pc'[x] = pc[x]
           /\ pc'[t] \in {"connecting", "closing", "leased"}
           /\ pc'[t] = "closing" => closed
           /\ closed => idle' = 0 /\ overflow' = overflow + 1
           /\ \/ idle' = idle - 1 /\ overflow' = overflow
              \/ idle' = idle /\ overflow' = overflow + 1
  <1>1. TypeOK /\ (closed => idle = 0) /\ IsFiniteSet(RecordUsers)
    BY HolderSets DEF Inv, NativeInv
  <1>2. /\ pc' \in [Tasks -> PcStates]
        /\ \A x \in Tasks : x # t => pc'[x] = pc[x]
        /\ pc'[t] \in {"connecting", "closing", "leased"}
        /\ pc'[t] = "closing" => closed
    BY <1>1 DEF TakeRecord, TypeOK, PcStates
  <1>3. /\ idle' \in Nat /\ overflow' \in Int
        /\ closed => idle' = 0 /\ overflow' = overflow + 1
        /\ \/ idle' = idle - 1 /\ overflow' = overflow
           \/ idle' = idle /\ overflow' = overflow + 1
    BY <1>1 DEF TakeRecord, TypeOK
  <1>4. RecordUsers' = RecordUsers \cup {t}
    BY <1>2 DEF RecordUsers
  <1>5. Cardinality(RecordUsers') = Cardinality(RecordUsers) + 1
    BY <1>1, <1>4, CountOne
  <1> QED BY <1>2, <1>3, <1>4, <1>5

-----------------------------------------------------------------------------
(* Steps that leave the owners of slots, the gate and the native pool alone. *)
LEMMA SameOwners ==
    ASSUME Inv,
           Granted' = Granted, RecordUsers' = RecordUsers,
           UNCHANGED <<active, closed, idle, overflow>>,
           \A t \in Tasks : pc'[t] = "closing" => closed
    PROVE  CountInv' /\ WithinLimit' /\ NativeInv'
  <1>1. /\ Cardinality(Granted') = Cardinality(Granted)
        /\ Cardinality(RecordUsers') = Cardinality(RecordUsers)
    OBVIOUS
  <1> QED BY <1>1 DEF Inv, CountInv, WithinLimit, NativeInv

(* Every step of the pool keeps the invariant, action by action. *)
LEMMA Step ==
    ASSUME Inv, [Next]_vars
    PROVE  Inv'
  <1> USE LimitAssumption, QueueLimitAssumption
  <1>0. /\ TypeOK /\ QueueInv /\ CountInv /\ WithinLimit /\ QueueOnlyWhenFull /\ NativeInv
        /\ IsFiniteSet(Granted) /\ Cardinality(Granted) \in Nat
        /\ IsFiniteSet(RecordUsers) /\ Cardinality(RecordUsers) \in Nat
        /\ Len(waiters) \in Nat
    BY HolderSets DEF Inv, TypeOK
  <1>1. CASE UNCHANGED vars
    BY <1>0, <1>1 DEF Inv, vars, TypeOK, QueueInv, CountInv, WithinLimit,
       QueueOnlyWhenFull, NativeInv, Granted, RecordUsers
  <1>2. CASE Dispose
    <2>1. /\ waiters' = <<>> /\ closed' = TRUE /\ idle' = 0 /\ overflow' = -Limit
          /\ UNCHANGED <<active, cancelReq, pc>>
          /\ future' \in [Tasks -> FutureStates]
          /\ \A t \in Tasks : (future'[t] = "result") <=> (future[t] = "result")
          /\ \A t \in Tasks : (future'[t] = "none") <=> (future[t] = "none")
      BY <1>0, <1>2 DEF Dispose, TypeOK, FutureStates
    <2>2. TypeOK' /\ QueueInv' /\ QueueOnlyWhenFull' /\ WithinLimit'
      BY <1>0, <2>1 DEF TypeOK, QueueInv, QueueOnlyWhenFull, WithinLimit
    <2>3. Granted' = Granted /\ RecordUsers' = RecordUsers
      BY <2>1 DEF Granted, RecordUsers
    <2>4. /\ Cardinality(Granted') = Cardinality(Granted)
          /\ Cardinality(RecordUsers') = Cardinality(RecordUsers)
      BY <2>3
    <2>5. CountInv' /\ NativeInv'
      BY <1>0, <2>1, <2>4 DEF CountInv, NativeInv, WithinLimit, TypeOK
    <2> QED BY <2>2, <2>5 DEF Inv
  <1>3. ASSUME NEW t \in Tasks, AcquireRefused(t)
        PROVE  Inv'
    BY <1>0, <1>3 DEF AcquireRefused, Inv, vars, TypeOK, QueueInv, CountInv, WithinLimit,
       QueueOnlyWhenFull, NativeInv, Granted, RecordUsers
  <1>4. ASSUME NEW t \in Tasks, AcquireFree(t)
        PROVE  Inv'
    <2>1. /\ pc[t] = "outside" /\ ~closed /\ active < Limit /\ active' = active + 1
          /\ TakeRecord(t) /\ UNCHANGED <<waiters, closed, future, cancelReq>>
          /\ t \notin RecordUsers
      BY <1>4 DEF AcquireFree, RecordUsers
    <2>2. /\ pc' \in [Tasks -> PcStates] /\ idle' \in Nat /\ overflow' \in Int
          /\ Cardinality(RecordUsers') = Cardinality(RecordUsers) + 1
          /\ \A x \in Tasks : x # t => pc'[x] = pc[x]
          /\ pc'[t] \in {"connecting", "closing", "leased"}
          /\ pc'[t] = "closing" => closed
          /\ \/ idle' = idle - 1 /\ overflow' = overflow
             \/ idle' = idle /\ overflow' = overflow + 1
      BY <2>1, TakeRecordKeeps
    <2>3. TypeOK'
      BY <1>0, <2>1, <2>2 DEF TypeOK
    <2>4. QueueInv'
      BY <1>0, <2>1, <2>2 DEF QueueInv, TypeOK
    <2>5. Granted' = Granted
      BY <2>1, <2>2 DEF Granted
    <2>6. Cardinality(Granted') = Cardinality(Granted)
      BY <2>5
    <2>7. CountInv' /\ WithinLimit' /\ QueueOnlyWhenFull'
      BY <1>0, <2>1, <2>2, <2>6 DEF CountInv, WithinLimit, QueueOnlyWhenFull, TypeOK
    <2>8. overflow' + Limit = idle' + Cardinality(RecordUsers')
      <3>1. overflow + Limit = idle + Cardinality(RecordUsers)
        BY <1>0, <2>1 DEF NativeInv
      <3>2. overflow \in Int /\ idle \in Nat /\ Limit \in Nat
        BY <1>0 DEF TypeOK
      <3> QED BY <1>0, <2>2, <3>1, <3>2
    <2>9. \A x \in Tasks : pc'[x] = "closing" => closed
      BY <1>0, <2>2 DEF NativeInv
    <2>10. NativeInv'
      BY <2>1, <2>8, <2>9 DEF NativeInv
    <2> QED BY <2>3, <2>4, <2>7, <2>10 DEF Inv
  <1>5. ASSUME NEW t \in Tasks, Enqueue(t)
        PROVE  Inv'
    <2>1. /\ pc[t] = "outside" /\ ~closed /\ active >= Limit /\ Len(waiters) < QueueLimit
          /\ waiters' = Append(waiters, t)
          /\ future' = [future EXCEPT ![t] = "pending"]
          /\ pc' = [pc EXCEPT ![t] = "waiting"]
          /\ UNCHANGED <<active, closed, cancelReq, idle, overflow>>
      BY <1>5 DEF Enqueue
    <2>2. /\ \A x \in Tasks : pc'[x] = IF x = t THEN "waiting" ELSE pc[x]
          /\ \A x \in Tasks : future'[x] = IF x = t THEN "pending" ELSE future[x]
      BY <1>0, <2>1 DEF TypeOK
    <2>3. /\ waiters' \in Seq(Tasks) /\ Len(waiters') = Len(waiters) + 1
          /\ \A i \in 1..Len(waiters') :
               waiters'[i] = IF i <= Len(waiters) THEN waiters[i] ELSE t
      BY <1>0, <2>1 DEF TypeOK
    <2>4. TypeOK'
      BY <1>0, <2>1, <2>3 DEF TypeOK, PcStates, FutureStates
    <2>5. \A i \in 1..Len(waiters) : waiters[i] # t /\ waiters[i] \in Tasks
      BY <1>0, <2>1 DEF QueueInv, TypeOK
    <2>6. QueueInv'
      BY <1>0, <2>1, <2>2, <2>3, <2>5 DEF QueueInv
    <2>7. QueueOnlyWhenFull'
      BY <1>0, <2>1, <2>3 DEF QueueOnlyWhenFull, WithinLimit, TypeOK
    <2>8. Granted' = Granted /\ RecordUsers' = RecordUsers
      BY <1>0, <2>1, <2>2 DEF Granted, RecordUsers
    <2>9. \A x \in Tasks : pc'[x] = "closing" => closed
      BY <1>0, <2>2 DEF NativeInv
    <2> QED BY <2>1, <2>4, <2>6, <2>7, <2>8, <2>9, SameOwners DEF Inv
  <1>6. ASSUME NEW t \in Tasks, Interrupt(t)
        PROVE  Inv'
    <2>1. /\ pc[t] = "waiting" /\ UNCHANGED <<active, waiters, closed, pc, idle, overflow>>
          /\ cancelReq' \in SUBSET Tasks
          /\ future' \in [Tasks -> FutureStates]
          /\ \A x \in Tasks : \/ future'[x] = future[x]
                              \/ future[x] = "pending" /\ future'[x] = "cancelled"
      BY <1>0, <1>6 DEF Interrupt, TypeOK, FutureStates
    <2>2. TypeOK' /\ QueueOnlyWhenFull'
      BY <1>0, <2>1 DEF TypeOK, QueueOnlyWhenFull
    <2>3. QueueInv'
      BY <1>0, <2>1 DEF QueueInv, TypeOK
    <2>4. Granted' = Granted /\ RecordUsers' = RecordUsers
      BY <2>1 DEF Granted, RecordUsers
    <2>5. \A x \in Tasks : pc'[x] = "closing" => closed
      BY <1>0, <2>1 DEF NativeInv
    <2> QED BY <2>1, <2>2, <2>3, <2>4, <2>5, SameOwners DEF Inv
  <1>7. ASSUME NEW t \in Tasks, ResumeGranted(t)
        PROVE  Inv'
    <2>1. /\ pc[t] = "waiting" /\ future[t] = "result"
          /\ future' = [future EXCEPT ![t] = "none"]
          /\ TakeRecord(t) /\ UNCHANGED <<active, waiters, closed, cancelReq>>
          /\ t \notin RecordUsers /\ t \in Granted
      BY <1>7 DEF ResumeGranted, RecordUsers, Granted
    <2>2. /\ pc' \in [Tasks -> PcStates] /\ idle' \in Nat /\ overflow' \in Int
          /\ Cardinality(RecordUsers') = Cardinality(RecordUsers) + 1
          /\ \A x \in Tasks : x # t => pc'[x] = pc[x]
          /\ pc'[t] \in {"connecting", "closing", "leased"}
          /\ pc'[t] = "closing" => closed
          /\ closed => idle' = 0 /\ overflow' = overflow + 1
          /\ \/ idle' = idle - 1 /\ overflow' = overflow
             \/ idle' = idle /\ overflow' = overflow + 1
      BY <2>1, TakeRecordKeeps
    <2>3. \A x \in Tasks : future'[x] = IF x = t THEN "none" ELSE future[x]
      BY <1>0, <2>1 DEF TypeOK
    <2>4. TypeOK' /\ WithinLimit' /\ QueueOnlyWhenFull'
      BY <1>0, <2>1, <2>2 DEF TypeOK, FutureStates, WithinLimit, QueueOnlyWhenFull
    <2>5. \A i \in 1..Len(waiters) : waiters[i] # t /\ waiters[i] \in Tasks
      BY <1>0, <2>1 DEF QueueInv, TypeOK
    <2>6. QueueInv'
      BY <1>0, <2>1, <2>2, <2>3, <2>5 DEF QueueInv
    <2>7. Granted' = Granted \ {t}
      BY <2>2, <2>3 DEF Granted
    <2>8. Cardinality(Granted') = Cardinality(Granted) - 1
      BY <1>0, <2>1, <2>7, CountOne
    <2>9. CountInv'
      BY <1>0, <2>1, <2>2, <2>8 DEF CountInv, TypeOK
    <2>10. ~closed => overflow' + Limit = idle' + Cardinality(RecordUsers')
      <3>1. ~closed => overflow + Limit = idle + Cardinality(RecordUsers)
        BY <1>0 DEF NativeInv
      <3>2. overflow \in Int /\ idle \in Nat /\ Limit \in Nat
        BY <1>0 DEF TypeOK
      <3> QED BY <1>0, <2>2, <3>1, <3>2
    <2>11. closed => idle' = 0 /\ overflow' + Cardinality(Granted') <= 0
      BY <1>0, <2>2, <2>8 DEF NativeInv, TypeOK
    <2>12. \A x \in Tasks : pc'[x] = "closing" => closed
      BY <1>0, <2>2 DEF NativeInv
    <2>13. NativeInv'
      BY <2>1, <2>10, <2>11, <2>12 DEF NativeInv
    <2> QED BY <2>4, <2>6, <2>9, <2>13 DEF Inv
  <1>8. ASSUME NEW t \in Tasks, ResumeGrantedCancelled(t)
        PROVE  Inv'
    <2>1. /\ t \in Granted /\ t \notin RecordUsers
          /\ pc' = [pc EXCEPT ![t] = "outside"] /\ cancelReq' = cancelReq \ {t}
          /\ Release([future EXCEPT ![t] = "none"])
          /\ UNCHANGED <<closed, idle, overflow>>
          /\ [future EXCEPT ![t] = "none"] \in [Tasks -> FutureStates]
      BY <1>0, <1>8 DEF ResumeGrantedCancelled, Granted, RecordUsers, TypeOK, FutureStates
    <2>2. /\ waiters' \in Seq(Tasks) /\ future' \in [Tasks -> FutureStates]
          /\ active' \in Nat /\ pc' \in [Tasks -> PcStates]
          /\ QueueInv' /\ CountInv' /\ WithinLimit' /\ QueueOnlyWhenFull'
          /\ RecordUsers' = RecordUsers \ {t}
          /\ closed => Granted' = Granted \ {t}
      BY <2>1, ReleaseKeeps
    <2>3. TypeOK'
      BY <1>0, <2>1, <2>2 DEF TypeOK
    <2>4. RecordUsers' = RecordUsers
      BY <2>1, <2>2
    <2>5. Cardinality(RecordUsers') = Cardinality(RecordUsers)
      BY <2>4
    <2>6. closed => Cardinality(Granted') = Cardinality(Granted) - 1
      BY <1>0, <2>1, <2>2, CountOne
    <2>7. \A x \in Tasks : pc'[x] = "closing" => closed
      BY <1>0, <2>1 DEF NativeInv, TypeOK
    <2>8. NativeInv'
      BY <1>0, <2>1, <2>5, <2>6, <2>7 DEF NativeInv, TypeOK
    <2> QED BY <2>2, <2>3, <2>8 DEF Inv
  <1>9. ASSUME NEW t \in Tasks, ResumeFailed(t)
        PROVE  Inv'
    <2>1. /\ pc[t] = "waiting" /\ future[t] \in {"cancelled", "exception"}
          /\ future' = [future EXCEPT ![t] = "none"]
          /\ pc' = [pc EXCEPT ![t] = "outside"]
          /\ cancelReq' = cancelReq \ {t}
          /\ UNCHANGED <<active, closed, idle, overflow>>
      BY <1>9 DEF ResumeFailed
    <2>2. /\ \A x \in Tasks : pc'[x] = IF x = t THEN "outside" ELSE pc[x]
          /\ \A x \in Tasks : future'[x] = IF x = t THEN "none" ELSE future[x]
      BY <1>0, <2>1 DEF TypeOK
    <2>3. Granted' = Granted /\ RecordUsers' = RecordUsers
      BY <2>1, <2>2 DEF Granted, RecordUsers
    <2>4. \A x \in Tasks : pc'[x] = "closing" => closed
      BY <1>0, <2>2 DEF NativeInv
    <2>5. CountInv' /\ WithinLimit' /\ NativeInv'
      BY <2>1, <2>3, <2>4, SameOwners
    <2>6. pc' \in [Tasks -> PcStates] /\ future' \in [Tasks -> FutureStates]
      BY <1>0, <2>1 DEF TypeOK, PcStates, FutureStates
    <2>7. CASE waiters' = waiters /\ \A i \in 1..Len(waiters) : waiters[i] # t
      <3>1. TypeOK' /\ QueueOnlyWhenFull'
        BY <1>0, <2>1, <2>6, <2>7 DEF TypeOK, QueueOnlyWhenFull
      <3>2. \A i \in 1..Len(waiters) : waiters[i] \in Tasks
        BY <1>0 DEF TypeOK
      <3>3. QueueInv'
        BY <1>0, <2>1, <2>2, <2>7, <3>2 DEF QueueInv
      <3> QED BY <2>5, <3>1, <3>3 DEF Inv
    <2>8. ASSUME NEW i \in 1..Len(waiters), waiters[i] = t, waiters' = RemoveAt(waiters, i)
          PROVE  Inv'
      <3>1. /\ waiters' \in Seq(Tasks) /\ Len(waiters') = Len(waiters) - 1
            /\ \A k \in 1..Len(waiters') :
                 waiters'[k] = IF k < i THEN waiters[k] ELSE waiters[k + 1]
        BY <1>0, <2>8, RemoveAtFacts DEF TypeOK
      <3>2. TypeOK'
        BY <1>0, <2>1, <2>6, <3>1 DEF TypeOK
      <3>3. QueueOnlyWhenFull'
        <4>1. waiters # <<>>
          BY <1>0, <2>8
        <4> QED BY <1>0, <2>1, <3>1, <4>1 DEF QueueOnlyWhenFull
      <3>4. ASSUME NEW k \in 1..Len(waiters')
            PROVE  \E m \in 1..Len(waiters) :
                      /\ m = (IF k < i THEN k ELSE k + 1)
                      /\ m # i /\ waiters'[k] = waiters[m]
                      /\ waiters[m] # t /\ waiters[m] \in Tasks
        <4>1. (IF k < i THEN k ELSE k + 1) \in 1..Len(waiters)
          BY <1>0, <3>1
        <4> QED BY <1>0, <2>8, <3>1, <4>1 DEF QueueInv, TypeOK
      <3>5. \A k \in 1..Len(waiters') : /\ pc'[waiters'[k]] = "waiting"
                                        /\ future'[waiters'[k]] \in {"pending", "cancelled"}
        <4> SUFFICES ASSUME NEW k \in 1..Len(waiters')
                     PROVE  /\ pc'[waiters'[k]] = "waiting"
                            /\ future'[waiters'[k]] \in {"pending", "cancelled"}
          OBVIOUS
        <4>1. PICK m \in 1..Len(waiters) : /\ waiters'[k] = waiters[m]
                                           /\ waiters[m] # t /\ waiters[m] \in Tasks
          BY <3>4
        <4>2. pc[waiters[m]] = "waiting" /\ future[waiters[m]] \in {"pending", "cancelled"}
          BY <1>0 DEF QueueInv
        <4> QED BY <2>2, <4>1, <4>2
      <3>6. ASSUME NEW j \in 1..Len(waiters'), NEW k \in 1..Len(waiters'),
                   waiters'[j] = waiters'[k]
            PROVE  j = k
        <4>1. (IF j < i THEN j ELSE j + 1) = (IF k < i THEN k ELSE k + 1)
          BY <1>0, <3>4, <3>6 DEF QueueInv
        <4> QED BY <1>0, <3>1, <4>1
      <3>7. closed' => waiters' = <<>>
        BY <1>0, <2>1, <2>8 DEF QueueInv
      <3>8. QueueInv'
        BY <1>0, <2>1, <2>2, <3>5, <3>6, <3>7 DEF QueueInv
      <3> QED BY <2>5, <3>2, <3>3, <3>8 DEF Inv
    <2> QED BY <1>9, <2>7, <2>8 DEF ResumeFailed
  <1>10. ASSUME NEW t \in Tasks, Connected(t) \/ ReturnClosing(t)
         PROVE  Inv'
    <2>1. /\ pc[t] \in {"connecting", "leased"} /\ pc'[t] \in {"closing", "leased"}
          /\ pc'[t] = "closing" => closed
          /\ \A x \in Tasks : x # t => pc'[x] = pc[x]
          /\ pc' \in [Tasks -> PcStates]
          /\ UNCHANGED <<active, waiters, closed, future, cancelReq, idle, overflow>>
      BY <1>0, <1>10 DEF Connected, ReturnClosing, TypeOK, PcStates
    <2>2. TypeOK' /\ QueueOnlyWhenFull'
      BY <1>0, <2>1 DEF TypeOK, QueueOnlyWhenFull
    <2>3. \A i \in 1..Len(waiters) : waiters[i] # t /\ waiters[i] \in Tasks
      BY <1>0, <2>1 DEF QueueInv, TypeOK
    <2>4. QueueInv'
      BY <1>0, <2>1, <2>3 DEF QueueInv
    <2>5. Granted' = Granted /\ RecordUsers' = RecordUsers
      BY <2>1 DEF Granted, RecordUsers
    <2>6. \A x \in Tasks : pc'[x] = "closing" => closed
      BY <1>0, <2>1 DEF NativeInv
    <2> QED BY <2>1, <2>2, <2>4, <2>5, <2>6, SameOwners DEF Inv
  <1>11. ASSUME NEW t \in Tasks, ConnectFailed(t) \/ RecordClosed(t) \/ ReturnParked(t)
         PROVE  Inv'
    <2>1. /\ t \in RecordUsers /\ t \notin Granted
          /\ pc' = [pc EXCEPT ![t] = "outside"]
          /\ Release(future) /\ UNCHANGED <<closed, cancelReq>>
          /\ \/ ConnectFailed(t) /\ overflow' = overflow - 1 /\ idle' = idle
             \/ RecordClosed(t) /\ closed /\ overflow' = overflow /\ idle' = idle
             \/ ReturnParked(t) /\ ~closed /\ overflow' = overflow /\ idle' = idle + 1
      BY <1>0, <1>11 DEF ConnectFailed, RecordClosed, ReturnParked, RecordUsers, Granted,
         NativeInv
    <2>2. future = [future EXCEPT ![t] = "none"] /\ future \in [Tasks -> FutureStates]
      <3>1. future[t] = "none"
        BY <1>0, <2>1 DEF QueueInv, RecordUsers
      <3> QED BY <1>0, <3>1 DEF TypeOK
    <2>3. /\ waiters' \in Seq(Tasks) /\ future' \in [Tasks -> FutureStates]
          /\ active' \in Nat /\ pc' \in [Tasks -> PcStates]
          /\ QueueInv' /\ CountInv' /\ WithinLimit' /\ QueueOnlyWhenFull'
          /\ RecordUsers' = RecordUsers \ {t}
          /\ closed => Granted' = Granted \ {t}
      BY <2>1, <2>2, ReleaseKeeps
    <2>4. TypeOK'
      BY <1>0, <2>1, <2>3 DEF TypeOK
    <2>5. Cardinality(RecordUsers') = Cardinality(RecordUsers) - 1
      BY <1>0, <2>1, <2>3, CountOne
    <2>6. closed => Granted' = Granted
      BY <2>1, <2>3
    <2>7. closed => Cardinality(Granted') = Cardinality(Granted)
      BY <2>6
    <2>8. \A x \in Tasks : pc'[x] = "closing" => closed
      BY <1>0, <2>1 DEF NativeInv, TypeOK
    <2>9. NativeInv'
      BY <1>0, <2>1, <2>5, <2>7, <2>8 DEF NativeInv, TypeOK
    <2> QED BY <2>3, <2>4, <2>9 DEF Inv
  <1> QED BY <1>1, <1>2, <1>3, <1>4, <1>5, <1>6, <1>7, <1>8, <1>9, <1>10, <1>11
          DEF Next, Resume, Connect, Return

(* A pool that was just built satisfies it. *)
LEMMA Initial ==
    ASSUME Init
    PROVE  Inv
  <1>1. Granted = {} /\ RecordUsers = {}
    BY DEF Init, Granted, RecordUsers
  <1>2. Cardinality(Granted) = 0 /\ Cardinality(RecordUsers) = 0
    BY <1>1, FS_EmptySet
  <1>3. TypeOK
    <2>1. waiters \in Seq(Tasks) /\ -Limit \in Int
      BY LimitAssumption DEF Init
    <2>2. /\ future \in [Tasks -> FutureStates] /\ pc \in [Tasks -> PcStates]
          /\ closed \in BOOLEAN
      BY DEF Init, PcStates, FutureStates
    <2> QED BY <2>1, <2>2 DEF Init, TypeOK
  <1>4. QueueInv
    BY DEF Init, QueueInv
  <1>5. CountInv /\ NativeInv
    BY <1>2, LimitAssumption DEF Init, CountInv, NativeInv
  <1>6. WithinLimit /\ QueueOnlyWhenFull
    BY LimitAssumption, QueueLimitAssumption DEF Init, WithinLimit, QueueOnlyWhenFull
  <1> QED BY <1>3, <1>4, <1>5, <1>6 DEF Inv

-----------------------------------------------------------------------------
(* Every reachable state of the pool satisfies the inductive invariant. *)
THEOREM Invariance == Spec => []Inv
  BY Initial, Step, PTL DEF Spec

(* Admission.active is at all times the number of slot owners, for any     *)
(* interleaving of grants, cancellations, connection failures and dispose. *)
THEOREM SlotsAreAccounted == Spec => []SlotAccounting
  <1>1. Inv => SlotAccounting
    BY HolderSets DEF Inv, CountInv, SlotAccounting
  <1> QED BY <1>1, Invariance, PTL

(* The pool never has more owners than its size, and queues only then. *)
THEOREM LimitsHold == Spec => []PoolIsBounded
  <1>1. Inv => PoolIsBounded
    BY DEF Inv, PoolIsBounded
  <1> QED BY <1>1, Invariance, PTL

(* A slot always comes with a record or room for one in the native pool,   *)
(* so an admitted task never queues a second time.                         *)
THEOREM NativePoolNeverBlocks == Spec => []SlotMeansRecord
  <1>1. ASSUME Inv PROVE SlotMeansRecord
    <2>1. /\ TypeOK /\ CountInv /\ WithinLimit /\ NativeInv
          /\ IsFiniteSet(Granted) /\ Cardinality(Granted) \in Nat
          /\ Cardinality(RecordUsers) \in Nat
      BY <1>1, HolderSets DEF Inv
    <2>2. Granted # {} => Cardinality(Granted) > 0
      BY <2>1, CountOne
    <2> QED BY <2>1, <2>2, LimitAssumption
            DEF SlotMeansRecord, CountInv, WithinLimit, NativeInv, TypeOK
  <1> QED BY <1>1, Invariance, PTL

(* No record is handed out by a closed pool. *)
THEOREM ClosedPoolLeasesNothing == Spec => NoLeaseAfterClose
  <1>1. ASSUME Inv, [Next]_vars
        PROVE  [closed => \A t \in Tasks : pc'[t] = "leased" => pc[t] = "leased"]_vars
    BY <1>1 DEF Inv, TypeOK, Next, vars, Dispose, AcquireRefused, AcquireFree, Enqueue, Interrupt,
       Resume, ResumeGranted, ResumeGrantedCancelled, ResumeFailed, TakeRecord, Connect,
       Connected, ConnectFailed, RecordClosed, Return, ReturnParked, ReturnClosing
  <1> QED BY <1>1, Invariance, PTL DEF Spec, NoLeaseAfterClose

(* A slot that is passed on goes to the first live waiter. *)
LEMMA GrantIsFirst ==
    ASSUME TypeOK, QueueInv, NEW f \in [Tasks -> FutureStates], Release(f),
           \A k \in 1..Len(waiters) : f[waiters[k]] = future[waiters[k]],
           NEW i \in 1..Len(waiters),
           future[waiters[i]] = "pending", future'[waiters[i]] = "result"
    PROVE  \A j \in 1..(i - 1) : future[waiters[j]] # "pending"
  <1>1. \A k \in 1..Len(waiters) : waiters[k] \in Tasks
    BY DEF TypeOK
  <1>2. f[waiters[i]] = "pending"
    OBVIOUS
  <1>3. CASE HandOff(f)
    <2>1. PICK k \in 1..Len(waiters) :
             /\ \A j \in 1..(k - 1) : f[waiters[j]] # "pending"
             /\ future' = [f EXCEPT ![waiters[k]] = "result"]
      BY <1>3 DEF HandOff
    <2>2. waiters[k] = waiters[i]
      BY <1>1, <1>2, <2>1
    <2>3. k = i
      BY <2>2 DEF QueueInv
    <2> QED BY <2>1, <2>3 DEF TypeOK
  <1>4. CASE FreeSlot(f)
    BY <1>2, <1>4 DEF FreeSlot
  <1> QED BY <1>3, <1>4 DEF Release

(* Admission.release passes over no live waiter, whatever was cancelled in *)
(* the queue before it ran.                                                *)
THEOREM QueueIsFair == Spec => FirstComeFirstServed
  <1>1. ASSUME Inv, [Next]_vars
        PROVE  [\A i \in 1..Len(waiters) :
                   (future[waiters[i]] = "pending" /\ future'[waiters[i]] = "result")
                   => \A j \in 1..(i - 1) : future[waiters[j]] # "pending"]_vars
    <2> SUFFICES ASSUME Next, NEW i \in 1..Len(waiters),
                        future[waiters[i]] = "pending", future'[waiters[i]] = "result"
                 PROVE  \A j \in 1..(i - 1) : future[waiters[j]] # "pending"
      BY <1>1
    <2>1. /\ TypeOK /\ QueueInv /\ waiters[i] \in Tasks
          /\ \A k \in 1..Len(waiters) : waiters[k] \in Tasks
      BY <1>1 DEF Inv, TypeOK
    <2>2. PICK t \in Tasks : \/ ResumeGrantedCancelled(t) \/ ConnectFailed(t)
                             \/ RecordClosed(t) \/ ReturnParked(t)
      <3>1. ~Dispose
        BY <2>1 DEF Dispose
      <3>2. ASSUME NEW t \in Tasks
            PROVE  ~(AcquireRefused(t) \/ AcquireFree(t) \/ Enqueue(t) \/ Interrupt(t)
                       \/ ResumeGranted(t) \/ ResumeFailed(t) \/ Connected(t) \/ ReturnClosing(t))
        BY <2>1 DEF AcquireRefused, AcquireFree, Enqueue, Interrupt, ResumeGranted, ResumeFailed,
                    Connected, ReturnClosing, vars, TypeOK
      <3> QED BY <3>1, <3>2 DEF Next, Resume, Connect, Return
    <2>3. CASE ConnectFailed(t) \/ RecordClosed(t) \/ ReturnParked(t)
      <3>1. Release(future) /\ future \in [Tasks -> FutureStates]
        BY <2>1, <2>3 DEF ConnectFailed, RecordClosed, ReturnParked, TypeOK
      <3> QED BY <2>1, <3>1, GrantIsFirst
    <2>4. CASE ResumeGrantedCancelled(t)
      <3> DEFINE f == [future EXCEPT ![t] = "none"]
      <3>1. Release(f) /\ future[t] = "result" /\ f \in [Tasks -> FutureStates]
        BY <2>1, <2>4 DEF ResumeGrantedCancelled, TypeOK, FutureStates
      <3>2. \A k \in 1..Len(waiters) : f[waiters[k]] = future[waiters[k]]
        BY <2>1, <3>1 DEF QueueInv, TypeOK
      <3> HIDE DEF f
      <3> QED BY <2>1, <3>1, <3>2, GrantIsFirst
    <2> QED BY <2>2, <2>3, <2>4
  <1> QED BY <1>1, Invariance, PTL DEF Spec, FirstComeFirstServed

-----------------------------------------------------------------------------
(* The rate limiter: its inductive invariant. *)

\* What is remembered of a client's admissions is in order and in the past.
RecentOK(r, t) ==
    /\ Len(r) <= MaxRequests
    /\ \A i \in 1 .. Len(r) : r[i] <= t
    /\ \A i, j \in 1 .. Len(r) : i <= j => r[i] <= r[j]

RecentInv == \A c \in Clients : RecentOK(recent[c], now)

Rings == [timestamps : [Slots -> 0 .. MaxTime], head : Slots,
          count : 0 .. MaxRequests, expires_at : 0 .. MaxTime + Window]

\* The ring s holds the last s.count of the admissions r, oldest first; the
\* others are out of the window at time t.
Mirrors(s, r, t) ==
    /\ s.count <= Len(r)
    /\ \A i \in 0 .. s.count - 1 : Stamp(s, i) = r[Len(r) - s.count + 1 + i]
    /\ \A j \in 1 .. Len(r) - s.count : r[j] <= t - Window

\* The ring of a remembered client holds what is left of its admissions, the
\* last one at least; a client without an entry has none in the window.
RingInv ==
    \A c \in Clients :
        /\ Mirrors(state[c], recent[c], now)
        /\ c \in ToSet(clients) =>
             /\ state[c].count >= 1
             /\ state[c].expires_at = recent[c][Len(recent[c])] + Window
        /\ c \notin ToSet(clients) => state[c] = New

VerdictInv == verdict.status # "none" => verdict.at \in Nat /\ verdict.at <= now

LimiterInv ==
    /\ LimiterTypeOK /\ RecentInv /\ RingInv /\ OrderedByExpiry /\ StoredIsCounted
    /\ VerdictInv /\ RetryAfterIsTight

-----------------------------------------------------------------------------
(* Numbers. *)

(* A non-empty set of numbers has a least one. *)
LEMMA Least == ASSUME NEW S \in SUBSET Nat, S # {} PROVE \E i \in S : \A j \in S : i <= j
  <1>1. IsWellFoundedOn(OpToRel(<, Nat), Nat)
    BY NatLessThanWellFounded
  <1>2. PICK i \in S : \A j \in S : ~(<<j, i>> \in OpToRel(<, Nat))
    BY <1>1, WFMin
  <1>3. \A j \in S : ~(j < i)
    BY <1>2 DEF OpToRel
  <1> QED BY <1>3

(* A non-empty set of numbers up to n has a largest one. *)
LEMMA Largest ==
    ASSUME NEW n \in Nat, NEW S \in SUBSET (0 .. n), S # {}
    PROVE  Max(S) \in S /\ \A j \in S : j <= Max(S)
  <1> DEFINE T == {j \in 0 .. n : n - j \in S}
  <1>1. T \in SUBSET Nat
    OBVIOUS
  <1>2. \A j \in S : n - j \in T /\ j \in 0 .. n
    <2> SUFFICES ASSUME NEW j \in S PROVE n - j \in T /\ j \in 0 .. n
      OBVIOUS
    <2>1. j \in 0 .. n /\ n - j \in 0 .. n /\ n - (n - j) = j
      OBVIOUS
    <2> QED BY <2>1
  <1>3. PICK i \in T : \A j \in T : i <= j
    BY <1>1, <1>2, Least
  <1>4. i \in 0 .. n /\ n - i \in S
    OBVIOUS
  <1> HIDE DEF T
  <1>5. \A j \in S : n - i >= j
    BY <1>2, <1>3, <1>4
  <1>6. \E x \in S : \A y \in S : x >= y
    BY <1>4, <1>5
  <1> QED BY <1>6 DEF Max

(* A place of the ring, counted from its head. *)
LEMMA Wrap ==
    ASSUME NEW m \in Nat \ {0}, NEW x \in Nat, x < m + m
    PROVE  x % m = IF x < m THEN x ELSE x - m
  <1>1. CASE x \in 0 .. m - 1
    BY <1>1
  <1>2. CASE x \in m .. 2 * m - 1
    <2>1. x % m = x - m
      BY <1>2
    <2> QED BY <1>2, <2>1
  <1> QED BY <1>1, <1>2

(* Moving the head by k is the same as counting from k. *)
LEMMA RingShift ==
    ASSUME NEW h \in Slots, NEW k \in Nat, NEW i \in Nat, k + i < MaxRequests
    PROVE  (((h + k) % MaxRequests) + i) % MaxRequests = (h + (k + i)) % MaxRequests
  <1>1. h \in 0 .. MaxRequests - 1 /\ MaxRequests \in Nat \ {0}
    BY PolicyAssumption DEF Slots
  <1>2. /\ h + k \in Nat /\ h + k < MaxRequests + MaxRequests
        /\ h + (k + i) \in Nat /\ h + (k + i) < MaxRequests + MaxRequests
    BY <1>1
  <1>3. (h + k) % MaxRequests = IF h + k < MaxRequests THEN h + k ELSE h + k - MaxRequests
    <2>1. PICK x \in Nat : x = h + k
      BY <1>2
    <2>2. x < MaxRequests + MaxRequests
      BY <1>2, <2>1
    <2>3. x % MaxRequests = IF x < MaxRequests THEN x ELSE x - MaxRequests
      BY <1>1, <2>2, Wrap
    <2> QED BY <1>1, <2>1, <2>3
  <1>4. (h + (k + i)) % MaxRequests =
          IF h + (k + i) < MaxRequests THEN h + (k + i) ELSE h + (k + i) - MaxRequests
    <2>1. PICK x \in Nat : x = h + (k + i)
      BY <1>2
    <2>2. x < MaxRequests + MaxRequests
      BY <1>2, <2>1
    <2>3. x % MaxRequests = IF x < MaxRequests THEN x ELSE x - MaxRequests
      BY <1>1, <2>2, Wrap
    <2> QED BY <1>1, <2>1, <2>3
  <1>5. CASE h + k < MaxRequests
    <2>1. ((h + k) % MaxRequests) + i = h + (k + i)
      BY <1>1, <1>3, <1>5
    <2> QED BY <2>1
  <1>6. CASE ~(h + k < MaxRequests)
    <2>1. ((h + k) % MaxRequests) + i = h + (k + i) - MaxRequests
      BY <1>1, <1>3, <1>6
    <2>2. h + (k + i) - MaxRequests \in 0 .. MaxRequests - 1
      BY <1>1, <1>6
    <2>3. (h + (k + i) - MaxRequests) % MaxRequests = h + (k + i) - MaxRequests
      BY <1>1, <2>2
    <2> QED BY <1>1, <1>4, <1>6, <2>1, <2>3
  <1> QED BY <1>5, <1>6

(* Two places of the ring are different. *)
LEMMA RingApart ==
    ASSUME NEW h \in Slots, NEW i \in Slots, NEW j \in Slots, i # j
    PROVE  /\ (h + i) % MaxRequests # (h + j) % MaxRequests
           /\ (h + i) % MaxRequests \in Slots
  <1>1. /\ h \in 0 .. MaxRequests - 1 /\ i \in 0 .. MaxRequests - 1
        /\ j \in 0 .. MaxRequests - 1 /\ MaxRequests \in Nat \ {0}
    BY PolicyAssumption DEF Slots
  <1>2. /\ h + i \in Nat /\ h + i < MaxRequests + MaxRequests
        /\ h + j \in Nat /\ h + j < MaxRequests + MaxRequests
    BY <1>1
  <1>3. (h + i) % MaxRequests = IF h + i < MaxRequests THEN h + i ELSE h + i - MaxRequests
    <2>1. PICK x \in Nat : x = h + i
      BY <1>2
    <2>2. x < MaxRequests + MaxRequests
      BY <1>2, <2>1
    <2>3. x % MaxRequests = IF x < MaxRequests THEN x ELSE x - MaxRequests
      BY <1>1, <2>2, Wrap
    <2> QED BY <1>1, <2>1, <2>3
  <1>4. (h + j) % MaxRequests = IF h + j < MaxRequests THEN h + j ELSE h + j - MaxRequests
    <2>1. PICK x \in Nat : x = h + j
      BY <1>2
    <2>2. x < MaxRequests + MaxRequests
      BY <1>2, <2>1
    <2>3. x % MaxRequests = IF x < MaxRequests THEN x ELSE x - MaxRequests
      BY <1>1, <2>2, Wrap
    <2> QED BY <1>1, <2>1, <2>3
  <1> QED BY <1>1, <1>3, <1>4 DEF Slots

(* _reject: the seconds cover the wait and are less than one too many. *)
LEMMA RoundedUp ==
    ASSUME NEW a \in Int, a > 0, NEW q, q = Max({1, (a + Second - 1) \div Second})
    PROVE  q \in Nat /\ q * Second >= a /\ (q - 1) * Second < a
  <1>1. Second \in Nat \ {0}
    BY PolicyAssumption
  <1> DEFINE d == (a + Second - 1) \div Second
  <1>2. d \in Int /\ d * Second >= a /\ (d - 1) * Second < a
    BY <1>1
  <1> HIDE DEF d
  <1>3. d >= 1
    <2> SUFFICES ASSUME d <= 0 PROVE FALSE
      BY <1>2
    <2>1. d * Second <= 0
      BY <1>1, <1>2
    <2> QED BY <1>1, <1>2, <2>1
  <1>4. Max({1, d}) = d
    <2>1. d \in {1, d} /\ \A y \in {1, d} : d >= y
      BY <1>2, <1>3
    <2>2. \A x \in {1, d} : (\A y \in {1, d} : x >= y) => x = d
      BY <1>2, <1>3
    <2> QED BY <2>1, <2>2 DEF Max
  <1> QED BY <1>2, <1>3, <1>4 DEF d

-----------------------------------------------------------------------------
(* Sequences. *)

(* The part of a sequence behind its i-th element. *)
LEMMA Suffix ==
    ASSUME NEW S, NEW s \in Seq(S), NEW i \in 0 .. Len(s)
    PROVE  /\ SubSeq(s, i + 1, Len(s)) \in Seq(S)
           /\ Len(SubSeq(s, i + 1, Len(s))) = Len(s) - i
           /\ \A k \in 1 .. (Len(s) - i) : SubSeq(s, i + 1, Len(s))[k] = s[i + k]
  OBVIOUS

(* The table without the i-th key. *)
LEMMA Without ==
    ASSUME NEW S, NEW s \in Seq(S), NEW i \in 1 .. Len(s)
    PROVE  /\ RemoveAt(s, i) \in Seq(S)
           /\ Len(RemoveAt(s, i)) = Len(s) - 1
           /\ \A k \in 1 .. (Len(s) - 1) :
                RemoveAt(s, i)[k] = IF k < i THEN s[k] ELSE s[k + 1]
  <1>1. PICK A : A = SubSeq(s, 1, i - 1)
    OBVIOUS
  <1>2. PICK B : B = SubSeq(s, i + 1, Len(s))
    OBVIOUS
  <1>3. A \in Seq(S) /\ Len(A) = i - 1 /\ \A k \in 1 .. (i - 1) : A[k] = s[k]
    BY <1>1
  <1>4. B \in Seq(S) /\ Len(B) = Len(s) - i /\ \A k \in 1 .. (Len(s) - i) : B[k] = s[i + k]
    BY <1>2, Suffix
  <1>5. RemoveAt(s, i) = A \o B
    BY <1>1, <1>2 DEF RemoveAt
  <1>6. /\ A \o B \in Seq(S) /\ Len(A \o B) = Len(A) + Len(B)
        /\ \A k \in 1 .. (Len(A) + Len(B)) :
             (A \o B)[k] = IF k <= Len(A) THEN A[k] ELSE B[k - Len(A)]
    BY <1>3, <1>4, Joined
  <1>7. Len(A) + Len(B) = Len(s) - 1
    BY <1>3, <1>4
  <1>8. ASSUME NEW k \in 1 .. (Len(s) - 1)
        PROVE  (IF k <= Len(A) THEN A[k] ELSE B[k - Len(A)])
                 = IF k < i THEN s[k] ELSE s[k + 1]
    <2>1. CASE k <= i - 1
      BY <1>3, <2>1
    <2>2. CASE ~(k <= i - 1)
      <3>1. k - (i - 1) \in 1 .. (Len(s) - i) /\ i + (k - (i - 1)) = k + 1 /\ ~(k < i)
        BY <2>2
      <3> QED BY <1>3, <1>4, <2>2, <3>1
    <2> QED BY <2>1, <2>2
  <1> QED BY <1>5, <1>6, <1>7, <1>8

\* r is the table s of keys in S without e, in the same order.
IsWithout(r, s, e, S) ==
    /\ r \in Seq(S) /\ IsInjective(r) /\ ToSet(r) = ToSet(s) \ {e}
    /\ Len(r) = IF e \in ToSet(s) THEN Len(s) - 1 ELSE Len(s)
    /\ \A a, b \in 1 .. Len(r) : a < b =>
          \E i, j \in 1 .. Len(s) : i < j /\ s[i] = r[a] /\ s[j] = r[b]

(* del and move_to_end keep the order of the other keys. *)
LEMMA RemoveFirstFacts ==
    ASSUME NEW S, NEW s \in Seq(S), IsInjective(s), NEW e
    PROVE  IsWithout(RemoveFirst(s, e), s, e, S)
  <1> SUFFICES ASSUME NEW r, r = RemoveFirst(s, e) PROVE IsWithout(r, s, e, S)
    OBVIOUS
  <1>0. /\ DOMAIN s = 1 .. Len(s) /\ Len(s) \in Nat
        /\ \A i, j \in 1 .. Len(s) : s[i] = s[j] => i = j
    BY DEF IsInjective
  <1>1. CASE \E i \in 1 .. Len(s) : s[i] = e
    <2> DEFINE I == {i \in 1 .. Len(s) : s[i] = e}
    <2>1. PICK i \in 1 .. Len(s) : s[i] = e
      BY <1>1
    <2>2. I = {i}
      BY <1>0, <2>1
    <2>3. Min({i}) = i
      BY DEF Min
    <2>4. SelectInSeq(s, LAMBDA v : v = e) = i
      BY <2>2, <2>3 DEF SelectInSeq
    <2>5. r = RemoveAt(s, i)
      BY <1>1, <2>4 DEF RemoveFirst
    <2> HIDE DEF I
    <2>6. /\ r \in Seq(S) /\ Len(r) = Len(s) - 1
          /\ \A k \in 1 .. (Len(s) - 1) : r[k] = IF k < i THEN s[k] ELSE s[k + 1]
      BY <2>5, Without
    <2> DEFINE at(k) == IF k < i THEN k ELSE k + 1
    <2>7. \A k \in 1 .. Len(r) : at(k) \in 1 .. Len(s) /\ at(k) # i /\ r[k] = s[at(k)]
      BY <1>0, <2>1, <2>6
    <2>8. \A a, b \in 1 .. Len(r) : a < b => at(a) < at(b)
      BY <1>0, <2>1, <2>6
    <2>9. \A m \in 1 .. Len(s) : m # i => \E k \in 1 .. Len(r) : m = at(k)
      <3> SUFFICES ASSUME NEW m \in 1 .. Len(s), m # i
                   PROVE  \E k \in 1 .. Len(r) : m = at(k)
        OBVIOUS
      <3>1. CASE m < i
        <4>1. m \in 1 .. Len(r) /\ at(m) = m
          BY <1>0, <2>1, <2>6, <3>1
        <4> QED BY <4>1
      <3>2. CASE m > i
        <4>1. m - 1 \in 1 .. Len(r) /\ at(m - 1) = m
          BY <1>0, <2>1, <2>6, <3>2
        <4> QED BY <4>1
      <3> QED BY <2>1, <3>1, <3>2
    <2>10. DOMAIN r = 1 .. Len(r) /\ Len(r) \in Nat
      BY <2>6
    <2>11. \A a, b \in 1 .. Len(r) : r[a] = r[b] => a = b
      <3> SUFFICES ASSUME NEW a \in 1 .. Len(r), NEW b \in 1 .. Len(r), r[a] = r[b], a # b
                   PROVE  FALSE
        OBVIOUS
      <3>1. at(a) # at(b) /\ at(a) \in 1 .. Len(s) /\ at(b) \in 1 .. Len(s)
        BY <2>7, <2>8, <2>10
      <3>2. r[a] = s[at(a)] /\ r[b] = s[at(b)]
        BY <2>7
      <3> HIDE DEF at
      <3> QED BY <1>0, <3>1, <3>2
    <2> HIDE DEF at
    <2>12. IsInjective(r)
      BY <2>10, <2>11 DEF IsInjective
    <2>13. ToSet(r) = ToSet(s) \ {e}
      <3>1. \A k \in 1 .. Len(r) : r[k] \in ToSet(s) /\ r[k] # e
        BY <1>0, <2>1, <2>7 DEF ToSet
      <3>2. \A m \in 1 .. Len(s) : s[m] # e => \E k \in 1 .. Len(r) : r[k] = s[m]
        BY <2>1, <2>7, <2>9
      <3>3. ToSet(r) = {r[k] : k \in 1 .. Len(r)} /\ ToSet(s) = {s[k] : k \in 1 .. Len(s)}
        BY <1>0, <2>10 DEF ToSet
      <3> QED BY <3>1, <3>2, <3>3
    <2>14. e \in ToSet(s)
      BY <1>0, <2>1 DEF ToSet
    <2>15. \A a, b \in 1 .. Len(r) : a < b =>
                \E m, j \in 1 .. Len(s) : m < j /\ s[m] = r[a] /\ s[j] = r[b]
      BY <2>7, <2>8
    <2> QED BY <2>6, <2>12, <2>13, <2>14, <2>15 DEF IsWithout
  <1>2. CASE ~\E i \in 1 .. Len(s) : s[i] = e
    <2>1. r = s
      BY <1>2 DEF RemoveFirst
    <2>2. e \notin ToSet(s)
      BY <1>0, <1>2 DEF ToSet
    <2> QED BY <1>0, <2>1, <2>2 DEF IsWithout
  <1> QED BY <1>1, <1>2

\* r is the table s of keys in S with e at its end.
IsExtended(r, s, e, S) ==
    /\ r \in Seq(S) /\ IsInjective(r) /\ ToSet(r) = ToSet(s) \cup {e}
    /\ Len(r) = Len(s) + 1 /\ r[Len(s) + 1] = e
    /\ \A i \in 1 .. Len(s) : r[i] = s[i]

(* A new key at the end of the table. *)
LEMMA AppendFacts ==
    ASSUME NEW S, NEW s \in Seq(S), IsInjective(s), NEW e \in S, e \notin ToSet(s)
    PROVE  IsExtended(Append(s, e), s, e, S)
  <1> SUFFICES ASSUME NEW r, r = Append(s, e) PROVE IsExtended(r, s, e, S)
    OBVIOUS
  <1>1. /\ r \in Seq(S) /\ Len(r) = Len(s) + 1 /\ r[Len(s) + 1] = e
        /\ \A i \in 1 .. Len(s) : r[i] = s[i]
        /\ DOMAIN r = 1 .. Len(s) + 1 /\ DOMAIN s = 1 .. Len(s) /\ Len(s) \in Nat
    OBVIOUS
  <1>2. \A i \in 1 .. Len(s) : s[i] # e /\ s[i] \in ToSet(s)
    BY <1>1 DEF ToSet
  <1>3. IsInjective(r)
    BY <1>1, <1>2 DEF IsInjective
  <1>4. ToSet(r) = {r[i] : i \in 1 .. Len(s) + 1} /\ ToSet(s) = {s[i] : i \in 1 .. Len(s)}
    BY <1>1 DEF ToSet
  <1>5. ToSet(r) = ToSet(s) \cup {e}
    <2>1. \A i \in 1 .. Len(s) + 1 : r[i] \in ToSet(s) \cup {e}
      BY <1>1, <1>2
    <2>2. \A i \in 1 .. Len(s) : s[i] \in ToSet(r)
      BY <1>1, <1>4
    <2>3. e \in ToSet(r)
      BY <1>1, <1>4
    <2> QED BY <1>4, <2>1, <2>2, <2>3
  <1> QED BY <1>1, <1>3, <1>5 DEF IsExtended

(* The table has as many clients as places. *)
LEMMA TableSize ==
    ASSUME NEW S, NEW s \in Seq(S), IsInjective(s)
    PROVE  IsFiniteSet(ToSet(s)) /\ Cardinality(ToSet(s)) = Len(s)
  <1>1. DOMAIN s = 1 .. Len(s) /\ Len(s) \in Nat /\ ToSet(s) = {s[i] : i \in 1 .. Len(s)}
    BY DEF ToSet
  <1>2. s \in [1 .. Len(s) -> ToSet(s)]
    BY <1>1
  <1>3. s \in Bijection(1 .. Len(s), ToSet(s))
    BY <1>1, <1>2 DEF Bijection, Injection, Surjection, IsInjective
  <1>4. ExistsBijection(1 .. Len(s), ToSet(s))
    BY <1>3 DEF ExistsBijection
  <1> QED BY <1>1, <1>4, FS_CountingElements, FS_NatBijection

-----------------------------------------------------------------------------
(* Counting the stored timestamps. *)

HeldIn(st, C) == {p \in C \X Slots : p[2] < st[p[1]].count}

(* A ring has MaxRequests slots. *)
LEMMA SlotsAreFinite == IsFiniteSet(Slots) /\ Cardinality(Slots) = MaxRequests
  <1>1. MaxRequests \in Nat \ {0}
    BY PolicyAssumption
  <1>2. IsFiniteSet(0 .. MaxRequests - 1)
        /\ Cardinality(0 .. MaxRequests - 1) =
             IF 0 > MaxRequests - 1 THEN 0 ELSE MaxRequests - 1 - 0 + 1
    BY <1>1, FS_Interval
  <1> QED BY <1>1, <1>2 DEF Slots

(* What the rings of some clients hold is bounded by their slots. *)
LEMMA HeldBound ==
    ASSUME NEW st, NEW C, IsFiniteSet(C)
    PROVE  /\ IsFiniteSet(HeldIn(st, C)) /\ Cardinality(HeldIn(st, C)) \in Nat
           /\ Cardinality(HeldIn(st, C)) <= Cardinality(C) * MaxRequests
  <1>1. IsFiniteSet(C \X Slots) /\ Cardinality(C \X Slots) = Cardinality(C) * MaxRequests
    BY SlotsAreFinite, FS_Product
  <1>2. HeldIn(st, C) \in SUBSET (C \X Slots)
    BY DEF HeldIn
  <1>3. IsFiniteSet(HeldIn(st, C)) /\ Cardinality(HeldIn(st, C)) <= Cardinality(C \X Slots)
    BY <1>1, <1>2, FS_Subset
  <1>4. Cardinality(HeldIn(st, C)) \in Nat
    BY <1>3, FS_CardinalityType
  <1> QED BY <1>1, <1>3, <1>4

(* Disjoint sets add up. *)
LEMMA Apart ==
    ASSUME NEW X, NEW Y, IsFiniteSet(X), IsFiniteSet(Y), X \cap Y = {}
    PROVE  Cardinality(X \cup Y) = Cardinality(X) + Cardinality(Y)
  <1>1. Cardinality(X) \in Nat /\ Cardinality(Y) \in Nat
    BY FS_CardinalityType
  <1>2. PICK z : z = Cardinality(X \cap Y)
    OBVIOUS
  <1>3. Cardinality(X \cup Y) = Cardinality(X) + Cardinality(Y) - z
    BY <1>2, FS_Union, Zenon
  <1>4. z = 0
    BY <1>2, FS_EmptySet, Zenon
  <1> QED BY <1>1, <1>3, <1>4

(* What two groups of clients hold adds up. *)
LEMMA HeldSplit ==
    ASSUME NEW st, NEW A, NEW B, IsFiniteSet(A), IsFiniteSet(B), A \cap B = {}
    PROVE  Cardinality(HeldIn(st, A \cup B)) =
             Cardinality(HeldIn(st, A)) + Cardinality(HeldIn(st, B))
  <1>1. HeldIn(st, A \cup B) = HeldIn(st, A) \cup HeldIn(st, B)
    BY DEF HeldIn
  <1>2. HeldIn(st, A) \cap HeldIn(st, B) = {}
    BY DEF HeldIn
  <1>3. IsFiniteSet(HeldIn(st, A)) /\ IsFiniteSet(HeldIn(st, B))
    BY HeldBound
  <1> QED BY <1>1, <1>2, <1>3, Apart

(* A ring holds as many timestamps as its count says. *)
LEMMA HeldByOne ==
    ASSUME NEW st, NEW c, st[c].count \in 0 .. MaxRequests
    PROVE  Cardinality(HeldIn(st, {c})) = st[c].count
  <1>1. PICK n \in 0 .. MaxRequests : n = st[c].count
    OBVIOUS
  <1>2. MaxRequests \in Nat \ {0} /\ n \in Nat
    BY <1>1, PolicyAssumption
  <1>3. HeldIn(st, {c}) = {<<c, i>> : i \in 0 .. n - 1}
    <2>1. \A p \in HeldIn(st, {c}) : p = <<c, p[2]>> /\ p[2] \in 0 .. n - 1
      BY <1>1, <1>2 DEF HeldIn, Slots
    <2>2. \A i \in 0 .. n - 1 : <<c, i>> \in HeldIn(st, {c})
      BY <1>1, <1>2 DEF HeldIn, Slots
    <2> QED BY <2>1, <2>2
  <1> DEFINE f == [i \in 0 .. n - 1 |-> <<c, i>>]
  <1>4. f \in Bijection(0 .. n - 1, HeldIn(st, {c}))
    BY <1>3 DEF Bijection, Injection, Surjection, IsInjective
  <1>5. ExistsBijection(0 .. n - 1, HeldIn(st, {c}))
    BY <1>4 DEF ExistsBijection
  <1>6. IsFiniteSet(0 .. n - 1) /\ Cardinality(0 .. n - 1) = n
    <2>1. PICK b \in Int : b = n - 1
      BY <1>2
    <2>2. PICK a \in Int : a = 0
      OBVIOUS
    <2>3. IsFiniteSet(a .. b) /\ Cardinality(a .. b) = IF a > b THEN 0 ELSE b - a + 1
      BY FS_Interval
    <2> QED BY <1>2, <2>1, <2>2, <2>3
  <1>7. Cardinality(HeldIn(st, {c})) = Cardinality(0 .. n - 1)
    BY <1>5, <1>6, FS_Bijection
  <1> QED BY <1>1, <1>2, <1>6, <1>7

(* What is held depends on the rings alone. *)
LEMMA HeldAlike ==
    ASSUME NEW st, NEW st2, NEW C, \A x \in C : st[x] = st2[x]
    PROVE  HeldIn(st, C) = HeldIn(st2, C)
  BY DEF HeldIn

(* One entry is replaced or added: _stored_requests loses the old count    *)
(* and gains the new one.                                                  *)
LEMMA HeldAfterStore ==
    ASSUME NEW st, NEW st2, NEW K, IsFiniteSet(K), NEW c,
           \A x \in K \ {c} : st[x] = st2[x],
           st2[c].count \in 0 .. MaxRequests,
           c \in K => st[c].count \in 0 .. MaxRequests
    PROVE  Cardinality(HeldIn(st2, K \cup {c})) =
             Cardinality(HeldIn(st, K)) - (IF c \in K THEN st[c].count ELSE 0)
               + st2[c].count
  <1> DEFINE R == K \ {c}
  <1>1. IsFiniteSet(R) /\ IsFiniteSet({c}) /\ R \cap {c} = {} /\ R \cup {c} = K \cup {c}
    BY FS_RemoveElement, FS_Singleton
  <1>2. HeldIn(st, R) = HeldIn(st2, R)
    BY HeldAlike
  <1>3. Cardinality(HeldIn(st2, {c})) = st2[c].count
    BY HeldByOne
  <1>4. Cardinality(HeldIn(st2, R \cup {c})) =
          Cardinality(HeldIn(st2, R)) + Cardinality(HeldIn(st2, {c}))
    BY <1>1, HeldSplit
  <1>5. Cardinality(HeldIn(st, R)) \in Nat
    BY <1>1, HeldBound
  <1>6. MaxRequests \in Nat
    BY PolicyAssumption
  <1>7. CASE c \in K
    <2>1. R \cup {c} = K
      BY <1>7
    <2>2. Cardinality(HeldIn(st, R \cup {c})) =
            Cardinality(HeldIn(st, R)) + Cardinality(HeldIn(st, {c}))
      BY <1>1, HeldSplit
    <2>3. Cardinality(HeldIn(st, {c})) = st[c].count
      BY <1>7, HeldByOne
    <2>4. Cardinality(HeldIn(st2, K \cup {c})) = Cardinality(HeldIn(st, R)) + st2[c].count
      BY <1>1, <1>2, <1>3, <1>4
    <2>5. Cardinality(HeldIn(st, K)) = Cardinality(HeldIn(st, R)) + st[c].count
      BY <2>1, <2>2, <2>3
    <2> HIDE DEF R
    <2> QED BY <1>5, <1>6, <1>7, <2>4, <2>5
  <1>8. CASE c \notin K
    <2>1. R = K
      BY <1>8
    <2>4. Cardinality(HeldIn(st2, K \cup {c})) = Cardinality(HeldIn(st, K)) + st2[c].count
      BY <1>1, <1>2, <1>3, <1>4, <2>1
    <2> QED BY <1>5, <1>6, <1>8, <2>1, <2>4
  <1> QED BY <1>7, <1>8

-----------------------------------------------------------------------------
(* The ring. *)

(* A new client has an empty ring. *)
LEMMA NewRing == New \in Rings /\ New.count = 0
  BY PolicyAssumption DEF New, Rings, Slots

(* The places and the timestamps of a ring have their types. *)
LEMMA StampType ==
    ASSUME NEW s \in Rings, NEW i \in Slots
    PROVE  Stamp(s, i) \in 0 .. MaxTime
  <1>1. s.head \in Slots /\ s.timestamps \in [Slots -> 0 .. MaxTime]
    BY DEF Rings
  <1>2. MaxRequests \in Nat \ {0}
    BY PolicyAssumption
  <1>3. PICK x : x = s.head + i
    OBVIOUS
  <1>4. x \in Nat
    BY <1>1, <1>2, <1>3 DEF Slots
  <1>5. x % MaxRequests \in 0 .. MaxRequests - 1
    BY <1>2, <1>4
  <1> QED BY <1>1, <1>3, <1>5 DEF Stamp, Slots

(* The trimming loop drops exactly the timestamps that left the window;    *)
(* what remains still mirrors the admissions.                              *)
LEMMA TrimFacts ==
    ASSUME now \in 0 .. MaxTime,
           NEW s \in Rings, NEW r \in Seq(0 .. MaxTime), Mirrors(s, r, now),
           \A i, j \in 1 .. Len(r) : i <= j => r[i] <= r[j]
    PROVE  /\ Trim(s) \in Rings /\ Trim(s).expires_at = s.expires_at
           /\ Trim(s).count <= s.count
           /\ Mirrors(Trim(s), r, now)
           /\ \A i \in 0 .. Trim(s).count - 1 : Stamp(Trim(s), i) > now - Window
           /\ s.count >= 1 /\ r[Len(r)] > now - Window => Trim(s).count >= 1
  <1> DEFINE K == {n \in 0 .. s.count : \A i \in 0 .. n - 1 : Stale(Stamp(s, i))}
             k == Max(K)
             e == Trim(s)
  <1>1. /\ MaxRequests \in Nat \ {0} /\ MaxTime \in Nat /\ Window \in Nat \ {0}
        /\ s.count \in 0 .. MaxRequests /\ s.head \in Slots /\ now \in Nat
        /\ s.timestamps \in [Slots -> 0 .. MaxTime] /\ s.expires_at \in 0 .. MaxTime + Window
        /\ Len(r) \in Nat /\ \A i \in 1 .. Len(r) : r[i] \in 0 .. MaxTime
        /\ s.count \in Nat
    BY PolicyAssumption DEF Rings
  <1>2. 0 \in K /\ K \in SUBSET (0 .. s.count)
    BY <1>1
  <1>3. k \in K /\ \A n \in K : n <= k
    BY <1>1, <1>2, Largest
  <1>4. k \in 0 .. s.count /\ \A i \in 0 .. k - 1 : Stale(Stamp(s, i))
    BY <1>3
  <1>5. k < s.count => ~Stale(Stamp(s, k))
    <2> SUFFICES ASSUME k < s.count, Stale(Stamp(s, k)) PROVE FALSE
      OBVIOUS
    <2> HIDE DEF k, K
    <2>1. k + 1 \in 0 .. s.count /\ \A i \in 0 .. (k + 1) - 1 : i = k \/ i \in 0 .. k - 1
      BY <1>1, <1>4
    <2>2. k + 1 \in K
      BY <1>4, <2>1 DEF K
    <2> QED BY <1>1, <1>3, <1>4, <2>2
  <1>6. e = [s EXCEPT !.head = (@ + k) % MaxRequests, !.count = @ - k]
    BY DEF Trim
  <1> HIDE DEF k, K, e
  <1>7. (s.head + k) % MaxRequests \in Slots
    <2>1. PICK x : x = s.head + k
      OBVIOUS
    <2>2. x \in Nat
      BY <1>1, <1>4, <2>1 DEF Slots
    <2>3. x % MaxRequests \in 0 .. MaxRequests - 1
      BY <1>1, <2>2
    <2> QED BY <2>1, <2>3 DEF Slots
  <1>8. /\ e.head = (s.head + k) % MaxRequests /\ e.count = s.count - k
        /\ e.timestamps = s.timestamps /\ e.expires_at = s.expires_at /\ e \in Rings
    <2>1. s.count - k \in 0 .. MaxRequests
      BY <1>1, <1>4
    <2> QED BY <1>1, <1>6, <1>7, <2>1 DEF Rings
  <1>9. \A i \in 0 .. e.count - 1 : Stamp(e, i) = Stamp(s, k + i)
    <2> SUFFICES ASSUME NEW i \in 0 .. e.count - 1 PROVE Stamp(e, i) = Stamp(s, k + i)
      OBVIOUS
    <2>1. k \in Nat /\ i \in Nat /\ k + i < MaxRequests
      BY <1>1, <1>4, <1>8
    <2>2. (((s.head + k) % MaxRequests) + i) % MaxRequests = (s.head + (k + i)) % MaxRequests
      BY <1>1, <2>1, RingShift
    <2> QED BY <1>8, <2>2 DEF Stamp
  <1> DEFINE n == Len(r)
  <1>10. PICK cs : cs = s.count
    OBVIOUS
  <1>11. PICK ce : ce = e.count
    OBVIOUS
  <1>12. /\ cs <= n
         /\ \A i \in 0 .. cs - 1 : Stamp(s, i) = r[n - cs + 1 + i]
         /\ \A j \in 1 .. n - cs : r[j] <= now - Window
    BY <1>10 DEF Mirrors
  <1>13. /\ k \in Nat /\ n \in Nat /\ cs \in Nat /\ ce \in Nat
         /\ ce = cs - k /\ cs <= n /\ k <= cs /\ cs <= MaxRequests
    BY <1>1, <1>4, <1>8, <1>10, <1>11, <1>12
  <1> HIDE DEF n
  <1>18. \A i \in 0 .. ce - 1 : Stamp(e, i) = r[n - ce + 1 + i]
    <2> SUFFICES ASSUME NEW i \in 0 .. ce - 1 PROVE Stamp(e, i) = r[n - ce + 1 + i]
      OBVIOUS
    <2>1. k + i \in 0 .. cs - 1 /\ n - cs + 1 + (k + i) = n - ce + 1 + i
      BY <1>13
    <2>2. Stamp(s, k + i) = r[n - cs + 1 + (k + i)]
      BY <1>12, <2>1
    <2> QED BY <1>9, <1>11, <2>1, <2>2
  <1>14. \A j \in 1 .. n - ce : r[j] <= now - Window
    <2> SUFFICES ASSUME NEW j \in 1 .. n - ce PROVE r[j] <= now - Window
      OBVIOUS
    <2>1. CASE j <= n - cs
      BY <1>12, <1>13, <2>1
    <2>2. CASE j > n - cs
      <3>1. PICK i : i = j - (n - cs) - 1
        OBVIOUS
      <3>2. i \in 0 .. k - 1 /\ i \in 0 .. cs - 1 /\ n - cs + 1 + i = j
        BY <1>13, <2>2, <3>1
      <3>3. Stamp(s, i) = r[j]
        BY <1>12, <3>2
      <3> QED BY <1>4, <3>2, <3>3 DEF Stale
    <2> QED BY <1>13, <2>1, <2>2
  <1>15. Mirrors(e, r, now)
    BY <1>11, <1>13, <1>14, <1>18 DEF Mirrors, n
  <1>16. \A i \in 0 .. ce - 1 : Stamp(e, i) > now - Window
    <2> SUFFICES ASSUME NEW i \in 0 .. ce - 1 PROVE Stamp(e, i) > now - Window
      OBVIOUS
    <2>1. PICK a : a = n - ce + 1
      OBVIOUS
    <2>2. k < cs /\ 0 \in 0 .. ce - 1 /\ a \in 1 .. n /\ a + i \in 1 .. n /\ a <= a + i
          /\ a + 0 = a /\ k + 0 = k
      BY <1>13, <2>1
    <2>3. Stamp(e, 0) = r[a] /\ Stamp(e, 0) = Stamp(s, k) /\ Stamp(e, i) = r[a + i]
      <3>1. Stamp(e, 0) = r[a + 0] /\ Stamp(e, i) = r[a + i]
        BY <1>18, <2>1, <2>2
      <3>2. Stamp(e, 0) = Stamp(s, k + 0)
        BY <1>9, <1>11, <2>2
      <3> QED BY <2>2, <3>1, <3>2
    <2>4. r[a] <= r[a + i]
      BY <2>2 DEF n
    <2>5. ~(r[a] <= now - Window)
      BY <1>5, <1>10, <2>2, <2>3 DEF Stale
    <2>6. r[a] \in Nat /\ r[a + i] \in Nat
      BY <1>1, <2>2 DEF n
    <2> QED BY <1>1, <2>3, <2>4, <2>5, <2>6
  <1>17. ASSUME s.count >= 1, r[Len(r)] > now - Window PROVE e.count >= 1
    <2> SUFFICES ASSUME ce = 0 PROVE FALSE
      BY <1>11, <1>13
    <2>1. n \in 1 .. n - ce /\ n \in 1 .. n
      BY <1>10, <1>13, <1>17
    <2>2. r[n] <= now - Window /\ r[n] \in Nat
      BY <1>1, <1>14, <2>1 DEF n
    <2> QED BY <1>1, <1>17, <2>2 DEF n
  <1>19. e.count <= s.count
    BY <1>10, <1>11, <1>13
  <1> QED BY <1>8, <1>11, <1>15, <1>16, <1>17, <1>19 DEF e

(* A sequence with one element more. *)
LEMMA Appended ==
    ASSUME NEW S, NEW b \in Seq(S), NEW t \in S
    PROVE  /\ Append(b, t) \in Seq(S) /\ Len(Append(b, t)) = Len(b) + 1
           /\ Append(b, t)[Len(b) + 1] = t
           /\ \A i \in 1 .. Len(b) : Append(b, t)[i] = b[i]
  OBVIOUS

(* The record of a client's admissions, which keeps the last MaxRequests. *)
LEMMA RecentBefore ==
    ASSUME NEW r \in Seq(0 .. MaxTime), Len(r) <= MaxRequests
    PROVE  \E b \in Seq(0 .. MaxTime), d \in 0 .. 1 :
             /\ b = IF Len(r) = MaxRequests THEN Tail(r) ELSE r
             /\ Len(b) = Len(r) - d /\ Len(b) \in 0 .. MaxRequests - 1
             /\ d = 0 \/ Len(r) = MaxRequests
             /\ \A i \in 1 .. Len(r) - d : b[i] = r[i + d]
  <1>1. MaxRequests \in Nat \ {0} /\ MaxTime \in Nat /\ Len(r) \in Nat
    BY PolicyAssumption
  <1>2. CASE Len(r) = MaxRequests
    <2>1. r # <<>>
      BY <1>1, <1>2
    <2>2. /\ Tail(r) \in Seq(0 .. MaxTime) /\ Len(Tail(r)) = Len(r) - 1
          /\ Len(r) - 1 \in 0 .. MaxRequests - 1
          /\ \A i \in 1 .. Len(r) - 1 : Tail(r)[i] = r[i + 1]
      BY <1>1, <1>2, <2>1
    <2>3. 1 \in 0 .. 1
      OBVIOUS
    <2> QED BY <1>2, <2>2, <2>3, Zenon
  <1>3. CASE Len(r) # MaxRequests
    <2>1. /\ Len(r) = Len(r) - 0 /\ Len(r) \in 0 .. MaxRequests - 1
          /\ \A i \in 1 .. Len(r) - 0 : r[i] = r[i + 0]
      BY <1>1, <1>3
    <2>2. 0 \in 0 .. 1
      OBVIOUS
    <2> QED BY <1>3, <2>1, <2>2, Zenon
  <1> QED BY <1>2, <1>3

NextRecent(r, t) == Append(IF Len(r) = MaxRequests THEN Tail(r) ELSE r, t)

\* r2 is r without its first d admissions, and with t.
IsNext(r2, r, t, d) ==
    /\ r2 \in Seq(0 .. MaxTime) /\ Len(r2) = Len(r) - d + 1
    /\ Len(r2) \in 1 .. MaxRequests /\ r2[Len(r2)] = t /\ Len(r) - d \in Nat
    /\ Len(r2) = Len(r) + 1 \/ Len(r2) = MaxRequests
    /\ \A i \in 1 .. Len(r) - d : r2[i] = r[i + d]

(* An admission is remembered last; at most the oldest is forgotten. *)
LEMMA RecentAfter ==
    ASSUME NEW r \in Seq(0 .. MaxTime), Len(r) <= MaxRequests, NEW t \in 0 .. MaxTime
    PROVE  \E d \in 0 .. 1 : IsNext(NextRecent(r, t), r, t, d)
  <1> SUFFICES ASSUME NEW r2, r2 = Append(IF Len(r) = MaxRequests THEN Tail(r) ELSE r, t)
               PROVE  \E d \in 0 .. 1 : IsNext(r2, r, t, d)
    BY DEF NextRecent
  <1>1. MaxRequests \in Nat \ {0} /\ MaxTime \in Nat /\ Len(r) \in Nat
    BY PolicyAssumption
  <1>2. PICK b \in Seq(0 .. MaxTime), d \in 0 .. 1 :
          /\ b = IF Len(r) = MaxRequests THEN Tail(r) ELSE r
          /\ Len(b) = Len(r) - d /\ Len(b) \in 0 .. MaxRequests - 1
          /\ d = 0 \/ Len(r) = MaxRequests
          /\ \A i \in 1 .. Len(r) - d : b[i] = r[i + d]
    BY RecentBefore, Zenon
  <1>4. /\ b \in Seq(0 .. MaxTime) /\ Len(b) = Len(r) - d /\ d \in 0 .. 1
        /\ Len(b) \in 0 .. MaxRequests - 1
        /\ \A i \in 1 .. Len(r) - d : b[i] = r[i + d]
    BY <1>2, Zenon
  <1>5. r2 = Append(b, t)
    BY <1>2, Zenon
  <1>6. /\ r2 \in Seq(0 .. MaxTime) /\ Len(r2) = Len(b) + 1 /\ r2[Len(b) + 1] = t
        /\ \A i \in 1 .. Len(b) : r2[i] = b[i]
    <2>1. /\ Append(b, t) \in Seq(0 .. MaxTime) /\ Len(Append(b, t)) = Len(b) + 1
          /\ Append(b, t)[Len(b) + 1] = t
          /\ \A i \in 1 .. Len(b) : Append(b, t)[i] = b[i]
      BY <1>4, Appended
    <2> QED BY <1>5, <2>1, Zenon
  <1>7. PICK n, m, n2 : n = Len(r) /\ m = Len(b) /\ n2 = Len(r2)
    OBVIOUS
  <1>8. /\ n \in Nat /\ m = n - d /\ d \in 0 .. 1 /\ m \in 0 .. MaxRequests - 1
        /\ n2 = m + 1
    BY <1>1, <1>4, <1>6, <1>7
  <1>9. /\ n2 = n - d + 1 /\ n2 \in 1 .. MaxRequests /\ n - d \in Nat
        /\ n2 = n + 1 \/ n2 = MaxRequests
    <2>1. d = 0 \/ n = MaxRequests
      BY <1>2, <1>7, Zenon
    <2> QED BY <1>1, <1>8, <2>1
  <1>10. r2[n2] = t /\ \A i \in 1 .. n - d : r2[i] = r[i + d]
    BY <1>4, <1>6, <1>7, <1>8, Zenon
  <1> QED BY <1>6, <1>7, <1>8, <1>9, <1>10, Zenon DEF IsNext

(* It stays in order and in the past. *)
LEMMA RecentStaysSorted ==
    ASSUME NEW r \in Seq(0 .. MaxTime), NEW t \in 0 .. MaxTime, NEW r2, NEW d \in 0 .. 1,
           RecentOK(r, t), IsNext(r2, r, t, d)
    PROVE  RecentOK(r2, t)
  <1>1. PICK n, n2 : n = Len(r) /\ n2 = Len(r2)
    OBVIOUS
  <1>2. MaxTime \in Nat /\ MaxRequests \in Nat /\ t \in Nat
    BY PolicyAssumption
  <1>3. n \in Nat /\ \A i \in 1 .. n : r[i] \in Nat
    BY <1>1, <1>2
  <1>4. /\ n2 \in 1 .. MaxRequests /\ n2 = n - d + 1 /\ r2[n2] = t
        /\ \A i \in 1 .. n - d : r2[i] = r[i + d]
    BY <1>1 DEF IsNext
  <1>5. /\ \A i \in 1 .. n : r[i] <= t
        /\ \A i, j \in 1 .. n : i <= j => r[i] <= r[j]
    BY <1>1 DEF RecentOK
  <1>6. \A i \in 1 .. n2 : i = n2 \/ (i \in 1 .. n - d /\ i + d \in 1 .. n)
    BY <1>2, <1>3, <1>4
  <1>7. ASSUME NEW i \in 1 .. n2 PROVE r2[i] <= t
    <2>1. CASE i = n2
      BY <1>2, <1>4, <2>1
    <2>2. CASE i \in 1 .. n - d /\ i + d \in 1 .. n
      BY <1>4, <1>5, <2>2
    <2> QED BY <1>6, <2>1, <2>2
  <1>8. ASSUME NEW i \in 1 .. n2, NEW j \in 1 .. n2, i <= j PROVE r2[i] <= r2[j]
    <2>1. CASE j = n2
      BY <1>4, <1>7, <2>1
    <2>2. CASE j # n2
      <3>1. /\ i \in 1 .. n - d /\ i + d \in 1 .. n /\ j \in 1 .. n - d /\ j + d \in 1 .. n
            /\ i + d <= j + d
        BY <1>2, <1>4, <1>6, <1>8, <2>2
      <3>2. r2[i] = r[i + d] /\ r2[j] = r[j + d]
        BY <1>4, <3>1
      <3>3. r[i + d] <= r[j + d]
        BY <1>5, <3>1
      <3> QED BY <3>2, <3>3
    <2> QED BY <2>1, <2>2
  <1>9. n2 <= MaxRequests
    BY <1>2, <1>4
  <1> QED BY <1>1, <1>7, <1>8, <1>9 DEF RecentOK

(* An admission: the ring, at its tail, gains the same timestamp as the     *)
(* record of admissions.                                                   *)
LEMMA PushFacts ==
    ASSUME NEW s \in Rings, s.count < MaxRequests,
           NEW r \in Seq(0 .. MaxTime), NEW t \in 0 .. MaxTime, Mirrors(s, r, t),
           NEW s2, s2.head = s.head, s2.count = s.count + 1,
           s2.timestamps = [s.timestamps EXCEPT ![(s.head + s.count) % MaxRequests] = t],
           NEW r2, NEW d \in Nat, Len(r) - d \in Nat,
           Len(r2) = Len(r) - d + 1, r2[Len(r2)] = t, s.count < Len(r2),
           \A i \in 1 .. Len(r) - d : r2[i] = r[i + d]
    PROVE  s2.timestamps \in [Slots -> 0 .. MaxTime] /\ Mirrors(s2, r2, t)
  <1>1. PICK cs : cs = s.count
    OBVIOUS
  <1>2. PICK n : n = Len(r)
    OBVIOUS
  <1>3. PICK n2 : n2 = Len(r2)
    OBVIOUS
  <1>4. PICK h : h = s.head
    OBVIOUS
  <1>5. PICK ts : ts = s.timestamps
    OBVIOUS
  <1>6. /\ MaxRequests \in Nat \ {0} /\ MaxTime \in Nat /\ Window \in Nat \ {0}
        /\ cs \in Nat /\ cs < MaxRequests /\ t \in 0 .. MaxTime /\ n \in Nat
        /\ n - d \in Nat /\ n2 = n - d + 1 /\ cs < n2 /\ d \in Nat
    BY <1>1, <1>2, <1>3, PolicyAssumption DEF Rings
  <1>7. h \in Slots /\ ts \in [Slots -> 0 .. MaxTime]
    BY <1>4, <1>5 DEF Rings
  <1>8. cs \in Slots
    BY <1>6 DEF Slots
  <1>9. PICK tail : tail = (h + cs) % MaxRequests
    OBVIOUS
  <1>10. tail \in Slots
    <2>1. PICK x : x = h + cs
      OBVIOUS
    <2>2. x \in Nat
      BY <1>6, <1>7, <2>1 DEF Slots
    <2>3. x % MaxRequests \in 0 .. MaxRequests - 1
      BY <1>6, <2>2
    <2> QED BY <1>9, <2>1, <2>3 DEF Slots
  <1>11. s2.timestamps = [ts EXCEPT ![tail] = t] /\ s2.head = h /\ s2.count = cs + 1
    BY <1>1, <1>4, <1>5, <1>9
  <1>12. [ts EXCEPT ![tail] = t] \in [Slots -> 0 .. MaxTime]
    BY <1>7, <1>10
  <1>14. /\ cs <= n
         /\ \A i \in 0 .. cs - 1 : ts[(h + i) % MaxRequests] = r[n - cs + 1 + i]
         /\ \A j \in 1 .. n - cs : r[j] <= t - Window
    BY <1>1, <1>2, <1>4, <1>5 DEF Mirrors, Stamp
  <1>15. \A i \in 1 .. n - d : r2[i] = r[i + d]
    BY <1>2
  <1>16. \A i \in 0 .. cs : Stamp(s2, i) = r2[n2 - cs + i]
    <2> SUFFICES ASSUME NEW i \in 0 .. cs PROVE Stamp(s2, i) = r2[n2 - cs + i]
      OBVIOUS
    <2>1. CASE i = cs
      <3>1. Stamp(s2, i) = t
        BY <1>7, <1>9, <1>10, <1>11, <2>1 DEF Stamp
      <3>2. n2 - cs + i = n2
        BY <1>6, <2>1
      <3> QED BY <1>3, <3>1, <3>2
    <2>2. CASE i # cs
      <3>1. i \in 0 .. cs - 1 /\ i \in Slots
        BY <1>6, <2>2 DEF Slots
      <3>2. (h + i) % MaxRequests # tail /\ (h + i) % MaxRequests \in Slots
        BY <1>7, <1>8, <1>9, <2>2, <3>1, RingApart
      <3>3. Stamp(s2, i) = ts[(h + i) % MaxRequests]
        BY <1>7, <1>11, <3>2 DEF Stamp
      <3>4. PICK a : a = n2 - cs + i
        OBVIOUS
      <3>5. a \in 1 .. n - d /\ a + d = n - cs + 1 + i
        BY <1>6, <3>1, <3>4
      <3>6. r2[a] = r[n - cs + 1 + i]
        BY <1>15, <3>5
      <3> QED BY <1>14, <3>1, <3>3, <3>4, <3>6
    <2> QED BY <2>1, <2>2
  <1>17. \A j \in 1 .. n2 - (cs + 1) : r2[j] <= t - Window
    <2> SUFFICES ASSUME NEW j \in 1 .. n2 - (cs + 1) PROVE r2[j] <= t - Window
      OBVIOUS
    <2>1. j \in 1 .. n - d /\ j + d \in 1 .. n - cs
      BY <1>6
    <2> QED BY <1>14, <1>15, <2>1
  <1>18. Mirrors(s2, r2, t)
    <2>1. cs + 1 <= n2
      BY <1>6
    <2>2. \A i \in 0 .. (cs + 1) - 1 : i \in 0 .. cs /\ n2 - (cs + 1) + 1 + i = n2 - cs + i
      BY <1>6
    <2>3. \A i \in 0 .. (cs + 1) - 1 : Stamp(s2, i) = r2[n2 - (cs + 1) + 1 + i]
      BY <1>16, <2>2
    <2> QED BY <1>3, <1>11, <1>17, <2>1, <2>3 DEF Mirrors
  <1> QED BY <1>11, <1>12, <1>18

(* The admissions that count at time t are the ones a trimmed ring holds. *)
LEMMA CountedFacts ==
    ASSUME NEW t \in Nat, NEW e \in Rings, NEW r \in Seq(0 .. MaxTime), Mirrors(e, r, t),
           \A i \in 0 .. e.count - 1 : Stamp(e, i) > t - Window,
           NEW C, C = {i \in DOMAIN r : r[i] > t - Window}
    PROVE  /\ Cardinality(C) = e.count
           /\ C # {} <=> e.count >= 1
  <1>1. PICK m : m = e.count
    OBVIOUS
  <1>2. PICK n : n = Len(r)
    OBVIOUS
  <1>3. m \in Nat /\ n \in Nat /\ DOMAIN r = 1 .. n /\ m <= n /\ Window \in Nat
    BY <1>1, <1>2, PolicyAssumption DEF Rings, Mirrors
  <1>4. \A i \in 1 .. n : r[i] \in Nat
    BY <1>2, PolicyAssumption
  <1>5. /\ \A i \in 0 .. m - 1 : Stamp(e, i) = r[n - m + 1 + i]
        /\ \A j \in 1 .. n - m : r[j] <= t - Window
    BY <1>1, <1>2 DEF Mirrors
  <1>6. PICK a \in Int : a = n - m + 1
    BY <1>3
  <1>7. C = a .. n
    <2>1. \A i \in C : i \in a .. n
      BY <1>3, <1>4, <1>5, <1>6
    <2>2. \A i \in a .. n : i \in C
      <3> SUFFICES ASSUME NEW i \in a .. n PROVE i \in C
        OBVIOUS
      <3>1. PICK k : k = i - a
        OBVIOUS
      <3>2. k \in 0 .. m - 1 /\ i = n - m + 1 + k /\ i \in 1 .. n
        BY <1>3, <1>6, <3>1
      <3>3. Stamp(e, k) = r[i] /\ Stamp(e, k) > t - Window
        BY <1>1, <1>5, <3>2
      <3> QED BY <1>3, <3>2, <3>3
    <2> QED BY <2>1, <2>2
  <1>8. Cardinality(a .. n) = IF a > n THEN 0 ELSE n - a + 1
    BY <1>3, FS_Interval
  <1>9. Cardinality(C) = m
    <2>1. Cardinality(a .. n) = m
      BY <1>3, <1>6, <1>8
    <2> QED BY <1>7, <2>1, Zenon
  <1>10. C # {} <=> m >= 1
    <2>1. m >= 1 => n \in a .. n
      BY <1>3, <1>6
    <2>2. m = 0 => a .. n = {}
      BY <1>3, <1>6
    <2> QED BY <1>3, <1>7, <2>1, <2>2
  <1> QED BY <1>1, <1>9, <1>10

-----------------------------------------------------------------------------
(* The table. *)

(* _expire_clients deletes the clients that have lapsed and no other, and  *)
(* keeps the order.                                                        *)
LEMMA KeptFacts ==
    ASSUME LimiterTypeOK, OrderedByExpiry
    PROVE  /\ Kept \in Seq(Clients) /\ IsInjective(Kept) /\ Len(Kept) <= Len(clients)
           /\ ToSet(Kept) = {c \in ToSet(clients) : state[c].expires_at > now}
           /\ \A i, j \in 1 .. Len(Kept) :
                i < j => state[Kept[i]].expires_at <= state[Kept[j]].expires_at
  <1> DEFINE G == {k \in 0 .. Len(clients) :
                     \A i \in 1 .. k : state[clients[i]].expires_at <= now}
  <1>1. /\ clients \in Seq(Clients) /\ DOMAIN clients = 1 .. Len(clients)
        /\ Len(clients) \in Nat /\ now \in Nat
        /\ \A i, j \in 1 .. Len(clients) : clients[i] = clients[j] => i = j
    <2>1. clients \in Seq(Clients) /\ IsInjective(clients) /\ now \in 0 .. MaxTime
      BY DEF LimiterTypeOK
    <2>2. now \in Nat
      BY <2>1, PolicyAssumption
    <2> QED BY <2>1, <2>2 DEF IsInjective
  <1>2. \A i \in 1 .. Len(clients) : state[clients[i]].expires_at \in Nat
    BY <1>1, PolicyAssumption DEF LimiterTypeOK
  <1>3. Gone \in G /\ \A k \in G : k <= Gone
    <2>1. 0 \in G /\ G \in SUBSET (0 .. Len(clients))
      BY <1>1
    <2> QED BY <1>1, <2>1, Largest DEF Gone
  <1>4. PICK g : g = Gone
    OBVIOUS
  <1>5. g \in 0 .. Len(clients) /\ \A i \in 1 .. g : state[clients[i]].expires_at <= now
    BY <1>3, <1>4
  <1>6. g < Len(clients) => state[clients[g + 1]].expires_at > now
    <2> SUFFICES ASSUME g < Len(clients), ~(state[clients[g + 1]].expires_at > now)
                 PROVE  FALSE
      OBVIOUS
    <2>1. g + 1 \in 1 .. Len(clients) /\ g + 1 \in 0 .. Len(clients)
          /\ \A i \in 1 .. g + 1 : i = g + 1 \/ i \in 1 .. g
      BY <1>1, <1>5
    <2>2. state[clients[g + 1]].expires_at <= now
      BY <1>1, <1>2, <2>1
    <2>3. g + 1 \in G
      BY <1>5, <2>1, <2>2
    <2> HIDE DEF G
    <2> QED BY <1>3, <1>4, <1>5, <2>3
  <1>7. /\ Kept \in Seq(Clients) /\ Len(Kept) = Len(clients) - g
        /\ \A k \in 1 .. (Len(clients) - g) : Kept[k] = clients[g + k]
    BY <1>1, <1>4, <1>5, Suffix DEF Kept
  <1> HIDE DEF G
  <1>8. PICK m : m = Len(Kept)
    OBVIOUS
  <1>9. /\ m \in Nat /\ m = Len(clients) - g /\ DOMAIN Kept = 1 .. m
        /\ \A k \in 1 .. m : Kept[k] = clients[g + k] /\ g + k \in 1 .. Len(clients)
    BY <1>1, <1>5, <1>7, <1>8
  <1>10. IsInjective(Kept)
    <2> SUFFICES ASSUME NEW a \in 1 .. m, NEW b \in 1 .. m, Kept[a] = Kept[b] PROVE a = b
      BY <1>9 DEF IsInjective
    <2>1. g + a = g + b
      BY <1>1, <1>9
    <2> QED BY <1>5, <1>9, <2>1
  <1>11. \A i, j \in 1 .. m :
           i < j => state[Kept[i]].expires_at <= state[Kept[j]].expires_at
    <2> SUFFICES ASSUME NEW i \in 1 .. m, NEW j \in 1 .. m, i < j
                 PROVE  state[Kept[i]].expires_at <= state[Kept[j]].expires_at
      OBVIOUS
    <2>1. g + i \in 1 .. Len(clients) /\ g + j \in 1 .. Len(clients) /\ g + i < g + j
      BY <1>5, <1>9
    <2>2. state[clients[g + i]].expires_at <= state[clients[g + j]].expires_at
      BY <1>1, <2>1 DEF OrderedByExpiry
    <2> QED BY <1>9, <2>2
  <1>12. \A i \in 1 .. Len(clients) : i > g => state[clients[i]].expires_at > now
    <2> SUFFICES ASSUME NEW i \in 1 .. Len(clients), i > g
                 PROVE  state[clients[i]].expires_at > now
      OBVIOUS
    <2>1. g + 1 \in 1 .. Len(clients) /\ g < Len(clients) /\ (g + 1 = i \/ g + 1 < i)
      BY <1>1, <1>5
    <2>2. CASE g + 1 = i
      BY <1>6, <2>1, <2>2
    <2>3. CASE g + 1 < i
      <3>1. state[clients[g + 1]].expires_at <= state[clients[i]].expires_at
        BY <1>1, <2>1, <2>3 DEF OrderedByExpiry
      <3> QED BY <1>1, <1>2, <1>6, <2>1, <3>1
    <2> QED BY <2>1, <2>2, <2>3
  <1>13. ToSet(Kept) = {c \in ToSet(clients) : state[c].expires_at > now}
    <2>1. /\ ToSet(Kept) = {Kept[k] : k \in 1 .. m}
          /\ ToSet(clients) = {clients[k] : k \in 1 .. Len(clients)}
      BY <1>1, <1>9 DEF ToSet
    <2>2. \A k \in 1 .. m : g + k \in 1 .. Len(clients) /\ g + k > g
      BY <1>5, <1>9
    <2>3. \A k \in 1 .. m : Kept[k] \in ToSet(clients) /\ state[Kept[k]].expires_at > now
      BY <1>9, <1>12, <2>1, <2>2
    <2>4. \A i \in 1 .. Len(clients) : state[clients[i]].expires_at > now =>
            clients[i] \in ToSet(Kept)
      <3> SUFFICES ASSUME NEW i \in 1 .. Len(clients), state[clients[i]].expires_at > now
                   PROVE  clients[i] \in ToSet(Kept)
        OBVIOUS
      <3>1. ~(i \in 1 .. g)
        BY <1>1, <1>2, <1>5
      <3>2. PICK k : k = i - g
        OBVIOUS
      <3>3. k \in 1 .. m /\ g + k = i
        BY <1>1, <1>5, <1>9, <3>1, <3>2
      <3> QED BY <1>9, <2>1, <3>3
    <2> QED BY <2>1, <2>3, <2>4
  <1> QED BY <1>1, <1>5, <1>7, <1>8, <1>9, <1>10, <1>11, <1>13

(* The limiter's state has its types, in the terms of this module. *)
LEMMA Types ==
    ASSUME LimiterTypeOK
    PROVE  /\ now \in 0 .. MaxTime /\ now \in Nat /\ stored \in Nat
           /\ clients \in Seq(Clients) /\ IsInjective(clients)
           /\ ToSet(clients) \subseteq Clients
           /\ \A c \in Clients : state[c] \in Rings /\ recent[c] \in Seq(0 .. MaxTime)
  <1>1. /\ now \in 0 .. MaxTime /\ stored \in Nat
        /\ clients \in Seq(Clients) /\ IsInjective(clients)
    BY DEF LimiterTypeOK
  <1>2. now \in Nat
    BY <1>1, PolicyAssumption
  <1>3. ToSet(clients) \subseteq Clients
    BY <1>1 DEF ToSet
  <1>4. state \in [Clients -> Rings] /\ recent \in [Clients -> Seq(0 .. MaxTime)]
    BY DEF LimiterTypeOK, Rings
  <1>5. \A c \in Clients : state[c] \in Rings /\ recent[c] \in Seq(0 .. MaxTime)
    BY <1>4, Zenon
  <1> QED BY <1>1, <1>2, <1>3, <1>5

(* An empty ring mirrors admissions that have all left the window. *)
LEMMA EmptyRing ==
    ASSUME NEW r \in Seq(0 .. MaxTime), NEW t \in Nat, RecentOK(r, t),
           Len(r) >= 1 => r[Len(r)] <= t - Window
    PROVE  Mirrors(New, r, t)
  <1>1. PICK n : n = Len(r)
    OBVIOUS
  <1>2. n \in Nat /\ MaxTime \in Nat /\ Window \in Nat /\ \A i \in 1 .. n : r[i] \in Nat
    BY <1>1, PolicyAssumption
  <1>3. \A j \in 1 .. n : r[j] <= t - Window
    <2> SUFFICES ASSUME NEW j \in 1 .. n PROVE r[j] <= t - Window
      OBVIOUS
    <2>1. n \in 1 .. n /\ j <= n /\ n >= 1
      BY <1>2
    <2>2. r[j] <= r[n]
      BY <1>1, <2>1 DEF RecentOK
    <2>3. r[n] <= t - Window
      BY <1>1, <2>1
    <2>4. r[n] \in Nat /\ r[j] \in Nat
      BY <1>2, <2>1
    <2> QED BY <1>2, <2>2, <2>3, <2>4
  <1>4. New.count = 0
    BY NewRing
  <1>5. 0 .. 0 - 1 = {} /\ n - 0 = n /\ 0 <= n
    BY <1>2
  <1> QED BY <1>1, <1>3, <1>4, <1>5 DEF Mirrors

(* What admit works on: the ring holds exactly the client's admissions in  *)
(* the window, and a client is kept exactly when it has one.               *)
LEMMA EntryFacts ==
    ASSUME LimiterTypeOK, RecentInv, RingInv, OrderedByExpiry, NEW c \in Clients
    PROVE  /\ Entry(c) \in Rings /\ Mirrors(Entry(c), recent[c], now)
           /\ \A i \in 0 .. Entry(c).count - 1 : Stamp(Entry(c), i) > now - Window
           /\ c \in ToSet(Kept) <=> Entry(c).count >= 1
           /\ c \in ToSet(Kept) => /\ c \in ToSet(clients)
                                   /\ Entry(c).expires_at = state[c].expires_at
                                   /\ Entry(c).count <= state[c].count
           /\ c \notin ToSet(Kept) => Entry(c) = New /\ Mirrors(New, recent[c], now)
  <1>1. /\ now \in 0 .. MaxTime /\ now \in Nat
        /\ state[c] \in Rings /\ recent[c] \in Seq(0 .. MaxTime)
    BY Types
  <1>2. ToSet(Kept) = {x \in ToSet(clients) : state[x].expires_at > now}
    BY KeptFacts
  <1>3. /\ Mirrors(state[c], recent[c], now) /\ RecentOK(recent[c], now)
        /\ c \in ToSet(clients) =>
             /\ state[c].count >= 1
             /\ state[c].expires_at = recent[c][Len(recent[c])] + Window
        /\ c \notin ToSet(clients) => state[c] = New
    BY DEF RingInv, RecentInv
  <1>4. MaxTime \in Nat /\ Window \in Nat /\ MaxRequests \in Nat \ {0}
    BY PolicyAssumption
  <1>5. c \in ToSet(clients) => recent[c][Len(recent[c])] \in Nat
    <2> SUFFICES ASSUME c \in ToSet(clients) PROVE recent[c][Len(recent[c])] \in Nat
      OBVIOUS
    <2>1. PICK n : n = Len(recent[c])
      OBVIOUS
    <2>2. state[c].count <= n /\ state[c].count >= 1 /\ state[c].count \in Nat /\ n \in Nat
      BY <1>1, <1>3, <1>4, <2>1 DEF Mirrors, Rings
    <2>3. n \in 1 .. n
      BY <2>2
    <2> QED BY <1>1, <1>4, <2>1, <2>3
  <1>6. CASE c \in ToSet(Kept)
    <2>1. c \in ToSet(clients) /\ state[c].expires_at > now
      BY <1>2, <1>6
    <2>2. recent[c][Len(recent[c])] > now - Window
      BY <1>1, <1>3, <1>4, <1>5, <2>1
    <2>3. Entry(c) = Trim(state[c])
      BY <1>6 DEF Entry
    <2>4. \A i, j \in 1 .. Len(recent[c]) : i <= j => recent[c][i] <= recent[c][j]
      BY <1>3 DEF RecentOK
    <2>5. state[c].count >= 1
      BY <1>3, <2>1
    <2>6. /\ Trim(state[c]) \in Rings /\ Trim(state[c]).expires_at = state[c].expires_at
          /\ Trim(state[c]).count <= state[c].count
          /\ Mirrors(Trim(state[c]), recent[c], now)
          /\ \A i \in 0 .. Trim(state[c]).count - 1 : Stamp(Trim(state[c]), i) > now - Window
          /\ state[c].count >= 1 /\ recent[c][Len(recent[c])] > now - Window
               => Trim(state[c]).count >= 1
      BY <1>1, <1>3, <2>4, TrimFacts
    <2> QED BY <1>6, <2>1, <2>2, <2>3, <2>5, <2>6
  <1>7. CASE c \notin ToSet(Kept)
    <2>1. Entry(c) = New
      BY <1>7 DEF Entry
    <2>2. Mirrors(New, recent[c], now)
      <3>1. CASE c \in ToSet(clients)
        <4>1. ~(state[c].expires_at > now)
          BY <1>2, <1>7, <3>1
        <4>2. recent[c][Len(recent[c])] <= now - Window
          BY <1>1, <1>3, <1>4, <1>5, <3>1, <4>1
        <4> QED BY <1>1, <1>3, <4>2, EmptyRing
      <3>2. CASE c \notin ToSet(clients)
        BY <1>3, <3>2
      <3> QED BY <3>1, <3>2
    <2>3. New \in Rings /\ New.count = 0
      BY NewRing
    <2>4. 0 .. New.count - 1 = {} /\ ~(New.count >= 1)
      BY <2>3
    <2> QED BY <1>7, <2>1, <2>2, <2>3, <2>4
  <1> QED BY <1>6, <1>7

-----------------------------------------------------------------------------
(* The steps. *)

(* The part of the invariant that admit needs. *)
TableInv == LimiterTypeOK /\ RecentInv /\ RingInv /\ OrderedByExpiry

(* A step that deletes the lapsed clients and sets c's entry keeps every   *)
(* ring in line with the admissions.                                       *)
LEMMA StoreStep ==
    ASSUME TableInv, NEW c \in Clients, NEW s \in Rings, Store(c, s), now' = now,
           NEW r \in Seq(0 .. MaxTime), recent' = [recent EXCEPT ![c] = r],
           RecentOK(r, now), Mirrors(s, r, now),
           clients' \in Seq(Clients), IsInjective(clients'), stored' \in Nat,
           ToSet(clients') \ {c} = ToSet(Kept) \ {c},
           c \in ToSet(clients') => s.count >= 1 /\ s.expires_at = r[Len(r)] + Window,
           c \notin ToSet(clients') => s = New
    PROVE  LimiterTypeOK' /\ RecentInv' /\ RingInv'
  <1>0. LimiterTypeOK /\ RecentInv /\ RingInv /\ OrderedByExpiry
    BY DEF TableInv
  <1>1. state' = [x \in Clients |-> IF x = c THEN s
                                   ELSE IF x \in ToSet(Kept) THEN state[x] ELSE New]
    BY DEF Store
  <1>2. \A x \in Clients : state[x] \in Rings /\ recent[x] \in Seq(0 .. MaxTime)
    BY <1>0, Types
  <1>3. state' \in [Clients -> Rings]
    BY <1>1, <1>2, NewRing
  <1>4. recent' \in [Clients -> Seq(0 .. MaxTime)]
    <2>1. recent \in [Clients -> Seq(0 .. MaxTime)]
      BY <1>0 DEF LimiterTypeOK
    <2> QED BY <2>1, Zenon
  <1>5. now' \in 0 .. MaxTime
    BY <1>0 DEF LimiterTypeOK
  <1>6. LimiterTypeOK'
    BY <1>3, <1>4, <1>5 DEF LimiterTypeOK, Rings
  <1>7. /\ recent'[c] = r /\ \A x \in Clients \ {c} : recent'[x] = recent[x]
    <2>1. recent \in [Clients -> Seq(0 .. MaxTime)]
      BY <1>0 DEF LimiterTypeOK
    <2> QED BY <2>1, Zenon
  <1>8. RecentInv'
    <2>1. \A x \in Clients : RecentOK(recent[x], now)
      BY <1>0 DEF RecentInv
    <2>2. \A x \in Clients : RecentOK(recent'[x], now')
      BY <1>7, <2>1, Zenon
    <2> QED BY <2>2, Zenon DEF RecentInv
  <1>9. ASSUME NEW x \in Clients
        PROVE  /\ Mirrors(state'[x], recent'[x], now')
               /\ x \in ToSet(clients') =>
                    /\ state'[x].count >= 1
                    /\ state'[x].expires_at = recent'[x][Len(recent'[x])] + Window
               /\ x \notin ToSet(clients') => state'[x] = New
    <2>1. CASE x = c
      <3>1. state'[x] = s /\ recent'[x] = r
        BY <1>1, <1>7, <2>1, Zenon
      <3> QED BY <2>1, <3>1, Zenon
    <2>2. CASE x # c /\ x \in ToSet(Kept)
      <3>1. state'[x] = state[x] /\ recent'[x] = recent[x] /\ x \in ToSet(clients')
        BY <1>1, <1>7, <2>2, Zenon
      <3>2. x \in ToSet(clients)
        BY <1>0, <2>2, EntryFacts
      <3>3. /\ Mirrors(state[x], recent[x], now) /\ state[x].count >= 1
            /\ state[x].expires_at = recent[x][Len(recent[x])] + Window
        BY <1>0, <3>2 DEF RingInv
      <3> QED BY <3>1, <3>3, Zenon
    <2>3. CASE x # c /\ x \notin ToSet(Kept)
      <3>1. state'[x] = New /\ recent'[x] = recent[x] /\ x \notin ToSet(clients')
        BY <1>1, <1>7, <2>3, Zenon
      <3>2. Mirrors(New, recent[x], now)
        BY <1>0, <2>3, EntryFacts
      <3> QED BY <3>1, <3>2, Zenon
    <2> QED BY <2>1, <2>2, <2>3
  <1>10. RingInv'
    BY <1>9, Zenon DEF RingInv
  <1> QED BY <1>6, <1>8, <1>10

(* What is counted once the lapsed clients are gone. *)
LEMMA StoredSplit ==
    ASSUME TableInv, StoredIsCounted
    PROVE  /\ StoredAfterExpiry = Cardinality(HeldIn(state, ToSet(Kept)))
           /\ Cardinality(HeldIn(state, ToSet(Kept))) \in Nat
           /\ IsFiniteSet(ToSet(Kept)) /\ Cardinality(ToSet(Kept)) = Len(Kept)
  <1>0. LimiterTypeOK /\ OrderedByExpiry
    BY DEF TableInv
  <1>1. /\ Kept \in Seq(Clients) /\ IsInjective(Kept)
        /\ ToSet(Kept) = {c \in ToSet(clients) : state[c].expires_at > now}
    BY <1>0, KeptFacts
  <1>2. IsFiniteSet(ToSet(Kept)) /\ Cardinality(ToSet(Kept)) = Len(Kept)
    BY <1>1, TableSize
  <1>3. PICK D : D = ToSet(clients)
    OBVIOUS
  <1>4. PICK K : K = ToSet(Kept)
    OBVIOUS
  <1>5. IsFiniteSet(D)
    BY <1>0, <1>3, Types, TableSize
  <1>6. K \subseteq D
    BY <1>1, <1>3, <1>4
  <1>7. IsFiniteSet(D \ K) /\ IsFiniteSet(K) /\ K \cap (D \ K) = {} /\ K \cup (D \ K) = D
    BY <1>2, <1>4, <1>5, <1>6, FS_Subset
  <1>8. Cardinality(HeldIn(state, D)) =
          Cardinality(HeldIn(state, K)) + Cardinality(HeldIn(state, D \ K))
    BY <1>7, HeldSplit
  <1>9. Cardinality(HeldIn(state, K)) \in Nat /\ Cardinality(HeldIn(state, D \ K)) \in Nat
    BY <1>7, HeldBound
  <1>10. stored = Cardinality(HeldIn(state, D))
    BY <1>3 DEF StoredIsCounted, Held, HeldIn
  <1>11. StoredAfterExpiry = stored - Cardinality(HeldIn(state, D \ K))
    BY <1>3, <1>4 DEF StoredAfterExpiry, Held, HeldIn
  <1>12. StoredAfterExpiry = Cardinality(HeldIn(state, K))
    BY <1>8, <1>9, <1>10, <1>11
  <1> QED BY <1>2, <1>4, <1>9, <1>12

(* _stored_requests stays the number of stored timestamps. *)
LEMMA StoredStep ==
    ASSUME TableInv, StoredIsCounted, NEW c \in Clients, NEW s \in Rings, Store(c, s),
           clients' \in Seq(Clients), IsInjective(clients'), Len(clients') <= MaxClients,
           \/ /\ ToSet(clients') = ToSet(Kept) \cup {c}
              /\ stored' = StoredAfterExpiry
                             - (IF c \in ToSet(Kept) THEN state[c].count ELSE 0) + s.count
           \/ /\ ToSet(clients') = ToSet(Kept) /\ c \notin ToSet(Kept)
              /\ stored' = StoredAfterExpiry
    PROVE  stored' \in Nat /\ StoredIsCounted'
  <1>1. /\ StoredAfterExpiry = Cardinality(HeldIn(state, ToSet(Kept)))
        /\ Cardinality(HeldIn(state, ToSet(Kept))) \in Nat
        /\ IsFiniteSet(ToSet(Kept))
    BY StoredSplit
  <1>2. PICK K : K = ToSet(Kept)
    OBVIOUS
  <1>3. PICK st2 : st2 = state'
    OBVIOUS
  <1>4. \A x \in Clients : st2[x] = IF x = c THEN s
                                    ELSE IF x \in K THEN state[x] ELSE New
    BY <1>2, <1>3 DEF Store
  <1>5. K \subseteq Clients
    <2>1. Kept \in Seq(Clients)
      BY KeptFacts DEF TableInv
    <2> QED BY <1>2, <2>1 DEF ToSet
  <1>6. \A x \in K \ {c} : state[x] = st2[x]
    BY <1>4, <1>5
  <1>7. st2[c].count = s.count /\ s.count \in 0 .. MaxRequests
    BY <1>4 DEF Rings
  <1>8. state[c].count \in 0 .. MaxRequests
    <2>1. state[c] \in Rings
      BY Types DEF TableInv
    <2> QED BY <2>1 DEF Rings
  <1>9. PICK D : D = ToSet(clients')
    OBVIOUS
  <1>10. IsFiniteSet(D) /\ Cardinality(D) = Len(clients')
    BY <1>9, TableSize
  <1>11. stored' = Cardinality(HeldIn(st2, D))
    <2>1. CASE /\ D = K \cup {c}
               /\ stored' = StoredAfterExpiry - (IF c \in K THEN state[c].count ELSE 0)
                              + s.count
      <3>1. Cardinality(HeldIn(st2, K \cup {c})) =
              Cardinality(HeldIn(state, K)) - (IF c \in K THEN state[c].count ELSE 0)
                + st2[c].count
        BY <1>1, <1>2, <1>6, <1>7, <1>8, HeldAfterStore
      <3> QED BY <1>1, <1>2, <1>7, <2>1, <3>1, Zenon
    <2>2. CASE D = K /\ c \notin K /\ stored' = StoredAfterExpiry
      <3>1. \A x \in K : state[x] = st2[x]
        BY <1>6, <2>2
      <3>2. HeldIn(state, K) = HeldIn(st2, K)
        BY <3>1, HeldAlike
      <3> QED BY <1>1, <1>2, <2>2, <3>2, Zenon
    <2> QED BY <1>2, <1>9, <2>1, <2>2, Zenon
  <1>12. /\ Cardinality(HeldIn(st2, D)) \in Nat
         /\ Cardinality(HeldIn(st2, D)) <= Cardinality(D) * MaxRequests
    BY <1>10, HeldBound
  <1>13. stored' \in Nat /\ stored' <= Len(clients') * MaxRequests
    BY <1>10, <1>11, <1>12, Zenon
  <1>14. (Held(ToSet(clients)))' = HeldIn(st2, D)
    BY <1>3, <1>9 DEF Held, HeldIn
  <1>15. stored' = Cardinality((Held(ToSet(clients)))')
    BY <1>11, <1>14, Zenon
  <1> QED BY <1>13, <1>15 DEF StoredIsCounted

(* Time passes: what was out of a window stays out. *)
LEMMA TickStep ==
    ASSUME LimiterInv, Tick
    PROVE  LimiterInv'
  <1>1. /\ now' = now + 1 /\ now < MaxTime
        /\ UNCHANGED <<clients, state, stored, verdict, recent>>
    BY DEF Tick
  <1>2. /\ LimiterTypeOK /\ RecentInv /\ RingInv /\ OrderedByExpiry /\ StoredIsCounted
        /\ VerdictInv
    BY DEF LimiterInv
  <1>3. now \in Nat /\ MaxTime \in Nat /\ Window \in Nat /\ MaxRequests \in Nat
    BY <1>2, Types, PolicyAssumption
  <1>4. now' \in 0 .. MaxTime /\ now' \in Nat
    BY <1>1, <1>3
  <1>5. LimiterTypeOK'
    BY <1>1, <1>2, <1>4 DEF LimiterTypeOK
  <1>6. RecentInv' /\ RingInv'
    <2>1. ASSUME NEW c \in Clients
          PROVE  RecentOK(recent[c], now') /\ Mirrors(state[c], recent[c], now')
      <3>1. PICK r : r = recent[c]
        OBVIOUS
      <3>2. PICK s : s = state[c]
        OBVIOUS
      <3>3. RecentOK(r, now) /\ Mirrors(s, r, now) /\ r \in Seq(0 .. MaxTime) /\ s \in Rings
        BY <1>2, <3>1, <3>2, Types DEF RecentInv, RingInv
      <3>4. PICK n : n = Len(r)
        OBVIOUS
      <3>5. PICK m : m = s.count
        OBVIOUS
      <3>6. n \in Nat /\ m \in Nat /\ \A i \in 1 .. n : r[i] \in Nat
        BY <1>3, <3>3, <3>4, <3>5 DEF Rings
      <3>7. \A i \in 1 .. n : r[i] <= now'
        BY <1>1, <1>3, <3>3, <3>4, <3>6 DEF RecentOK
      <3>8. \A j \in 1 .. n - m : r[j] <= now' - Window
        <4> SUFFICES ASSUME NEW j \in 1 .. n - m PROVE r[j] <= now' - Window
          OBVIOUS
        <4>1. r[j] <= now - Window
          BY <3>3, <3>4, <3>5 DEF Mirrors
        <4>2. j \in 1 .. n
          BY <3>6
        <4> QED BY <1>1, <1>3, <3>6, <4>1, <4>2
      <3>9. RecentOK(r, now')
        BY <3>3, <3>4, <3>7 DEF RecentOK
      <3>10. Mirrors(s, r, now')
        BY <3>3, <3>4, <3>5, <3>8 DEF Mirrors
      <3> QED BY <3>1, <3>2, <3>9, <3>10
    <2>2. RecentInv'
      BY <1>1, <2>1 DEF RecentInv
    <2>3. RingInv'
      BY <1>1, <1>2, <2>1 DEF RingInv
    <2> QED BY <2>2, <2>3
  <1>7. OrderedByExpiry'
    BY <1>1, <1>2 DEF OrderedByExpiry
  <1>8. StoredIsCounted'
    BY <1>1, <1>2 DEF StoredIsCounted, Held
  <1>9. VerdictInv' /\ RetryAfterIsTight'
    <2>1. verdict.status # "none" => verdict.at \in Nat /\ verdict.at <= now
      BY <1>2 DEF VerdictInv
    <2>2. VerdictInv'
      BY <1>1, <1>3, <2>1 DEF VerdictInv
    <2>3. verdict.status \in {"429", "503"} => verdict.at # now'
      BY <1>1, <1>3, <2>1
    <2> QED BY <1>1, <2>2, <2>3 DEF RetryAfterIsTight
  <1> QED BY <1>5, <1>6, <1>7, <1>8, <1>9 DEF LimiterInv

(* A client that is remembered has been admitted, and expires a Window     *)
(* after its last admission.                                               *)
LEMMA LastAdmission ==
    ASSUME TableInv, NEW c \in ToSet(clients)
    PROVE  /\ c \in Clients /\ Len(recent[c]) \in 1 .. MaxRequests
           /\ recent[c][Len(recent[c])] \in 0 .. now
           /\ state[c].expires_at = recent[c][Len(recent[c])] + Window
           /\ state[c].count \in 1 .. Len(recent[c])
           /\ Stamp(state[c], state[c].count - 1) = recent[c][Len(recent[c])]
  <1>0. LimiterTypeOK /\ RecentInv /\ RingInv
    BY DEF TableInv
  <1>1. /\ c \in Clients /\ recent[c] \in Seq(0 .. MaxTime) /\ state[c] \in Rings
        /\ now \in Nat
    BY <1>0, Types
  <1>2. PICK r : r = recent[c]
    OBVIOUS
  <1>3. PICK s : s = state[c]
    OBVIOUS
  <1>4. /\ Mirrors(s, r, now) /\ RecentOK(r, now) /\ s.count >= 1
        /\ s.expires_at = r[Len(r)] + Window
    BY <1>0, <1>1, <1>2, <1>3 DEF RingInv, RecentInv
  <1>5. PICK n : n = Len(r)
    OBVIOUS
  <1>6. PICK m : m = s.count
    OBVIOUS
  <1>7. /\ n \in Nat /\ m \in Nat /\ MaxRequests \in Nat /\ MaxTime \in Nat
        /\ m >= 1 /\ m <= n /\ n <= MaxRequests
    BY <1>1, <1>2, <1>3, <1>4, <1>5, <1>6, PolicyAssumption DEF Rings, Mirrors, RecentOK
  <1>8. n \in 1 .. n /\ m - 1 \in 0 .. m - 1 /\ n - m + 1 + (m - 1) = n
    BY <1>7
  <1>9. r[n] \in Nat /\ r[n] <= now
    BY <1>1, <1>2, <1>4, <1>5, <1>7, <1>8 DEF RecentOK
  <1>10. Stamp(s, m - 1) = r[n - m + 1 + (m - 1)]
    BY <1>4, <1>5, <1>6, <1>8 DEF Mirrors
  <1>11. r[n] \in 0 .. now /\ n \in 1 .. MaxRequests /\ m \in 1 .. n
    BY <1>1, <1>7, <1>9
  <1> QED BY <1>1, <1>2, <1>3, <1>4, <1>5, <1>6, <1>8, <1>10, <1>11

(* An admission: the ring takes the time, the client moves to the end. *)
LEMMA AdmitStep ==
    ASSUME LimiterInv, NEW c \in Clients, Admit(c)
    PROVE  LimiterInv'
  <1>0. TableInv /\ StoredIsCounted
    BY DEF LimiterInv, TableInv
  <1>1. PICK e : e = Entry(c)
    OBVIOUS
  <1>2. PICK r : r = recent[c]
    OBVIOUS
  <1>3. PICK r2 : r2 = NextRecent(r, now)
    OBVIOUS
  <1>4. PICK s2 : s2 = [timestamps |-> [e.timestamps EXCEPT
                                          ![(e.head + e.count) % MaxRequests] = now],
                        head |-> e.head, count |-> e.count + 1,
                        expires_at |-> now + Window]
    OBVIOUS
  <1>5. /\ c \in ToSet(Kept) \/ Len(Kept) < MaxClients
        /\ e.count # MaxRequests /\ Store(c, s2) /\ clients' = MoveToEnd(c)
        /\ stored' = StoredAfterExpiry
             - (IF c \in ToSet(Kept) THEN state[c].count - e.count ELSE 0) + 1
        /\ verdict' = [status |-> "allowed", client |-> c, at |-> now]
        /\ recent' = [recent EXCEPT ![c] = r2] /\ now' = now
    <2>1. recent \in [Clients -> Seq(0 .. MaxTime)]
      BY <1>0 DEF TableInv, LimiterTypeOK
    <2>2. recent' = [recent EXCEPT ![c] = r2]
      BY <1>2, <1>3, <2>1 DEF Admit, NextRecent
    <2> QED BY <1>1, <1>4, <2>2, Zenon DEF Admit, Full
  <1>6. /\ e \in Rings /\ Mirrors(e, r, now) /\ r \in Seq(0 .. MaxTime) /\ RecentOK(r, now)
        /\ c \notin ToSet(Kept) => e = New
    BY <1>0, <1>1, <1>2, EntryFacts, Types DEF TableInv, RecentInv
  <1>7. /\ now \in 0 .. MaxTime /\ now \in Nat /\ MaxRequests \in Nat \ {0}
        /\ MaxTime \in Nat /\ Window \in Nat \ {0} /\ MaxClients \in Nat \ {0}
    BY <1>0, Types, PolicyAssumption DEF TableInv
  <1>26. PICK d \in 0 .. 1 : IsNext(r2, r, now, d)
    <2>1. Len(r) <= MaxRequests
      BY <1>6 DEF RecentOK
    <2> QED BY <1>3, <1>6, <1>7, <2>1, RecentAfter
  <1>8. /\ r2 \in Seq(0 .. MaxTime) /\ Len(r2) = Len(r) - d + 1
        /\ Len(r2) \in 1 .. MaxRequests /\ r2[Len(r2)] = now /\ Len(r) - d \in Nat
        /\ Len(r2) = Len(r) + 1 \/ Len(r2) = MaxRequests
        /\ \A i \in 1 .. Len(r) - d : r2[i] = r[i + d]
    BY <1>26 DEF IsNext
  <1>9. RecentOK(r2, now)
    BY <1>6, <1>7, <1>26, RecentStaysSorted
  <1>10. e.count \in 0 .. MaxRequests /\ e.head \in Slots /\ e.count < MaxRequests
    BY <1>5, <1>6, <1>7 DEF Rings
  <1>11. e.count < Len(r2)
    <2>1. e.count <= Len(r)
      BY <1>6 DEF Mirrors
    <2>2. PICK n, n2, m : n = Len(r) /\ n2 = Len(r2) /\ m = e.count
      OBVIOUS
    <2>3. /\ m \in Nat /\ n \in Nat /\ m <= n /\ m < MaxRequests
          /\ n2 = n + 1 \/ n2 = MaxRequests
      BY <1>6, <1>7, <1>8, <1>10, <2>1, <2>2
    <2>4. m < n2
      BY <1>7, <2>3
    <2> QED BY <2>2, <2>4
  <1>12. /\ s2.head = e.head /\ s2.count = e.count + 1 /\ s2.expires_at = now + Window
         /\ s2.timestamps = [e.timestamps EXCEPT ![(e.head + e.count) % MaxRequests] = now]
    BY <1>4
  <1>13. s2.timestamps \in [Slots -> 0 .. MaxTime] /\ Mirrors(s2, r2, now)
    <2>1. d \in Nat
      OBVIOUS
    <2> QED BY <1>6, <1>7, <1>8, <1>10, <1>11, <1>12, <2>1, PushFacts
  <1>14. s2 \in Rings
    <2>1. e.count + 1 \in 0 .. MaxRequests /\ now + Window \in 0 .. MaxTime + Window
      BY <1>7, <1>10
    <2>2. PICK ts : ts = s2.timestamps
      OBVIOUS
    <2>3. s2 = [timestamps |-> ts, head |-> e.head, count |-> e.count + 1,
                expires_at |-> now + Window]
      BY <1>4, <1>12, <2>2, Zenon
    <2> QED BY <1>10, <1>13, <2>1, <2>2, <2>3 DEF Rings
  <1>15. /\ Kept \in Seq(Clients) /\ IsInjective(Kept) /\ Len(Kept) <= Len(clients)
         /\ ToSet(Kept) = {x \in ToSet(clients) : state[x].expires_at > now}
         /\ \A i, j \in 1 .. Len(Kept) :
              i < j => state[Kept[i]].expires_at <= state[Kept[j]].expires_at
    BY <1>0, KeptFacts DEF TableInv
  <1>16. PICK b : b = RemoveFirst(Kept, c)
    OBVIOUS
  <1>17. /\ b \in Seq(Clients) /\ IsInjective(b) /\ ToSet(b) = ToSet(Kept) \ {c}
         /\ Len(b) = IF c \in ToSet(Kept) THEN Len(Kept) - 1 ELSE Len(Kept)
         /\ \A i, j \in 1 .. Len(b) : i < j =>
              \E k, l \in 1 .. Len(Kept) : k < l /\ Kept[k] = b[i] /\ Kept[l] = b[j]
    <2>1. IsWithout(b, Kept, c, Clients)
      BY <1>15, <1>16, RemoveFirstFacts
    <2> QED BY <2>1 DEF IsWithout
  <1>18. clients' = Append(b, c)
    BY <1>5, <1>16 DEF MoveToEnd
  <1>19. /\ clients' \in Seq(Clients) /\ IsInjective(clients')
         /\ ToSet(clients') = ToSet(b) \cup {c}
         /\ Len(clients') = Len(b) + 1 /\ clients'[Len(b) + 1] = c
         /\ \A i \in 1 .. Len(b) : clients'[i] = b[i]
    <2>1. c \notin ToSet(b)
      BY <1>17
    <2>2. IsExtended(clients', b, c, Clients)
      BY <1>17, <1>18, <2>1, AppendFacts
    <2> QED BY <2>2 DEF IsExtended
  <1>20. ToSet(clients') = ToSet(Kept) \cup {c}
    BY <1>17, <1>19
  <1>21. Len(clients') <= MaxClients
    <2>1. Len(Kept) <= MaxClients /\ Len(Kept) \in Nat
      <3>1. Len(clients) <= MaxClients /\ Len(clients) \in Nat
        BY <1>0, Types DEF StoredIsCounted, TableInv
      <3> QED BY <1>7, <1>15, <3>1
    <2>2. Len(clients') = IF c \in ToSet(Kept) THEN Len(Kept) ELSE Len(Kept) + 1
      BY <1>17, <1>19, <2>1
    <2> QED BY <1>5, <1>7, <2>1, <2>2
  <1>22. stored' \in Nat /\ StoredIsCounted'
    <2>1. stored' = StoredAfterExpiry
                      - (IF c \in ToSet(Kept) THEN state[c].count ELSE 0) + s2.count
      <3>1. StoredAfterExpiry \in Nat
        BY <1>0, StoredSplit
      <3>2. state[c].count \in Nat
        <4>1. state[c] \in Rings
          BY <1>0, Types DEF TableInv
        <4> QED BY <1>7, <4>1 DEF Rings
      <3>3. c \notin ToSet(Kept) => e.count = 0
        BY <1>6, NewRing
      <3>4. PICK a, m, n : a = StoredAfterExpiry /\ m = e.count /\ n = state[c].count
        OBVIOUS
      <3>5. /\ a \in Nat /\ m \in Nat /\ n \in Nat /\ s2.count = m + 1
            /\ stored' = a - (IF c \in ToSet(Kept) THEN n - m ELSE 0) + 1
            /\ c \notin ToSet(Kept) => m = 0
        BY <1>5, <1>7, <1>10, <1>12, <3>1, <3>2, <3>3, <3>4
      <3>6. stored' = a - (IF c \in ToSet(Kept) THEN n ELSE 0) + (m + 1)
        BY <3>5
      <3> QED BY <3>4, <3>5, <3>6
    <2> QED BY <1>0, <1>5, <1>14, <1>19, <1>20, <1>21, <2>1, StoredStep
  <1>23. LimiterTypeOK' /\ RecentInv' /\ RingInv'
    <2>1. s2.count >= 1 /\ s2.expires_at = r2[Len(r2)] + Window
      BY <1>7, <1>8, <1>10, <1>12
    <2>2. ToSet(clients') \ {c} = ToSet(Kept) \ {c} /\ c \in ToSet(clients')
      BY <1>20
    <2> QED BY <1>0, <1>5, <1>8, <1>9, <1>13, <1>14, <1>19, <1>22, <2>1, <2>2, StoreStep
  <1>24. OrderedByExpiry'
    <2>1. state' = [x \in Clients |-> IF x = c THEN s2
                                     ELSE IF x \in ToSet(Kept) THEN state[x] ELSE New]
      BY <1>5 DEF Store
    <2>2. PICK m : m = Len(b)
      OBVIOUS
    <2>3. m \in Nat /\ DOMAIN clients' = 1 .. m + 1
      BY <1>17, <1>19, <2>2
    <2>4. ASSUME NEW i \in 1 .. m
          PROVE  /\ b[i] \in ToSet(Kept) /\ b[i] # c /\ b[i] \in Clients
                 /\ state'[clients'[i]].expires_at = state[b[i]].expires_at
      <3>1. b[i] \in ToSet(b) /\ b[i] \in Clients
        BY <1>17, <2>2 DEF ToSet
      <3>2. b[i] \in ToSet(Kept) /\ b[i] # c
        BY <1>17, <3>1
      <3>3. clients'[i] = b[i]
        BY <1>19, <2>2
      <3>4. state'[b[i]] = state[b[i]]
        BY <2>1, <3>1, <3>2
      <3> QED BY <3>1, <3>2, <3>3, <3>4
    <2>5. SUFFICES ASSUME NEW i \in 1 .. m + 1, NEW j \in 1 .. m + 1, i < j
                   PROVE  state'[clients'[i]].expires_at <= state'[clients'[j]].expires_at
      BY <2>3 DEF OrderedByExpiry
    <2>6. CASE j = m + 1
      <3>1. state'[clients'[j]].expires_at = now + Window
        BY <1>12, <1>19, <2>1, <2>2, <2>6
      <3>2. i \in 1 .. m
        BY <2>3, <2>5, <2>6
      <3>3. b[i] \in ToSet(clients)
        BY <1>15, <2>4, <3>2
      <3>4. /\ recent[b[i]][Len(recent[b[i]])] \in 0 .. now
            /\ state[b[i]].expires_at = recent[b[i]][Len(recent[b[i]])] + Window
        BY <1>0, <3>3, LastAdmission
      <3>5. state[b[i]].expires_at <= now + Window
        BY <1>7, <3>4
      <3> QED BY <2>4, <3>1, <3>2, <3>5
    <2>7. CASE j # m + 1
      <3>1. i \in 1 .. m /\ j \in 1 .. m
        BY <2>3, <2>5, <2>7
      <3>2. PICK k, l \in 1 .. Len(Kept) : k < l /\ Kept[k] = b[i] /\ Kept[l] = b[j]
        BY <1>17, <2>2, <2>5, <3>1
      <3>3. state[b[i]].expires_at <= state[b[j]].expires_at
        BY <1>15, <3>2
      <3> QED BY <2>4, <3>1, <3>3
    <2> QED BY <2>6, <2>7
  <1>25. VerdictInv' /\ RetryAfterIsTight'
    <2>1. verdict'.status = "allowed" /\ verdict'.at = now
      BY <1>5
    <2>2. now \in Nat /\ now <= now'
      BY <1>5, <1>7
    <2> QED BY <2>1, <2>2 DEF VerdictInv, RetryAfterIsTight
  <1> QED BY <1>22, <1>23, <1>24, <1>25 DEF LimiterInv

-----------------------------------------------------------------------------
(* The refusals. *)

FreeIn(v, st, cl, t) ==
    IF v.status = "429" THEN Cardinality(InWindow(st[v.client], t)) < MaxRequests
    ELSE \E c \in ToSet(cl) : InWindow(st[c], t) = {}

TightIn(v, st, cl, t) ==
    v.status \in {"429", "503"} /\ v.at = t =>
        /\ FreeIn(v, st, cl, v.at + v.wait * Second)
        /\ v.wait > 1 => ~FreeIn(v, st, cl, (v.at + v.wait * Second) - Second)

(* The tightness of an answer, read in the next state. *)
LEMMA TightNext ==
    ASSUME TightIn(verdict', state', clients', now')
    PROVE  RetryAfterIsTight'
  BY Zenon DEF RetryAfterIsTight, TightIn, Free, FreeIn

(* A full ring has a free slot from the time its oldest timestamp leaves.  *)
LEMMA RingFrees ==
    ASSUME NEW e \in Rings, e.count = MaxRequests, NEW r \in Seq(0 .. MaxTime),
           NEW t \in Nat, Mirrors(e, r, t), RecentOK(r, t), NEW u \in Int
    PROVE  Cardinality(InWindow(e, u)) < MaxRequests <=> u >= Stamp(e, 0) + Window
  <1>1. /\ MaxRequests \in Nat \ {0} /\ Window \in Nat /\ 0 \in Slots
        /\ Slots = 0 .. MaxRequests - 1
    BY PolicyAssumption DEF Slots
  <1>2. \A i \in Slots : Stamp(e, i) \in Nat
    BY StampType, PolicyAssumption
  <1>3. \A i \in Slots : Stamp(e, 0) <= Stamp(e, i)
    <2> SUFFICES ASSUME NEW i \in Slots PROVE Stamp(e, 0) <= Stamp(e, i)
      OBVIOUS
    <2>1. PICK n : n = Len(r)
      OBVIOUS
    <2>2. n \in Nat /\ n <= MaxRequests /\ MaxRequests <= n
      BY <1>1, <2>1 DEF Mirrors, RecentOK
    <2>3. n = MaxRequests /\ 0 \in 0 .. MaxRequests - 1 /\ i \in 0 .. MaxRequests - 1
      BY <1>1, <2>2
    <2>4. Stamp(e, 0) = r[n - MaxRequests + 1 + 0] /\ Stamp(e, i) = r[n - MaxRequests + 1 + i]
      BY <2>1, <2>3 DEF Mirrors
    <2>5. n - MaxRequests + 1 + 0 = 1 /\ n - MaxRequests + 1 + i = 1 + i
          /\ 1 \in 1 .. n /\ 1 + i \in 1 .. n /\ 1 <= 1 + i
      BY <1>1, <2>3
    <2>6. r[1] <= r[1 + i]
      BY <2>1, <2>5 DEF RecentOK
    <2> QED BY <2>4, <2>5, <2>6
  <1>4. InWindow(e, u) = {i \in Slots : Stamp(e, i) > u - Window}
    BY <1>1 DEF InWindow
  <1>5. PICK x : x = Stamp(e, 0)
    OBVIOUS
  <1>6. x \in Nat
    BY <1>1, <1>2, <1>5
  <1>7. CASE u >= x + Window
    <2>1. ~(x > u - Window)
      BY <1>1, <1>6, <1>7
    <2>2. 0 \notin InWindow(e, u) /\ InWindow(e, u) \subseteq Slots
      BY <1>4, <1>5, <2>1
    <2>3. InWindow(e, u) \in SUBSET (Slots \ {0})
      BY <2>2
    <2>4. IsFiniteSet(Slots \ {0}) /\ Cardinality(Slots \ {0}) = MaxRequests - 1
      <3>1. IsFiniteSet(Slots \ {0}) /\ Cardinality(Slots \ {0}) = Cardinality(Slots) - 1
        BY <1>1, SlotsAreFinite, FS_RemoveElement, Zenon
      <3> QED BY <3>1, SlotsAreFinite
    <2>5. Cardinality(InWindow(e, u)) <= MaxRequests - 1 /\ IsFiniteSet(InWindow(e, u))
      BY <2>3, <2>4, FS_Subset
    <2>6. Cardinality(InWindow(e, u)) \in Nat
      BY <2>5, FS_CardinalityType
    <2> QED BY <1>1, <1>5, <1>7, <2>5, <2>6
  <1>8. CASE ~(u >= x + Window)
    <2>1. \A i \in Slots : Stamp(e, i) > u - Window
      <3> SUFFICES ASSUME NEW i \in Slots PROVE Stamp(e, i) > u - Window
        OBVIOUS
      <3>1. PICK y : y = Stamp(e, i)
        OBVIOUS
      <3>2. y \in Nat /\ x <= y
        BY <1>2, <1>3, <1>5, <3>1
      <3>3. y > u - Window
        BY <1>1, <1>6, <1>8, <3>2
      <3> QED BY <3>1, <3>3
    <2>2. InWindow(e, u) = Slots
      BY <1>4, <2>1
    <2>3. Cardinality(InWindow(e, u)) = MaxRequests
      BY <2>2, SlotsAreFinite
    <2>4. ~(MaxRequests < MaxRequests)
      BY <1>1
    <2> QED BY <1>5, <1>8, <2>3, <2>4
  <1> QED BY <1>7, <1>8

(* A ring is empty from the time its client expires. *)
LEMMA ClientLapses ==
    ASSUME TableInv, NEW c \in ToSet(clients), NEW u \in Int
    PROVE  InWindow(state[c], u) = {} <=> u >= state[c].expires_at
  <1>1. PICK s, r, n, m : s = state[c] /\ r = recent[c] /\ n = Len(r) /\ m = s.count
    OBVIOUS
  <1>2. /\ c \in Clients /\ n \in 1 .. MaxRequests /\ r[n] \in 0 .. now
        /\ s.expires_at = r[n] + Window /\ m \in 1 .. n /\ Stamp(s, m - 1) = r[n]
    BY <1>1, LastAdmission
  <1>3. /\ now \in Nat /\ Window \in Nat /\ MaxRequests \in Nat /\ MaxTime \in Nat
        /\ r \in Seq(0 .. MaxTime)
    BY <1>1, <1>2, Types, PolicyAssumption DEF TableInv
  <1>4. Mirrors(s, r, now) /\ RecentOK(r, now)
    BY <1>1, <1>2 DEF TableInv, RingInv, RecentInv
  <1>5. \A i \in 0 .. m - 1 : Stamp(s, i) \in Nat /\ Stamp(s, i) <= r[n]
    <2> SUFFICES ASSUME NEW i \in 0 .. m - 1 PROVE Stamp(s, i) \in Nat /\ Stamp(s, i) <= r[n]
      OBVIOUS
    <2>1. PICK k : k = n - m + 1 + i
      OBVIOUS
    <2>2. k \in 1 .. n /\ n \in 1 .. n /\ k <= n
      BY <1>2, <1>3, <2>1
    <2>3. Stamp(s, i) = r[k]
      BY <1>1, <1>4, <2>1 DEF Mirrors
    <2>4. r[k] \in Nat
      BY <1>1, <1>3, <2>2
    <2>5. r[k] <= r[n]
      BY <1>1, <1>4, <2>2 DEF RecentOK
    <2> QED BY <2>3, <2>4, <2>5
  <1>6. InWindow(s, u) = {i \in 0 .. m - 1 : Stamp(s, i) > u - Window}
    BY <1>1 DEF InWindow
  <1>7. r[n] \in Nat
    BY <1>2, <1>3
  <1>8. CASE u >= r[n] + Window
    <2>1. \A i \in 0 .. m - 1 : ~(Stamp(s, i) > u - Window)
      <3> SUFFICES ASSUME NEW i \in 0 .. m - 1 PROVE ~(Stamp(s, i) > u - Window)
        OBVIOUS
      <3>1. PICK y, z : y = Stamp(s, i) /\ z = r[n]
        OBVIOUS
      <3>2. y \in Nat /\ z \in Nat /\ y <= z /\ u >= z + Window
        BY <1>5, <1>7, <1>8, <3>1
      <3>3. ~(y > u - Window)
        BY <1>3, <3>2
      <3> QED BY <3>1, <3>3
    <2> QED BY <1>1, <1>2, <1>6, <1>8, <2>1
  <1>9. CASE ~(u >= r[n] + Window)
    <2>1. PICK z : z = r[n]
      OBVIOUS
    <2>2. z > u - Window
      BY <1>3, <1>7, <1>9, <2>1
    <2>3. m - 1 \in 0 .. m - 1
      BY <1>2, <1>3
    <2>4. m - 1 \in InWindow(s, u)
      BY <1>2, <1>6, <2>1, <2>2, <2>3
    <2> QED BY <1>1, <1>2, <1>9, <2>4
  <1> QED BY <1>8, <1>9

(* The clients left in the table keep their order when their expiry does   *)
(* not change.                                                             *)
LEMMA KeptOrder ==
    ASSUME TableInv, NEW c \in Clients, NEW s, Store(c, s), clients' = Kept,
           c \in ToSet(Kept) => s.expires_at = state[c].expires_at
    PROVE  OrderedByExpiry'
  <1>1. /\ Kept \in Seq(Clients)
        /\ \A i, j \in 1 .. Len(Kept) :
             i < j => state[Kept[i]].expires_at <= state[Kept[j]].expires_at
    BY KeptFacts DEF TableInv
  <1>2. state' = [x \in Clients |-> IF x = c THEN s
                                   ELSE IF x \in ToSet(Kept) THEN state[x] ELSE New]
    BY DEF Store
  <1>3. PICK K : K = Kept
    OBVIOUS
  <1>4. DOMAIN K = 1 .. Len(K) /\ \A i \in 1 .. Len(K) : K[i] \in Clients /\ K[i] \in ToSet(Kept)
    BY <1>1, <1>3 DEF ToSet
  <1>5. \A i \in 1 .. Len(K) : state'[K[i]].expires_at = state[K[i]].expires_at
    BY <1>2, <1>4
  <1>6. \A i, j \in 1 .. Len(K) : i < j => state'[K[i]].expires_at <= state'[K[j]].expires_at
    BY <1>1, <1>3, <1>5
  <1> QED BY <1>3, <1>4, <1>6 DEF OrderedByExpiry

(* The wait of a refusal, counted from now, ends when a place frees or less *)
(* than a second later.                                                    *)
LEMMA RejectFacts ==
    ASSUME NEW status, NEW c, NEW a \in Int, now \in Nat, a > now,
           NEW v, v = Reject(status, c, a)
    PROVE  /\ v.status = status /\ v.client = c /\ v.at = now /\ v.wait \in Nat
           /\ v.at + v.wait * Second \in Int /\ v.at + v.wait * Second >= a
           /\ (v.at + v.wait * Second) - Second \in Int
           /\ ~((v.at + v.wait * Second) - Second >= a)
  <1>1. Second \in Nat \ {0}
    BY PolicyAssumption
  <1>2. PICK d : d = a - now
    OBVIOUS
  <1>3. d \in Int /\ d > 0 /\ a = now + d
    BY <1>2
  <1>4. PICK q : q = Max({1, (a - now + Second - 1) \div Second})
    OBVIOUS
  <1>5. q = Max({1, (d + Second - 1) \div Second})
    BY <1>2, <1>4
  <1>6. q \in Nat /\ q * Second >= d /\ (q - 1) * Second < d
    BY <1>3, <1>5, RoundedUp
  <1>7. v.status = status /\ v.client = c /\ v.at = now /\ v.wait = q
    BY <1>4 DEF Reject
  <1>8. PICK p : p = q * Second
    OBVIOUS
  <1>9. p \in Int /\ p >= d /\ p - Second < d
    <2>1. (q - 1) * Second = q * Second - Second
      BY <1>1, <1>6
    <2> QED BY <1>1, <1>6, <1>8, <2>1
  <1>10. /\ now + p \in Int /\ now + p >= a /\ (now + p) - Second \in Int
         /\ ~((now + p) - Second >= a)
    BY <1>1, <1>3, <1>9
  <1> QED BY <1>6, <1>7, <1>8, <1>10

(* The quota refuses: Retry-After ends when the oldest request leaves. *)
LEMMA TooManyStep ==
    ASSUME LimiterInv, NEW c \in Clients, TooManyRequests(c)
    PROVE  LimiterInv'
  <1>0. TableInv /\ StoredIsCounted
    BY DEF LimiterInv, TableInv
  <1>1. PICK e : e = Entry(c)
    OBVIOUS
  <1>2. PICK r : r = recent[c]
    OBVIOUS
  <1>3. /\ c \in ToSet(Kept) /\ e.count = MaxRequests /\ Store(c, e) /\ clients' = Kept
        /\ stored' = StoredAfterExpiry - (state[c].count - e.count)
        /\ verdict' = Reject("429", c, Stamp(e, 0) + Window)
        /\ now' = now /\ recent' = recent
    BY <1>1, Zenon DEF TooManyRequests, Full
  <1>4. /\ e \in Rings /\ Mirrors(e, r, now) /\ r \in Seq(0 .. MaxTime) /\ RecentOK(r, now)
        /\ e.expires_at = state[c].expires_at /\ c \in ToSet(clients)
        /\ \A i \in 0 .. e.count - 1 : Stamp(e, i) > now - Window
    BY <1>0, <1>1, <1>2, <1>3, EntryFacts, Types DEF TableInv, RecentInv
  <1>5. /\ now \in Nat /\ MaxRequests \in Nat \ {0} /\ MaxTime \in Nat
        /\ Window \in Nat \ {0} /\ MaxClients \in Nat \ {0}
    BY <1>0, Types, PolicyAssumption DEF TableInv
  <1>6. Kept \in Seq(Clients) /\ IsInjective(Kept) /\ Len(Kept) <= Len(clients)
    BY <1>0, KeptFacts DEF TableInv
  <1>7. Len(Kept) <= MaxClients
    <2>1. Len(clients) <= MaxClients /\ Len(clients) \in Nat
      BY <1>0, Types DEF StoredIsCounted, TableInv
    <2> QED BY <1>5, <1>6, <2>1
  <1>8. stored' \in Nat /\ StoredIsCounted'
    <2>1. PICK a, m, n : a = StoredAfterExpiry /\ m = e.count /\ n = state[c].count
      OBVIOUS
    <2>2. a \in Nat
      BY <1>0, <2>1, StoredSplit
    <2>3. m \in Nat /\ n \in Nat
      <3>1. state[c] \in Rings
        BY <1>0, Types DEF TableInv
      <3> QED BY <1>4, <1>5, <2>1, <3>1 DEF Rings
    <2>4. stored' = a - (n - m)
      BY <1>3, <2>1
    <2>5. stored' = a - (IF c \in ToSet(Kept) THEN n ELSE 0) + m
      BY <1>3, <2>2, <2>3, <2>4
    <2>6. stored' = StoredAfterExpiry
                      - (IF c \in ToSet(Kept) THEN state[c].count ELSE 0) + e.count
      BY <2>1, <2>5
    <2>7. ToSet(clients') = ToSet(Kept) \cup {c}
      BY <1>3
    <2> QED BY <1>0, <1>3, <1>4, <1>6, <1>7, <2>6, <2>7, StoredStep
  <1>9. LimiterTypeOK' /\ RecentInv' /\ RingInv'
    <2>1. recent' = [recent EXCEPT ![c] = r]
      <3>1. recent \in [Clients -> Seq(0 .. MaxTime)]
        BY <1>0 DEF TableInv, LimiterTypeOK
      <3> QED BY <1>2, <1>3, <3>1
    <2>2. e.count >= 1
      BY <1>3, <1>5
    <2>3. e.expires_at = r[Len(r)] + Window
      BY <1>0, <1>2, <1>4 DEF TableInv, RingInv
    <2>4. c \in ToSet(clients') /\ ToSet(clients') \ {c} = ToSet(Kept) \ {c}
      BY <1>3
    <2>5. clients' \in Seq(Clients) /\ IsInjective(clients')
      BY <1>3, <1>6
    <2> QED BY <1>0, <1>3, <1>4, <1>8, <2>1, <2>2, <2>3, <2>4, <2>5, StoreStep
  <1>10. OrderedByExpiry'
    BY <1>0, <1>3, <1>4, KeptOrder
  <1>11. PICK x : x = Stamp(e, 0) + Window
    OBVIOUS
  <1>12. x \in Int /\ x > now
    <2>1. 0 \in 0 .. e.count - 1 /\ 0 \in Slots
      BY <1>3, <1>5 DEF Slots
    <2>2. Stamp(e, 0) \in Nat /\ Stamp(e, 0) > now - Window
      BY <1>4, <1>5, <2>1, StampType
    <2> QED BY <1>5, <1>11, <2>2
  <1>13. PICK v : v = verdict'
    OBVIOUS
  <1>14. PICK l : l = v.at + v.wait * Second
    OBVIOUS
  <1>15. /\ v.status = "429" /\ v.client = c /\ v.at = now
         /\ l \in Int /\ l >= x /\ l - Second \in Int /\ ~(l - Second >= x)
    BY <1>3, <1>5, <1>11, <1>12, <1>13, <1>14, RejectFacts
  <1>16. state'[c] = e
    BY <1>3 DEF Store
  <1>17. \A u \in Int : Cardinality(InWindow(e, u)) < MaxRequests <=> u >= x
    BY <1>3, <1>4, <1>5, <1>11, RingFrees
  <1>18. FreeIn(v, state', clients', l) /\ ~FreeIn(v, state', clients', l - Second)
    BY <1>15, <1>16, <1>17, Zenon DEF FreeIn
  <1>19. TightIn(verdict', state', clients', now')
    BY <1>13, <1>14, <1>18, Zenon DEF TightIn
  <1>20. RetryAfterIsTight'
    BY <1>19, TightNext
  <1>21. VerdictInv'
    <2>1. now \in Nat /\ now <= now'
      BY <1>3, <1>5
    <2> QED BY <1>13, <1>15, <2>1 DEF VerdictInv
  <1> QED BY <1>8, <1>9, <1>10, <1>20, <1>21 DEF LimiterInv

(* The first client of the table is the first to expire. *)
LEMMA FirstToExpire ==
    ASSUME TableInv, Len(Kept) >= 1
    PROVE  /\ Head(Kept) \in ToSet(Kept) /\ Head(Kept) \in ToSet(clients)
           /\ state[Head(Kept)].expires_at \in Int
           /\ state[Head(Kept)].expires_at > now
           /\ \A x \in ToSet(Kept) :
                /\ x \in ToSet(clients) /\ state[x].expires_at \in Int
                /\ state[Head(Kept)].expires_at <= state[x].expires_at
  <1>1. /\ Kept \in Seq(Clients) /\ ToSet(Kept) = {c \in ToSet(clients) : state[c].expires_at > now}
        /\ \A i, j \in 1 .. Len(Kept) :
             i < j => state[Kept[i]].expires_at <= state[Kept[j]].expires_at
    BY KeptFacts DEF TableInv
  <1>2. PICK K, n : K = Kept /\ n = Len(K)
    OBVIOUS
  <1>3. n \in Nat /\ 1 \in 1 .. n /\ DOMAIN K = 1 .. n /\ ToSet(K) = {K[i] : i \in 1 .. n}
    BY <1>1, <1>2 DEF ToSet
  <1>4. Head(Kept) = K[1]
    BY <1>1, <1>2
  <1>5. K[1] \in ToSet(K)
    BY <1>3
  <1>6. ASSUME NEW x \in ToSet(K)
        PROVE  /\ x \in ToSet(clients) /\ state[x].expires_at \in Int
               /\ state[K[1]].expires_at <= state[x].expires_at
    <2>1. x \in ToSet(clients) /\ x \in Clients
      BY <1>1, <1>2, Types DEF TableInv
    <2>2. state[x] \in Rings
      BY <2>1, Types DEF TableInv
    <2>3. state[x].expires_at \in Int
      BY <2>2, PolicyAssumption DEF Rings
    <2>4. PICK i \in 1 .. n : x = K[i]
      BY <1>3
    <2>5. CASE i = 1
      BY <2>1, <2>3, <2>4, <2>5
    <2>6. CASE i # 1
      <3>1. 1 < i
        BY <1>3, <2>6
      <3> QED BY <1>1, <1>2, <1>3, <2>1, <2>3, <2>4, <3>1
    <2> QED BY <2>1, <2>3, <2>5, <2>6
  <1>7. state[K[1]].expires_at > now
    BY <1>1, <1>2, <1>5
  <1> QED BY <1>2, <1>4, <1>5, <1>6, <1>7

(* A full table refuses: Retry-After ends when its first entry expires. *)
LEMMA TableFullStep ==
    ASSUME LimiterInv, NEW c \in Clients, TableFull(c)
    PROVE  LimiterInv'
  <1>0. TableInv /\ StoredIsCounted
    BY DEF LimiterInv, TableInv
  <1>1. PICK r : r = recent[c]
    OBVIOUS
  <1>2. PICK h : h = Head(Kept)
    OBVIOUS
  <1>3. /\ c \notin ToSet(Kept) /\ Len(Kept) >= MaxClients /\ Store(c, New)
        /\ clients' = Kept /\ stored' = StoredAfterExpiry
        /\ verdict' = Reject("503", c, state[h].expires_at)
        /\ now' = now /\ recent' = recent
    BY <1>2, Zenon DEF TableFull
  <1>4. Mirrors(New, r, now) /\ r \in Seq(0 .. MaxTime) /\ RecentOK(r, now) /\ New \in Rings
    BY <1>0, <1>1, <1>3, EntryFacts, Types, NewRing DEF TableInv, RecentInv
  <1>5. now \in Nat /\ MaxClients \in Nat \ {0}
    BY <1>0, Types, PolicyAssumption DEF TableInv
  <1>6. Kept \in Seq(Clients) /\ IsInjective(Kept) /\ Len(Kept) <= Len(clients)
    BY <1>0, KeptFacts DEF TableInv
  <1>7. Len(Kept) <= MaxClients /\ Len(Kept) >= 1
    <2>1. Len(clients) <= MaxClients /\ Len(clients) \in Nat /\ Len(Kept) \in Nat
      BY <1>0, <1>6, Types DEF StoredIsCounted, TableInv
    <2> QED BY <1>3, <1>5, <1>6, <2>1
  <1>8. stored' \in Nat /\ StoredIsCounted'
    <2>1. clients' \in Seq(Clients) /\ IsInjective(clients') /\ Len(clients') <= MaxClients
          /\ ToSet(clients') = ToSet(Kept)
      BY <1>3, <1>6, <1>7
    <2> QED BY <1>0, <1>3, <1>4, <2>1, StoredStep
  <1>9. LimiterTypeOK' /\ RecentInv' /\ RingInv'
    <2>1. recent' = [recent EXCEPT ![c] = r]
      <3>1. recent \in [Clients -> Seq(0 .. MaxTime)]
        BY <1>0 DEF TableInv, LimiterTypeOK
      <3> QED BY <1>1, <1>3, <3>1
    <2>2. c \notin ToSet(clients') /\ ToSet(clients') \ {c} = ToSet(Kept) \ {c}
      BY <1>3
    <2>3. clients' \in Seq(Clients) /\ IsInjective(clients')
      BY <1>3, <1>6
    <2> QED BY <1>0, <1>3, <1>4, <1>8, <2>1, <2>2, <2>3, StoreStep
  <1>10. OrderedByExpiry'
    BY <1>0, <1>3, KeptOrder
  <1>11. PICK x : x = state[h].expires_at
    OBVIOUS
  <1>12. /\ x \in Int /\ x > now /\ h \in ToSet(Kept)
         /\ \A y \in ToSet(Kept) : /\ y \in ToSet(clients)
                                   /\ state[y].expires_at \in Int /\ x <= state[y].expires_at
    BY <1>0, <1>2, <1>7, <1>11, FirstToExpire
  <1>13. PICK v : v = verdict'
    OBVIOUS
  <1>14. PICK l : l = v.at + v.wait * Second
    OBVIOUS
  <1>15. /\ v.status = "503" /\ v.client = c /\ v.at = now
         /\ l \in Int /\ l >= x /\ l - Second \in Int /\ ~(l - Second >= x)
    BY <1>3, <1>5, <1>11, <1>12, <1>13, <1>14, RejectFacts
  <1>16. \A y \in ToSet(Kept) : state'[y] = state[y]
    <2>1. ToSet(Kept) \subseteq Clients
      BY <1>6 DEF ToSet
    <2> QED BY <1>3, <2>1 DEF Store
  <1>17. \A y \in ToSet(Kept), u \in Int :
           InWindow(state'[y], u) = {} <=> u >= state[y].expires_at
    BY <1>0, <1>12, <1>16, ClientLapses
  <1>18. InWindow(state'[h], l) = {}
    BY <1>11, <1>12, <1>15, <1>17
  <1>19. \A y \in ToSet(Kept) : InWindow(state'[y], l - Second) # {}
    <2> SUFFICES ASSUME NEW y \in ToSet(Kept), l - Second >= state[y].expires_at
                 PROVE  FALSE
      BY <1>15, <1>17
    <2> QED BY <1>12, <1>15
  <1>20. FreeIn(v, state', clients', l) /\ ~FreeIn(v, state', clients', l - Second)
    <2>1. "503" # "429"
      OBVIOUS
    <2> QED BY <1>3, <1>12, <1>15, <1>18, <1>19, <2>1, Zenon DEF FreeIn
  <1>21. TightIn(verdict', state', clients', now')
    BY <1>13, <1>14, <1>20, Zenon DEF TightIn
  <1>22. RetryAfterIsTight'
    BY <1>21, TightNext
  <1>23. VerdictInv'
    <2>1. now \in Nat /\ now <= now'
      BY <1>3, <1>5
    <2> QED BY <1>13, <1>15, <2>1 DEF VerdictInv
  <1> QED BY <1>8, <1>9, <1>10, <1>22, <1>23 DEF LimiterInv

(* An empty limiter satisfies the invariant. *)
LEMMA LimiterInitial == LimiterInit => LimiterInv
  <1> SUFFICES ASSUME LimiterInit PROVE LimiterInv
    OBVIOUS
  <1>1. /\ now = 0 /\ clients = <<>> /\ stored = 0 /\ state = [c \in Clients |-> New]
        /\ verdict = [status |-> "none"] /\ recent = [c \in Clients |-> <<>>]
    BY DEF LimiterInit
  <1>2. /\ MaxTime \in Nat /\ MaxRequests \in Nat /\ MaxClients \in Nat
    BY PolicyAssumption
  <1>3. /\ clients \in Seq(Clients) /\ Len(clients) = 0 /\ DOMAIN clients = {}
        /\ ToSet(clients) = {}
    BY <1>1 DEF ToSet
  <1>4. LimiterTypeOK
    <2>1. state \in [Clients -> Rings]
      BY <1>1, NewRing
    <2>2. recent \in [Clients -> Seq(0 .. MaxTime)]
      BY <1>1
    <2>3. now \in 0 .. MaxTime /\ stored \in Nat /\ IsInjective(clients)
      BY <1>1, <1>2, <1>3 DEF IsInjective
    <2> QED BY <1>3, <2>1, <2>2, <2>3 DEF LimiterTypeOK, Rings
  <1>5. \A c \in Clients : /\ recent[c] = <<>> /\ state[c] = New /\ Len(recent[c]) = 0
                           /\ recent[c] \in Seq(0 .. MaxTime)
    BY <1>1
  <1>6. \A c \in Clients : RecentOK(recent[c], now)
    BY <1>2, <1>5 DEF RecentOK
  <1>7. now \in Nat
    BY <1>1
  <1>8. \A c \in Clients : Mirrors(New, recent[c], now)
    BY <1>5, <1>6, <1>7, EmptyRing
  <1>9. RecentInv /\ RingInv
    BY <1>3, <1>5, <1>6, <1>8 DEF RecentInv, RingInv
  <1>10. OrderedByExpiry
    BY <1>3 DEF OrderedByExpiry
  <1>11. StoredIsCounted
    <2>1. Held(ToSet(clients)) = {}
      BY <1>3 DEF Held
    <2>2. Cardinality(Held(ToSet(clients))) = 0
      BY <2>1, FS_EmptySet, Zenon
    <2>3. 0 <= 0 * MaxRequests /\ 0 <= MaxClients
      BY <1>2
    <2> QED BY <1>1, <1>3, <2>2, <2>3 DEF StoredIsCounted
  <1>12. VerdictInv /\ RetryAfterIsTight
    BY <1>1 DEF VerdictInv, RetryAfterIsTight
  <1> QED BY <1>4, <1>9, <1>10, <1>11, <1>12 DEF LimiterInv

(* Every answer, and time, keeps it. *)
LEMMA LimiterStep == LimiterInv /\ [LimiterNext]_limiterVars => LimiterInv'
  <1> SUFFICES ASSUME LimiterInv, [LimiterNext]_limiterVars PROVE LimiterInv'
    OBVIOUS
  <1>1. CASE Tick
    BY <1>1, TickStep
  <1>2. ASSUME NEW c \in Clients, Admit(c) PROVE LimiterInv'
    BY <1>2, AdmitStep
  <1>3. ASSUME NEW c \in Clients, TooManyRequests(c) PROVE LimiterInv'
    BY <1>3, TooManyStep
  <1>4. ASSUME NEW c \in Clients, TableFull(c) PROVE LimiterInv'
    BY <1>4, TableFullStep
  <1>5. CASE UNCHANGED limiterVars
    <2>1. /\ now' = now /\ clients' = clients /\ state' = state /\ stored' = stored
          /\ verdict' = verdict /\ recent' = recent
      BY <1>5 DEF limiterVars
    <2>2. /\ LimiterTypeOK /\ RecentInv /\ RingInv /\ OrderedByExpiry /\ StoredIsCounted
          /\ VerdictInv /\ RetryAfterIsTight
      BY DEF LimiterInv
    <2>3. LimiterTypeOK'
      BY <2>1, <2>2 DEF LimiterTypeOK
    <2>4. RecentInv' /\ RingInv'
      BY <2>1, <2>2 DEF RecentInv, RingInv
    <2>5. OrderedByExpiry' /\ StoredIsCounted' /\ VerdictInv'
      BY <2>1, <2>2 DEF OrderedByExpiry, StoredIsCounted, Held, VerdictInv
    <2>6. RetryAfterIsTight'
      BY <2>1, <2>2 DEF RetryAfterIsTight, Free
    <2> QED BY <2>3, <2>4, <2>5, <2>6 DEF LimiterInv
  <1> QED BY <1>1, <1>2, <1>3, <1>4, <1>5 DEF LimiterNext

(* The invariant holds of every behaviour of the limiter. *)
THEOREM LimiterInvariance == LimiterSpec => []LimiterInv
  BY LimiterInitial, LimiterStep, PTL DEF LimiterSpec

(* An admission over the quota of a full record is a Window later. *)
LEMMA QuotaStep ==
    ASSUME LimiterInv, [LimiterNext]_limiterVars, NEW c \in Clients,
           recent'[c] # recent[c], Len(recent[c]) = MaxRequests
    PROVE  now - Head(recent[c]) >= Window
  <1>0. TableInv
    BY DEF LimiterInv, TableInv
  <1>1. PICK d \in Clients : Admit(d)
    BY DEF LimiterNext, limiterVars, Tick, TooManyRequests, TableFull
  <1>2. recent' = [recent EXCEPT ![d] = NextRecent(recent[d], now)]
    <2>1. recent \in [Clients -> Seq(0 .. MaxTime)]
      BY <1>0 DEF TableInv, LimiterTypeOK
    <2> QED BY <1>1, <2>1 DEF Admit, NextRecent
  <1>3. d = c
    <2>1. recent \in [Clients -> Seq(0 .. MaxTime)]
      BY <1>0 DEF TableInv, LimiterTypeOK
    <2> QED BY <1>2, <2>1
  <1>4. PICK e, r, n, m : e = Entry(c) /\ r = recent[c] /\ n = Len(r) /\ m = e.count
    OBVIOUS
  <1>5. m # MaxRequests
    BY <1>1, <1>3, <1>4 DEF Admit, Full
  <1>6. /\ e \in Rings /\ Mirrors(e, r, now) /\ r \in Seq(0 .. MaxTime) /\ now \in Nat
    BY <1>0, <1>4, EntryFacts, Types DEF TableInv
  <1>7. /\ MaxRequests \in Nat \ {0} /\ Window \in Nat /\ MaxTime \in Nat
        /\ m \in 0 .. MaxRequests /\ n = MaxRequests
    BY <1>4, <1>6, PolicyAssumption DEF Rings
  <1>8. 1 \in 1 .. n - m /\ 1 \in 1 .. n
    BY <1>5, <1>7
  <1>9. r[1] <= now - Window
    BY <1>4, <1>6, <1>8 DEF Mirrors
  <1>10. Head(r) = r[1] /\ r[1] \in Nat
    BY <1>4, <1>6, <1>7, <1>8
  <1>11. now - r[1] >= Window
    BY <1>6, <1>7, <1>9, <1>10
  <1> QED BY <1>4, <1>10, <1>11

(* For every window, quota, table size and number of clients: the table is *)
(* sorted by expiry, _stored_requests is exact and bounded, Retry-After is *)
(* enough and tight, and no client exceeds its quota in any window.        *)
THEOREM LimiterSoundness == LimiterSpec => LimiterIsSound
  <1>1. LimiterInv =>
          LimiterTypeOK /\ OrderedByExpiry /\ StoredIsCounted /\ RetryAfterIsTight
    BY DEF LimiterInv
  <1>2. LimiterInv /\ [LimiterNext]_limiterVars =>
          [\A c \in Clients :
              recent'[c] # recent[c] /\ Len(recent[c]) = MaxRequests
                  => now - Head(recent[c]) >= Window]_limiterVars
    BY QuotaStep
  <1> QED BY <1>1, <1>2, LimiterInvariance, PTL DEF LimiterSpec, LimiterIsSound, QuotaHolds

-----------------------------------------------------------------------------
(* The refinement. *)

(* SlidingWindow extends the same library modules as RateLimiter. *)
LEMMA SameLibrary ==
    /\ \A S : Abstract!Cardinality(S) = Cardinality(S)
    /\ \A S : Abstract!Max(S) = Max(S)
    /\ \A S : Abstract!Min(S) = Min(S)
    /\ \A S : Abstract!Last(S) = Last(S)
  <1>1. \A S : Abstract!Cardinality(S) = Cardinality(S)
    BY DEF Abstract!Cardinality, Cardinality
  <1>2. \A S : Abstract!Max(S) = Max(S)
    BY DEF Abstract!Max, Max
  <1>3. \A S : Abstract!Min(S) = Min(S)
    BY DEF Abstract!Min, Min
  <1>4. \A S : Abstract!Last(S) = Last(S)
    BY DEF Abstract!Last, Last
  <1> QED BY <1>1, <1>2, <1>3, <1>4

(* What the abstract limiter counts is what the rings and the table hold. *)
LEMMA AbstractCounts ==
    ASSUME TableInv, NEW c \in Clients
    PROVE  /\ Cardinality(Abstract!Counted(c)) = Entry(c).count
           /\ Abstract!Counted(c) # {} <=> c \in ToSet(Kept)
  <1>1. /\ Entry(c) \in Rings /\ Mirrors(Entry(c), recent[c], now)
        /\ \A i \in 0 .. Entry(c).count - 1 : Stamp(Entry(c), i) > now - Window
        /\ c \in ToSet(Kept) <=> Entry(c).count >= 1
    BY EntryFacts DEF TableInv
  <1>2. now \in Nat /\ recent[c] \in Seq(0 .. MaxTime)
    BY Types DEF TableInv
  <1>3. Abstract!Counted(c) = {i \in DOMAIN recent[c] : recent[c][i] > now - Window}
    BY DEF Abstract!Counted
  <1> QED BY <1>1, <1>2, <1>3, CountedFacts

(* The sliding window's active clients are the entries that are kept. *)
LEMMA AbstractActive ==
    ASSUME TableInv
    PROVE  Abstract!Active = ToSet(Kept) /\ Cardinality(Abstract!Active) = Len(Kept)
  <1>1. Kept \in Seq(Clients) /\ IsInjective(Kept)
    BY KeptFacts DEF TableInv
  <1>2. ToSet(Kept) \subseteq Clients
    BY <1>1 DEF ToSet
  <1>3. Abstract!Active = ToSet(Kept)
    BY <1>2, AbstractCounts DEF Abstract!Active
  <1> QED BY <1>1, <1>3, TableSize

(* Every step of the limiter is a step of the sliding window. *)
LEMMA LimiterRefines ==
    LimiterInv /\ [LimiterNext]_limiterVars => [Abstract!Next]_(Abstract!vars)
  <1> SUFFICES ASSUME LimiterInv, [LimiterNext]_limiterVars
               PROVE  [Abstract!Next]_(Abstract!vars)
    OBVIOUS
  <1>0. TableInv /\ StoredIsCounted
    BY DEF LimiterInv, TableInv
  <1>1. CASE Tick
    <2>1. Abstract!Tick
      BY <1>1 DEF Tick, Abstract!Tick
    <2> QED BY <2>1 DEF Abstract!Next
  <1>2. ASSUME NEW c \in Clients, Admit(c) PROVE Abstract!Next
    <2>1. /\ c \in ToSet(Kept) \/ Len(Kept) < MaxClients
          /\ Entry(c).count # MaxRequests
          /\ verdict' = [status |-> "allowed", client |-> c, at |-> now]
          /\ recent' = [recent EXCEPT ![c] =
                          Append(IF Len(@) = MaxRequests THEN Tail(@) ELSE @, now)]
          /\ now' = now
      BY <1>2, Zenon DEF Admit, Full
    <2>2. Entry(c).count < MaxRequests
      <3>1. Entry(c) \in Rings
        BY <1>0, EntryFacts DEF TableInv
      <3> QED BY <2>1, <3>1, PolicyAssumption DEF Rings
    <2>3. Cardinality(Abstract!Counted(c)) < MaxRequests
      BY <1>0, <2>2, AbstractCounts
    <2>4. c \in Abstract!Active \/ Cardinality(Abstract!Active) < MaxClients
      BY <1>0, <2>1, AbstractActive
    <2>5. Abstract!Admit(c)
      BY <2>1, <2>3, <2>4, SameLibrary DEF Abstract!Admit, Abstract!Allowed
    <2> QED BY <2>5 DEF Abstract!Next
  <1>3. ASSUME NEW c \in Clients, TooManyRequests(c) PROVE Abstract!Next
    <2>1. PICK e, r, n : e = Entry(c) /\ r = recent[c] /\ n = Len(r)
      OBVIOUS
    <2>2. /\ e.count = MaxRequests /\ verdict' = Reject("429", c, Stamp(e, 0) + Window)
          /\ now' = now /\ recent' = recent
      BY <1>3, <2>1, Zenon DEF TooManyRequests, Full
    <2>3. Mirrors(e, r, now) /\ RecentOK(r, now) /\ r \in Seq(0 .. MaxTime)
      BY <1>0, <2>1, EntryFacts, Types DEF TableInv, RecentInv
    <2>4. n \in Nat /\ n <= MaxRequests /\ MaxRequests <= n /\ MaxRequests \in Nat \ {0}
      BY <2>1, <2>2, <2>3, PolicyAssumption DEF Mirrors, RecentOK
    <2>5. 0 \in 0 .. MaxRequests - 1 /\ n - MaxRequests + 1 + 0 = 1 /\ n >= 1
      BY <2>4
    <2>6. Stamp(e, 0) = r[n - MaxRequests + 1 + 0]
      BY <2>1, <2>2, <2>3, <2>5 DEF Mirrors
    <2>7. Head(r) = Stamp(e, 0)
      BY <2>1, <2>3, <2>5, <2>6
    <2>8. Cardinality(Abstract!Counted(c)) = MaxRequests
      BY <1>0, <2>1, <2>2, AbstractCounts
    <2>9. verdict' = Abstract!Refused("429", c, Head(recent[c]) + Window)
      BY <2>1, <2>2, <2>7, SameLibrary DEF Reject, Abstract!Refused
    <2>10. Abstract!TooManyRequests(c)
      BY <2>2, <2>8, <2>9, SameLibrary DEF Abstract!TooManyRequests
    <2> QED BY <2>10 DEF Abstract!Next
  <1>4. ASSUME NEW c \in Clients, TableFull(c) PROVE Abstract!Next
    <2>1. /\ c \notin ToSet(Kept) /\ Len(Kept) >= MaxClients
          /\ verdict' = Reject("503", c, state[Head(Kept)].expires_at)
          /\ now' = now /\ recent' = recent
      BY <1>4, Zenon DEF TableFull
    <2>2. Len(Kept) = MaxClients /\ Len(Kept) >= 1
      <3>1. Kept \in Seq(Clients) /\ Len(Kept) <= Len(clients) /\ clients \in Seq(Clients)
        BY <1>0, KeptFacts, Types DEF TableInv
      <3>2. Len(clients) <= MaxClients
        BY <1>0 DEF StoredIsCounted
      <3> QED BY <2>1, <3>1, <3>2, PolicyAssumption
    <2>3. c \notin Abstract!Active /\ Cardinality(Abstract!Active) = MaxClients
      BY <1>0, <2>1, <2>2, AbstractActive
    <2>4. PICK h, x : h = Head(Kept) /\ x = state[h].expires_at
      OBVIOUS
    <2>5. /\ h \in ToSet(Kept) /\ x \in Int
          /\ \A y \in ToSet(Kept) : /\ y \in ToSet(clients)
                                    /\ state[y].expires_at \in Int /\ x <= state[y].expires_at
      BY <1>0, <2>2, <2>4, FirstToExpire
    <2>6. \A y \in ToSet(Kept) : Abstract!ExpiresAt(y) = state[y].expires_at
      BY <1>0, <2>5, LastAdmission, SameLibrary DEF Abstract!ExpiresAt, Last
    <2>7. PICK E : E = {Abstract!ExpiresAt(a) : a \in Abstract!Active}
      OBVIOUS
    <2>8. E = {state[a].expires_at : a \in ToSet(Kept)}
      BY <1>0, <2>6, <2>7, AbstractActive
    <2>9. x \in E /\ \A y \in E : y \in Int /\ x <= y
      BY <2>4, <2>5, <2>8
    <2>10. Min(E) = x
      <3>1. \A z \in E : (\A y \in E : z <= y) => z = x
        BY <2>9
      <3> QED BY <2>9, <3>1 DEF Min
    <2>11. verdict' = Abstract!Refused("503", c, Min({Abstract!ExpiresAt(a) : a \in Abstract!Active}))
      BY <2>1, <2>4, <2>7, <2>10, SameLibrary DEF Reject, Abstract!Refused
    <2>12. Abstract!TableFull(c)
      BY <2>1, <2>3, <2>11, SameLibrary DEF Abstract!TableFull
    <2> QED BY <2>12 DEF Abstract!Next
  <1>5. CASE UNCHANGED limiterVars
    BY <1>5 DEF limiterVars, Abstract!vars
  <1> QED BY <1>1, <1>2, <1>3, <1>4, <1>5 DEF LimiterNext

(* RateLimiter.admit, which has forgotten most of the past, answers like   *)
(* the sliding window that remembers the last MaxRequests admissions of    *)
(* every client, for every policy and every number of clients.             *)
THEOREM SlidingWindowRefinement == LimiterSpec => ImplementsSlidingWindow
  <1>1. LimiterInit => Abstract!Init
    BY DEF LimiterInit, Abstract!Init, Abstract!NoVerdict
  <1> QED BY <1>1, LimiterRefines, LimiterInvariance, PTL
          DEF LimiterSpec, ImplementsSlidingWindow, Abstract!Spec

=============================================================================
