-------------------------- MODULE MutationRouteProofs --------------------------
(***************************************************************************)
(* Safety of the mutation route for any set of requests, keys,             *)
(* connections and attempts.                                               *)
(*                                                                         *)
(* The argument.  A request that has claimed its key holds the advisory    *)
(* lock on its own connection until its transaction is over (Local,        *)
(* Locks), so two claims of one scope never overlap; when it looked up the *)
(* record, every earlier effect of the scope was either recorded or        *)
(* expired, and stays so while it holds the lock (History).                *)
(***************************************************************************)
EXTENDS MutationRoute, TLAPS

-----------------------------------------------------------------------------
(* What a request's own variables tell about each other. *)
LocalInv(r) ==
    /\ pc[r] \in {"new", "pin"} => /\ conn[r] = NoConn /\ txn[r] = "none"
                                   /\ lockq[r] = "none" /\ r \notin claimed
                                   /\ origin[r] = NoRequest
    /\ pc[r] = "pin" => Keyed(r)
    /\ pc[r] = "prepare" => /\ txn[r] = "none" /\ lockq[r] = "none"
                            /\ r \notin claimed /\ origin[r] = NoRequest
                            /\ Keyed(r) <=> conn[r] # NoConn
    /\ pc[r] = "getlock" => /\ txn[r] = "open" /\ lockq[r] \in {"sent", "granted", "busy"}
                            /\ r \notin claimed /\ origin[r] = NoRequest
    /\ pc[r] \in {"find", "claim"} => /\ txn[r] = "open" /\ lockq[r] = "held"
                                      /\ r \notin claimed /\ origin[r] = NoRequest
    /\ pc[r] \in {"lookup", "write"} => /\ txn[r] = "open" /\ origin[r] = NoRequest
                                        /\ Keyed(r) => r \in claimed
    /\ pc[r] \in {"respond", "commit"} => txn[r] = "open" /\ origin[r] # NoRequest
    /\ pc[r] = "committing" => txn[r] \in Sent
    /\ pc[r] \in {"respond", "commit", "committing"} /\ Keyed(r) => lockq[r] = "held"
    /\ pc[r] = "release" => lockq[r] = "held" /\ txn[r] \in {"committed", "aborted"}
    /\ pc[r] = "unlock" => lockq[r] = "held" /\ txn[r] \notin {"open", "sent", "committed"}
    /\ lockq[r] # "none" => Keyed(r) /\ conn[r] # NoConn
    /\ txn[r] \in Holding => conn[r] # NoConn
    /\ r \in claimed => Keyed(r) /\ origin[r] \in {r, NoRequest}
    /\ r \in claimed /\ txn[r] \in Holding => lockq[r] = "held"
    /\ txn[r] \in Sent => origin[r] # NoRequest
    /\ origin[r] = r /\ Keyed(r) => r \in claimed
    /\ reply[r] # "none" => pc[r] = "done"
    /\ reply[r] = "rejected" => txn[r] \notin Sent
    /\ reply[r] = "ok" => txn[r] = "committed"
    /\ r \in early => txn[r] \notin Sent

(* Connections and advisory locks. *)
LockInv ==
    /\ \A r1, r2 \in Requests : conn[r1] = conn[r2] /\ conn[r1] # NoConn => r1 = r2
    /\ \A r \in Requests : lockq[r] \in {"granted", "held"} => lockOf[Scope(r)] = conn[r]
    /\ \A s \in Scopes : lockOf[s] # NoConn =>
          \E r \in Requests : /\ conn[r] = lockOf[s] /\ Keyed(r) /\ Scope(r) = s
                              /\ lockq[r] \in {"granted", "held"}

(* Row locks belong to open transactions. *)
RowLockInv ==
    /\ \A s \in Scopes : recLock[s] # NoRequest => txn[recLock[s]] \in Holding
    /\ rowLock # NoRequest => txn[rowLock] \in Holding

(* No effect of r's scope has an unexpired record. *)
ScopeIsFree(r) == \A q \in applied : Keyed(q) /\ Scope(q) = Scope(r) => q \in expired

HistoryInv ==
    /\ RecordMatchesEffect
    /\ \A r \in Requests : r \in applied <=> txn[r] = "committed" /\ origin[r] = r
    /\ \A r \in Requests : pc[r] = "claim" \/ (r \in claimed /\ txn[r] \in Holding)
                           => ScopeIsFree(r)
    /\ \A r \in Requests : origin[r] \notin {r, NoRequest} =>
          Keyed(r) /\ origin[r] \in applied /\ attempt[origin[r]] = attempt[r]

(* A writer that got past the version checks holds the item's row lock, so *)
(* the version it checked is still the committed one; every applied write  *)
(* replaced an older version.                                              *)
WriterInv(r) ==
    attempt[r].op # "create" /\ (pc[r] = "write" \/ (origin[r] = r /\ txn[r] \in Holding))
    => /\ rowLock = r /\ version = attempt[r].input /\ version # 0
       /\ origin[r] = r /\ attempt[r].op = "update" => version < MaxVersion

RevisionInv ==
    /\ VersionStaysInRange
    /\ \A r \in Requests : WriterInv(r)
    /\ \A r \in applied : attempt[r].op # "create" =>
          version = 0 \/ attempt[r].input < version
    /\ OneWriterPerRevision

Inv ==
    /\ TypeOK
    /\ \A r \in Requests : LocalInv(r)
    /\ LockInv
    /\ RowLockInv
    /\ HistoryInv
    /\ RevisionInv

-----------------------------------------------------------------------------
(* A key and an operation make a scope. *)
LEMMA ScopeTyped ==
    ASSUME TypeOK, NEW r \in Requests
    PROVE  /\ attempt[r] \in Attempts
           /\ attempt[r].key \in Keys \cup {NoKey}
           /\ attempt[r].op \in Ops
           /\ Keyed(r) => Scope(r) \in Scopes
  BY AttemptsAssumption DEF TypeOK, Keyed, Scope, Scopes

(* Key, operation and input are all of an attempt. *)
LEMMA SameAttempt ==
    ASSUME TypeOK, NEW q \in Requests, NEW r \in Requests,
           Scope(q) = Scope(r), attempt[q].input = attempt[r].input
    PROVE  attempt[q] = attempt[r]
  <1>1. /\ attempt[q] \in [key : Keys \cup {NoKey}, op : Ops, input : Nat]
        /\ attempt[r] \in [key : Keys \cup {NoKey}, op : Ops, input : Nat]
    BY AttemptsAssumption DEF TypeOK
  <1>2. attempt[q].key = attempt[r].key /\ attempt[q].op = attempt[r].op
    BY DEF Scope
  <1> QED BY <1>1, <1>2

(* The record a request finds was written by another request. *)
LEMMA FoundIsForeign ==
    ASSUME TypeOK, \A q \in Requests : LocalInv(q), HistoryInv,
           NEW r \in Requests, Find(r)
    PROVE  store[Scope(r)] # r
  BY ScopeTyped DEF Find, LocalInv, HistoryInv, RecordMatchesEffect

(* No step changes what a request asks for. *)
LEMMA AttemptIsFixed ==
    ASSUME [Next]_vars
    PROVE  /\ attempt' = attempt
           /\ \A r \in Requests : Keyed(r)' = Keyed(r) /\ Scope(r)' = Scope(r)
  <1>1. attempt' = attempt
    BY DEF Next, vars, Progress, Server, Refuse, Start, Pin, PinFails, Checkout, SendGetLock,
       ServerGetLock, LockReply, Find, Claim, Lookup, Write, RespondError, CompleteClaim,
       SendCommit, ServerCommit, CommitAck, ReleaseLock, ReleaseFails, Interrupt, Rollback,
       RollbackFails, Unlock, ProcessDies, Reap, Abandon, Expire, Purge, Quiet
  <1> QED BY <1>1 DEF Keyed, Scope

(* The type invariant. *)
LEMMA TypeStep ==
    ASSUME TypeOK, \A q \in Requests : LocalInv(q), [Next]_vars
    PROVE  TypeOK'
  <1> USE DEF TypeOK, Pcs, Goto, Sent, Holding, FreeRowLocks, FreeConns
  <1>1. ASSUME NEW r \in Requests, Refuse(r) \/ Start(r) \/ Pin(r) \/ PinFails(r) \/ Checkout(r)
        PROVE  TypeOK'
    BY <1>1 DEF Refuse, Start, Pin, PinFails, Checkout, server
  <1>2. ASSUME NEW r \in Requests, SendGetLock(r) \/ LockReply(r) \/ Claim(r) \/ Lookup(r)
        PROVE  TypeOK'
    BY <1>2 DEF SendGetLock, LockReply, Claim, Lookup, server
  <1>3. ASSUME NEW r \in Requests, ServerGetLock(r)
        PROVE  TypeOK'
    <2>1. /\ lockq' = [lockq EXCEPT ![r] = "granted"] \/ lockq' = [lockq EXCEPT ![r] = "busy"]
          /\ lockOf' = [lockOf EXCEPT ![Scope(r)] = conn[r]] \/ lockOf' = lockOf
          /\ UNCHANGED <<pc, attempt, conn, txn, claimed, origin, reply, abandoned, early,
                         recLock, rowLock, version, store, expired, applied>>
      BY <1>3 DEF ServerGetLock
    <2> QED BY <2>1
  <1>4. ASSUME NEW r \in Requests, Find(r)
        PROVE  TypeOK'
    <2>1. store[Scope(r)] \in Requests \cup {NoRequest}
      BY <1>4, ScopeTyped DEF Find, LocalInv
    <2> QED BY <1>4, <2>1 DEF Find
  <1>5. ASSUME NEW r \in Requests, Write(r) \/ RespondError(r) \/ CompleteClaim(r) \/ SendCommit(r)
        PROVE  TypeOK'
    BY <1>5 DEF Write, RespondError, CompleteClaim, SendCommit, server
  <1>6. ASSUME NEW r \in Requests, CommitAck(r) \/ ReleaseLock(r) \/ ReleaseFails(r) \/ Interrupt(r)
        PROVE  TypeOK'
    BY <1>6 DEF CommitAck, ReleaseLock, ReleaseFails, Interrupt, Raised, server
  <1>7. ASSUME NEW r \in Requests, Rollback(r) \/ RollbackFails(r) \/ Unlock(r) \/ ProcessDies(r)
        PROVE  TypeOK'
    BY <1>7 DEF Rollback, RollbackFails, Unlock, ProcessDies, Raised, server
  <1>8. ASSUME NEW r \in Requests, Reap(r) \/ Abandon(r)
        PROVE  TypeOK'
    BY <1>8 DEF Reap, Abandon, server
  <1>9. ASSUME NEW s \in Scopes, Expire(s) \/ Purge(s)
        PROVE  TypeOK'
    BY <1>9 DEF Expire, Purge, server
  <1>10. ASSUME NEW r \in Requests, ServerCommit(r)
         PROVE  TypeOK'
    <2>1. version' \in Nat
      BY <1>10, ScopeTyped DEF ServerCommit, Ops
    <2>2. store' \in [Scopes -> Requests \cup {NoRequest}]
      BY <1>10 DEF ServerCommit
    <2> QED BY <1>10, <2>1, <2>2 DEF ServerCommit
  <1>11. CASE Quiet \/ UNCHANGED vars
    BY <1>11 DEF Quiet, vars
  <1> QED BY <1>1, <1>2, <1>3, <1>4, <1>5, <1>6, <1>7, <1>8, <1>9, <1>10, <1>11
          DEF Next, Progress, Server

-----------------------------------------------------------------------------
(* A request's step keeps its own bookkeeping; the others' is untouched. *)
LEMMA LocalStep ==
    ASSUME TypeOK, \A q \in Requests : LocalInv(q), HistoryInv, [Next]_vars
    PROVE  \A q \in Requests : LocalInv(q)'
  <1> USE DEF Goto, Sent, Holding, server
  <1>0. /\ \A q \in Requests : Keyed(q)' = Keyed(q)
        /\ NoRequest \notin Requests /\ NoConn \notin Conns
    BY AttemptIsFixed, RequestsAssumption, ConnsAssumption
  <1> USE DEF LocalInv, TypeOK
  <1> SUFFICES ASSUME NEW q \in Requests
               PROVE  LocalInv(q)'
    OBVIOUS
  <1>1. ASSUME NEW r \in Requests, Refuse(r)
        PROVE  LocalInv(q)'
    BY <1>0, <1>1 DEF Refuse
  <1>2. ASSUME NEW r \in Requests, Start(r)
        PROVE  LocalInv(q)'
    BY <1>0, <1>2 DEF Start
  <1>3. ASSUME NEW r \in Requests, Pin(r)
        PROVE  LocalInv(q)'
    BY <1>0, <1>3 DEF Pin, FreeConns
  <1>4. ASSUME NEW r \in Requests, PinFails(r)
        PROVE  LocalInv(q)'
    BY <1>0, <1>4 DEF PinFails
  <1>5. ASSUME NEW r \in Requests, Checkout(r)
        PROVE  LocalInv(q)'
    BY <1>0, <1>5 DEF Checkout, FreeConns
  <1>6. ASSUME NEW r \in Requests, SendGetLock(r)
        PROVE  LocalInv(q)'
    BY <1>0, <1>6 DEF SendGetLock
  <1>7. ASSUME NEW r \in Requests, ServerGetLock(r)
        PROVE  LocalInv(q)'
    BY <1>0, <1>7 DEF ServerGetLock
  <1>8. ASSUME NEW r \in Requests, LockReply(r)
        PROVE  LocalInv(q)'
    BY <1>0, <1>8 DEF LockReply
  <1>9. ASSUME NEW r \in Requests, Find(r)
        PROVE  LocalInv(q)'
    <2>1. store[Scope(r)] # r
      BY <1>9, FoundIsForeign
    <2> QED BY <1>0, <1>9, <2>1 DEF Find
  <1>10. ASSUME NEW r \in Requests, Claim(r)
        PROVE  LocalInv(q)'
    BY <1>0, <1>10 DEF Claim
  <1>11. ASSUME NEW r \in Requests, Lookup(r)
        PROVE  LocalInv(q)'
    BY <1>0, <1>11 DEF Lookup
  <1>12. ASSUME NEW r \in Requests, Write(r)
        PROVE  LocalInv(q)'
    BY <1>0, <1>12 DEF Write
  <1>13. ASSUME NEW r \in Requests, RespondError(r)
        PROVE  LocalInv(q)'
    BY <1>0, <1>13 DEF RespondError
  <1>14. ASSUME NEW r \in Requests, CompleteClaim(r)
        PROVE  LocalInv(q)'
    BY <1>0, <1>14 DEF CompleteClaim
  <1>15. ASSUME NEW r \in Requests, SendCommit(r)
        PROVE  LocalInv(q)'
    BY <1>0, <1>15 DEF SendCommit, Active
  <1>16. ASSUME NEW r \in Requests, ServerCommit(r)
        PROVE  LocalInv(q)'
    BY <1>0, <1>16 DEF ServerCommit
  <1>17. ASSUME NEW r \in Requests, CommitAck(r)
        PROVE  LocalInv(q)'
    BY <1>0, <1>17 DEF CommitAck
  <1>18. ASSUME NEW r \in Requests, ReleaseLock(r)
        PROVE  LocalInv(q)'
    BY <1>0, <1>18 DEF ReleaseLock
  <1>19. ASSUME NEW r \in Requests, ReleaseFails(r)
        PROVE  LocalInv(q)'
    BY <1>0, <1>19 DEF ReleaseFails, Raised
  <1>20. ASSUME NEW r \in Requests, Interrupt(r)
        PROVE  LocalInv(q)'
    BY <1>0, <1>20 DEF Interrupt
  <1>21. ASSUME NEW r \in Requests, Rollback(r)
        PROVE  LocalInv(q)'
    BY <1>0, <1>21 DEF Rollback
  <1>22. ASSUME NEW r \in Requests, RollbackFails(r)
        PROVE  LocalInv(q)'
    BY <1>0, <1>22 DEF RollbackFails, Raised
  <1>23. ASSUME NEW r \in Requests, Unlock(r)
        PROVE  LocalInv(q)'
    BY <1>0, <1>23 DEF Unlock
  <1>24. ASSUME NEW r \in Requests, ProcessDies(r)
        PROVE  LocalInv(q)'
    BY <1>0, <1>24 DEF ProcessDies
  <1>25. ASSUME NEW r \in Requests, Reap(r)
        PROVE  LocalInv(q)'
    BY <1>0, <1>25 DEF Reap
  <1>26. ASSUME NEW r \in Requests, Abandon(r)
        PROVE  LocalInv(q)'
    BY <1>0, <1>26 DEF Abandon
  <1>27. ASSUME NEW s \in Scopes, Expire(s) \/ Purge(s)
        PROVE  LocalInv(q)'
    BY <1>0, <1>27 DEF Expire, Purge, LocalInv
  <1>28. CASE Quiet \/ UNCHANGED vars
    BY <1>0, <1>28 DEF Quiet, vars, LocalInv
  <1> QED BY <1>1, <1>2, <1>3, <1>4, <1>5, <1>6, <1>7, <1>8, <1>9, <1>10, <1>11, <1>12,
             <1>13, <1>14, <1>15, <1>16, <1>17, <1>18, <1>19, <1>20, <1>21, <1>22,
             <1>23, <1>24, <1>25, <1>26, <1>27, <1>28
          DEF Next, Progress, Server

(* Advisory locks stay with the connection of the request that took them. *)
LEMMA LockStep ==
    ASSUME Inv, [Next]_vars
    PROVE  LockInv'
  <1> USE DEF Goto, Sent, Holding, server
  <1>0. /\ TypeOK /\ LockInv /\ \A q \in Requests : LocalInv(q)
        /\ \A q \in Requests : Keyed(q)' = Keyed(q) /\ Scope(q)' = Scope(q)
        /\ NoRequest \notin Requests /\ NoConn \notin Conns
        /\ \A q \in Requests : Keyed(q) => Scope(q) \in Scopes
    BY AttemptIsFixed, ScopeTyped, RequestsAssumption, ConnsAssumption DEF Inv
  <1> USE DEF LockInv, LocalInv, TypeOK
  <1>1. ASSUME NEW r \in Requests, Refuse(r)
        PROVE  LockInv'
    BY <1>0, <1>1 DEF Refuse
  <1>2. ASSUME NEW r \in Requests, Start(r)
        PROVE  LockInv'
    BY <1>0, <1>2 DEF Start
  <1>3. ASSUME NEW r \in Requests, Pin(r)
        PROVE  LockInv'
    BY <1>0, <1>3 DEF Pin, FreeConns, server
  <1>4. ASSUME NEW r \in Requests, PinFails(r)
        PROVE  LockInv'
    BY <1>0, <1>4 DEF PinFails
  <1>5. ASSUME NEW r \in Requests, Checkout(r)
        PROVE  LockInv'
    BY <1>0, <1>5 DEF Checkout, FreeConns, server
  <1>6. ASSUME NEW r \in Requests, SendGetLock(r)
        PROVE  LockInv'
    BY <1>0, <1>6 DEF SendGetLock
  <1>7. ASSUME NEW r \in Requests, ServerGetLock(r)
        PROVE  LockInv'
    BY <1>0, <1>7 DEF ServerGetLock
  <1>8. ASSUME NEW r \in Requests, LockReply(r)
        PROVE  LockInv'
    BY <1>0, <1>8 DEF LockReply
  <1>9. ASSUME NEW r \in Requests, Find(r)
        PROVE  LockInv'
    BY <1>0, <1>9 DEF Find
  <1>10. ASSUME NEW r \in Requests, Claim(r)
        PROVE  LockInv'
    BY <1>0, <1>10 DEF Claim
  <1>11. ASSUME NEW r \in Requests, Lookup(r)
        PROVE  LockInv'
    BY <1>0, <1>11 DEF Lookup
  <1>12. ASSUME NEW r \in Requests, Write(r)
        PROVE  LockInv'
    BY <1>0, <1>12 DEF Write
  <1>13. ASSUME NEW r \in Requests, RespondError(r)
        PROVE  LockInv'
    BY <1>0, <1>13 DEF RespondError
  <1>14. ASSUME NEW r \in Requests, CompleteClaim(r)
        PROVE  LockInv'
    BY <1>0, <1>14 DEF CompleteClaim
  <1>15. ASSUME NEW r \in Requests, SendCommit(r)
        PROVE  LockInv'
    BY <1>0, <1>15 DEF SendCommit
  <1>16. ASSUME NEW r \in Requests, ServerCommit(r)
        PROVE  LockInv'
    BY <1>0, <1>16 DEF ServerCommit
  <1>17. ASSUME NEW r \in Requests, CommitAck(r)
        PROVE  LockInv'
    BY <1>0, <1>17 DEF CommitAck
  <1>18. ASSUME NEW r \in Requests, ReleaseLock(r)
        PROVE  LockInv'
    BY <1>0, <1>18 DEF ReleaseLock
  <1>19. ASSUME NEW r \in Requests, ReleaseFails(r)
        PROVE  LockInv'
    BY <1>0, <1>19 DEF ReleaseFails
  <1>20. ASSUME NEW r \in Requests, Interrupt(r)
        PROVE  LockInv'
    BY <1>0, <1>20 DEF Interrupt
  <1>21. ASSUME NEW r \in Requests, Rollback(r)
        PROVE  LockInv'
    BY <1>0, <1>21 DEF Rollback, FreeRowLocks, server
  <1>22. ASSUME NEW r \in Requests, RollbackFails(r)
        PROVE  LockInv'
    BY <1>0, <1>22 DEF RollbackFails
  <1>23. ASSUME NEW r \in Requests, Unlock(r)
        PROVE  LockInv'
    BY <1>0, <1>23 DEF Unlock
  <1>24. ASSUME NEW r \in Requests, ProcessDies(r)
        PROVE  LockInv'
    BY <1>0, <1>24 DEF ProcessDies
  <1>25. ASSUME NEW r \in Requests, Reap(r)
        PROVE  LockInv'
    BY <1>0, <1>25 DEF Reap
  <1>26. ASSUME NEW r \in Requests, Abandon(r)
        PROVE  LockInv'
    BY <1>0, <1>26 DEF Abandon
  <1>27. ASSUME NEW s \in Scopes, Expire(s) \/ Purge(s)
        PROVE  LockInv'
    BY <1>0, <1>27 DEF Expire, Purge
  <1>28. CASE Quiet \/ UNCHANGED vars
    BY <1>0, <1>28 DEF Quiet, vars
  <1> QED BY <1>1, <1>2, <1>3, <1>4, <1>5, <1>6, <1>7, <1>8, <1>9, <1>10, <1>11, <1>12,
             <1>13, <1>14, <1>15, <1>16, <1>17, <1>18, <1>19, <1>20, <1>21, <1>22,
             <1>23, <1>24, <1>25, <1>26, <1>27, <1>28
          DEF Next, Progress, Server

(* The server frees a transaction's row locks when it ends. *)
LEMMA RowLockStep ==
    ASSUME Inv, [Next]_vars
    PROVE  RowLockInv'
  <1> USE DEF Goto, Sent, Holding, server
  <1>0. /\ TypeOK /\ RowLockInv /\ \A q \in Requests : LocalInv(q)
        /\ \A q \in Requests : Keyed(q)' = Keyed(q) /\ Scope(q)' = Scope(q)
        /\ NoRequest \notin Requests /\ NoConn \notin Conns
        /\ \A q \in Requests : Keyed(q) => Scope(q) \in Scopes
    BY AttemptIsFixed, ScopeTyped, RequestsAssumption, ConnsAssumption DEF Inv
  <1> USE DEF RowLockInv, LocalInv, TypeOK
  <1>1. ASSUME NEW r \in Requests, Refuse(r)
        PROVE  RowLockInv'
    BY <1>0, <1>1 DEF Refuse
  <1>2. ASSUME NEW r \in Requests, Start(r)
        PROVE  RowLockInv'
    BY <1>0, <1>2 DEF Start
  <1>3. ASSUME NEW r \in Requests, Pin(r)
        PROVE  RowLockInv'
    BY <1>0, <1>3 DEF Pin
  <1>4. ASSUME NEW r \in Requests, PinFails(r)
        PROVE  RowLockInv'
    BY <1>0, <1>4 DEF PinFails
  <1>5. ASSUME NEW r \in Requests, Checkout(r)
        PROVE  RowLockInv'
    BY <1>0, <1>5 DEF Checkout
  <1>6. ASSUME NEW r \in Requests, SendGetLock(r)
        PROVE  RowLockInv'
    BY <1>0, <1>6 DEF SendGetLock
  <1>7. ASSUME NEW r \in Requests, ServerGetLock(r)
        PROVE  RowLockInv'
    BY <1>0, <1>7 DEF ServerGetLock
  <1>8. ASSUME NEW r \in Requests, LockReply(r)
        PROVE  RowLockInv'
    BY <1>0, <1>8 DEF LockReply
  <1>9. ASSUME NEW r \in Requests, Find(r)
        PROVE  RowLockInv'
    BY <1>0, <1>9 DEF Find
  <1>10. ASSUME NEW r \in Requests, Claim(r)
        PROVE  RowLockInv'
    BY <1>0, <1>10 DEF Claim
  <1>11. ASSUME NEW r \in Requests, Lookup(r)
        PROVE  RowLockInv'
    BY <1>0, <1>11 DEF Lookup
  <1>12. ASSUME NEW r \in Requests, Write(r)
        PROVE  RowLockInv'
    BY <1>0, <1>12 DEF Write
  <1>13. ASSUME NEW r \in Requests, RespondError(r)
        PROVE  RowLockInv'
    BY <1>0, <1>13 DEF RespondError, FreeRowLocks, server
  <1>14. ASSUME NEW r \in Requests, CompleteClaim(r)
        PROVE  RowLockInv'
    BY <1>0, <1>14 DEF CompleteClaim
  <1>15. ASSUME NEW r \in Requests, SendCommit(r)
        PROVE  RowLockInv'
    BY <1>0, <1>15 DEF SendCommit
  <1>16. ASSUME NEW r \in Requests, ServerCommit(r)
        PROVE  RowLockInv'
    BY <1>0, <1>16 DEF ServerCommit, FreeRowLocks, server
  <1>17. ASSUME NEW r \in Requests, CommitAck(r)
        PROVE  RowLockInv'
    BY <1>0, <1>17 DEF CommitAck
  <1>18. ASSUME NEW r \in Requests, ReleaseLock(r)
        PROVE  RowLockInv'
    BY <1>0, <1>18 DEF ReleaseLock
  <1>19. ASSUME NEW r \in Requests, ReleaseFails(r)
        PROVE  RowLockInv'
    BY <1>0, <1>19 DEF ReleaseFails
  <1>20. ASSUME NEW r \in Requests, Interrupt(r)
        PROVE  RowLockInv'
    BY <1>0, <1>20 DEF Interrupt
  <1>21. ASSUME NEW r \in Requests, Rollback(r)
        PROVE  RowLockInv'
    BY <1>0, <1>21 DEF Rollback, FreeRowLocks, server
  <1>22. ASSUME NEW r \in Requests, RollbackFails(r)
        PROVE  RowLockInv'
    BY <1>0, <1>22 DEF RollbackFails
  <1>23. ASSUME NEW r \in Requests, Unlock(r)
        PROVE  RowLockInv'
    BY <1>0, <1>23 DEF Unlock
  <1>24. ASSUME NEW r \in Requests, ProcessDies(r)
        PROVE  RowLockInv'
    BY <1>0, <1>24 DEF ProcessDies
  <1>25. ASSUME NEW r \in Requests, Reap(r)
        PROVE  RowLockInv'
    BY <1>0, <1>25 DEF Reap, FreeRowLocks, server
  <1>26. ASSUME NEW r \in Requests, Abandon(r)
        PROVE  RowLockInv'
    BY <1>0, <1>26 DEF Abandon
  <1>27. ASSUME NEW s \in Scopes, Expire(s) \/ Purge(s)
        PROVE  RowLockInv'
    BY <1>0, <1>27 DEF Expire, Purge
  <1>28. CASE Quiet \/ UNCHANGED vars
    BY <1>0, <1>28 DEF Quiet, vars
  <1> QED BY <1>1, <1>2, <1>3, <1>4, <1>5, <1>6, <1>7, <1>8, <1>9, <1>10, <1>11, <1>12,
             <1>13, <1>14, <1>15, <1>16, <1>17, <1>18, <1>19, <1>20, <1>21, <1>22,
             <1>23, <1>24, <1>25, <1>26, <1>27, <1>28
          DEF Next, Progress, Server

(* Records and effects stay in step. *)
LEMMA HistoryStep ==
    ASSUME Inv, [Next]_vars
    PROVE  HistoryInv'
  <1> USE DEF Goto, Sent, Holding, server
  <1>0. /\ TypeOK /\ LockInv /\ HistoryInv /\ \A q \in Requests : LocalInv(q)
        /\ attempt' = attempt
        /\ \A q \in Requests : Keyed(q)' = Keyed(q) /\ Scope(q)' = Scope(q)
        /\ NoRequest \notin Requests /\ NoConn \notin Conns
        /\ \A q \in Requests : Keyed(q) => Scope(q) \in Scopes
    BY AttemptIsFixed, ScopeTyped, RequestsAssumption, ConnsAssumption DEF Inv
  <1> USE DEF HistoryInv, RecordMatchesEffect, ScopeIsFree, LocalInv, LockInv, TypeOK
  <1>1. ASSUME NEW r \in Requests, Refuse(r)
        PROVE  HistoryInv'
    BY <1>0, <1>1 DEF Refuse
  <1>2. ASSUME NEW r \in Requests, Start(r)
        PROVE  HistoryInv'
    BY <1>0, <1>2 DEF Start
  <1>3. ASSUME NEW r \in Requests, Pin(r)
        PROVE  HistoryInv'
    BY <1>0, <1>3 DEF Pin
  <1>4. ASSUME NEW r \in Requests, PinFails(r)
        PROVE  HistoryInv'
    BY <1>0, <1>4 DEF PinFails
  <1>5. ASSUME NEW r \in Requests, Checkout(r)
        PROVE  HistoryInv'
    BY <1>0, <1>5 DEF Checkout
  <1>6. ASSUME NEW r \in Requests, SendGetLock(r)
        PROVE  HistoryInv'
    BY <1>0, <1>6 DEF SendGetLock
  <1>7. ASSUME NEW r \in Requests, ServerGetLock(r)
        PROVE  HistoryInv'
    BY <1>0, <1>7 DEF ServerGetLock
  <1>8. ASSUME NEW r \in Requests, LockReply(r)
        PROVE  HistoryInv'
    BY <1>0, <1>8 DEF LockReply
  <1>9. ASSUME NEW r \in Requests, Find(r)
        PROVE  HistoryInv'
    <2>1. /\ store[Scope(r)] # r /\ Keyed(r) /\ Scope(r) \in Scopes
          /\ store[Scope(r)] # NoRequest =>
                store[Scope(r)] \in applied /\ Scope(store[Scope(r)]) = Scope(r)
      BY <1>0, <1>9, FoundIsForeign DEF Find
    <2>2. origin' = origin \/
            /\ origin' = [origin EXCEPT ![r] = store[Scope(r)]]
            /\ store[Scope(r)] \in applied
            /\ attempt[store[Scope(r)]] = attempt[r]
      BY <1>0, <1>9, <2>1, SameAttempt DEF Find
    <2>3. RecordMatchesEffect'
      BY <1>0, <1>9 DEF Find
    <2>4. \A q \in Requests : q \in applied' <=> txn'[q] = "committed" /\ origin'[q] = q
      BY <1>0, <1>9, <2>1, <2>2 DEF Find
    <2>5. \A q \in Requests : origin'[q] \notin {q, NoRequest} =>
             Keyed(q) /\ origin'[q] \in applied /\ attempt[origin'[q]] = attempt[q]
      BY <1>0, <2>1, <2>2
    <2>6. pc'[r] = "claim" => ScopeIsFree(r)
      <3>1. pc'[r] = "claim" => store[Scope(r)] = NoRequest \/ store[Scope(r)] \in expired
        BY <1>0, <1>9 DEF Find
      <3> QED BY <1>0, <2>1, <3>1
    <2>7. \A q \in Requests : pc'[q] = "claim" \/ (q \in claimed' /\ txn'[q] \in Holding)
                              => ScopeIsFree(q)'
      BY <1>0, <1>9, <2>6 DEF Find
    <2>8. applied' = applied
      BY <1>9 DEF Find
    <2> QED BY <1>0, <2>3, <2>4, <2>5, <2>7, <2>8
  <1>10. ASSUME NEW r \in Requests, Claim(r)
        PROVE  HistoryInv'
    BY <1>0, <1>10 DEF Claim
  <1>11. ASSUME NEW r \in Requests, Lookup(r)
        PROVE  HistoryInv'
    BY <1>0, <1>11 DEF Lookup
  <1>12. ASSUME NEW r \in Requests, Write(r)
        PROVE  HistoryInv'
    BY <1>0, <1>12 DEF Write
  <1>13. ASSUME NEW r \in Requests, RespondError(r)
        PROVE  HistoryInv'
    BY <1>0, <1>13 DEF RespondError
  <1>14. ASSUME NEW r \in Requests, CompleteClaim(r)
        PROVE  HistoryInv'
    BY <1>0, <1>14 DEF CompleteClaim
  <1>15. ASSUME NEW r \in Requests, SendCommit(r)
        PROVE  HistoryInv'
    BY <1>0, <1>15 DEF SendCommit
  <1>16. ASSUME NEW r \in Requests, ServerCommit(r)
        PROVE  HistoryInv'
    BY <1>0, <1>16 DEF ServerCommit
  <1>17. ASSUME NEW r \in Requests, CommitAck(r)
        PROVE  HistoryInv'
    BY <1>0, <1>17 DEF CommitAck
  <1>18. ASSUME NEW r \in Requests, ReleaseLock(r)
        PROVE  HistoryInv'
    BY <1>0, <1>18 DEF ReleaseLock
  <1>19. ASSUME NEW r \in Requests, ReleaseFails(r)
        PROVE  HistoryInv'
    BY <1>0, <1>19 DEF ReleaseFails
  <1>20. ASSUME NEW r \in Requests, Interrupt(r)
        PROVE  HistoryInv'
    BY <1>0, <1>20 DEF Interrupt
  <1>21. ASSUME NEW r \in Requests, Rollback(r)
        PROVE  HistoryInv'
    BY <1>0, <1>21 DEF Rollback
  <1>22. ASSUME NEW r \in Requests, RollbackFails(r)
        PROVE  HistoryInv'
    BY <1>0, <1>22 DEF RollbackFails
  <1>23. ASSUME NEW r \in Requests, Unlock(r)
        PROVE  HistoryInv'
    BY <1>0, <1>23 DEF Unlock
  <1>24. ASSUME NEW r \in Requests, ProcessDies(r)
        PROVE  HistoryInv'
    BY <1>0, <1>24 DEF ProcessDies
  <1>25. ASSUME NEW r \in Requests, Reap(r)
        PROVE  HistoryInv'
    BY <1>0, <1>25 DEF Reap
  <1>26. ASSUME NEW r \in Requests, Abandon(r)
        PROVE  HistoryInv'
    BY <1>0, <1>26 DEF Abandon
  <1>27. ASSUME NEW s \in Scopes, Expire(s) \/ Purge(s)
        PROVE  HistoryInv'
    BY <1>0, <1>27 DEF Expire, Purge
  <1>28. CASE Quiet \/ UNCHANGED vars
    BY <1>0, <1>28 DEF Quiet, vars
  <1> QED BY <1>1, <1>2, <1>3, <1>4, <1>5, <1>6, <1>7, <1>8, <1>9, <1>10, <1>11, <1>12,
             <1>13, <1>14, <1>15, <1>16, <1>17, <1>18, <1>19, <1>20, <1>21, <1>22,
             <1>23, <1>24, <1>25, <1>26, <1>27, <1>28
          DEF Next, Progress, Server

(* The item's version moves once per applied write. *)
LEMMA RevisionStep ==
    ASSUME Inv, [Next]_vars
    PROVE  RevisionInv'
  <1> USE DEF Goto, Sent, Holding, server
  <1>0. /\ TypeOK /\ RowLockInv /\ HistoryInv /\ RevisionInv
        /\ \A q \in Requests : LocalInv(q) /\ attempt[q].op \in Ops
        /\ \A q \in Requests : attempt[q].input \in Nat
        /\ attempt' = attempt
        /\ NoRequest \notin Requests /\ MaxVersion \in Nat
    BY AttemptIsFixed, ScopeTyped, AttemptsAssumption, RequestsAssumption, VersionAssumption
       DEF Inv, TypeOK
  <1> USE DEF RevisionInv, WriterInv, VersionStaysInRange, OneWriterPerRevision,
              LocalInv, TypeOK
  <1>1. ASSUME NEW r \in Requests, Refuse(r)
        PROVE  RevisionInv'
    BY <1>0, <1>1 DEF Refuse
  <1>2. ASSUME NEW r \in Requests, Start(r)
        PROVE  RevisionInv'
    BY <1>0, <1>2 DEF Start
  <1>3. ASSUME NEW r \in Requests, Pin(r)
        PROVE  RevisionInv'
    BY <1>0, <1>3 DEF Pin
  <1>4. ASSUME NEW r \in Requests, PinFails(r)
        PROVE  RevisionInv'
    BY <1>0, <1>4 DEF PinFails
  <1>5. ASSUME NEW r \in Requests, Checkout(r)
        PROVE  RevisionInv'
    BY <1>0, <1>5 DEF Checkout
  <1>6. ASSUME NEW r \in Requests, SendGetLock(r)
        PROVE  RevisionInv'
    BY <1>0, <1>6 DEF SendGetLock
  <1>7. ASSUME NEW r \in Requests, ServerGetLock(r)
        PROVE  RevisionInv'
    BY <1>0, <1>7 DEF ServerGetLock
  <1>8. ASSUME NEW r \in Requests, LockReply(r)
        PROVE  RevisionInv'
    BY <1>0, <1>8 DEF LockReply
  <1>9. ASSUME NEW r \in Requests, Find(r)
        PROVE  RevisionInv'
    <2>1. store[Scope(r)] # r
      BY <1>9, FoundIsForeign DEF Inv
    <2> QED BY <1>0, <1>9, <2>1 DEF Find
  <1>10. ASSUME NEW r \in Requests, Claim(r)
        PROVE  RevisionInv'
    BY <1>0, <1>10 DEF Claim
  <1>11. ASSUME NEW r \in Requests, Lookup(r)
        PROVE  RevisionInv'
    BY <1>0, <1>11 DEF Lookup
  <1>12. ASSUME NEW r \in Requests, Write(r)
        PROVE  RevisionInv'
    BY <1>0, <1>12 DEF Write, WriteMatches, Ops, server
  <1>13. ASSUME NEW r \in Requests, RespondError(r)
        PROVE  RevisionInv'
    BY <1>0, <1>13 DEF RespondError, FreeRowLocks, server
  <1>14. ASSUME NEW r \in Requests, CompleteClaim(r)
        PROVE  RevisionInv'
    BY <1>0, <1>14 DEF CompleteClaim
  <1>15. ASSUME NEW r \in Requests, SendCommit(r)
        PROVE  RevisionInv'
    BY <1>0, <1>15 DEF SendCommit
  <1>16. ASSUME NEW r \in Requests, ServerCommit(r)
        PROVE  RevisionInv'
    BY <1>0, <1>16 DEF ServerCommit, FreeRowLocks, HistoryInv, Ops, server
  <1>17. ASSUME NEW r \in Requests, CommitAck(r)
        PROVE  RevisionInv'
    BY <1>0, <1>17 DEF CommitAck
  <1>18. ASSUME NEW r \in Requests, ReleaseLock(r)
        PROVE  RevisionInv'
    BY <1>0, <1>18 DEF ReleaseLock
  <1>19. ASSUME NEW r \in Requests, ReleaseFails(r)
        PROVE  RevisionInv'
    BY <1>0, <1>19 DEF ReleaseFails
  <1>20. ASSUME NEW r \in Requests, Interrupt(r)
        PROVE  RevisionInv'
    BY <1>0, <1>20 DEF Interrupt
  <1>21. ASSUME NEW r \in Requests, Rollback(r)
        PROVE  RevisionInv'
    BY <1>0, <1>21 DEF Rollback, FreeRowLocks, server
  <1>22. ASSUME NEW r \in Requests, RollbackFails(r)
        PROVE  RevisionInv'
    BY <1>0, <1>22 DEF RollbackFails
  <1>23. ASSUME NEW r \in Requests, Unlock(r)
        PROVE  RevisionInv'
    BY <1>0, <1>23 DEF Unlock
  <1>24. ASSUME NEW r \in Requests, ProcessDies(r)
        PROVE  RevisionInv'
    BY <1>0, <1>24 DEF ProcessDies
  <1>25. ASSUME NEW r \in Requests, Reap(r)
        PROVE  RevisionInv'
    BY <1>0, <1>25 DEF Reap, FreeRowLocks, server
  <1>26. ASSUME NEW r \in Requests, Abandon(r)
        PROVE  RevisionInv'
    BY <1>0, <1>26 DEF Abandon
  <1>27. ASSUME NEW s \in Scopes, Expire(s) \/ Purge(s)
        PROVE  RevisionInv'
    BY <1>0, <1>27 DEF Expire, Purge
  <1>28. CASE Quiet \/ UNCHANGED vars
    BY <1>0, <1>28 DEF Quiet, vars
  <1> QED BY <1>1, <1>2, <1>3, <1>4, <1>5, <1>6, <1>7, <1>8, <1>9, <1>10, <1>11, <1>12,
             <1>13, <1>14, <1>15, <1>16, <1>17, <1>18, <1>19, <1>20, <1>21, <1>22,
             <1>23, <1>24, <1>25, <1>26, <1>27, <1>28
          DEF Next, Progress, Server

(* Nothing is locked, stored or under way at the start. *)
LEMMA Initial ==
    ASSUME Init
    PROVE  Inv
  <1>1. NoRequest \notin Requests /\ InitVersion \in Nat /\ InitVersion <= MaxVersion
    BY RequestsAssumption, VersionAssumption
  <1>2. TypeOK
    BY <1>1 DEF Init, TypeOK, Pcs
  <1>3. ASSUME NEW r \in Requests
        PROVE  LocalInv(r)
    BY <1>1 DEF Init, LocalInv, Sent, Holding
  <1>4. LockInv /\ RowLockInv
    BY DEF Init, LockInv, RowLockInv
  <1>5. HistoryInv
    BY <1>1 DEF Init, HistoryInv, RecordMatchesEffect, Holding
  <1>6. RevisionInv
    BY <1>1 DEF Init, RevisionInv, WriterInv, VersionStaysInRange, OneWriterPerRevision, Holding
  <1> QED BY <1>2, <1>3, <1>4, <1>5, <1>6 DEF Inv

(* Every step keeps the parts of the invariant together. *)
LEMMA InductiveStep == Inv /\ [Next]_vars => Inv'
  <1> SUFFICES ASSUME Inv, [Next]_vars PROVE Inv'
    OBVIOUS
  <1>1. TypeOK' /\ \A r \in Requests : LocalInv(r)'
    BY TypeStep, LocalStep DEF Inv
  <1>2. LockInv' /\ RowLockInv' /\ HistoryInv' /\ RevisionInv'
    BY LockStep, RowLockStep, HistoryStep, RevisionStep
  <1> QED BY <1>1, <1>2 DEF Inv

-----------------------------------------------------------------------------
(* Every reachable state of the mutation route satisfies the inductive     *)
(* invariant, whatever the requests ask for and however they fail.         *)
THEOREM Invariance == Spec => []Inv
  BY Initial, InductiveStep, PTL DEF Spec

(* The variables keep their types. *)
THEOREM TypeCorrect == Spec => []TypeOK
  <1>1. Inv => TypeOK
    BY DEF Inv
  <1> QED BY <1>1, Invariance, PTL

(* Stored responses and committed effects agree in every reachable state. *)
THEOREM RecordsAgree == Spec => []RecordMatchesEffect
  <1>1. Inv => RecordMatchesEffect
    BY DEF Inv, HistoryInv
  <1> QED BY <1>1, Invariance, PTL

(* A key takes effect at most once within its retention. *)
THEOREM AtMostOnce == Spec => []AtMostOncePerKey
  <1>1. ASSUME Inv PROVE AtMostOncePerKey
    BY <1>1 DEF Inv, HistoryInv, RecordMatchesEffect, AtMostOncePerKey, TypeOK
  <1> QED BY <1>1, Invariance, PTL

(* What the invariant knows of replies. *)
LEMMA RepliesAreHonest == Inv => OutcomeIsHonest
  BY DEF Inv, HistoryInv, LocalInv, OutcomeIsHonest, Sent, TypeOK

(* A success is a committed effect, a known failure is none. *)
THEOREM HonestOutcomes == Spec => []OutcomeIsHonest
  BY RepliesAreHonest, Invariance, PTL

(* A request given up before COMMIT was sent has no effect. *)
THEOREM AbandonedHasNoEffect == Spec => []AbandonedNeverCommits
  <1>1. ASSUME Inv PROVE AbandonedNeverCommits
    BY <1>1 DEF Inv, HistoryInv, LocalInv, AbandonedNeverCommits, Sent, TypeOK
  <1> QED BY <1>1, Invariance, PTL

(* No advisory or row lock outlives its owner's session. *)
THEOREM LocksHaveOwners == Spec => []NoLockLeak
  <1>1. ASSUME Inv PROVE NoLockLeak
    <2>1. TypeOK /\ LockInv /\ RowLockInv /\ \A r \in Requests : LocalInv(r)
      BY <1>1 DEF Inv
    <2>2. \A r \in Requests : txn[r] \in Holding => conn[r] # NoConn
      BY <2>1 DEF LocalInv
    <2>3. \A s \in Scopes : lockOf[s] # NoConn =>
             \E r \in Requests : conn[r] = lockOf[s] /\ Keyed(r) /\ Scope(r) = s
      BY <2>1 DEF LockInv
    <2>4. /\ \A s \in Scopes : recLock[s] # NoRequest =>
               txn[recLock[s]] \in Holding /\ recLock[s] \in Requests
          /\ rowLock # NoRequest => txn[rowLock] \in Holding /\ rowLock \in Requests
      BY <2>1 DEF RowLockInv, TypeOK
    <2> QED BY <2>2, <2>3, <2>4 DEF NoLockLeak
  <1> QED BY <1>1, Invariance, PTL

(* No update is lost and the version stays in its column. *)
THEOREM RevisionsAreUnique == Spec => []VersionsAreSound
  <1>1. Inv => VersionsAreSound
    BY DEF Inv, RevisionInv, VersionsAreSound
  <1> QED BY <1>1, Invariance, PTL

-----------------------------------------------------------------------------
(* The refinement of IdempotentItem.                                       *)

(* The two modules read an attempt alike. *)
LEMMA SameReading ==
    /\ \A r : Atomic!Keyed(r) = Keyed(r) /\ Atomic!Scope(r) = Scope(r)
    /\ Atomic!Scopes = Scopes
  BY DEF Atomic!Keyed, Keyed, Atomic!Scope, Scope, Atomic!Scopes, Scopes, Ops

(* Whatever handle() answers, the effects of that moment bear it out. *)
LEMMA AnswerRefines ==
    ASSUME Inv, Inv', NEW r \in Requests, NEW a \in {"ok", "rejected", "unknown"},
           reply[r] = "none", reply' = [reply EXCEPT ![r] = a],
           UNCHANGED <<attempt, early, version, store, expired, applied>>
    PROVE  Atomic!Answer(r)
  <1>1. OutcomeIsHonest'
    BY RepliesAreHonest, PTL
  <1>2. reply'[r] = a
    BY DEF Inv, TypeOK
  <1>3. a = "ok" => /\ origin'[r] \in applied /\ attempt[origin'[r]] = attempt[r]
                    /\ origin'[r] = r \/ Keyed(r)
    BY <1>1, <1>2 DEF OutcomeIsHonest, Keyed
  <1>4. a = "rejected" => r \notin applied
    BY <1>1, <1>2 DEF OutcomeIsHonest
  <1>5. Atomic!Truthful(r, a)
    BY <1>3, <1>4, SameReading DEF Atomic!Truthful
  <1> QED BY <1>5 DEF Atomic!Answer

(* COMMIT: the revision and the scope are still as the request found them, *)
(* and nobody was told that it failed.  The COMMIT of a replay has no      *)
(* effect.                                                                 *)
LEMMA CommitRefines ==
    ASSUME Inv, NEW r \in Requests, ServerCommit(r)
    PROVE  Atomic!Execute(r) \/ UNCHANGED Atomic!vars
  <1>1. /\ TypeOK /\ LocalInv(r) /\ HistoryInv /\ WriterInv(r)
        /\ txn[r] = "sent" /\ NoRequest \notin Requests
    BY RequestsAssumption DEF Inv, RevisionInv, ServerCommit
  <1>2. UNCHANGED <<attempt, reply, early, expired>>
    BY DEF ServerCommit
  <1>3. r \in claimed => origin[r] = r
    BY <1>1 DEF LocalInv, Sent
  <1>4. CASE origin[r] # r
    <2>1. UNCHANGED <<applied, version, store>>
      BY <1>3, <1>4 DEF ServerCommit
    <2> QED BY <1>2, <2>1 DEF Atomic!vars
  <1>5. CASE origin[r] = r
    <2>1. r \in claimed <=> Keyed(r)
      BY <1>1, <1>5 DEF LocalInv
    <2>2. r \notin applied /\ r \notin early /\ reply[r] \in {"none", "unknown"}
      BY <1>1 DEF HistoryInv, LocalInv, Sent, TypeOK
    <2>3. Keyed(r) => store[Scope(r)] \in {NoRequest} \cup expired
      <3> SUFFICES ASSUME Keyed(r), store[Scope(r)] # NoRequest
                   PROVE  store[Scope(r)] \in expired
        OBVIOUS
      <3>1. ScopeIsFree(r)
        BY <1>1, <2>1 DEF HistoryInv, Holding
      <3>2. Scope(r) \in Scopes
        BY <1>1, ScopeTyped
      <3>3. /\ store[Scope(r)] \in applied /\ Keyed(store[Scope(r)])
            /\ Scope(store[Scope(r)]) = Scope(r)
        BY <1>1, <3>2 DEF HistoryInv, RecordMatchesEffect
      <3> QED BY <3>1, <3>3 DEF ScopeIsFree
    <2>4. Atomic!Applies(r)
      <3>1. attempt[r].op \in Ops
        BY <1>1, ScopeTyped
      <3> QED BY <1>1, <1>5, <3>1 DEF WriterInv, Holding, Ops, Atomic!Applies
    <2>5. /\ applied' = applied \cup {r}
          /\ version' = CASE attempt[r].op = "create" -> version
                          [] attempt[r].op = "update" -> version + 1
                          [] attempt[r].op = "delete" -> 0
          /\ store' = IF Keyed(r) THEN [store EXCEPT ![Scope(r)] = r] ELSE store
      BY <1>5, <2>1 DEF ServerCommit
    <2> QED BY <1>2, <2>2, <2>3, <2>4, <2>5, SameReading DEF Atomic!Execute
  <1> QED BY <1>4, <1>5

(* Every step of the route is a step of the atomic item, or none at all. *)
LEMMA RouteRefines == Inv /\ Inv' /\ [Next]_vars => [Atomic!Next]_(Atomic!vars)
  <1> SUFFICES ASSUME Inv, Inv', [Next]_vars
               PROVE  Atomic!Next \/ UNCHANGED Atomic!vars
    OBVIOUS
  <1>1. ASSUME NEW r \in Requests,
               \/ Start(r) \/ Pin(r) \/ Checkout(r) \/ SendGetLock(r) \/ ServerGetLock(r)
               \/ LockReply(r) \/ Find(r) \/ Claim(r) \/ Lookup(r) \/ Write(r)
               \/ CompleteClaim(r) \/ SendCommit(r) \/ Interrupt(r) \/ Reap(r)
        PROVE  UNCHANGED Atomic!vars
    BY <1>1 DEF Start, Pin, Checkout, SendGetLock, ServerGetLock, LockReply, Find, Claim,
       Lookup, Write, CompleteClaim, SendCommit, Interrupt, Reap, server, Atomic!vars
  <1>2. ASSUME NEW r \in Requests,
               \/ Refuse(r) \/ PinFails(r) \/ RespondError(r) \/ CommitAck(r)
               \/ ReleaseLock(r) \/ ReleaseFails(r) \/ Rollback(r) \/ RollbackFails(r)
               \/ Unlock(r) \/ ProcessDies(r)
        PROVE  Atomic!Next \/ UNCHANGED Atomic!vars
    <2>1. pc[r] # "done"
      BY <1>2 DEF Refuse, PinFails, RespondError, CommitAck, ReleaseLock, ReleaseFails,
         Rollback, RollbackFails, Unlock, ProcessDies
    <2>2. reply[r] = "none"
      BY <2>1 DEF Inv, LocalInv
    <2>3. UNCHANGED <<attempt, early, version, store, expired, applied>>
      BY <1>2 DEF Refuse, PinFails, RespondError, CommitAck, ReleaseLock, ReleaseFails,
         Rollback, RollbackFails, Unlock, ProcessDies, server
    <2>4. \/ UNCHANGED reply
          \/ \E a \in {"ok", "rejected", "unknown"} : reply' = [reply EXCEPT ![r] = a]
      BY <1>2 DEF Refuse, PinFails, RespondError, CommitAck, ReleaseLock, ReleaseFails,
         Rollback, RollbackFails, Unlock, ProcessDies, Raised
    <2>5. CASE UNCHANGED reply
      BY <2>3, <2>5 DEF Atomic!vars
    <2>6. CASE \E a \in {"ok", "rejected", "unknown"} : reply' = [reply EXCEPT ![r] = a]
      BY <2>2, <2>3, <2>6, AnswerRefines DEF Atomic!Next
    <2> QED BY <2>4, <2>5, <2>6
  <1>3. ASSUME NEW r \in Requests, ServerCommit(r)
        PROVE  Atomic!Next \/ UNCHANGED Atomic!vars
    BY <1>3, CommitRefines DEF Atomic!Next
  <1>4. ASSUME NEW r \in Requests, Abandon(r)
        PROVE  Atomic!Next \/ UNCHANGED Atomic!vars
    <2>1. UNCHANGED <<attempt, reply, version, store, expired, applied>>
      BY <1>4 DEF Abandon, server
    <2>2. CASE txn[r] \in Sent
      BY <1>4, <2>1, <2>2 DEF Abandon, Atomic!vars
    <2>3. CASE txn[r] \notin Sent
      <3>1. reply[r] = "none" /\ r \notin applied
        BY <1>4, <2>3 DEF Abandon, Inv, LocalInv, HistoryInv, Sent
      <3>2. r \notin early /\ early' = early \cup {r}
        BY <1>4, <2>3 DEF Abandon, Inv, TypeOK
      <3>3. Atomic!GiveUp(r)
        BY <2>1, <3>1, <3>2 DEF Atomic!GiveUp
      <3> QED BY <3>3 DEF Atomic!Next
    <2> QED BY <2>2, <2>3
  <1>5. ASSUME NEW s \in Scopes, Expire(s)
        PROVE  Atomic!Next
    <2>1. Atomic!Expire(s)
      BY <1>5 DEF Expire, server, Atomic!Expire
    <2> QED BY <2>1, SameReading DEF Atomic!Next
  <1>6. ASSUME NEW s \in Scopes, Purge(s)
        PROVE  Atomic!Next
    <2>1. Atomic!Forget(s)
      BY <1>6 DEF Purge, Atomic!Forget
    <2> QED BY <2>1, SameReading DEF Atomic!Next
  <1>7. CASE Quiet \/ UNCHANGED vars
    BY <1>7 DEF Quiet, vars, Atomic!vars
  <1> QED BY <1>1, <1>2, <1>3, <1>4, <1>5, <1>6, <1>7 DEF Next, Progress, Server

(* handle(), IdempotencyExecution and the repositories implement the       *)
(* atomic item: for any number of processes, sessions, keys and retries,   *)
(* and wherever a request is interrupted, its effect happens in one step   *)
(* or not at all, once per key, on the revision it names, and every answer *)
(* is true.                                                                *)
THEOREM RouteImplementsItem == Spec => ImplementsIdempotentItem
  <1>1. Init => Atomic!Init
    BY SameReading DEF Init, Atomic!Init
  <1> QED BY <1>1, RouteRefines, InductiveStep, Invariance, PTL
          DEF Spec, ImplementsIdempotentItem, Atomic!Spec

=============================================================================
