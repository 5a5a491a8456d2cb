---------------------------- MODULE MutationRoute ----------------------------
(***************************************************************************)
(* The transactional mutation route: application_route.handle, the         *)
(* idempotency execution it pins to one connection, the idempotency and    *)
(* item repositories, and MySQL as those use it (row locks, GET_LOCK,      *)
(* COMMIT).  A request is one HTTP attempt; a retry is another request.    *)
(*                                                                         *)
(* A step runs from one await to the next.  What the server does with a    *)
(* statement it has received (GET_LOCK, COMMIT) is a step of its own, so   *)
(* the client can be cancelled, crash or lose the connection before or     *)
(* after it.  A connection the client gave up (invalidate, or its process  *)
(* died) lives on as a server session until Reap.                          *)
(***************************************************************************)
EXTENDS Integers, FiniteSets

CONSTANTS Requests,    \* HTTP attempts, all processes together
          Keys,        \* Idempotency-Key values
          NoKey,       \* the header is absent
          Conns,       \* server sessions
          NoConn,
          NoRequest,
          Attempts,    \* the [key, op, input] that clients may send
          InitVersion, \* version of the one item when the run starts
          MaxVersion   \* MAX_VERSION

Ops == {"create", "update", "delete"}

ASSUME KeysAssumption == NoKey \notin Keys
ASSUME ConnsAssumption == NoConn \notin Conns
ASSUME RequestsAssumption == NoRequest \notin Requests
ASSUME VersionAssumption == /\ InitVersion \in Nat \ {0}
                            /\ MaxVersion \in Nat
                            /\ InitVersion <= MaxVersion
ASSUME AttemptsAssumption ==
    Attempts \subseteq [key : Keys \cup {NoKey}, op : Ops, input : Nat]

(* What an advisory lock and a stored response belong to: scope_hash is a  *)
(* digest of the operation, the route and the key.                         *)
Scopes == Keys \X Ops

VARIABLES pc,        \* where handle() is
          attempt,   \* what the request asks for
          conn,      \* its connection; kept after "done" until the reap
          lockq,     \* its GET_LOCK, both as the server and as it knows it
          txn,       \* its transaction on the server
          claimed,   \* IdempotencyExecution.claimed
          origin,    \* whose effect its response describes
          reply,     \* what handle() returned or raised
          abandoned, \* RequestActivity.abandoned
          early,     \* history: abandoned before COMMIT was sent
          lockOf,    \* GET_LOCK owners, by scope
          recLock,   \* row lock on the scope's idempotency record
          rowLock,   \* row lock on the item
          version,   \* committed version of the item, 0 once deleted
          store,     \* committed idempotency record: the request that wrote it
          expired,   \* requests whose record is past expires_at
          applied    \* history: requests whose effect is committed

server == <<lockOf, recLock, rowLock, version, store, applied>>
vars == <<pc, attempt, conn, lockq, txn, claimed, origin, reply, abandoned, early,
          lockOf, recLock, rowLock, version, store, expired, applied>>

Pcs == {"new", "pin", "prepare", "getlock", "find", "claim", "lookup", "write",
        "respond", "commit", "committing", "release", "rollback", "unlock", "done"}

Sent == {"sent", "committed"}       \* COMMIT has left the client
Holding == {"open", "sent"}         \* the server session has a transaction

TypeOK ==
    /\ pc \in [Requests -> Pcs]
    /\ attempt \in [Requests -> Attempts]
    /\ conn \in [Requests -> Conns \cup {NoConn}]
    /\ lockq \in [Requests -> {"none", "sent", "granted", "busy", "held"}]
    /\ txn \in [Requests -> {"none", "open", "sent", "committed", "aborted"}]
    /\ claimed \in SUBSET Requests
    /\ origin \in [Requests -> Requests \cup {NoRequest}]
    /\ reply \in [Requests -> {"none", "ok", "rejected", "unknown"}]
    /\ abandoned \in SUBSET Requests
    /\ early \in SUBSET abandoned
    /\ lockOf \in [Scopes -> Conns \cup {NoConn}]
    /\ recLock \in [Scopes -> Requests \cup {NoRequest}]
    /\ rowLock \in Requests \cup {NoRequest}
    /\ version \in Nat
    /\ store \in [Scopes -> Requests \cup {NoRequest}]
    /\ expired \in SUBSET Requests
    /\ applied \in SUBSET Requests

Init ==
    /\ pc = [r \in Requests |-> "new"]
    /\ attempt \in [Requests -> Attempts]
    /\ conn = [r \in Requests |-> NoConn]
    /\ lockq = [r \in Requests |-> "none"]
    /\ txn = [r \in Requests |-> "none"]
    /\ claimed = {}
    /\ origin = [r \in Requests |-> NoRequest]
    /\ reply = [r \in Requests |-> "none"]
    /\ abandoned = {}
    /\ early = {}
    /\ lockOf = [s \in Scopes |-> NoConn]
    /\ recLock = [s \in Scopes |-> NoRequest]
    /\ rowLock = NoRequest
    /\ version = InitVersion
    /\ store = [s \in Scopes |-> NoRequest]
    /\ expired = {}
    /\ applied = {}

Keyed(r) == attempt[r].key # NoKey

Scope(r) == <<attempt[r].key, attempt[r].op>>

(* RequestActivity.assert_active does not raise. *)
Active(r) == r \notin abandoned

Goto(r, l) == pc' = [pc EXCEPT ![r] = l]

(* Variant: every exception is taken for a rollback. *)
RaisedAsRejection(r) == "rejected"

(* What the caller learns from an exception: once COMMIT has left, it      *)
(* cannot know whether the mutation happened.                              *)
Raised(r) == IF txn[r] \in Sent THEN "unknown" ELSE "rejected"

FreeConns == Conns \ {conn[r] : r \in Requests}

(* The server ends r's transaction: its row locks go. *)
FreeRowLocks(r) ==
    /\ rowLock' = IF rowLock = r THEN NoRequest ELSE rowLock
    /\ recLock' = [s \in Scopes |-> IF recLock[s] = r THEN NoRequest ELSE recLock[s]]

-----------------------------------------------------------------------------
(* Entry of handle(): an expired request or a malformed key never starts. *)
Refuse(r) ==
    /\ pc[r] = "new"
    /\ ~Active(r) \/ Keyed(r)
    /\ Goto(r, "done")
    /\ reply' = [reply EXCEPT ![r] = "rejected"]
    /\ UNCHANGED <<attempt, conn, lockq, txn, claimed, origin, abandoned, early,
                   expired, server>>

(* A keyed request first pins a connection; an unkeyed one begins a        *)
(* logical transaction, without a connection yet.                          *)
Start(r) ==
    /\ pc[r] = "new"
    /\ Active(r)
    /\ Goto(r, IF Keyed(r) THEN "pin" ELSE "prepare")
    /\ UNCHANGED <<attempt, conn, lockq, txn, claimed, origin, reply, abandoned,
                   early, expired, server>>

(* Variant: the wait for a connection starts a fresh RequestActivity. *)
PinForgets(r) ==
    /\ pc[r] = "pin"
    /\ \E c \in FreeConns : conn' = [conn EXCEPT ![r] = c]
    /\ Goto(r, "prepare")
    /\ abandoned' = abandoned \ {r}
    /\ UNCHANGED <<attempt, lockq, txn, claimed, origin, reply, early, expired,
                   server>>

(* pinned_execution's engine.connect(), then session.begin() and its check. *)
Pin(r) ==
    /\ pc[r] = "pin"
    /\ \E c \in FreeConns : conn' = [conn EXCEPT ![r] = c]
    /\ Goto(r, IF Active(r) THEN "prepare" ELSE "rollback")
    /\ UNCHANGED <<attempt, lockq, txn, claimed, origin, reply, abandoned, early,
                   expired, server>>

PinFails(r) ==
    /\ pc[r] = "pin"
    /\ Goto(r, "done")
    /\ reply' = [reply EXCEPT ![r] = "rejected"]
    /\ UNCHANGED <<attempt, conn, lockq, txn, claimed, origin, abandoned, early,
                   expired, server>>

(* The unkeyed request's first SQL checks out a connection; the            *)
(* after_begin listener checks the request before any business SQL.        *)
Checkout(r) ==
    /\ pc[r] = "prepare"
    /\ ~Keyed(r)
    /\ \E c \in FreeConns : conn' = [conn EXCEPT ![r] = c]
    /\ txn' = [txn EXCEPT ![r] = "open"]
    /\ Goto(r, IF ~Active(r) THEN "rollback"
               ELSE IF attempt[r].op = "create" THEN "write" ELSE "lookup")
    /\ UNCHANGED <<attempt, lockq, claimed, origin, reply, abandoned, early,
                   expired, server>>

-----------------------------------------------------------------------------
(* IdempotencyExecution.begin *)

SendGetLock(r) ==
    /\ pc[r] = "prepare"
    /\ Keyed(r)
    /\ \/ /\ Active(r)
          /\ txn' = [txn EXCEPT ![r] = "open"]
          /\ lockq' = [lockq EXCEPT ![r] = "sent"]
          /\ Goto(r, "getlock")
       \/ /\ ~Active(r)
          /\ Goto(r, "rollback")
          /\ UNCHANGED <<txn, lockq>>
    /\ UNCHANGED <<attempt, conn, claimed, origin, reply, abandoned, early,
                   expired, server>>

(* The server runs GET_LOCK(scope, 0), whether or not the client is still  *)
(* there to read the answer.  A session may take a lock it already has.    *)
ServerGetLock(r) ==
    /\ lockq[r] = "sent"
    /\ LET free == lockOf[Scope(r)] \in {NoConn, conn[r]}
       IN  /\ lockq' = [lockq EXCEPT ![r] = IF free THEN "granted" ELSE "busy"]
           /\ lockOf' = IF free THEN [lockOf EXCEPT ![Scope(r)] = conn[r]] ELSE lockOf
    /\ UNCHANGED <<pc, attempt, conn, txn, claimed, origin, reply, abandoned, early,
                   recLock, rowLock, version, store, expired, applied>>

LockReply(r) ==
    /\ pc[r] = "getlock"
    /\ \/ /\ lockq[r] = "granted"
          /\ lockq' = [lockq EXCEPT ![r] = "held"]
          /\ Goto(r, IF Active(r) THEN "find" ELSE "rollback")
       \/ /\ lockq[r] = "busy"
          /\ lockq' = [lockq EXCEPT ![r] = "none"]
          /\ Goto(r, "rollback")
    /\ UNCHANGED <<attempt, conn, txn, claimed, origin, reply, abandoned, early,
                   expired, server>>

(* Variant: a record of other input counts as no record. *)
FindIgnoresConflict(r) ==
    LET s == Scope(r)
        o == store[s]
        replay == o # NoRequest /\ o \notin expired /\ attempt[o] = attempt[r]
    IN  /\ pc[r] = "find"
        /\ recLock[s] = NoRequest
        /\ recLock' = [recLock EXCEPT ![s] = r]
        /\ Goto(r, IF replay THEN "respond" ELSE "claim")
        /\ origin' = IF replay THEN [origin EXCEPT ![r] = o] ELSE origin
        /\ UNCHANGED <<attempt, conn, lockq, txn, claimed, reply, abandoned, early,
                       lockOf, rowLock, version, store, expired, applied>>

(* idempotency_repo.find locks the record; an unexpired one is replayed to *)
(* the same input and refused to any other; an expired one is deleted.     *)
Find(r) ==
    LET s == Scope(r)
        o == store[s]
    IN  /\ pc[r] = "find"
        /\ recLock[s] = NoRequest
        /\ recLock' = [recLock EXCEPT ![s] = r]
        /\ \/ /\ o = NoRequest \/ o \in expired
              /\ Goto(r, "claim")
              /\ UNCHANGED origin
           \/ /\ o # NoRequest /\ o \notin expired
              /\ attempt[o].input = attempt[r].input
              /\ origin' = [origin EXCEPT ![r] = o]
              /\ Goto(r, "respond")
           \/ /\ o # NoRequest /\ o \notin expired
              /\ attempt[o].input # attempt[r].input
              /\ Goto(r, "rollback")
              /\ UNCHANGED origin
        /\ UNCHANGED <<attempt, conn, lockq, txn, claimed, reply, abandoned, early,
                       lockOf, rowLock, version, store, expired, applied>>

(* Variant: `claimed' is not set, so complete() stores nothing. *)
ClaimForgotten(r) ==
    /\ pc[r] = "claim"
    /\ Goto(r, IF ~Active(r) THEN "rollback"
               ELSE IF attempt[r].op = "create" THEN "write" ELSE "lookup")
    /\ UNCHANGED <<attempt, conn, lockq, txn, claimed, origin, reply, abandoned, early,
                   expired, server>>

(* delete_expired and claim: the new record is visible once committed. *)
Claim(r) ==
    /\ pc[r] = "claim"
    /\ claimed' = claimed \cup {r}
    /\ Goto(r, IF ~Active(r) THEN "rollback"
               ELSE IF attempt[r].op = "create" THEN "write" ELSE "lookup")
    /\ UNCHANGED <<attempt, conn, lockq, txn, origin, reply, abandoned, early,
                   expired, server>>

-----------------------------------------------------------------------------
(* ItemService and ItemRepository *)

(* Variant: SELECT without FOR UPDATE. *)
LookupUnlocked(r) ==
    /\ pc[r] = "lookup"
    /\ Goto(r, IF version = 0 \/ version # attempt[r].input THEN "rollback" ELSE "write")
    /\ UNCHANGED <<attempt, conn, lockq, txn, claimed, origin, reply, abandoned, early,
                   expired, server>>

(* _mutation_item: SELECT ... FOR UPDATE, then 404 or 409. *)
Lookup(r) ==
    /\ pc[r] = "lookup"
    /\ rowLock = NoRequest
    /\ rowLock' = r
    /\ Goto(r, IF version = 0 \/ version # attempt[r].input THEN "rollback" ELSE "write")
    /\ UNCHANGED <<attempt, conn, lockq, txn, claimed, origin, reply, abandoned, early,
                   lockOf, recLock, version, store, expired, applied>>

(* Variant: the UPDATE is not guarded by MAX_VERSION. *)
WriteMatchesUnbounded(r) ==
    attempt[r].op # "create" => version = attempt[r].input

(* The rowcount of the guarded UPDATE or DELETE must be 1. *)
WriteMatches(r) ==
    \/ attempt[r].op = "create"
    \/ attempt[r].op = "update" /\ version = attempt[r].input /\ version < MaxVersion
    \/ attempt[r].op = "delete" /\ version = attempt[r].input

Write(r) ==
    /\ pc[r] = "write"
    /\ \/ /\ WriteMatches(r)
          /\ origin' = [origin EXCEPT ![r] = r]
          /\ Goto(r, "respond")
       \/ /\ ~WriteMatches(r)
          /\ Goto(r, "rollback")
          /\ UNCHANGED origin
    /\ UNCHANGED <<attempt, conn, lockq, txn, claimed, reply, abandoned, early,
                   expired, server>>

-----------------------------------------------------------------------------
(* The end of handle(). *)

(* The endpoint returned a status of 400 or more: explicit rollback, and   *)
(* the connection goes back clean.                                         *)
RespondError(r) ==
    /\ pc[r] = "respond"
    /\ origin[r] = r
    /\ txn' = [txn EXCEPT ![r] = "aborted"]
    /\ FreeRowLocks(r)
    /\ IF Keyed(r)
       THEN Goto(r, "release") /\ UNCHANGED <<conn, reply>>
       ELSE /\ Goto(r, "done")
            /\ conn' = [conn EXCEPT ![r] = NoConn]
            /\ reply' = [reply EXCEPT ![r] = "rejected"]
    /\ UNCHANGED <<attempt, lockq, claimed, origin, abandoned, early, lockOf, version,
                   store, expired, applied>>

(* execution.complete: a claim is completed unless the request expired; a  *)
(* replay and an unkeyed request have none.                                *)
CompleteClaim(r) ==
    /\ pc[r] = "respond"
    /\ Goto(r, IF r \in claimed /\ ~Active(r) THEN "rollback" ELSE "commit")
    /\ UNCHANGED <<attempt, conn, lockq, txn, claimed, origin, reply, abandoned, early,
                   expired, server>>

(* Variant: no check of the activity before COMMIT. *)
SendCommitUnchecked(r) ==
    /\ pc[r] = "commit"
    /\ txn' = [txn EXCEPT ![r] = "sent"]
    /\ Goto(r, "committing")
    /\ UNCHANGED <<attempt, conn, lockq, claimed, origin, reply, abandoned, early,
                   expired, server>>

(* flush, the last assert_active, and COMMIT in the same step. *)
SendCommit(r) ==
    /\ pc[r] = "commit"
    /\ \/ /\ Active(r)
          /\ txn' = [txn EXCEPT ![r] = "sent"]
          /\ Goto(r, "committing")
       \/ /\ ~Active(r)
          /\ Goto(r, "rollback")
          /\ UNCHANGED txn
    /\ UNCHANGED <<attempt, conn, lockq, claimed, origin, reply, abandoned, early,
                   expired, server>>

(* The server commits: item, record and history change together. *)
ServerCommit(r) ==
    /\ txn[r] = "sent"
    /\ txn' = [txn EXCEPT ![r] = "committed"]
    /\ FreeRowLocks(r)
    /\ IF origin[r] = r
       THEN /\ applied' = applied \cup {r}
            /\ version' = CASE attempt[r].op = "create" -> version
                            [] attempt[r].op = "update" -> version + 1
                            [] attempt[r].op = "delete" -> 0
       ELSE UNCHANGED <<applied, version>>
    /\ store' = IF r \in claimed THEN [store EXCEPT ![Scope(r)] = r] ELSE store
    /\ UNCHANGED <<pc, attempt, conn, lockq, claimed, origin, reply, abandoned, early,
                   lockOf, expired>>

CommitAck(r) ==
    /\ pc[r] = "committing"
    /\ txn[r] = "committed"
    /\ IF Keyed(r)
       THEN Goto(r, "release") /\ UNCHANGED <<conn, reply>>
       ELSE /\ Goto(r, "done")
            /\ conn' = [conn EXCEPT ![r] = NoConn]
            /\ reply' = [reply EXCEPT ![r] = "ok"]
    /\ UNCHANGED <<attempt, lockq, txn, claimed, origin, abandoned, early, expired, server>>

(* Variant: the connection is pooled without RELEASE_LOCK. *)
ReleaseLockSkipped(r) ==
    /\ pc[r] = "release"
    /\ conn' = [conn EXCEPT ![r] = NoConn]
    /\ reply' = [reply EXCEPT ![r] = IF txn[r] = "committed" THEN "ok" ELSE "rejected"]
    /\ Goto(r, "done")
    /\ UNCHANGED <<attempt, lockq, txn, claimed, origin, abandoned, early, expired,
                   server>>

(* IdempotencyExecution.release(failed=False): RELEASE_LOCK answers 1 and  *)
(* the connection returns to the pool.                                     *)
ReleaseLock(r) ==
    /\ pc[r] = "release"
    /\ lockOf' = [lockOf EXCEPT ![Scope(r)] = NoConn]
    /\ lockq' = [lockq EXCEPT ![r] = "none"]
    /\ conn' = [conn EXCEPT ![r] = NoConn]
    /\ reply' = [reply EXCEPT ![r] = IF txn[r] = "committed" THEN "ok" ELSE "rejected"]
    /\ Goto(r, "done")
    /\ UNCHANGED <<attempt, txn, claimed, origin, abandoned, early, recLock, rowLock,
                   version, store, expired, applied>>

(* The release is not confirmed: the connection is invalidated and the     *)
(* prepared response is lost.                                              *)
ReleaseFails(r) ==
    /\ pc[r] = "release"
    /\ Goto(r, "done")
    /\ reply' = [reply EXCEPT ![r] = Raised(r)]
    /\ UNCHANGED <<attempt, conn, lockq, txn, claimed, origin, abandoned, early,
                   expired, server>>

-----------------------------------------------------------------------------
(* Failure.  An exception at an await: cancellation by the drain, a lost   *)
(* connection, a database error (a deadlock victim too), an invalid input  *)
(* or a response outside the storage contract.                             *)
Interrupt(r) ==
    /\ pc[r] \in {"prepare", "getlock", "find", "claim", "lookup", "write", "respond",
                  "commit", "committing"}
    /\ Goto(r, "rollback")
    /\ UNCHANGED <<attempt, conn, lockq, txn, claimed, origin, reply, abandoned, early,
                   expired, server>>

(* Variant: a connection of uncertain lock ownership returns to the pool. *)
RollbackToPool(r) ==
    /\ pc[r] = "rollback"
    /\ txn[r] \notin Sent
    /\ txn' = [txn EXCEPT ![r] = IF txn[r] = "open" THEN "aborted" ELSE txn[r]]
    /\ FreeRowLocks(r)
    /\ Goto(r, "done")
    /\ reply' = [reply EXCEPT ![r] = "rejected"]
    /\ conn' = [conn EXCEPT ![r] = NoConn]
    /\ UNCHANGED <<attempt, lockq, claimed, origin, abandoned, early, lockOf, version,
                   store, expired, applied>>

(* Variant: the connection returns with its transaction still open. *)
RollbackSkipped(r) ==
    /\ pc[r] = "rollback"
    /\ txn[r] \notin Sent
    /\ Goto(r, "done")
    /\ reply' = [reply EXCEPT ![r] = "rejected"]
    /\ conn' = [conn EXCEPT ![r] = NoConn]
    /\ UNCHANGED <<attempt, lockq, txn, claimed, origin, abandoned, early, expired,
                   server>>

(* Leaving session.begin() with an exception, on a connection that still   *)
(* answers.  An unkeyed connection is clean and pooled.  A keyed one goes  *)
(* through release(failed=True), which first gives back a lock it is sure  *)
(* to hold and then invalidates the connection in any case.                *)
Rollback(r) ==
    /\ pc[r] = "rollback"
    /\ txn[r] \notin Sent
    /\ txn' = [txn EXCEPT ![r] = IF txn[r] = "open" THEN "aborted" ELSE txn[r]]
    /\ FreeRowLocks(r)
    /\ IF lockq[r] = "held"
       THEN Goto(r, "unlock") /\ UNCHANGED <<conn, reply>>
       ELSE /\ Goto(r, "done")
            /\ reply' = [reply EXCEPT ![r] = "rejected"]
            /\ conn' = [conn EXCEPT ![r] = IF Keyed(r) THEN conn[r] ELSE NoConn]
    /\ UNCHANGED <<attempt, lockq, claimed, origin, abandoned, early, lockOf, version,
                   store, expired, applied>>

(* The connection is gone, or COMMIT was under way: invalidate at once. *)
RollbackFails(r) ==
    /\ pc[r] = "rollback"
    /\ Goto(r, "done")
    /\ reply' = [reply EXCEPT ![r] = Raised(r)]
    /\ UNCHANGED <<attempt, conn, lockq, txn, claimed, origin, abandoned, early,
                   expired, server>>

(* release(failed=True) on a lock it is sure to hold, confirmed or not; the *)
(* connection is invalidated either way.                                   *)
Unlock(r) ==
    /\ pc[r] = "unlock"
    /\ \/ /\ lockOf' = [lockOf EXCEPT ![Scope(r)] = NoConn]
          /\ lockq' = [lockq EXCEPT ![r] = "none"]
       \/ UNCHANGED <<lockOf, lockq>>
    /\ Goto(r, "done")
    /\ reply' = [reply EXCEPT ![r] = "rejected"]
    /\ UNCHANGED <<attempt, conn, txn, claimed, origin, abandoned, early, recLock,
                   rowLock, version, store, expired, applied>>

(* The process is killed: no reply, and the connection is left behind. *)
ProcessDies(r) ==
    /\ pc[r] \notin {"new", "done"}
    /\ Goto(r, "done")
    /\ reply' = [reply EXCEPT ![r] = "unknown"]
    /\ UNCHANGED <<attempt, conn, lockq, txn, claimed, origin, abandoned, early,
                   expired, server>>

(* The server notices that the client has gone: it rolls back what is not  *)
(* committed and frees every lock of the session.                          *)
Reap(r) ==
    /\ pc[r] = "done"
    /\ conn[r] # NoConn
    /\ txn' = [txn EXCEPT ![r] = IF txn[r] \in Holding THEN "aborted" ELSE txn[r]]
    /\ FreeRowLocks(r)
    /\ lockOf' = [s \in Scopes |-> IF lockOf[s] = conn[r] THEN NoConn ELSE lockOf[s]]
    /\ lockq' = [lockq EXCEPT ![r] = "none"]
    /\ conn' = [conn EXCEPT ![r] = NoConn]
    /\ UNCHANGED <<pc, attempt, claimed, origin, reply, abandoned, early, version,
                   store, expired, applied>>

-----------------------------------------------------------------------------
(* The transport answers 408 or sees the client leave; the handler only    *)
(* learns of it at its next assert_active.                                 *)
Abandon(r) ==
    /\ pc[r] # "done"
    /\ r \notin abandoned
    /\ abandoned' = abandoned \cup {r}
    /\ early' = IF txn[r] \in Sent THEN early ELSE early \cup {r}
    /\ UNCHANGED <<pc, attempt, conn, lockq, txn, claimed, origin, reply, expired, server>>

(* The retention of a stored response runs out. *)
Expire(s) ==
    /\ store[s] # NoRequest
    /\ store[s] \notin expired
    /\ expired' = expired \cup {store[s]}
    /\ UNCHANGED <<pc, attempt, conn, lockq, txn, claimed, origin, reply, abandoned,
                   early, server>>

(* purge_expired_batch deletes an expired record nobody has locked. *)
Purge(s) ==
    /\ store[s] # NoRequest
    /\ store[s] \in expired
    /\ recLock[s] = NoRequest
    /\ store' = [store EXCEPT ![s] = NoRequest]
    /\ UNCHANGED <<pc, attempt, conn, lockq, txn, claimed, origin, reply, abandoned,
                   early, lockOf, recLock, rowLock, version, expired, applied>>

(* Every request is over and the server has cleaned up. *)
Quiet ==
    /\ \A r \in Requests : pc[r] = "done" /\ conn[r] = NoConn
    /\ UNCHANGED vars

-----------------------------------------------------------------------------
(* The steps a live process and a live server are bound to take. *)
Progress(r) ==
    \/ Start(r) \/ Refuse(r) \/ Pin(r) \/ PinFails(r) \/ Checkout(r) \/ SendGetLock(r)
    \/ LockReply(r) \/ Find(r) \/ Claim(r) \/ Lookup(r) \/ Write(r)
    \/ RespondError(r) \/ CompleteClaim(r) \/ SendCommit(r) \/ CommitAck(r)
    \/ ReleaseLock(r) \/ ReleaseFails(r) \/ Rollback(r) \/ RollbackFails(r) \/ Unlock(r)

Server(r) == ServerGetLock(r) \/ ServerCommit(r) \/ Reap(r)

Next ==
    \/ \E r \in Requests :
         \/ Progress(r) \/ Server(r)
         \/ Interrupt(r) \/ ProcessDies(r) \/ Abandon(r)
    \/ \E s \in Scopes : Expire(s) \/ Purge(s)
    \/ Quiet

Spec == Init /\ [][Next]_vars

(* A task that can run is run by the event loop; MySQL answers statements  *)
(* and reaps dead sessions.                                                *)
Fairness == \A r \in Requests : /\ WF_vars(Progress(r))
                                /\ WF_vars(ServerGetLock(r))
                                /\ WF_vars(ServerCommit(r))
                                /\ WF_vars(Reap(r))

FairSpec == Spec /\ Fairness

-----------------------------------------------------------------------------
(* A key takes effect at most once while its record is retained: of two    *)
(* committed mutations with one scope, one had its record expire, however  *)
(* cancellation, lost acknowledgements, crashes and retries interleave.    *)
AtMostOncePerKey ==
    \A r1, r2 \in applied :
        r1 # r2 /\ Keyed(r1) /\ Keyed(r2) /\ Scope(r1) = Scope(r2)
        => r1 \in expired \/ r2 \in expired

(* The stored responses and the committed effects agree: a record belongs  *)
(* to a committed request of its scope, and a keyed effect has its record  *)
(* until the retention ends.                                               *)
RecordMatchesEffect ==
    /\ \A s \in Scopes : store[s] # NoRequest =>
           store[s] \in applied /\ Keyed(store[s]) /\ Scope(store[s]) = s
    /\ \A r \in applied : Keyed(r) /\ r \notin expired => store[Scope(r)] = r

(* A success describes a committed effect of the same operation, key and   *)
(* input, its own or a replayed one; a failure raised before COMMIT left   *)
(* has no effect, now or later.                                            *)
OutcomeIsHonest ==
    \A r \in Requests :
        /\ reply[r] = "ok" =>
              /\ origin[r] \in applied
              /\ attempt[origin[r]] = attempt[r]
              /\ origin[r] = r \/ Keyed(r)
        /\ reply[r] = "rejected" => r \notin applied

(* A request the transport gave up on (408, disconnect) before COMMIT was  *)
(* sent never takes effect.                                                *)
AbandonedNeverCommits == early \cap applied = {}

(* No lock outlives its owner: an advisory lock belongs to the connection  *)
(* of a request of that scope (never to a connection back in the pool),    *)
(* and a row lock to an open transaction.                                  *)
NoLockLeak ==
    /\ \A s \in Scopes : lockOf[s] # NoConn =>
           \E r \in Requests : conn[r] = lockOf[s] /\ Keyed(r) /\ Scope(r) = s
    /\ \A s \in Scopes : recLock[s] # NoRequest =>
           txn[recLock[s]] \in Holding /\ conn[recLock[s]] # NoConn
    /\ rowLock # NoRequest => txn[rowLock] \in Holding /\ conn[rowLock] # NoConn

(* Each revision is replaced or deleted by one request at most: nobody's   *)
(* update is lost.                                                         *)
OneWriterPerRevision ==
    \A r1, r2 \in applied :
        /\ attempt[r1].op # "create" /\ attempt[r2].op # "create"
        /\ attempt[r1].input = attempt[r2].input
        => r1 = r2

(* The version never passes MAX_VERSION, the largest value of its column.  *)
VersionStaysInRange == version <= MaxVersion

(* What optimistic concurrency promises: no update is lost, and the check   *)
(* against MAX_VERSION cannot be overtaken.                                *)
VersionsAreSound == TypeOK /\ OneWriterPerRevision /\ VersionStaysInRange

(* The route implements the atomic item: locks, sessions, lost             *)
(* acknowledgements, kills, expiry and purging notwithstanding, the COMMIT *)
(* of a request is the one step of its effect, taken when the revision and *)
(* the key that it looked up many steps earlier are still as it found      *)
(* them, and whatever it answers is true by then.                          *)
Atomic == INSTANCE IdempotentItem WITH givenUp <- early

ImplementsIdempotentItem == Atomic!Spec

(* Every request ends, although requests wait for each other's row locks.  *)
EveryRequestEnds == \A r \in Requests : <>(pc[r] = "done")

(* No key stays "already processing" for ever. *)
EveryLockIsFreed == \A s \in Scopes : (lockOf[s] # NoConn) ~> (lockOf[s] = NoConn)

(* Neither a request nor a later retry of its key waits for ever.          *)
NobodyWaitsForever == EveryRequestEnds /\ EveryLockIsFreed
=============================================================================
