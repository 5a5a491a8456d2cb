--------------------------- MODULE IdempotentItem ---------------------------
(***************************************************************************)
(* What the mutation route promises its clients, without connections,      *)
(* locks, transactions and processes: every request takes effect in one    *)
(* step or not at all, a key takes effect once while its record is         *)
(* retained, and an answer tells the truth about what happened.            *)
(***************************************************************************)
EXTENDS Integers

CONSTANTS Requests,    \* HTTP attempts
          Keys,        \* Idempotency-Key values
          NoKey,       \* the header is absent
          NoRequest,
          Attempts,    \* the [key, op, input] that clients may send
          InitVersion, \* version of the one item when the run starts
          MaxVersion   \* the last version

VARIABLES attempt,   \* what the request asks for
          reply,     \* what it was told: nothing yet, ok, rejected, unknown
          givenUp,   \* requests whose client was told 408 before their effect
          version,   \* version of the item, 0 once deleted
          store,     \* by scope, the request whose result is replayed
          expired,   \* requests whose result is past its retention
          applied    \* requests that took effect

vars == <<attempt, reply, givenUp, version, store, expired, applied>>

Scopes == Keys \X {"create", "update", "delete"}

Keyed(r) == attempt[r].key # NoKey
Scope(r) == <<attempt[r].key, attempt[r].op>>

Init ==
    /\ attempt \in [Requests -> Attempts]
    /\ reply = [r \in Requests |-> "none"]
    /\ givenUp = {} /\ expired = {} /\ applied = {}
    /\ version = InitVersion
    /\ store = [s \in Scopes |-> NoRequest]

\* The revision that the request names is the current one, and has a successor.
Applies(r) ==
    \/ attempt[r].op = "create"
    \/ version # 0 /\ version = attempt[r].input
       /\ (attempt[r].op = "update" => version < MaxVersion)

\* The one step in which a request takes effect.
Execute(r) ==
    /\ r \notin applied /\ applied' = applied \cup {r}
    /\ r \notin givenUp /\ reply[r] \in {"none", "unknown"}
    /\ Keyed(r) => store[Scope(r)] \in {NoRequest} \cup expired
    /\ Applies(r)
    /\ version' = CASE attempt[r].op = "create" -> version
                    [] attempt[r].op = "update" -> version + 1
                    [] attempt[r].op = "delete" -> 0
    /\ store' = IF Keyed(r) THEN [store EXCEPT ![Scope(r)] = r] ELSE store
    /\ UNCHANGED <<attempt, reply, givenUp, expired>>

\* Success is the request's own effect or that of an equal one under its key;
\* a rejection means no effect, now or later; "unknown" promises nothing.
Truthful(r, answer) ==
    /\ answer = "ok" => \E o \in applied : /\ attempt[o] = attempt[r]
                                           /\ o = r \/ Keyed(r)
    /\ answer = "rejected" => r \notin applied

Answer(r) ==
    /\ reply[r] = "none"
    /\ \E answer \in {"ok", "rejected", "unknown"} :
          reply' = [reply EXCEPT ![r] = answer] /\ Truthful(r, answer)
    /\ UNCHANGED <<attempt, givenUp, version, store, expired, applied>>

GiveUp(r) ==
    /\ reply[r] = "none" /\ r \notin applied \cup givenUp
    /\ givenUp' = givenUp \cup {r}
    /\ UNCHANGED <<attempt, reply, version, store, expired, applied>>

Expire(s) ==
    /\ store[s] # NoRequest /\ store[s] \notin expired
    /\ expired' = expired \cup {store[s]}
    /\ UNCHANGED <<attempt, reply, givenUp, version, store, applied>>

Forget(s) ==
    /\ store[s] \in expired
    /\ store' = [store EXCEPT ![s] = NoRequest]
    /\ UNCHANGED <<attempt, reply, givenUp, version, expired, applied>>

Next ==
    \/ \E r \in Requests :
          Execute(r) \/ Answer(r) \/ GiveUp(r)
    \/ \E s \in Scopes : Expire(s) \/ Forget(s)

Spec == Init /\ [][Next]_vars

=============================================================================
