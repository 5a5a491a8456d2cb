--------------------------- MODULE MCMutationRoute ---------------------------
(* Instances of MutationRoute.  The two attempt sets put the requests      *)
(* where they can collide: on one key, on one item, and on both.           *)
EXTENDS MutationRoute, TLC

CONSTANTS k1

Attempt(k, o, i) == [key |-> k, op |-> o, input |-> i]

(* Retries of one keyed update, with the same and with other input, and    *)
(* an unkeyed writer of the same item.                                     *)
SafeAttempts ==
    {Attempt(k1, "update", 1), Attempt(k1, "update", 2), Attempt(NoKey, "update", 1)}

(* A keyed creation and its retry, a keyed update to the last version,     *)
(* which waits for the row with its record locked, an unkeyed update at    *)
(* that version, and a deletion.                                           *)
LiveAttempts ==
    {Attempt(k1, "create", 1), Attempt(k1, "update", 1),
     Attempt(NoKey, "update", 2), Attempt(NoKey, "delete", 1)}

Symmetry == Permutations(Requests) \cup Permutations(Conns)
=============================================================================
