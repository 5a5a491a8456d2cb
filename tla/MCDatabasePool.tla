--------------------------- MODULE MCDatabasePool ---------------------------
(* Five tasks on two slots and a queue of two: all slots taken, a full     *)
(* queue and a refused caller at once.                                     *)
EXTENDS DatabasePool
=============================================================================
