----------------------------- MODULE MCShutdown -----------------------------
(* Three requests and the two services that create_app registers.          *)
EXTENDS Shutdown

CONSTANTS r1, r2, r3, database, cleanup

MCRequests == {r1, r2, r3}
MCServices == <<database, cleanup>>
MCHooked == {cleanup}

=============================================================================
