-------------------------- MODULE MCSyncCoordinator --------------------------
(* SyncCoordinator for TLC: two attempts, so that a second one could start. *)
EXTENDS SyncCoordinator

CONSTANTS a1, a2
Attempts == {a1, a2}

=============================================================================
