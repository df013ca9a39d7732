--------------------------- MODULE MCEventManager ---------------------------
(* EventManager with three realtime events, one of them critical, a memory  *)
(* for two of them, and an event left on the disk.                          *)
EXTENDS EventManager

CONSTANTS r1, r2, r3, old

MCEvents   == {r1, r2, r3}
MCCritical == {r1}
MCLeftover == <<old>>

=============================================================================
