-------------------------- MODULE MCDaemonLauncher --------------------------
(* A client that connects twice, one that connects once, and two daemons one *)
(* of which may be killed.                                                   *)
EXTENDS DaemonLauncher

CONSTANTS c1, c2

MCMaxOpens == [c \in Clients |-> IF c = c1 THEN 2 ELSE 1]
=============================================================================
