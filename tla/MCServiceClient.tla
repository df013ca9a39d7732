-------------------------- MODULE MCServiceClient --------------------------
(* Two callers and the owner of a client that may lose its connection. *)
EXTENDS ServiceClient
=============================================================================
