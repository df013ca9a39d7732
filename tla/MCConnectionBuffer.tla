------------------------- MODULE MCConnectionBuffer -------------------------
(* Three messages around the initial size of the buffer and around its limit. *)
EXTENDS ConnectionBuffer
=============================================================================
