-------------------------- MODULE MCEventUploader --------------------------
(* EventUploader with two events that fit in a file and in a post, two that  *)
(* fit in neither, and two configurations.                                  *)
EXTENDS EventUploader

CONSTANTS e1, e2, big1, big2

MCEvents == {e1, e2, big1, big2}
MCSize   == [e \in MCEvents |-> CASE e = e1 -> 1 [] e = e2 -> 2 [] OTHER -> 4]

\* A configuration whose maximum of events per post is 0 (no limit for the files).
ZeroLimits  == {<<2, 3>>, <<0, 2>>}

=============================================================================
