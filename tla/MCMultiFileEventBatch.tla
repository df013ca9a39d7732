----------------------- MODULE MCMultiFileEventBatch -----------------------
(* MultiFileEventBatch with one- and two-byte events, one that no file takes,*)
(* and limits small enough that files rotate.                               *)
EXTENDS MultiFileEventBatch

CONSTANTS e1, e2, e3, e4, e5

MCEvents == {e1, e2, e3, e4, e5}
MCSize   == [e \in MCEvents |-> CASE e = e1 -> 1 [] e = e2 -> 2 [] e = e3 -> 1 [] e = e4 -> 2 [] e = e5 -> 5]
MCFileLimits   == {<<2, 3>>, <<1, 2>>}
MCUploadLimits == {<<1, 9>>, <<2, 2>>}

=============================================================================
