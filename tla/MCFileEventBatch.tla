-------------------------- MODULE MCFileEventBatch --------------------------
(* FileEventBatch with events of one to three cells.                        *)
EXTENDS FileEventBatch

CONSTANTS e1, e2, e3, e4

MCEvents == {e1, e2, e3, e4}
\* A long event behind short ones makes the rest of the file longer than what
\* is cut off, which is what an in-place copy gets wrong first.
MCSize   == [e \in MCEvents |-> CASE e = e1 -> 1 [] e = e2 -> 3 [] e = e3 -> 2 [] e = e4 -> 1]
MCFileLimits   == {<<0, 0>>, <<2, 5>>}
MCUploadLimits == {<<2, 4>>, <<3, 100>>}

=============================================================================
