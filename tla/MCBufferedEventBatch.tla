------------------------ MODULE MCBufferedEventBatch ------------------------
(* BufferedEventBatch with a buffer of two events, files of at most two, and *)
(* e5 larger than any file.                                                 *)
EXTENDS BufferedEventBatch

CONSTANTS e1, e2, e3, e4, e5

MCEvents == {e1, e2, e3, e4, e5}
MCSize   == [e \in MCEvents |-> IF e = e5 THEN 5 ELSE IF e = e2 THEN 2 ELSE 1]
MCFileLimits   == {<<2, 3>>, <<1, 4>>}
MCUploadLimits == {<<1, 9>>, <<3, 4>>, <<4, 9>>}

\* A behaviour is followed up to the step after which nothing is claimed.
Claimed == ~overlapped

=============================================================================
