----------------------- MODULE MCTaskWithDelayThread -----------------------
(* TaskWithDelayThread with three client threads and two thread identities  *)
(* for the workers, which are reused when a worker was joined.              *)
EXTENDS TaskWithDelayThread

=============================================================================
