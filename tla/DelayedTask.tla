----------------------------- MODULE DelayedTask -----------------------------
(***************************************************************************)
(* What TaskWithDelayThread promises to EventManager, without its threads, *)
(* its mutex and its delays: a run that was requested begins after the     *)
(* request, runs never overlap, requests made before a run begins are all  *)
(* served by it, and terminate returns only when nothing runs or is        *)
(* requested.                                                              *)
(***************************************************************************)

VARIABLES
    requested,    \* a run was requested and has not begun
    executing,    \* the function is running
    phase         \* "open", "stopping" (in terminate) or "stopped" (after it)

vars == <<requested, executing, phase>>

Init == requested = FALSE /\ executing = FALSE /\ phase = "open"

\* requestRun; it also works after terminate was called.
Request == requested' = TRUE /\ UNCHANGED <<executing, phase>>

\* The worker takes the request and calls the function.
Begin ==
    /\ requested /\ ~executing
    /\ requested' = FALSE /\ executing' = TRUE
    /\ UNCHANGED phase

End == executing /\ executing' = FALSE /\ UNCHANGED <<requested, phase>>

\* terminate, or the destructor, is called.
Stop == phase \in {"open", "stopped"} /\ phase' = "stopping" /\ UNCHANGED <<requested, executing>>

\* It returns.
Stopped ==
    /\ phase = "stopping" /\ ~requested /\ ~executing
    /\ phase' = "stopped"
    /\ UNCHANGED <<requested, executing>>

Next ==
    \/ phase = "open" /\ Request
    \/ Begin \/ End \/ Stop \/ Stopped

Spec == Init /\ [][Next]_vars

FairSpec == Spec /\ WF_vars(Begin) /\ WF_vars(End) /\ WF_vars(Stopped)

=============================================================================
