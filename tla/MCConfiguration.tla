-------------------------- MODULE MCConfiguration --------------------------
(* Configuration with two configurations, of which the first sets the       *)
(* property only in its second version, or with one that changes twice.     *)
EXTENDS Configuration

TwoConfigs == {<<1, 1>>, <<2, 0>>, <<2, 1>>}
OneConfig  == {<<1, 0>>, <<1, 2>>}

\* The history variables until and failedAt do not influence the others, and the invariants
\* checked with this view do not mention them.
WithoutHistory == <<now, version, config, data, disk, limits, pc, locals, deaths>>

=============================================================================
