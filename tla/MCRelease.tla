----------------------------- MODULE MCRelease -----------------------------
(* Two runs of the release workflow: of two versions, or of one version    *)
(* built twice; staged, or a build of before staging whose archive is       *)
(* damaged.                                                                *)
EXTENDS Release, TLC

MCOrigin == {[kind |-> "staged", merged |-> TRUE, whole |-> TRUE],
             [kind |-> "legacy", merged |-> TRUE, whole |-> FALSE]}
=============================================================================
