----------------------------- MODULE MCSources -----------------------------
(***************************************************************************)
(* Instances of Sources for TLC.                                           *)
(***************************************************************************)
EXTENDS Sources, TLC

Both == <<"github", "gitcrawl">>
BothKinds == 1 :> "pr" @@ 2 :> "issue"
=============================================================================
