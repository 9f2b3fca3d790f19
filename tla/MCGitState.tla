----------------------------- MODULE MCGitState -----------------------------
(***************************************************************************)
(* GitState with the collections directory, in no repository at first, and *)
(* a project's repository with an upstream.                                *)
(***************************************************************************)
EXTENDS GitState

MCRepositories == {"home", "project"}
MCTouched == {"project"}
MCHappens == {"terminal", "fails", "stops", "stashes"}
=============================================================================
