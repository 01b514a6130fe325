---- MODULE MCRepoStats ----
(* RepoStats with two repositories and two recordings under way. *)
EXTENDS RepoStats
====
