---------------------------- MODULE MCDashboard ----------------------------
(* Instance of Dashboard for TLC: a backup and a later prune, of two jobs.    *)
EXTENDS Dashboard

MCKindOf == <<"backup", "prune">>
MCJobOf == <<"web", "mail">>
=============================================================================
