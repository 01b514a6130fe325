---- MODULE MCReports ----
(* Reports with two jobs, two channels and two requests. *)
EXTENDS Reports

CONSTANTS c1, c2, j1, j2
Twice == [jobs |-> <<j1, j2, j1>>, statuses |-> {"success", "failed"}, window |-> 7]
NoJobs == [jobs |-> <<>>, statuses |-> {"success"}, window |-> 90]
MCDatasets == {Twice, NoJobs}

MCPayloads == {[expr |-> "weekly", dataset |-> NoJobs],
               [enabled |-> FALSE, channels |-> {}]}

Run(j, s, a) == [job |-> j, status |-> s, age |-> a]
MCTables == {<<Run(j1, "failed", 30), Run(j2, "success", 1)>>,
             <<Run(j1, "success", 1), Run(j1, "failed", 1), Run(j1, "failed", 1)>>}
====
