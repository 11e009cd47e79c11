--------------------------- MODULE MCProxyRuntime ---------------------------
(* A program, its successor, and two whose first migration was changed.    *)
EXTENDS ProxyRuntime

Tasks    == [name |-> "001_create_task_results.sql", checksum |-> "tasks"]
Jobs     == [name |-> "002_create_durable_jobs.sql", checksum |-> "jobs"]
Edited   == [Tasks EXCEPT !.checksum = "edited"]
Renamed  == [Tasks EXCEPT !.name = "001_renamed.sql"]

Releases == {<<Tasks>>, <<Tasks, Jobs>>, <<Edited, Jobs>>, <<Renamed, Jobs>>}
=============================================================================
