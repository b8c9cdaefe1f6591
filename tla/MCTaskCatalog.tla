----------------------------- MODULE MCTaskCatalog -----------------------------
(* Instances of TaskCatalog for TLC.                                        *)
EXTENDS TaskCatalog

MCRow(name) == [name |-> name, kind |-> "file", secret |-> FALSE, mode |-> "full", place |-> "master",
                encrypt |-> FALSE, cron |-> "daily", enabled |-> TRUE, verify |-> "", deps |-> {},
                last |-> "idle"]
MCFirst == MCRow("a")

\* A scheduled task with any dependencies, one with a verification of its own,
\* one whose expression does not parse, a remote one that must not be encrypted
\* and a database whose password is missing.
MCInputs == {[MCRow("b") EXCEPT !.deps = {1}],
             [MCRow("a") EXCEPT !.deps = {2}, !.verify = "weekly"],
             [MCRow("b") EXCEPT !.cron = "broken"],
             [MCRow("b") EXCEPT !.place = "remote", !.encrypt = TRUE],
             [MCRow("b") EXCEPT !.kind = "db"]}

MCBatches == {<<1>>, <<1, 2>>}
MCNameLists == {<<"b", "a">>}

MCExported(name, ups) ==
    [name |-> name, kind |-> "file", place |-> "master", encrypt |-> FALSE, cron |-> "daily",
     enabled |-> TRUE, verify |-> "", ups |-> ups]
\* The first names a task that exists and one the import creates after it, the
\* second would close a cycle.
MCExports == {<<MCExported("b", {"a", "c"}), MCExported("c", {"b"})>>}
================================================================================
