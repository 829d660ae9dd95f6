----------------------------- MODULE MCCommands -----------------------------
(* A small instance of Commands. *)
EXTENDS Commands, TLC

Url(at, scheme, slash) == [at |-> at, scheme |-> scheme, slash |-> slash]
MCNoHost == Url("", "other", FALSE)
MCDefaultHost == Url("api", "https", FALSE)
MCHosts == {MCNoHost, MCDefaultHost, Url("lan", "http", FALSE), Url("lan", "http", TRUE),
            Url("odd", "other", FALSE)}

MCEnvironments == {Absent, [key |-> "k", effort |-> "extreme"],
                   [host |-> Url("lan", "http", TRUE), checkpoint |-> FALSE, attempts |-> 5]}
MCFlags == {Absent, [insecure |-> TRUE, model |-> "m"], [worktree |-> TRUE, debug |-> "relative"],
            [worktree |-> TRUE, effort |-> "low", auto |-> TRUE, attempts |-> 0],
            [external |-> TRUE, worktree |-> TRUE, debug |-> "relative", key |-> "k"],
            [policy |-> {"go test"}, host |-> MCNoHost], [policy |-> {"go test"}, topP |-> 5],
            [debug |-> "elsewhere"], [policy |-> {"("}], [model |-> "", topP |-> 11]}
MCFiles == {Blank, [Blank EXCEPT !.host = Url("lan", "http", TRUE), !.checkpoint = TRUE],
            [Blank EXCEPT !.format = "xml"], [Blank EXCEPT !.policy = {"ls"}, !.attempts = -1]}
=============================================================================
