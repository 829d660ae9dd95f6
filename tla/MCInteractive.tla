--------------------------- MODULE MCInteractive ---------------------------
(* Instances of Interactive for TLC. *)
EXTENDS Interactive

MCLines == {<<"task", "yes">>, <<"command", "exit">>}
MCSetups == {[auto |-> TRUE, oneShot |-> TRUE, piped |-> FALSE],
             [auto |-> FALSE, oneShot |-> FALSE, piped |-> FALSE],
             [auto |-> FALSE, oneShot |-> FALSE, piped |-> TRUE]}
=============================================================================
