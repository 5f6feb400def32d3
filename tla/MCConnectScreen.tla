-------------------------- MODULE MCConnectScreen --------------------------
(* An instance of ConnectScreen: two places, one of which has two spellings. *)
EXTENDS ConnectScreen

MCHosts == <<"one", "two">>
MCCanonical == [a \in {"one", "one:15740", "two"} |-> IF a = "two" THEN "two:15740" ELSE "one:15740"]
=============================================================================
