------------------------------ MODULE MCPubSub ------------------------------
(* Topics and patterns for PubSub: with and without wildcards. *)
EXTENDS PubSub

MCTopics == {<<"x", "y">>}
MCPatterns == {<<"+", "*">>}
=============================================================================
