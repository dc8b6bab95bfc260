-------------------------- MODULE MCLocalGeneration --------------------------
(***************************************************************************)
(* A call whose text matters, with stop sequences that overlap themselves  *)
(* and each other and pieces that split them and a wide character; a call  *)
(* with a prompt of several chunks that competes for its slot; artifacts   *)
(* and configurations that are refused.                                    *)
(***************************************************************************)
EXTENDS LocalGeneration, TLC

CONSTANTS c1, c2

MCCalls == {c1, c2}

MCAsks ==
    (c1 :> [stream : {TRUE}, prompt : {1}, maxTokens : {{}},
            stops : {{<<"a", "a", "b">>, <<"a", "wide">>}}])
    @@ (c2 :> [stream : {FALSE}, prompt : {4, 6}, maxTokens : {{2}}, stops : {{}}])

MCPieces == {<<"a">>, <<"b", "lead">>, <<"tail">>}

Config(context, maxOutput, sha256) ==
    [context |-> context, maxOutput |-> maxOutput, slots |-> 1, batch |-> 2, buffer |-> 1,
     sha256 |-> sha256]

MCConfig == {Config(6, 3, "right"), Config(6, 3, "other"), Config(6, 6, "none"),
             Config(8, 3, "none")}

MCFile ==
    {[kind |-> kind, sha256 |-> "right", loads |-> loads, trained |-> 6] :
        kind \in {"gguf", "other", "missing"}, loads \in BOOLEAN}
===============================================================================
