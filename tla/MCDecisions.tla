------------------------------ MODULE MCDecisions ------------------------------
(***************************************************************************)
(* Typed decisions, the graphs of the runtime and the prompts of the       *)
(* adapters, on small instances.                                           *)
(* The questions have options and heads far below, at and beyond every     *)
(* budget (48 tokens of an option, 16 of the head, an equal share), alone  *)
(* and in pairs of different widths; the artifacts have a fixed, a         *)
(* flexible and a list of exported lengths.                                *)
(***************************************************************************)
EXTENDS MCDecisionGraph, Decisions

Choice(name, head, options, labels) ==
    [name |-> name, kind |-> "choice", head |-> head, options |-> options, labels |-> labels]

LevelOf(name, head, options) ==
    [name |-> name, kind |-> "score", head |-> head, options |-> options, labels |-> <<>>]

MCQuestions ==
    { Choice("short", 5, <<2, 3>>, <<"a", "b">>),
      Choice("same", 5, <<2, 3>>, <<"a", "a">>),
      Choice("long", 90, <<60, 60, 47>>, <<"a", "b", "c">>),
      LevelOf("level", 12, <<1, 2, 3, 4, 5>>),
      LevelOf("many", 9, [i \in 1 .. 12 |-> 5]),
      LevelOf("empty", 9, <<>>),
      [name |-> "noul", kind |-> "noul", head |-> 20, options |-> <<>>, labels |-> <<>>],
      [name |-> "described", kind |-> "noul", head |-> 20, options |-> <<50, 3>>, labels |-> <<>>] }

MCLayaRequests ==
    [questions : {<<>>} \cup {<<q>> : q \in MCQuestions} \cup (MCQuestions \X MCQuestions),
     state : {0, 7, 200}]

MCLayaConfigs ==
    { [maxLen |-> 64, headMax |-> 40, maxOptions |-> 32, lengths |-> <<32, 48, 64>>,
       flexible |-> FALSE, minLength |-> 16],
      [maxLen |-> 64, headMax |-> 16, maxOptions |-> 4, lengths |-> <<>>,
       flexible |-> TRUE, minLength |-> 24],
      [maxLen |-> 128, headMax |-> 100, maxOptions |-> 8, lengths |-> <<>>,
       flexible |-> FALSE, minLength |-> 16],
      [maxLen |-> 48, headMax |-> 47, maxOptions |-> 12, lengths |-> <<16, 32>>,
       flexible |-> TRUE, minLength |-> 16] }

===============================================================================
