--------------------------- MODULE MCDecisionGraph ---------------------------
(***************************************************************************)
(* Graphs of up to three decisions, yes/no or scored, with every kind of     *)
(* dependency, on models that batch, run in parallel, or do neither.         *)
(***************************************************************************)
EXTENDS DecisionGraph

Yes == [kind |-> "noul", value |-> TRUE]
No == [kind |-> "noul", value |-> FALSE]
Score(n) == [kind |-> "score", value |-> n]
MCAnswers == [noul |-> {Yes, No}, score |-> {Score(1), Score(2)}]

Always == [type |-> "completed"]
WhenYes == [type |-> "equals", kind |-> "noul", value |-> TRUE]
AtLeast(n) == [type |-> "at_least", value |-> n]
AtMost(n) == [type |-> "at_most", value |-> n]

Ask(name, kind, dependencies) == [name |-> name, kind |-> kind, dependencies |-> dependencies]
On(name, condition) == [on |-> name, condition |-> condition]

Independent == <<Ask("a", "noul", {}), Ask("b", "noul", {}), Ask("c", "score", {})>>
Chain == <<Ask("c", "noul", {On("b", AtLeast(2)), On("a", Always)}), Ask("b", "score", {On("a", WhenYes)}), Ask("a", "noul", {})>>
Fork == <<Ask("a", "score", {}), Ask("b", "noul", {On("a", AtLeast(2))}), Ask("c", "noul", {On("a", AtMost(1))})>>
Join == <<Ask("a", "noul", {}), Ask("b", "noul", {}), Ask("c", "noul", {On("a", WhenYes), On("b", Always)})>>
Invalid == {<<>>, <<Ask("a", "noul", {}), Ask("a", "noul", {})>>, <<Ask("", "noul", {})>>,
            <<Ask("a", "noul", {On("b", Always)}), Ask("b", "noul", {On("a", Always)})>>,
            <<Ask("a", "noul", {On("z", Always)})>>}
MCGraphs == {Independent, Chain, Fork, Join, <<Ask("a", "noul", {})>>} \cup Invalid

Limits == {[batch |-> Unlimited, width |-> Unlimited], [batch |-> 2, width |-> 2]}

MCRequests ==
    {[nodes |-> g, policy |-> [batching |-> b, parallel |-> p, selective |-> s,
                               max_batch_size |-> l.batch, max_parallelism |-> l.width]] :
        g \in MCGraphs, b \in BOOLEAN, p \in BOOLEAN, s \in BOOLEAN, l \in Limits}
    \cup {[nodes |-> Join, policy |-> [batching |-> TRUE, parallel |-> TRUE, selective |-> TRUE,
                                       max_batch_size |-> 0, max_parallelism |-> 1]]}

Declare(structured, batching, batch, parallel, width) ==
    [structured |-> structured, batching |-> batching, batch_size |-> IF batching THEN Unlimited ELSE 1,
     max_batch_size |-> batch, parallel |-> parallel, recommended_parallelism |-> width]

\* ONNX batches, a declared model runs in parallel, Core ML does neither.
MCCapabilities ==
    {Declare(TRUE, TRUE, 16, FALSE, 1), Declare(TRUE, FALSE, 1, TRUE, 3),
     Declare(TRUE, FALSE, 1, FALSE, 1), Declare(FALSE, FALSE, 1, FALSE, 1)}

===============================================================================
