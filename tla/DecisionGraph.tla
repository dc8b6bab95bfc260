---------------------------- MODULE DecisionGraph ----------------------------
(***************************************************************************)
(* DecisionPlanner and execute_graph (crates/runtime/src/decision.rs): a    *)
(* graph of typed decisions is planned, then executed wave by wave.  A wave *)
(* calls the model in chunks, in order, with a window of concurrent calls;  *)
(* the native calls run on blocking threads, which nothing interrupts.      *)
(***************************************************************************)
EXTENDS Naturals, Sequences, FiniteSets, SequencesExt

CONSTANTS Requests,  \* the DecisionGraphRequests submitted
          Capabilities,  \* what the loaded model may declare
          Answers  \* Answers[kind]: the values the model may decide on

\* A limit that is not set is Unlimited; a width or a batch size of one stands
\* for the None of effective_parallelism and effective_batch_size.
Unlimited == 1000

Policy == [batching : BOOLEAN, parallel : BOOLEAN, selective : BOOLEAN,
           max_batch_size : 0..Unlimited, max_parallelism : 0..Unlimited]

ASSUME DecisionAssumption ==
    /\ \A r \in Requests :
          /\ r.policy \in Policy
          /\ Len(r.nodes) \in Nat /\ DOMAIN r.nodes = 1..Len(r.nodes)
          /\ \A i \in DOMAIN r.nodes : r.nodes[i].kind \in DOMAIN Answers
    /\ Capabilities \subseteq
          [structured : BOOLEAN, batching : BOOLEAN, parallel : BOOLEAN, batch_size : 0..Unlimited,
           max_batch_size : 0..Unlimited, recommended_parallelism : 1..Unlimited]

VARIABLES request,   \* the request being executed
          model,     \* the capabilities of its model
          cancelled, \* its token
          step,      \* "plan", "wave", "calls", "done", "failed" or "dropped"
          failure,   \* why it failed, or "none"
          pending,   \* the nodes neither executed nor skipped
          skipped,   \* the nodes whose conditions do not hold
          resolved,  \* the value of each executed node
          chunks,    \* the chunks of the current wave, in order
          calls,     \* how far the call of each chunk has got: [state, values]
          batches    \* the chunks of the waves executed, as diagnostics report them

vars == <<request, model, cancelled, step, failure, pending, skipped, resolved, chunks, calls,
          batches>>

Smaller(x, y) == IF x < y THEN x ELSE y
Indices == DOMAIN request.nodes
Node(name) == CHOOSE i \in Indices : request.nodes[i].name = name
DependsOn(i) == {d.on : d \in request.nodes[i].dependencies}

-------------------------------------------------------------------------------
(* Planning.                                                               *)

EffectiveBatchSize(count) ==
    LET size == Smaller(Smaller(model.max_batch_size, request.policy.max_batch_size), count) IN
    IF count >= 2 /\ request.policy.batching /\ model.batching /\ model.batch_size # 1 /\ size > 1
    THEN size ELSE 1

EffectiveParallelism(count) ==
    LET width == Smaller(Smaller(model.recommended_parallelism, request.policy.max_parallelism), count)
    IN  IF count >= 2 /\ request.policy.parallel /\ model.parallel THEN width ELSE 1

\* Level(done): the nodes left whose dependencies are all in done; a name that
\* no node has is in no level.
Level(done) ==
    {i \in Indices \ done : \A name \in DependsOn(i) :
        \E j \in done : request.nodes[j].name = name}

\* The union of the first k levels.
UpTo[k \in Nat] == IF k = 0 THEN {} ELSE UpTo[k - 1] \cup Level(UpTo[k - 1])

ValidGraph ==
    /\ request.nodes # <<>>
    /\ request.policy.max_parallelism # 0 /\ request.policy.max_batch_size # 0
    /\ \A i \in Indices : request.nodes[i].name # ""
    /\ \A i, j \in Indices : request.nodes[i].name = request.nodes[j].name => i = j
    /\ UpTo[Len(request.nodes)] = Indices

Chunked(s, size) ==
    [k \in 1..((Len(s) + size - 1) \div size) |->
        SubSeq(s, (k - 1) * size + 1, Smaller(k * size, Len(s)))]

\* The indices in ascending order, as a BTreeSet gives them.
Ordered(indices) ==
    [k \in 1..Cardinality(indices) |->
        CHOOSE i \in indices : Cardinality({j \in indices : j < i}) = k - 1]

Strategy ==
    LET count == Len(request.nodes) IN
    IF count = 1 THEN "Single"
    ELSE IF (\E i \in Indices : DependsOn(i) # {}) /\ request.policy.selective THEN "Selective"
    ELSE IF EffectiveBatchSize(count) > 1 THEN "Batched"
    ELSE IF EffectiveParallelism(count) > 1 THEN "Parallel"
    ELSE "Sequential"

\* Fault: the stages of a dependency graph are planned one node at a time.
StagesUnbatched ==
    LET size == IF Strategy = "Batched" THEN EffectiveBatchSize(Len(request.nodes)) ELSE 1
        stage(k) == Ordered(UpTo[k] \ UpTo[k - 1])
    IN  [k \in 1..Cardinality({j \in Indices : UpTo[j] # UpTo[j - 1]}) |-> Chunked(stage(k), size)]

\* One stage for each level that is not empty; a batched plan chunks every
\* stage by the batch size of the whole graph.
Stages ==
    LET size(count) == IF Strategy = "Batched" THEN EffectiveBatchSize(Len(request.nodes))
                       ELSE IF Strategy = "Selective" THEN EffectiveBatchSize(count)
                       ELSE 1
        stage(k) == Ordered(UpTo[k] \ UpTo[k - 1])
    IN  [k \in 1..Cardinality({j \in Indices : UpTo[j] # UpTo[j - 1]}) |->
            Chunked(stage(k), size(Len(stage(k))))]

-------------------------------------------------------------------------------
(* Execution.                                                              *)

Fail(why) == step' = "failed" /\ failure' = why

\* The entry of execute_graph: the token, the model's kind, then the plan.
Plan ==
    /\ step = "plan"
    /\ IF cancelled THEN Fail("Cancelled")
       ELSE IF ~model.structured THEN Fail("CapabilityMismatch")
       ELSE IF ~ValidGraph THEN Fail("InvalidRequest")
       ELSE step' = "wave" /\ UNCHANGED failure
    /\ UNCHANGED <<request, model, cancelled, pending, skipped, resolved, chunks, calls, batches>>

ConditionMatches(condition, value) ==
    \/ condition.type = "completed"
    \/ condition.type = "equals" /\ condition.kind = value.kind /\ condition.value = value.value
    \/ condition.type = "at_least" /\ value.kind = "score" /\ value.value >= condition.value
    \/ condition.type = "at_most" /\ value.kind = "score" /\ value.value <= condition.value

\* Fault: a node is skipped when every dependency rules it out.
RuledOutByAll(i, gone) ==
    request.nodes[i].dependencies # {} /\ \A d \in request.nodes[i].dependencies :
        \/ Node(d.on) \in gone
        \/ Node(d.on) \in DOMAIN resolved /\ ~ConditionMatches(d.condition, resolved[Node(d.on)])

RuledOut(i, gone) ==
    \E d \in request.nodes[i].dependencies :
        \/ Node(d.on) \in gone
        \/ Node(d.on) \in DOMAIN resolved /\ ~ConditionMatches(d.condition, resolved[Node(d.on)])

\* The skipping loop, run to its end: what n rounds skip.
Skipping[n \in Nat] ==
    IF n = 0 THEN skipped
    ELSE Skipping[n - 1] \cup {i \in pending \ Skipping[n - 1] : RuledOut(i, Skipping[n - 1])}

Eligible(left) == {i \in left : \A name \in DependsOn(i) : Node(name) \in DOMAIN resolved}

Waiting == [state |-> "waiting", values |-> <<>>]

\* One turn of the loop over pending, up to the calls of the wave.
StartWave ==
    /\ step = "wave" /\ pending # {}
    /\ LET gone == IF request.policy.selective THEN Skipping[Len(request.nodes)] ELSE skipped
           left == pending \ gone
           eligible == Ordered(Eligible(left))
           wave == Chunked(eligible, EffectiveBatchSize(Len(eligible)))
       IN  IF cancelled THEN Fail("Cancelled") /\ UNCHANGED <<pending, skipped, chunks, calls>>
           ELSE /\ pending' = left
                /\ skipped' = gone
                /\ IF eligible = <<>> THEN Fail("NoProgress") /\ UNCHANGED <<chunks, calls>>
                   ELSE /\ chunks' = wave
                        /\ calls' = [k \in DOMAIN wave |-> Waiting]
                        /\ step' = "calls"
                        /\ UNCHANGED failure
    /\ UNCHANGED <<request, model, cancelled, resolved, batches>>

\* The calls the executor keeps in progress: one for a batched or a sequential
\* wave, the parallelism otherwise.
Window ==
    LET count == Cardinality(UNION {Range(chunks[k]) : k \in DOMAIN chunks}) IN
    IF EffectiveBatchSize(count) > 1 THEN 1 ELSE EffectiveParallelism(count)

Yielded == {k \in DOMAIN calls : calls[k].state = "yielded"}
Running == {k \in DOMAIN calls : calls[k].state = "running"}

\* buffered() polls the next future of the window: it looks at the token, then
\* hands the call to a blocking thread.
StartCall(k) ==
    /\ step = "calls" /\ k \in DOMAIN calls /\ calls[k].state = "waiting"
    /\ \A j \in 1..(k - 1) : calls[j].state # "waiting"
    /\ k <= Cardinality(Yielded) + Window
    /\ calls' = [calls EXCEPT ![k].state = IF cancelled THEN "cancelled" ELSE "running"]
    /\ UNCHANGED <<request, model, cancelled, step, failure, pending, skipped, resolved, chunks, batches>>

\* The calls of a wave are batches; a call of its own for a node is none, also
\* when it is the only one.
Batched ==
    EffectiveBatchSize(Cardinality(UNION {Range(chunks[k]) : k \in DOMAIN chunks})) > 1

\* The thread returns: one value for each question (for a call of one question
\* the first is taken of whatever there is), another number of them, or none, or
\* an error.  It does so whether or not anyone still waits.  A model is taken to
\* answer under the names it was asked: values are kept by node, as the code
\* keeps them by the name of the decision.
CallReturns(k) ==
    /\ k \in Running
    /\ \/ \E values \in {f \in [Range(chunks[k]) -> UNION Range(Answers)] :
                            \A i \in Range(chunks[k]) : f[i] \in Answers[request.nodes[i].kind]} :
             calls' = [calls EXCEPT ![k] = [state |-> "returned", values |-> values]]
       \/ \E state \in {"miscounted", "erred"} : calls' = [calls EXCEPT ![k].state = state]
    /\ UNCHANGED <<request, model, cancelled, step, failure, pending, skipped, resolved, chunks, batches>>

\* Fault: a call that found the token cancelled is never taken.
TakeResultUncancelled(k) ==
    /\ step = "calls" /\ k = Cardinality(Yielded) + 1 /\ k \in DOMAIN calls
    /\ \/ calls[k].state = "returned"
          /\ calls' = [calls EXCEPT ![k].state = "yielded"]
          /\ UNCHANGED <<step, failure>>
       \/ calls[k].state \in {"miscounted", "erred"} /\ Fail("Execution") /\ UNCHANGED calls
    /\ UNCHANGED <<request, model, cancelled, pending, skipped, resolved, chunks, batches>>

\* The oldest call of the window is taken; its failure is the wave's, and the
\* futures behind it are dropped.  The number of decisions is looked at here for
\* a batch only.
TakeResult(k) ==
    /\ step = "calls" /\ k = Cardinality(Yielded) + 1 /\ k \in DOMAIN calls
    /\ \/ /\ calls[k].state \in {"returned"} \cup (IF Batched THEN {} ELSE {"miscounted"})
          /\ calls' = [calls EXCEPT ![k].state = "yielded"]
          /\ UNCHANGED <<step, failure>>
       \/ calls[k].state = "miscounted" /\ Batched /\ Fail("InvalidOutput") /\ UNCHANGED calls
       \/ calls[k].state = "erred" /\ Fail("Execution") /\ UNCHANGED calls
       \/ calls[k].state = "cancelled" /\ Fail("Cancelled") /\ UNCHANGED calls
    /\ UNCHANGED <<request, model, cancelled, pending, skipped, resolved, chunks, batches>>

\* The results of the whole wave are recorded.
CompleteWave ==
    /\ step = "calls" /\ Yielded = DOMAIN calls
    /\ \A k \in DOMAIN calls : calls[k].values # <<>>
    /\ LET of(i) == CHOOSE k \in DOMAIN chunks : i \in Range(chunks[k])
           wave == UNION {Range(chunks[k]) : k \in DOMAIN chunks}
       IN  /\ resolved' = [i \in DOMAIN resolved \cup wave |->
                              IF i \in wave THEN calls[of(i)].values[i] ELSE resolved[i]]
           /\ pending' = pending \ wave
    /\ batches' = batches \o chunks
    /\ step' = "wave"
    /\ UNCHANGED <<request, model, cancelled, failure, skipped, chunks, calls>>

\* The wave is over and one of its calls has brought no decision.
MissDecision ==
    /\ step = "calls" /\ Yielded = DOMAIN calls
    /\ \E k \in DOMAIN calls : calls[k].values = <<>>
    /\ Fail("InvalidOutput")
    /\ UNCHANGED <<request, model, cancelled, pending, skipped, resolved, chunks, calls, batches>>

\* No node is left: the decisions, in the order of the request, and the
\* diagnostics are returned.
Finish ==
    /\ step = "wave" /\ pending = {}
    /\ step' = "done"
    /\ UNCHANGED <<request, model, cancelled, failure, pending, skipped, resolved, chunks, calls, batches>>

Cancel ==
    /\ ~cancelled /\ step \in {"plan", "wave", "calls"}
    /\ cancelled' = TRUE
    /\ UNCHANGED <<request, model, step, failure, pending, skipped, resolved, chunks, calls, batches>>

\* The caller drops the future.
Drop ==
    /\ step \in {"wave", "calls"}
    /\ step' = "dropped"
    /\ UNCHANGED <<request, model, cancelled, failure, pending, skipped, resolved, chunks, calls, batches>>

-------------------------------------------------------------------------------
Init ==
    /\ request \in Requests /\ model \in Capabilities
    /\ cancelled = FALSE /\ step = "plan" /\ failure = "none"
    /\ pending = Indices /\ skipped = {} /\ resolved = <<>>
    /\ chunks = <<>> /\ calls = <<>> /\ batches = <<>>

Execute ==
    \/ Plan \/ StartWave \/ CompleteWave \/ MissDecision \/ Finish
    \/ \E k \in DOMAIN calls : StartCall(k) \/ TakeResult(k)

Native == \E k \in DOMAIN calls : CallReturns(k)

Next == Execute \/ Native \/ Cancel \/ Drop

\* The executor polls the future, and a native call returns: nothing bounds its
\* time, but no model is allowed to hang for ever.
Fairness == WF_vars(Execute) /\ WF_vars(Native)

Spec == Init /\ [][Next]_vars /\ Fairness

-------------------------------------------------------------------------------
(* Reference definition: a node is needed when each of its dependencies is,  *)
(* and was decided as its condition says; without selective execution the    *)
(* conditions are ignored.                                                   *)
Needed[i \in Indices] ==
    \A d \in request.nodes[i].dependencies :
        /\ Needed[Node(d.on)]
        /\ request.policy.selective => /\ Node(d.on) \in DOMAIN resolved
                                       /\ ConditionMatches(d.condition, resolved[Node(d.on)])

\* A graph that is answered has decided exactly the nodes whose conditions hold,
\* transitively, whatever the strategy, the batches and the order of the calls:
\* the skipping loop of execute_graph and its waves compute the reference.
DecidesTheNeeded ==
    step = "done" => /\ DOMAIN resolved = {i \in Indices : Needed[i]}
                     /\ skipped = Indices \ DOMAIN resolved

\* An execution that can make no progress has skipped all that was left: nodes
\* that wait for each other, or for a node that was skipped, are never left over.
StallsOnlyWhenAllSkipped == failure = "NoProgress" => pending = {} /\ skipped # {}

\* A valid graph that is neither cancelled nor failed by its model is answered
\* with what is needed, or all that was left of it was skipped.
AnswersWhatIsNeeded == DecidesTheNeeded /\ StallsOnlyWhenAllSkipped

\* When nothing is skipped the batches of the diagnostics are those of the
\* plan; and each wave takes nodes of one stage only.
PlanFollowed ==
    /\ step = "done" /\ skipped = {} => batches = FlattenSeq(Stages)
    /\ step = "calls" =>
          \E k \in DOMAIN Stages :
              UNION {Range(chunks[c]) : c \in DOMAIN chunks}
                  \subseteq UNION {Range(Stages[k][c]) : c \in DOMAIN Stages[k]}

\* Batches and concurrent native calls stay within the lower of the model's and
\* the application's limits, also when the execution has failed or was dropped
\* and its calls are still running.
LimitsRespected ==
    /\ Cardinality(Running) <= Smaller(model.recommended_parallelism, request.policy.max_parallelism)
    /\ Cardinality(Running) > 1 => model.parallel /\ request.policy.parallel
    /\ \A k \in DOMAIN chunks :
          Len(chunks[k]) \in {1} \cup 1..Smaller(model.max_batch_size, request.policy.max_batch_size)

\* What explain_decision announced is what is executed, though the plan sizes
\* its batches from the whole graph and the execution from each wave, and
\* within the limits both were computed from.
ExecutesThePlan == PlanFollowed /\ LimitsRespected

\* Every execution ends, cancelled or not, however its waves turn out.
ExecutionEnds == <>(step \in {"done", "failed", "dropped"})

\* Stated by docs/runtime/execution-planning.md: a false condition skips the node
\* and the nodes that depend on it, and the graph is answered with the others.
SkippingIsNoFailure == failure # "NoProgress"

===============================================================================
