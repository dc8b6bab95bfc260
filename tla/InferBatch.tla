------------------------------ MODULE InferBatch ------------------------------
(***************************************************************************)
(* Runtime::infer_batch (crates/runtime/src/lib.rs): one routing decision  *)
(* for the first request, then one execution of the whole batch by a local *)
(* backend or one infer per request, joined by try_join_all, while other   *)
(* calls load and evict models.  The infer of one request is the targets   *)
(* Routing permits it; InferenceExecution is its own specification.        *)
(***************************************************************************)
EXTENDS Naturals, Sequences, Routing

CONSTANTS Batches,  \* the batches of requests the application submits
          HasCatalog,  \* a model catalog is registered
          Batching  \* the backend advertises batching

\* A model is [id, version].  The empty batch returns at once and is left out;
\* so are the counters, which the batch as a whole and each infer of its own add
\* to.

VARIABLES step,     \* where the call is
          requests, \* the batch, catalog references resolved
          items,    \* how far each request has got: [state, target, model]
          answer,   \* what infer_batch returned last: "none", "ok" or "failed"
          resident  \* the models in the cache

vars == <<step, requests, items, answer, resident, allow_remote_fallback>>

Item(state, target, model) == [state |-> state, target |-> target, model |-> <<model>>]
Pending == [state |-> "pending", target |-> "none", model |-> <<>>]

Goto(s) == step' = s
Answer(a) == answer' = a /\ step' = "idle"

-------------------------------------------------------------------------------
Submit ==
    /\ step = "idle"
    /\ \E batch \in Batches :
          /\ requests' = batch
          /\ items' = [i \in 1..Len(batch) |-> Pending]
    /\ answer' = "none"
    /\ Goto("resolve")
    /\ UNCHANGED <<resident, allow_remote_fallback>>

\* A request that may run locally, with an id that is not loaded, has it looked
\* up in the catalog.
Resolved(r) ==
    IF HasCatalog /\ r.reference = "id" /\ LocalResolution(r) /\ r.model \notin resident
    THEN [r EXCEPT !.reference = "spec"]
    ELSE r

\* The limits and every request are checked before the catalog is asked for any
\* of them, in order.
Resolve ==
    /\ step = "resolve"
    /\ \/ Answer("failed") /\ UNCHANGED requests
       \/ /\ requests' = [i \in 1..Len(requests) |-> Resolved(requests[i])]
          /\ Goto("select")
          /\ UNCHANGED answer
    /\ UNCHANGED <<items, resident, allow_remote_fallback>>

\* model_id compares the names, not the versions.
SameModel == \A i \in 1..Len(requests) : requests[i].model.id = requests[1].model.id

\* The batch is routed by its first request.
SelectTarget ==
    /\ step = "select"
    /\ LET chosen == Select(requests[1], resident) IN
          \/ chosen = NoSelection /\ Answer("failed")
          \/ /\ chosen # NoSelection
             /\ Goto(IF chosen.provider = "local" /\ SameModel THEN "lookup" ELSE "individually")
             /\ UNCHANGED answer
    /\ UNCHANGED <<requests, items, resident, allow_remote_fallback>>

\* resolve_loaded_model of the first request's model: found, loaded, or an
\* error, which no policy turns into a fallback.
Lookup ==
    /\ step = "lookup"
    /\ LET found == requests[1].model \in resident
           next == Goto(IF Batching THEN "batch" ELSE "individually") /\ UNCHANGED answer
       IN  \/ found /\ next /\ UNCHANGED resident
           \/ ~found /\ requests[1].reference = "spec" /\ next
              /\ resident' = resident \cup {requests[1].model}
           \/ ~found /\ Answer("failed") /\ UNCHANGED resident
    /\ UNCHANGED <<requests, items, allow_remote_fallback>>

\* backend.infer_batch of the loaded model, of as many results as requests.
ExecuteBatch ==
    /\ step = "batch"
    /\ \/ /\ items' = [i \in 1..Len(requests) |-> Item("ok", "local", requests[1].model)]
          /\ Answer("ok")
       \/ Answer("failed") /\ UNCHANGED items
    /\ UNCHANGED <<requests, resident, allow_remote_fallback>>

\* Where infer may end up executing a request.
Reachable(r) ==
    LET chosen == Select(r, resident)
    IN  {chosen.provider} \cup IF CanFallback(r, chosen, "unavailable") THEN {"remote"} ELSE {}

\* Fault: every request is executed where the batch was routed.
TargetsOfFirst(r) == Reachable(Resolved(requests[1]))

\* infer has its own look at the catalog, as the model may be gone by now.
Targets(r) == Reachable(Resolved(r))

ExecuteItem(i) ==
    /\ step = "individually"
    /\ items[i].state = "pending"
    /\ \/ \E target \in Targets(requests[i]) \ {"none"} :
             /\ target = "remote" => RemoteRegistered
             /\ items' = [items EXCEPT ![i] = Item("ok", target, requests[i].model)]
       \/ items' = [items EXCEPT ![i].state = "failed"]
    /\ UNCHANGED <<step, requests, answer, resident, allow_remote_fallback>>

\* try_join_all: the first error drops the other requests, in whatever state.
Join ==
    /\ step = "individually"
    /\ \/ (\E i \in 1..Len(items) : items[i].state = "failed") /\ Answer("failed")
       \/ (\A i \in 1..Len(items) : items[i].state = "ok") /\ Answer("ok")
    /\ UNCHANGED <<requests, items, resident, allow_remote_fallback>>

\* Other calls load and evict models.
Churn ==
    /\ \E m \in Executable : resident' = resident \cup {m} \/ resident' = resident \ {m}
    /\ UNCHANGED <<step, requests, items, answer, allow_remote_fallback>>

-------------------------------------------------------------------------------
Init ==
    /\ step = "idle"
    /\ requests = <<>>
    /\ items = <<>>
    /\ answer = "none"
    /\ resident = {}
    /\ allow_remote_fallback \in BOOLEAN

Progress ==
    \/ Resolve \/ SelectTarget \/ Lookup \/ ExecuteBatch
    \/ \E i \in 1..Len(items) : ExecuteItem(i)
    \/ Join

Next == Submit \/ Progress \/ Churn

Spec == Init /\ [][Next]_vars

-------------------------------------------------------------------------------
\* What a batch that returns Ok has for each of its requests, in whatever order
\* they were executed and whatever was loaded and evicted meanwhile: none has
\* failed or been dropped; the i-th result is from a model of the id the i-th
\* request names, the very model unless the backend was given the whole batch
\* with the model of the first; and though the first request routes the batch, a
\* LocalOnly request was not executed remotely because others were.
ResultsAnswerRequests ==
    answer = "ok" => \A i \in 1..Len(requests) :
        /\ items[i].state = "ok" /\ items[i].model[1].id = requests[i].model.id
        /\ \/ items[i].model = <<requests[i].model>>
           \/ \A j \in 1..Len(requests) : items[j] = Item("ok", "local", requests[1].model)
        /\ items[i].target = "remote" => EffectivePolicy(requests[i]) # "LocalOnly"

\* docs/architecture.md: infer_batch preserves request order and result
\* identity.  The i-th result comes from the model the i-th request names; the
\* native path gives two versions of a model to the first of them.
ResultsKeepIdentity ==
    answer = "ok" => \A i \in 1..Len(items) : items[i].model = <<requests[i].model>>

\* crates/inference/src/lib.rs: the policy of a request determines where the
\* runtime attempts to execute it, in a batch as alone.
RemoteStaysRemote ==
    \A i \in 1..Len(items) :
        EffectivePolicy(requests[i]) = "RemoteOnly" => items[i].target # "local"

===============================================================================
