-------------------------- MODULE InferenceExecution --------------------------
(***************************************************************************)
(* Concurrent calls of Runtime::infer, infer_stream and chat_stream        *)
(* (crates/runtime/src/lib.rs, generation.rs): admission by                *)
(* inference_semaphore, catalog resolution, routing, the local execution   *)
(* with the load of its model, the fallback, the remote execution, and the *)
(* counters.  The loaded-model cache is the set of its models: ModelCache  *)
(* is its own specification.  An action runs from one await, or one use of *)
(* the shared cache, to the next; a caller may drop a future at an await.  *)
(***************************************************************************)
EXTENDS Integers, FiniteSets, Sequences, Routing

CONSTANTS Task,         \* async tasks of the application
          Requests,     \* the typed requests each of them makes
          Calls,        \* the operations it uses: "infer", "stream", "chat"
          HasCatalog,   \* a model catalog is registered
          InferPermits, \* RuntimeConfig::max_concurrent_inferences
          LoadPermits,  \* RuntimeConfig::max_concurrent_model_loads
          MaxModels,    \* RuntimeConfig::max_models
          MaxCalls      \* bound: calls the application makes in a behaviour

ASSUME ExecutionAssumption ==
    /\ IsFiniteSet(Task) /\ Requests \in [Task -> (SUBSET Request) \ {{}}]
    /\ Calls \subseteq {"infer", "stream", "chat"}
    /\ HasCatalog \in BOOLEAN
    /\ {InferPermits, LoadPermits, MaxModels} \subseteq Nat \ {0}
    /\ MaxCalls \in Nat

VARIABLES pc,         \* where each task is
          call,       \* the operation it called
          request,    \* its request
          selection,  \* the RuntimeSelection made for it
          trail,      \* how each attempt to execute it ended: <<target, outcome>>
          cancelled,  \* its CancellationToken
          result,     \* what the last call of a task returned
          resident,   \* the models in the cache
          inference_permits,  \* tasks that hold a permit of inference_semaphore
          load_permits,       \* tasks that hold a permit of load_semaphore
          metrics,    \* RuntimeMetrics, the counters of these calls
          tally,      \* history: infer and stream calls made, futures of infer dropped
          calls       \* calls made so far

semaphores == <<inference_permits, load_permits>>
jobVars == <<call, request, cancelled, allow_remote_fallback>>
vars == <<pc, call, request, selection, trail, cancelled, result, resident,
          inference_permits, load_permits, metrics, tally, calls, allow_remote_fallback>>

Counter == {"total_requests", "active_inferences", "successful_requests", "failed_requests",
            "cancelled_requests", "queued_requests", "streaming_requests", "local_executions",
            "remote_executions", "fallback_executions"}

\* The steps of a call between its admission and its end, and those at which
\* its backend, provider or model is at work for it.
Running == {"resolve", "select", "lookup", "load", "loading", "refind", "backend", "remote", "open"}
Executing == {"loading", "backend", "remote", "open"}

Goto(t, step) == pc' = [pc EXCEPT ![t] = step]

Add(counters) == metrics' = [c \in Counter |-> metrics[c] + (IF c \in counters THEN 1 ELSE 0)]

None == [status |-> "none", selection |-> NoSelection]

\* record_execution has the metadata of the result, which never says that a
\* stream was requested; or, after an error, metadata with an empty provider
\* and the stream option of the request.
Recorded(t, status) ==
    (IF status = "ok" /\ selection[t].provider = "local" THEN {"local_executions"}
     ELSE {"remote_executions"})
    \cup (IF status = "ok" /\ selection[t].fallback THEN {"fallback_executions"} ELSE {})
    \cup (IF status # "ok" /\ request[t].stream THEN {"streaming_requests"} ELSE {})

\* Fault: a cancelled call is not counted as one.
EndedUncancelled(t, status) ==
    LET ending == IF status = "ok" THEN {"successful_requests"}
                  ELSE IF status = "cancelled" THEN {}
                  ELSE {"failed_requests"}
    IN  [c \in Counter |-> IF c = "active_inferences" THEN metrics[c] - 1
                           ELSE metrics[c] + (IF c \in ending \cup Recorded(t, status)
                                              THEN 1 ELSE 0)]

\* The counters after infer_with_cancellation.
Ended(t, status) ==
    LET ending == IF status = "ok" THEN {"successful_requests"}
                  ELSE IF status = "cancelled" THEN {"cancelled_requests"}
                  ELSE {"failed_requests"}
    IN  [c \in Counter |-> IF c = "active_inferences" THEN metrics[c] - 1
                           ELSE metrics[c] + (IF c \in ending \cup Recorded(t, status)
                                              THEN 1 ELSE 0)]

\* A call returns and gives up its permit.  Only infer counts its end.
Return(t, status) ==
    /\ Goto(t, "idle")
    /\ result' = [result EXCEPT ![t] = [status |-> status, selection |-> selection[t]]]
    /\ inference_permits' = inference_permits \ {t}
    /\ metrics' = IF call[t] = "infer" THEN Ended(t, status) ELSE metrics

Proceed(t, step) == Goto(t, step) /\ UNCHANGED <<result, inference_permits, metrics>>

Attempted(t, target, outcome) == trail' = [trail EXCEPT ![t] = Append(@, <<target, outcome>>)]

-------------------------------------------------------------------------------
Submit(t) ==
    /\ pc[t] = "idle"
    /\ calls < MaxCalls
    /\ calls' = calls + 1
    /\ \E c \in Calls, r \in Requests[t] :
          /\ call' = [call EXCEPT ![t] = c]
          /\ request' = [request EXCEPT ![t] = r]
          /\ Add(IF c = "infer" THEN {"total_requests", "active_inferences"}
                 ELSE IF c = "stream" THEN {"total_requests", "streaming_requests"}
                 ELSE {})
          /\ tally' = [k \in DOMAIN tally |-> tally[k] + IF k = c THEN 1 ELSE 0]
    /\ selection' = [selection EXCEPT ![t] = NoSelection]
    /\ trail' = [trail EXCEPT ![t] = <<>>]
    /\ cancelled' = [cancelled EXCEPT ![t] = FALSE]
    /\ Goto(t, "start")
    /\ UNCHANGED <<result, resident, semaphores, allow_remote_fallback>>

\* The request is refused (validate_request, or the validation of a chat
\* request), infer sees a token that is cancelled already, or the call goes on:
\* infer_stream wants the stream option and is not admitted by anything.
Start(t) ==
    /\ pc[t] = "start"
    /\ \/ Return(t, "refused")
       \/ call[t] = "infer" /\ cancelled[t] /\ Return(t, "cancelled")
       \/ call[t] = "infer" /\ ~cancelled[t] /\ Proceed(t, "admit")
       \/ call[t] = "stream" /\ request[t].stream /\ Proceed(t, "resolve")
       \/ call[t] = "chat" /\ Proceed(t, "admit")
    /\ UNCHANGED <<jobVars, selection, trail, resident, load_permits, tally, calls>>

PermitFree == Cardinality(inference_permits) < InferPermits

\* chat looks at the token first, infer selects at random.
Admit(t) ==
    /\ pc[t] = "admit"
    /\ PermitFree
    /\ ~(call[t] = "chat" /\ cancelled[t])
    /\ inference_permits' = inference_permits \cup {t}
    /\ Goto(t, IF call[t] = "chat" THEN "open" ELSE "resolve")
    /\ UNCHANGED <<jobVars, selection, trail, result, resident, load_permits, metrics, tally, calls>>

NoticeCancel(t) ==
    /\ pc[t] = "admit" /\ cancelled[t]
    /\ Return(t, "cancelled")
    /\ UNCHANGED <<jobVars, selection, trail, resident, load_permits, tally, calls>>

\* An id that is not loaded is looked up in the catalog, and a model that is
\* not in it ends the call before it is routed.
Resolve(t) ==
    /\ pc[t] = "resolve"
    /\ LET r == request[t]
           lookup == HasCatalog /\ r.reference = "id" /\ LocalResolution(r)
                     /\ r.model \notin resident
       IN  \/ lookup /\ request' = [request EXCEPT ![t].reference = "spec"] /\ Proceed(t, "select")
           \/ lookup /\ Return(t, "unavailable") /\ UNCHANGED request
           \/ ~lookup /\ Proceed(t, "select") /\ UNCHANGED request
    /\ UNCHANGED <<call, cancelled, selection, trail, resident, load_permits, tally, calls,
                   allow_remote_fallback>>

SelectTarget(t) ==
    /\ pc[t] = "select"
    /\ LET chosen == Select(request[t], resident) IN
          \/ chosen = NoSelection /\ Return(t, "unavailable") /\ UNCHANGED selection
          \/ /\ chosen # NoSelection
             /\ selection' = [selection EXCEPT ![t] = chosen]
             /\ Proceed(t, IF chosen.provider = "local" THEN "lookup" ELSE "remote")
    /\ UNCHANGED <<jobVars, trail, resident, load_permits, tally, calls>>

\* An error of the local path: infer falls back where can_fallback permits it
\* and a remote provider is registered, infer_stream never does.
LocalFails(t, error) ==
    /\ Attempted(t, "local", error)
    /\ IF call[t] = "infer" /\ CanFallback(request[t], selection[t], error)
       THEN LET remote == RemoteSelection(request[t], TRUE) IN
               \/ remote # NoSelection /\ Proceed(t, "remote")
                  /\ selection' = [selection EXCEPT ![t] = remote]
               \/ remote = NoSelection /\ Return(t, "unavailable") /\ UNCHANGED selection
       ELSE Return(t, error) /\ UNCHANGED selection

\* resolve_loaded_model: the cache again, which may have lost the model since
\* it was selected; a spec is loaded.
Lookup(t) ==
    /\ pc[t] = "lookup"
    /\ \/ request[t].model \in resident /\ Proceed(t, "backend") /\ UNCHANGED <<selection, trail>>
       \/ /\ request[t].model \notin resident /\ request[t].reference = "spec"
          /\ Proceed(t, "load")
          /\ UNCHANGED <<selection, trail>>
       \/ /\ request[t].model \notin resident /\ request[t].reference = "id"
          /\ LocalFails(t, "unavailable")
    /\ UNCHANGED <<jobVars, resident, load_permits, tally, calls>>

\* load gets its permit and looks the cache up once more.
BeginLoad(t) ==
    /\ pc[t] = "load"
    /\ Cardinality(load_permits) < LoadPermits
    /\ \/ request[t].model \in resident /\ Goto(t, "refind") /\ UNCHANGED load_permits
       \/ /\ request[t].model \notin resident
          /\ load_permits' = load_permits \cup {t}
          /\ Goto(t, "loading")
    /\ UNCHANGED <<jobVars, selection, trail, result, resident, inference_permits, metrics, tally,
                   calls>>

\* backend.load ends; the model takes the place of some other one when the
\* cache is full.
EndLoad(t) ==
    /\ pc[t] = "loading"
    /\ load_permits' = load_permits \ {t}
    /\ \/ /\ \E S \in SUBSET resident :
                /\ Cardinality(S) = IF Cardinality(resident) >= MaxModels
                                    THEN Cardinality(resident) - 1 ELSE Cardinality(resident)
                /\ resident' = S \cup {request[t].model}
          /\ Proceed(t, "refind")
          /\ UNCHANGED <<selection, trail>>
       \/ /\ \E error \in {"unavailable", "refused"} : LocalFails(t, error)
          /\ UNCHANGED resident
    /\ UNCHANGED <<jobVars, tally, calls>>

Refind(t) ==
    /\ pc[t] = "refind"
    /\ \/ request[t].model \in resident /\ Proceed(t, "backend") /\ UNCHANGED <<selection, trail>>
       \/ request[t].model \notin resident /\ LocalFails(t, "unavailable")
    /\ UNCHANGED <<jobVars, resident, load_permits, tally, calls>>

\* What an execution may fail with: it is cancelled only if its token is.
Failures(t) == {error \in Failure : error = "cancelled" => cancelled[t]}

\* The target gives infer its result and infer_stream its stream.
Succeeds(t, target) ==
    /\ Attempted(t, target, "ok")
    /\ IF call[t] = "stream" THEN Proceed(t, "open") ELSE Return(t, "ok")
    /\ UNCHANGED selection

\* backend.infer, within run_with_timeout, or backend.infer_stream.
ExecuteLocal(t) ==
    /\ pc[t] = "backend"
    /\ Succeeds(t, "local") \/ \E error \in Failures(t) : LocalFails(t, error)
    /\ UNCHANGED <<jobVars, resident, load_permits, tally, calls>>

\* infer_remote, or provider.infer_stream: there is no way back.
ExecuteRemote(t) ==
    /\ pc[t] = "remote"
    /\ \/ Succeeds(t, "remote")
       \/ \E error \in Failures(t) :
             /\ Attempted(t, "remote", error)
             /\ Return(t, error)
             /\ UNCHANGED selection
    /\ UNCHANGED <<jobVars, resident, load_permits, tally, calls>>

\* The consumer takes the end of a stream or drops it.
Close(t) ==
    /\ pc[t] = "open"
    /\ Return(t, "ok")
    /\ UNCHANGED <<jobVars, selection, trail, resident, load_permits, tally, calls>>

\* Fault: the load permit outlives the future that was dropped.
DropCallKeepsLoadPermit(t) ==
    /\ pc[t] \in {"admit", "resolve", "load", "loading", "backend", "remote"}
    /\ Goto(t, "idle")
    /\ result' = [result EXCEPT ![t] = None]
    /\ inference_permits' = inference_permits \ {t}
    /\ tally' = IF call[t] = "infer" THEN [tally EXCEPT !["dropped"] = @ + 1] ELSE tally
    /\ UNCHANGED <<jobVars, selection, trail, resident, load_permits, metrics, calls>>

\* A future dropped at an await: its permits are guards, its counters are not.
DropCall(t) ==
    /\ pc[t] \in {"admit", "resolve", "load", "loading", "backend", "remote"}
    /\ Goto(t, "idle")
    /\ result' = [result EXCEPT ![t] = None]
    /\ inference_permits' = inference_permits \ {t}
    /\ load_permits' = load_permits \ {t}
    /\ tally' = IF call[t] = "infer" THEN [tally EXCEPT !["dropped"] = @ + 1] ELSE tally
    /\ UNCHANGED <<jobVars, selection, trail, resident, metrics, calls>>

Cancel(t) ==
    /\ pc[t] # "idle" /\ ~cancelled[t]
    /\ cancelled' = [cancelled EXCEPT ![t] = TRUE]
    /\ UNCHANGED <<pc, call, request, selection, trail, result, resident, semaphores, metrics,
                   tally, calls, allow_remote_fallback>>

\* No further call is made and every call has returned.
Finished ==
    /\ calls = MaxCalls
    /\ \A t \in Task : pc[t] = "idle"
    /\ UNCHANGED vars

-------------------------------------------------------------------------------
Init ==
    /\ pc = [t \in Task |-> "idle"]
    /\ call = [t \in Task |-> "infer"]
    /\ request = [t \in Task |-> CHOOSE r \in Requests[t] : TRUE]
    /\ selection = [t \in Task |-> NoSelection]
    /\ trail = [t \in Task |-> <<>>]
    /\ cancelled = [t \in Task |-> FALSE]
    /\ result = [t \in Task |-> None]
    /\ resident = {}
    /\ inference_permits = {}
    /\ load_permits = {}
    /\ metrics = [c \in Counter |-> 0]
    /\ tally = [k \in {"infer", "stream", "dropped"} |-> 0]
    /\ calls = 0
    /\ allow_remote_fallback \in BOOLEAN

\* What the runtime does for a call by itself.
Progress(t) ==
    \/ Start(t) \/ Admit(t) \/ NoticeCancel(t) \/ Resolve(t) \/ SelectTarget(t) \/ Lookup(t)
    \/ BeginLoad(t) \/ EndLoad(t) \/ Refind(t) \/ ExecuteLocal(t) \/ ExecuteRemote(t)

Next ==
    \/ \E t \in Task : Submit(t) \/ Progress(t) \/ Close(t) \/ DropCall(t) \/ Cancel(t)
    \/ Finished

Spec == Init /\ [][Next]_vars

\* Tokio polls a woken task again; backends, providers and the catalog answer
\* or run_with_timeout ends the wait; the semaphores are FIFO, so a task that
\* keeps finding permits gets one.
Scheduled ==
    \A t \in Task : WF_vars(Progress(t)) /\ SF_vars(Admit(t)) /\ SF_vars(BeginLoad(t))

\* Streams may stay open for ever.
FairSpec == Spec /\ Scheduled

-------------------------------------------------------------------------------
\* The tasks, their calls, the cache and the counters stay in range.
TypeOK ==
    /\ pc \in [Task -> {"idle", "start", "admit"} \cup Running]
    /\ call \in [Task -> {"infer", "stream", "chat"}]
    /\ request \in [Task -> Request]
    /\ selection \in [Task -> Selection]
    /\ trail \in [Task -> Seq({"local", "remote"} \X ({"ok"} \cup Failure))]
    /\ cancelled \in [Task -> BOOLEAN]
    /\ result \in [Task -> [status : {"none", "ok"} \cup Failure, selection : Selection]]
    /\ resident \subseteq Model
    /\ metrics \in [Counter -> Int]
    /\ tally \in [{"infer", "stream", "dropped"} -> Nat]
    /\ calls \in 0..MaxCalls
    /\ allow_remote_fallback \in BOOLEAN

\* The permits out are those of the admitted calls and of the loads, on every
\* way out of them, and never more than the limits: admission and loading are
\* bounded across infer and chat_stream together.
PermitsHeld ==
    /\ inference_permits = {t \in Task : pc[t] \in Running /\ call[t] # "stream"}
    /\ load_permits = {t \in Task : pc[t] = "loading"}
    /\ Cardinality(inference_permits) <= InferPermits
    /\ Cardinality(load_permits) <= LoadPermits

\* Whatever fails, times out, is evicted or falls back on the way: a request
\* that requires local execution, or says LocalOnly to a runtime that does not
\* allow remote fallback, never reaches the remote provider.
LocalStaysLocal ==
    \A t \in Task :
        LET r == request[t] IN
        r.require = "local" \/ (r.require = "none" /\ r.execution = "LocalOnly"
                                /\ ~allow_remote_fallback)
            => selection[t].provider # "remote" /\ \A i \in 1..Len(trail[t]) : trail[t][i][1] = "local"

\* docs/api.md: invalid input and request-contract errors never trigger
\* fallback.  Nor does a cancellation: after a local attempt the remote
\* provider is tried only if that attempt found its target unavailable.
ContractErrorsNeverFallBack ==
    \A t \in Task :
        pc[t] = "remote" \/ Len(trail[t]) = 2
            => (trail[t] # <<>> => trail[t][1] \in {<<"local", "unavailable">>}
                                   \/ trail[t][1][1] = "remote")

\* The target the policy of a request puts first.
FirstTarget(r) ==
    IF EffectivePolicy(r) \in {"LocalOnly"} \cup LocalFirst THEN "local" ELSE "remote"

\* An infer that has succeeded, and not been followed by another call.
Answered(t) == pc[t] = "idle" /\ call[t] = "infer" /\ result[t].status = "ok"

\* A result of infer names the target of the attempt that succeeded, whatever
\* was attempted, evicted or refused before.  It says that it fell back exactly
\* when the local target was put first and the remote one answered; so it does
\* whenever an attempt had failed.  The way back from a remote target that is
\* not available is none of these: see TransitionsRecorded.
FallbackRecorded ==
    \A t \in Task :
        LET chosen == result[t].selection IN
        Answered(t) =>
            /\ trail[t] # <<>> /\ trail[t][Len(trail[t])] = <<chosen.provider, "ok">>
            /\ chosen.fallback <=> chosen.provider = "remote" /\ FirstTarget(request[t]) = "local"
            /\ Len(trail[t]) > 1 => chosen.fallback

\* docs/architecture.md: every result records any fallback transition.  The
\* target that answers is not the one the policy puts first exactly when the
\* result says so.  select_for_request goes back from a remote target to the
\* local one without a word.
TransitionsRecorded ==
    \A t \in Task :
        Answered(t) => (result[t].selection.fallback
                           <=> result[t].selection.provider # FirstTarget(request[t]))

\* RuntimeMetrics as what was asked of the runtime.  Every request is an infer
\* or a stream.  An infer has ended under exactly one outcome and one target,
\* is in flight, or is a future that was dropped, which active_inferences never
\* forgets.  streaming_requests has every stream, and may have an infer with
\* the stream option that failed or was cancelled, and no other.
RequestsAccounted ==
    LET ended == metrics["successful_requests"] + metrics["failed_requests"]
                 + metrics["cancelled_requests"]
    IN  /\ metrics["total_requests"] = tally["infer"] + tally["stream"]
        /\ tally["infer"] = ended + metrics["active_inferences"]
        /\ metrics["active_inferences"]
              = Cardinality({t \in Task : pc[t] # "idle" /\ call[t] = "infer"}) + tally["dropped"]
        /\ metrics["local_executions"] + metrics["remote_executions"] = ended
        /\ tally["stream"] <= metrics["streaming_requests"]
        /\ metrics["streaming_requests"] <= tally["stream"] + metrics["failed_requests"]
                                            + metrics["cancelled_requests"]

\* If the consumers come to the end of their streams or drop them, every call
\* returns: the two semaphores, taken one inside the other, do not lock each
\* other up.
CallsReturn ==
    (\A t \in Task : WF_vars(Close(t))) => \A t \in Task : pc[t] # "idle" ~> pc[t] = "idle"

\* docs/architecture.md: the routing policy of a result is the one it was
\* executed under, so a remote result never says LocalOnly.
PolicyRecorded ==
    \A t \in Task :
        result[t].status = "ok" /\ result[t].selection.provider = "remote"
            => result[t].selection.policy # "LocalOnly"

\* crates/inference/src/lib.rs: the policy of a request determines where the
\* runtime attempts to execute it, so RemoteOnly is never executed locally.
RemoteStaysRemote ==
    \A t \in Task :
        request[t].execution = "RemoteOnly" /\ request[t].require = "none"
            => \A i \in 1..Len(trail[t]) : trail[t][i][1] = "remote"

\* crates/cli/src/main.rs: the status command prints how many calls are queued.
QueuedInferences ==
    IF metrics["queued_requests"] > metrics["active_inferences"]
    THEN metrics["queued_requests"] - metrics["active_inferences"] ELSE 0

QueueReported == QueuedInferences = Cardinality({t \in Task : pc[t] = "admit" /\ call[t] = "infer"})

\* crates/cli/src/main.rs: the metrics command prints the remote executions.
RemoteCounted == metrics["remote_executions"] > 0 => RemoteRegistered

\* docs/architecture.md: streams go through routing, lifecycle, scheduling, so
\* no more calls execute at a time than max_concurrent_inferences.
StreamsScheduled == Cardinality({t \in Task : pc[t] \in Executing}) <= InferPermits

===============================================================================
