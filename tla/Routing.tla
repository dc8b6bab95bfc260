-------------------------------- MODULE Routing --------------------------------
(***************************************************************************)
(* Where Runtime executes a typed request (crates/runtime/src/lib.rs):     *)
(* select_for_request, local_selection, remote_selection and can_fallback, *)
(* as operators of the request and of what the runtime has registered and  *)
(* loaded.  RuntimeConfig::selected_provider is "local", its default.      *)
(***************************************************************************)
CONSTANTS Model,                \* model identities
          Executable,           \* the models some registered backend can run
          RemoteRegistered      \* an available remote provider is registered

VARIABLE allow_remote_fallback  \* RuntimeConfig, fixed when the runtime is built

ASSUME RoutingAssumption ==
    /\ Executable \subseteq Model
    /\ RemoteRegistered \in BOOLEAN

LocalFirst == {"PreferLocal", "LocalThenRemote"}
RemoteFirst == {"PreferRemote", "RemoteThenLocal"}
ExecutionPolicy == {"LocalOnly", "RemoteOnly"} \cup LocalFirst \cup RemoteFirst

\* A request names its model by id or brings the whole ModelSpec, states a
\* policy, and may set require_local or require_remote; one with both is
\* refused by validate_request.  InferenceOptions::stream goes with it.
Request == [model : Model, reference : {"id", "spec"}, execution : ExecutionPolicy,
            require : {"none", "local", "remote"}, stream : BOOLEAN]

\* Fault: the configuration is looked at before what the request requires.
EffectivePolicyConfigFirst(r) ==
    IF allow_remote_fallback THEN "LocalThenRemote"
    ELSE IF r.require = "remote" THEN "RemoteOnly"
    ELSE IF r.require = "local" THEN "LocalOnly"
    ELSE r.execution

\* The policy select_for_request goes by: what the request requires, then the
\* fallback of the configuration, then the request's policy.
EffectivePolicy(r) ==
    IF r.require = "remote" THEN "RemoteOnly"
    ELSE IF r.require = "local" THEN "LocalOnly"
    ELSE IF allow_remote_fallback THEN "LocalThenRemote"
    ELSE r.execution

\* RuntimeSelection; the provider is "none" before there is one.
Selection == [provider : {"none", "local", "remote"}, policy : ExecutionPolicy, fallback : BOOLEAN]

NoSelection == [provider |-> "none", policy |-> "LocalOnly", fallback |-> FALSE]

\* local_selection: an id has to be loaded, a spec needs a backend for it.
LocalSelection(r, resident) ==
    IF (r.reference = "id" /\ r.model \in resident)
       \/ (r.reference = "spec" /\ r.model \in Executable)
    THEN [provider |-> "local", policy |-> EffectivePolicy(r), fallback |-> FALSE]
    ELSE NoSelection

\* Fault: a selection made as a fallback is not marked as one.
RemoteSelectionUnmarked(r, fallback) ==
    IF RemoteRegistered
    THEN [provider |-> "remote", policy |-> r.execution, fallback |-> FALSE]
    ELSE NoSelection

\* remote_selection: the policy it records is the request's, not the effective
\* one.
RemoteSelection(r, fallback) ==
    IF RemoteRegistered
    THEN [provider |-> "remote", fallback |-> fallback,
          policy |-> IF fallback /\ r.execution = "LocalOnly" THEN "LocalThenRemote"
                     ELSE r.execution]
    ELSE NoSelection

Preferring(first, second) == IF first # NoSelection THEN first ELSE second

\* select_for_request; NoSelection is its error.
Select(r, resident) ==
    LET policy == EffectivePolicy(r)
        local == LocalSelection(r, resident)
    IN  IF policy = "RemoteOnly" THEN RemoteSelection(r, FALSE)
        ELSE IF policy = "LocalOnly" THEN local
        ELSE IF policy \in LocalFirst THEN Preferring(local, RemoteSelection(r, TRUE))
        ELSE Preferring(RemoteSelection(r, FALSE), local)

\* How an execution ends.  "unavailable" stands for the kinds of error that
\* permit a fallback (provider, backend or model unavailable, not found,
\* capability mismatch, timeout, transport, protocol); "refused" for the
\* others: invalid requests, inputs and outputs, integrity, limits, execution.
Failure == {"unavailable", "refused", "cancelled"}

\* Fault: every error of a local execution permits a fallback.
CanFallbackAlways(r, selection, error) ==
    selection.policy \in LocalFirst /\ r.require # "local"

CanFallback(r, selection, error) ==
    /\ selection.policy \in LocalFirst
    /\ r.require # "local"
    /\ error = "unavailable"

\* resolve_catalog_reference_for_local: requests that may run locally have an
\* id that is not loaded looked up in the catalog.
LocalResolution(r) ==
    \/ r.require = "local"
    \/ r.require = "none" /\ r.execution \in {"LocalOnly"} \cup LocalFirst

================================================================================
