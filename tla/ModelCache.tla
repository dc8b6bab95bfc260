------------------------------ MODULE ModelCache ------------------------------
(***************************************************************************)
(* The loaded-model cache of ml_runtime::Runtime (crates/runtime/src/      *)
(* lib.rs) and the tasks that use it concurrently: Runtime::load,          *)
(* load_reference, resolve_loaded_model and find_loaded, and the part of   *)
(* infer_inner that looks at the cache.                                    *)
(*                                                                         *)
(* Every action is one stretch of code between two points at which another *)
(* task can run: an await, or the release of the cache's RwLock.  A caller *)
(* may drop a future while it is suspended.                                *)
(***************************************************************************)
EXTENDS Naturals, FiniteSets

CONSTANTS Task,         \* async tasks of the application
          Key,          \* ModelCacheKey: [id, version, backend]
          NoVersion,    \* Option::None of a version
          MaxModels,    \* RuntimeConfig::max_models
          LoadPermits,  \* RuntimeConfig::max_concurrent_model_loads
          MaxCalls      \* bound: calls the application makes in a behaviour

\* The builder clamps every limit with .max(1).
ASSUME LimitsAssumption ==
    /\ MaxModels \in Nat \ {0}
    /\ LoadPermits \in Nat \ {0}
    /\ MaxCalls \in Nat

ASSUME KeyAssumption == Key # {}

ASSUME TaskAssumption == IsFiniteSet(Task)

VARIABLES loaded_models,  \* keys of Runtime::loaded_models
          last_used,      \* LoadedModel::last_used of a loaded key, else 0
          cache_clock,    \* Runtime::cache_clock
          load_permits,   \* tasks that hold a permit of load_semaphore
          pc,             \* where each task is
          goal,           \* the model spec a task resolves or loads
          resolving,      \* resolve_loaded_model loads what it does not find
          handle,         \* the RuntimeModelHandle a task holds: {} or {key}
          result,         \* how the task's last call returned, if it did
          metrics,        \* RuntimeMetrics, the counters of the load path
          probed_misses,  \* history: the cache_misses infer_inner counted
          calls           \* calls made so far

cacheVars == <<loaded_models, last_used, cache_clock>>
taskVars == <<goal, resolving, handle>>
vars == <<loaded_models, last_used, cache_clock, load_permits, pc, goal,
          resolving, handle, result, metrics, probed_misses, calls>>

\* "probe": infer_inner is about to ask is_loaded; "find": about to enter
\* resolve_loaded_model; "check", "refind", "insert": about to take the cache
\* lock; "acquire": awaits load_semaphore; "recheck": has the permit, about to
\* look again; "loading": awaits backend.load.
Step == {"idle", "probe", "find", "check", "acquire", "recheck", "loading", "insert",
         "refind"}

\* The steps during which a task holds a load permit.
Admitted == {"recheck", "loading", "insert"}

\* The steps between the fetch_add and the fetch_sub of active_model_loads.
Counted == {"acquire", "recheck", "loading"}

\* "none" while a call runs and after it was dropped.
Outcome == {"none", "ok", "failed", "not_found"}

\* The predicate find_loaded scans the map with: the backend is not compared
\* and a reference without a version matches every version.
Matching(id, version) ==
    {k \in loaded_models : k.id = id /\ (version = NoVersion \/ k.version = version)}

Counter == {"cache_hits", "cache_misses", "active_model_loads", "model_loads",
            "model_load_failures", "evictions"}

Count(counter) == metrics' = [metrics EXCEPT ![counter] = @ + 1]

Goto(t, step) == pc' = [pc EXCEPT ![t] = step]

Return(t, outcome) ==
    /\ Goto(t, "idle")
    /\ result' = [result EXCEPT ![t] = outcome]

Release(t) == load_permits' = load_permits \ {t}

-------------------------------------------------------------------------------
\* loaded.last_used = cache_clock.fetch_add(1), under the write lock.
Refresh(k) ==
    /\ last_used' = [last_used EXCEPT ![k] = cache_clock]
    /\ cache_clock' = cache_clock + 1
    /\ UNCHANGED loaded_models

\* find_loaded: some matching entry, in the arbitrary order of a HashMap.
FindLoaded(t, id, version) ==
    \/ \E k \in Matching(id, version) :
          /\ Refresh(k)
          /\ Return(t, "ok")
    \/ /\ Matching(id, version) = {}
       /\ Return(t, "not_found")
       /\ UNCHANGED cacheVars

\* A call starts on an idle task.
Call(t) ==
    /\ pc[t] = "idle"
    /\ calls < MaxCalls
    /\ calls' = calls + 1

\* load_reference with a ModelReference::Id, and each of the two lookups that
\* infer_stream and infer_batch make for one.
CallFind(t) ==
    /\ Call(t)
    /\ \E k \in Key : \E v \in {k.version, NoVersion} : FindLoaded(t, k.id, v)
    /\ UNCHANGED <<load_permits, metrics, probed_misses, taskVars>>

\* infer_loaded, which is infer with the Id of the handle, up to its selection:
\* local_selection finds the model or the call fails.
UseHandle(t) ==
    /\ Call(t)
    /\ \E k \in handle[t] :
          /\ goal' = [goal EXCEPT ![t] = k]
          /\ resolving' = [resolving EXCEPT ![t] = FALSE]
          /\ \/ /\ \E j \in Matching(k.id, k.version) : Refresh(j)
                /\ Goto(t, "probe")
                /\ result' = [result EXCEPT ![t] = "none"]
             \/ /\ Matching(k.id, k.version) = {}
                /\ Return(t, "not_found")
                /\ UNCHANGED cacheVars
    /\ UNCHANGED <<load_permits, handle, metrics, probed_misses>>

\* A call for the Spec k, up to the first use of the cache: of load, of infer,
\* and of resolve_loaded_model in infer_stream and infer_batch.
CallWith(t, k, step, resolves) ==
    /\ Call(t)
    /\ Goto(t, step)
    /\ goal' = [goal EXCEPT ![t] = k]
    /\ resolving' = [resolving EXCEPT ![t] = resolves]
    /\ result' = [result EXCEPT ![t] = "none"]
    /\ UNCHANGED <<cacheVars, load_permits, handle, metrics, probed_misses>>

CallLoad(t, k) == CallWith(t, k, "check", FALSE)
CallInfer(t, k) == CallWith(t, k, "probe", TRUE)
CallResolve(t, k) == CallWith(t, k, "find", TRUE)

\* The hit or miss infer_inner counts, before it resolves the model: a miss that
\* leads to a load is counted by load once more.
Probe(t) ==
    /\ pc[t] = "probe"
    /\ IF Matching(goal[t].id, goal[t].version) # {}
       THEN Count("cache_hits") /\ UNCHANGED probed_misses
       ELSE Count("cache_misses") /\ probed_misses' = probed_misses + 1
    /\ Goto(t, "find")
    /\ UNCHANGED <<cacheVars, taskVars, load_permits, result, calls>>

\* resolve_loaded_model: a hit returns; a miss goes on to load, or fails when the
\* model was named by an Id.
Find(t) ==
    /\ pc[t] = "find"
    /\ \/ /\ resolving[t] => Matching(goal[t].id, goal[t].version) # {}
          /\ FindLoaded(t, goal[t].id, goal[t].version)
       \/ /\ resolving[t]
          /\ Matching(goal[t].id, goal[t].version) = {}
          /\ Goto(t, "check")
          /\ UNCHANGED <<cacheVars, result>>
    /\ UNCHANGED <<load_permits, metrics, probed_misses, taskVars, calls>>

\* How load returns a handle: to the application, or to resolve_loaded_model,
\* which looks the entry up again.
LoadReturns(t) ==
    IF resolving[t]
    THEN Goto(t, "refind") /\ UNCHANGED <<handle, result>>
    ELSE Return(t, "ok") /\ handle' = [handle EXCEPT ![t] = {goal[t]}]

\* The lookup under the read lock; a hit does not refresh last_used.  Before
\* it, load refuses a remote-only configuration and select_backend may find no
\* backend: both return without touching the shared state.
ReadCache(t) ==
    /\ pc[t] = "check"
    /\ \/ /\ goal[t] \in loaded_models
          /\ Count("cache_hits")
          /\ LoadReturns(t)
       \/ /\ goal[t] \notin loaded_models
          /\ metrics' = [metrics EXCEPT !["cache_misses"] = @ + 1, !["active_model_loads"] = @ + 1]
          /\ Goto(t, "acquire")
          /\ UNCHANGED <<handle, result>>
       \/ /\ Return(t, "failed")
          /\ UNCHANGED <<metrics, handle>>
    /\ UNCHANGED <<cacheVars, load_permits, goal, resolving, probed_misses, calls>>

AcquireLoadPermit(t) ==
    /\ pc[t] = "acquire"
    /\ Cardinality(load_permits) < LoadPermits
    /\ load_permits' = load_permits \cup {t}
    /\ Goto(t, "recheck")
    /\ UNCHANGED <<cacheVars, taskVars, result, metrics, probed_misses, calls>>

\* Fault: no second lookup once the permit is granted.
RecheckCacheBlind(t) ==
    /\ pc[t] = "recheck"
    /\ Goto(t, "loading")
    /\ UNCHANGED <<cacheVars, load_permits, taskVars, result, metrics, probed_misses, calls>>

\* The second lookup.  Its early return leaves active_model_loads raised.
RecheckCache(t) ==
    /\ pc[t] = "recheck"
    /\ \/ /\ goal[t] \in loaded_models
          /\ Count("cache_hits")
          /\ Release(t)
          /\ LoadReturns(t)
       \/ /\ goal[t] \notin loaded_models
          /\ Goto(t, "loading")
          /\ UNCHANGED <<load_permits, handle, result, metrics>>
    /\ UNCHANGED <<cacheVars, goal, resolving, probed_misses, calls>>

\* Fault: a failed load is not counted.
BackendLoadsUncounted(t) ==
    /\ pc[t] = "loading"
    /\ metrics' = [metrics EXCEPT !["active_model_loads"] = @ - 1]
    /\ \/ Goto(t, "insert") /\ UNCHANGED <<load_permits, result>>
       \/ Release(t) /\ Return(t, "failed")
    /\ UNCHANGED <<cacheVars, taskVars, probed_misses, calls>>

\* backend.load ends: a handle, or an error or the load timeout.
BackendLoads(t) ==
    /\ pc[t] = "loading"
    /\ \/ /\ metrics' = [metrics EXCEPT !["active_model_loads"] = @ - 1]
          /\ Goto(t, "insert")
          /\ UNCHANGED <<load_permits, result>>
       \/ /\ metrics' = [metrics EXCEPT !["model_load_failures"] = @ + 1,
                                       !["active_model_loads"] = @ - 1]
          /\ Release(t)
          /\ Return(t, "failed")
    /\ UNCHANGED <<cacheVars, taskVars, probed_misses, calls>>

\* Fault: max_by_key for min_by_key.
Newest == {k \in loaded_models : \A j \in loaded_models : last_used[k] >= last_used[j]}

\* cache.iter().min_by_key(last_used): the entries eviction may pick.
Oldest == {k \in loaded_models : \A j \in loaded_models : last_used[k] <= last_used[j]}

\* Fault: the bound is compared with > instead of >=.
OverCapacity(S) == Cardinality(S) > MaxModels

AtCapacity(S) == Cardinality(S) >= MaxModels

\* What a full cache gives up, whether or not the new key is in it already.
Victims ==
    IF AtCapacity(loaded_models) THEN {{k} : k \in Oldest} ELSE {{}}

\* The write-locked tail of load: evict, count, stamp, insert.
InsertModel(t) ==
    /\ pc[t] = "insert"
    /\ \E evicted \in Victims :
          /\ loaded_models' = (loaded_models \ evicted) \cup {goal[t]}
          /\ last_used' = [k \in Key |-> IF k = goal[t] THEN cache_clock
                                         ELSE IF k \in evicted THEN 0 ELSE last_used[k]]
          /\ metrics' = [metrics EXCEPT !["model_loads"] = @ + 1,
                                       !["evictions"] = @ + Cardinality(evicted)]
    /\ cache_clock' = cache_clock + 1
    /\ Release(t)
    /\ LoadReturns(t)
    /\ UNCHANGED <<goal, resolving, probed_misses, calls>>

\* resolve_loaded_model's second find_loaded, after load returned.
Refind(t) ==
    /\ pc[t] = "refind"
    /\ FindLoaded(t, goal[t].id, goal[t].version)
    /\ UNCHANGED <<load_permits, taskVars, metrics, probed_misses, calls>>

\* Fault: the permit is not released with the dropped future.
DropCallKeepsPermit(t) ==
    /\ pc[t] \in {"acquire", "loading"}
    /\ Return(t, "none")
    /\ UNCHANGED <<cacheVars, taskVars, load_permits, metrics, probed_misses, calls>>

\* The caller drops the future at one of load's awaits: the permit is a guard
\* and is released, the counters are not touched.
DropCall(t) ==
    /\ pc[t] \in {"acquire", "loading"}
    /\ Release(t)
    /\ Return(t, "none")
    /\ UNCHANGED <<cacheVars, taskVars, metrics, probed_misses, calls>>

\* The application makes no further call and every call has returned.
Finished ==
    /\ calls = MaxCalls
    /\ \A t \in Task : pc[t] = "idle"
    /\ UNCHANGED vars

-------------------------------------------------------------------------------
Init ==
    /\ loaded_models = {}
    /\ last_used = [k \in Key |-> 0]
    /\ cache_clock = 0
    /\ load_permits = {}
    /\ pc = [t \in Task |-> "idle"]
    /\ goal = [t \in Task |-> CHOOSE k \in Key : TRUE]
    /\ resolving = [t \in Task |-> FALSE]
    /\ handle = [t \in Task |-> {}]
    /\ result = [t \in Task |-> "none"]
    /\ metrics = [c \in Counter |-> 0]
    /\ probed_misses = 0
    /\ calls = 0

\* What a task does by itself once a call has started.
Progress(t) ==
    \/ Probe(t)
    \/ Find(t)
    \/ ReadCache(t)
    \/ AcquireLoadPermit(t)
    \/ RecheckCache(t)
    \/ BackendLoads(t)
    \/ InsertModel(t)
    \/ Refind(t)

Next ==
    \/ \E t \in Task :
          \/ CallFind(t)
          \/ UseHandle(t)
          \/ \E k \in Key : CallLoad(t, k) \/ CallInfer(t, k) \/ CallResolve(t, k)
          \/ Progress(t)
          \/ DropCall(t)
    \/ Finished

Spec == Init /\ [][Next]_vars

\* Tokio polls a woken task again, backend.load ends (the run_with_timeout
\* around it when timeout_ms is set, the backend otherwise), and the
\* semaphore is FIFO: a waiter that keeps finding permits gets one.
Fairness ==
    \A t \in Task :
        /\ WF_vars(Progress(t))
        /\ SF_vars(AcquireLoadPermit(t))

FairSpec == Spec /\ Fairness

-------------------------------------------------------------------------------
\* The map, the clock, the permits, the tasks and the counters stay in range.
TypeOK ==
    /\ loaded_models \in SUBSET Key
    /\ last_used \in [Key -> Nat]
    /\ cache_clock \in Nat
    /\ load_permits \in SUBSET Task
    /\ pc \in [Task -> Step]
    /\ goal \in [Task -> Key]
    /\ resolving \in [Task -> BOOLEAN]
    /\ handle \in [Task -> SUBSET Key]
    /\ result \in [Task -> Outcome]
    /\ metrics \in [Counter -> Nat]
    /\ probed_misses \in Nat
    /\ calls \in Nat

\* The permits out are those of the tasks between the acquisition and the end
\* of load, on every path out of it, and never more than the limit.
PermitsHeld ==
    /\ load_permits = {t \in Task : pc[t] \in Admitted}
    /\ Cardinality(load_permits) <= LoadPermits

\* active_model_loads is an AtomicUsize taken up at the miss and down after
\* backend.load: the fetch_sub never finds it at zero.
GaugeNeverUnderflows ==
    Cardinality({t \in Task : pc[t] \in Counted}) <= metrics["active_model_loads"]

\* The cache never holds more than max_models entries, however many loads end
\* at once: the length check, the eviction and the insertion of load are one
\* critical section.
CacheBounded == Cardinality(loaded_models) <= MaxModels

\* No two entries carry the same stamp and none is from the future, so "the
\* oldest entry" is one entry and the eviction of load is deterministic.
DistinctStamps ==
    \A k \in loaded_models :
        /\ last_used[k] < cache_clock
        /\ \A j \in loaded_models : last_used[j] = last_used[k] => j = k

\* With one load permit, the default, nobody starts or finishes a load of a
\* model that is already in the cache: the second lookup of load makes a
\* concurrent second load of the same model impossible.
SingleFlight ==
    LoadPermits = 1 =>
        \A t \in Task : pc[t] \in {"loading", "insert"} => goal[t] \notin loaded_models

\* With one load permit every completed load is an entry or an eviction: no
\* insertion overwrites an entry and no eviction is made for nothing.
LoadsAccounted ==
    LoadPermits = 1 =>
        metrics["model_loads"] = Cardinality(loaded_models) + metrics["evictions"]

\* Every miss of load is a load that failed, completed or is about to be
\* inserted, or it is in the gauge active_model_loads, which keeps the calls
\* whose second lookup hit and the dropped ones for ever.  The counter has the
\* misses of infer_inner's own look at the cache on top: an infer that loads
\* its model counts two.
MissesAccounted ==
    metrics["cache_misses"] = probed_misses
                           + metrics["active_model_loads"] + metrics["model_load_failures"]
                           + metrics["model_loads"]
                           + Cardinality({t \in Task : pc[t] = "insert"})

\* The recency order the stamps encode.
StampOrder == {p \in loaded_models \X loaded_models : last_used[p[1]] < last_used[p[2]]}

Lru == INSTANCE LruCache WITH Full <- AtCapacity, resident <- loaded_models,
                              older <- StampOrder

\* The map, the stamps and the clock implement the bounded cache with
\* least-recently-used eviction.
LruSpec == Lru!Spec

\* A call that started returns: no interleaving of loads leaves one of them
\* waiting for a permit for ever.
CallsReturn == \A t \in Task : pc[t] # "idle" ~> pc[t] = "idle"

\* docs/api.md: load followed by infer_loaded is an explicit lifecycle that
\* does not require the application to manipulate the cache: neither of the two
\* lookups of infer_loaded comes back without the model.
HandleStaysExecutable ==
    [][\A t \in Task :
          /\ UseHandle(t) => pc'[t] = "probe"
          /\ Find(t) /\ ~resolving[t] => result'[t] = "ok"]_vars

\* lib.rs, infer_loaded: "Executes against a previously loaded handle".  What
\* it finds, and stamps, is no other model.
HandleNamesItsModel ==
    [][\A t \in Task : Find(t) /\ ~resolving[t]
          => \A k \in loaded_models \ {goal[t]} : last_used'[k] = last_used[k]]_vars

\* docs/api.md: infer loads on demand, so a request whose model was just
\* loaded for it does not fail with ModelNotFound.
LoadOnDemandFinds ==
    [][\A t \in Task : Refind(t) => result'[t] = "ok"]_vars

===============================================================================
