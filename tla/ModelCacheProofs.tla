-------------------------- MODULE ModelCacheProofs --------------------------
(***************************************************************************)
(* The invariants of ModelCache and its refinement of LruCache, for every  *)
(* set of tasks and keys and every value of the limits.                    *)
(***************************************************************************)
EXTENDS ModelCache, FiniteSetTheorems, TLAPS

\* The tasks whose program counter is in S.
At(S) == {u \in Task : pc[u] \in S}

\* A task that moves to another step joins or leaves a set of steps: how the
\* number of tasks in that set changes.
LEMMA MoveCount ==
    ASSUME pc \in [Task -> Step], NEW t \in Task, NEW s, NEW S, Goto(t, s)
    PROVE  /\ IsFiniteSet(At(S)) /\ Cardinality(At(S)) \in Nat
           /\ IsFiniteSet(At(S)') /\ Cardinality(At(S)') \in Nat
           /\ At(S)' = IF s \in S THEN At(S) \cup {t} ELSE At(S) \ {t}
           /\ Cardinality(At(S)') =
                 IF s \in S THEN IF pc[t] \in S THEN Cardinality(At(S))
                                                ELSE Cardinality(At(S)) + 1
                            ELSE IF pc[t] \in S THEN Cardinality(At(S)) - 1
                                                ELSE Cardinality(At(S))
<1>1. IsFiniteSet(At(S)) /\ IsFiniteSet(At(S)')
  <2>1. At(S) \in SUBSET Task /\ At(S)' \in SUBSET Task
    BY DEF At
  <2>2. QED BY <2>1, FS_Subset, TaskAssumption
<1>2. Cardinality(At(S)) \in Nat /\ Cardinality(At(S)') \in Nat
  BY <1>1, FS_CardinalityType
<1>3. At(S)' = IF s \in S THEN At(S) \cup {t} ELSE At(S) \ {t}
  BY DEF At, Goto
<1>4. t \in At(S) <=> pc[t] \in S
  BY DEF At
<1>5. CASE s \in S
  BY <1>1, <1>2, <1>3, <1>4, <1>5, FS_AddElement
<1>6. CASE s \notin S
  BY <1>1, <1>2, <1>3, <1>4, <1>6, FS_RemoveElement
<1>7. QED BY <1>1, <1>2, <1>3, <1>5, <1>6

\* Types, permits and the gauge: inductive together, since the type of the
\* gauge needs the tasks it counts.
Base == TypeOK /\ PermitsHeld /\ GaugeNeverUnderflows

LEMMA InitBase == Init => Base
<1> SUFFICES ASSUME Init PROVE Base
  OBVIOUS
<1> USE LimitsAssumption, KeyAssumption, TaskAssumption
<1>1. TypeOK
  BY DEF Init, TypeOK, Step, Outcome
<1>2. PermitsHeld
  <2>1. load_permits = {} /\ {t \in Task : pc[t] \in Admitted} = {}
    BY DEF Init, Admitted
  <2>2. QED BY <2>1, FS_EmptySet DEF PermitsHeld
<1>3. GaugeNeverUnderflows
  <2>1. {t \in Task : pc[t] \in Counted} = {} /\ metrics["active_model_loads"] = 0
    BY DEF Init, Counted, Counter
  <2>2. QED BY <2>1, FS_EmptySet DEF GaugeNeverUnderflows
<1>4. QED BY <1>1, <1>2, <1>3 DEF Base

\* The type of everything but the gauge survives every step; the gauge is what
\* it was, one more, or one less at the end of backend.load.
LEMMA FindLoadedType ==
    ASSUME TypeOK, NEW t \in Task, NEW id, NEW version, FindLoaded(t, id, version)
    PROVE  /\ loaded_models' = loaded_models
           /\ last_used' \in [Key -> Nat] /\ cache_clock' \in Nat
           /\ Goto(t, "idle") /\ pc' \in [Task -> Step]
           /\ result' \in [Task -> Outcome]
<1> USE DEF TypeOK, Step
<1>1. CASE \E k \in Matching(id, version) : Refresh(k) /\ Return(t, "ok")
  <2> PICK k \in Matching(id, version) : Refresh(k) /\ Return(t, "ok")
    BY <1>1
  <2>1. k \in loaded_models /\ k \in Key
    BY DEF Matching
  <2>2. QED BY <2>1 DEF Refresh, Return, Goto, Outcome
<1>2. CASE UNCHANGED cacheVars /\ Return(t, "not_found")
  BY <1>2 DEF cacheVars, Return, Goto, Outcome
<1>3. QED BY <1>1, <1>2 DEF FindLoaded

LEMMA LoadReturnsType ==
    ASSUME TypeOK, NEW t \in Task, LoadReturns(t)
    PROVE  /\ pc' \in [Task -> Step]
           /\ Goto(t, "idle") \/ Goto(t, "refind")
           /\ handle' \in [Task -> SUBSET Key]
           /\ result' \in [Task -> Outcome]
<1>1. goal[t] \in Key
  BY DEF TypeOK
<1>2. CASE resolving[t]
  BY <1>2 DEF TypeOK, LoadReturns, Goto, Step
<1>3. CASE ~resolving[t]
  BY <1>1, <1>3 DEF TypeOK, LoadReturns, Return, Goto, Step, Outcome
<1>4. QED BY <1>2, <1>3

\* The permits follow the task that moves: it joins the holders only when there
\* is a permit left.
LEMMA PermitStep ==
    ASSUME Base, NEW t \in Task, NEW s \in Step, Goto(t, s),
           load_permits' = IF s \in Admitted THEN load_permits \cup {t}
                                             ELSE load_permits \ {t},
           s \in Admitted /\ pc[t] \notin Admitted => Cardinality(load_permits) < LoadPermits
    PROVE  PermitsHeld'
<1>1. pc \in [Task -> Step] /\ LoadPermits \in Nat
  BY LimitsAssumption DEF Base, TypeOK
<1>2. load_permits = At(Admitted) /\ Cardinality(load_permits) <= LoadPermits
  BY DEF Base, PermitsHeld, At
<1>3. load_permits' = At(Admitted)'
  BY <1>1, <1>2, MoveCount
<1>4. Cardinality(load_permits)' <= LoadPermits
  <2>1. /\ Cardinality(At(Admitted)) \in Nat /\ Cardinality(At(Admitted)') \in Nat
        /\ \/ Cardinality(At(Admitted)') = Cardinality(At(Admitted))
           \/ Cardinality(At(Admitted)') = Cardinality(At(Admitted)) - 1
           \/ /\ s \in Admitted /\ pc[t] \notin Admitted
              /\ Cardinality(At(Admitted)') = Cardinality(At(Admitted)) + 1
    BY <1>1, MoveCount
  <2>2. QED BY <1>1, <1>2, <1>3, <2>1
<1>5. QED BY <1>3, <1>4 DEF PermitsHeld, At

\* The gauge follows too: it is raised with the entry into the counted steps,
\* lowered only with an exit from them, and an exit may leave it alone.
LEMMA GaugeStep ==
    ASSUME Base, NEW t \in Task, NEW s \in Step, Goto(t, s),
           \/ /\ metrics'["active_model_loads"] = metrics["active_model_loads"]
              /\ s \in Counted => pc[t] \in Counted
           \/ metrics'["active_model_loads"] = metrics["active_model_loads"] + 1
           \/ /\ metrics'["active_model_loads"] = metrics["active_model_loads"] - 1
              /\ pc[t] \in Counted /\ s \notin Counted
    PROVE  metrics'["active_model_loads"] \in Nat /\ GaugeNeverUnderflows'
<1>1. pc \in [Task -> Step] /\ metrics["active_model_loads"] \in Nat
  BY DEF Base, TypeOK, Counter
<1>2. Cardinality(At(Counted)) <= metrics["active_model_loads"]
  BY DEF Base, GaugeNeverUnderflows, At
<1>3. /\ Cardinality(At(Counted)) \in Nat /\ Cardinality(At(Counted)') \in Nat
      /\ \/ Cardinality(At(Counted)') = Cardinality(At(Counted)) + 1
            /\ s \in Counted /\ pc[t] \notin Counted
         \/ Cardinality(At(Counted)') = Cardinality(At(Counted))
            /\ (s \in Counted <=> pc[t] \in Counted)
         \/ Cardinality(At(Counted)') = Cardinality(At(Counted)) - 1
            /\ s \notin Counted /\ pc[t] \in Counted
  BY <1>1, MoveCount
<1>4. /\ metrics'["active_model_loads"] \in Nat
      /\ Cardinality(At(Counted)') <= metrics'["active_model_loads"]
  BY <1>1, <1>2, <1>3
<1>5. QED BY <1>4 DEF GaugeNeverUnderflows, At

LEMMA NextBase == Base /\ [Next]_vars => Base'
<1> SUFFICES ASSUME Base, [Next]_vars PROVE Base'
  OBVIOUS
<1> USE DEF Base
<1>t. TypeOK
  OBVIOUS
<1>1. ASSUME NEW t \in Task, CallFind(t) PROVE Base'
  <2>1. PICK id, version : FindLoaded(t, id, version)
    BY <1>1 DEF CallFind
  <2>2. /\ pc[t] = "idle" /\ calls' = calls + 1
        /\ UNCHANGED <<load_permits, metrics, probed_misses, goal, resolving, handle>>
    BY <1>1 DEF CallFind, Call, taskVars
  <2>3. TypeOK' /\ Goto(t, "idle")
    BY <1>t, <2>1, <2>2, FindLoadedType DEF TypeOK
  <2>4. t \notin load_permits
    BY <2>2 DEF PermitsHeld, Admitted
  <2>5. PermitsHeld'
    BY <2>2, <2>3, <2>4, PermitStep DEF Step, Admitted
  <2>6. GaugeNeverUnderflows'
    BY <2>2, <2>3, GaugeStep DEF Step, Counted
  <2>7. QED BY <2>3, <2>5, <2>6
<1>2. ASSUME NEW t \in Task, UseHandle(t) PROVE Base'
  <2>1. PICK k \in handle[t] :
          /\ goal' = [goal EXCEPT ![t] = k]
          /\ resolving' = [resolving EXCEPT ![t] = FALSE]
          /\ \/ /\ \E j \in Matching(k.id, k.version) : Refresh(j)
                /\ Goto(t, "probe")
                /\ result' = [result EXCEPT ![t] = "none"]
             \/ /\ Return(t, "not_found")
                /\ UNCHANGED cacheVars
    BY <1>2 DEF UseHandle
  <2>2. /\ pc[t] = "idle" /\ calls' = calls + 1
        /\ UNCHANGED <<load_permits, handle, metrics, probed_misses>>
    BY <1>2 DEF UseHandle, Call
  <2>3. k \in Key /\ goal' \in [Task -> Key] /\ resolving' \in [Task -> BOOLEAN]
    BY <1>t, <2>1 DEF TypeOK
  <2>4. (Goto(t, "probe") \/ Goto(t, "idle")) /\ TypeOK'
    <3>1. CASE /\ \E j \in Matching(k.id, k.version) : Refresh(j)
               /\ Goto(t, "probe") /\ result' = [result EXCEPT ![t] = "none"]
      BY <1>t, <2>2, <2>3, <3>1 DEF TypeOK, Matching, Refresh, Goto, Step, Outcome
    <3>2. CASE Return(t, "not_found") /\ UNCHANGED cacheVars
      BY <1>t, <2>2, <2>3, <3>2 DEF TypeOK, cacheVars, Return, Goto, Step, Outcome
    <3>3. QED BY <2>1, <3>1, <3>2
  <2>5. t \notin load_permits
    BY <2>2 DEF PermitsHeld, Admitted
  <2>6. PermitsHeld'
    BY <2>2, <2>4, <2>5, PermitStep DEF Step, Admitted
  <2>7. GaugeNeverUnderflows'
    BY <2>2, <2>4, GaugeStep DEF Step, Counted
  <2>8. QED BY <2>4, <2>6, <2>7
<1>3. ASSUME NEW t \in Task, NEW k \in Key,
             CallLoad(t, k) \/ CallInfer(t, k) \/ CallResolve(t, k)
      PROVE  Base'
  <2>1. PICK step \in {"check", "probe", "find"}, resolves \in BOOLEAN :
           CallWith(t, k, step, resolves)
    BY <1>3 DEF CallLoad, CallInfer, CallResolve
  <2>2. /\ pc[t] = "idle" /\ Goto(t, step)
        /\ UNCHANGED <<load_permits, metrics>>
    BY <2>1 DEF CallWith, Call
  <2>3. TypeOK'
    BY <1>t, <2>1 DEF TypeOK, CallWith, Call, Goto, Step, Outcome, cacheVars
  <2>4. t \notin load_permits
    BY <2>2 DEF PermitsHeld, Admitted
  <2>5. PermitsHeld'
    BY <2>2, <2>4, PermitStep DEF Step, Admitted
  <2>6. GaugeNeverUnderflows'
    BY <2>2, GaugeStep DEF Step, Counted
  <2>7. QED BY <2>3, <2>5, <2>6
<1>p. ASSUME NEW t \in Task, Probe(t) PROVE Base'
  <2>1. /\ pc[t] = "probe" /\ Goto(t, "find")
        /\ UNCHANGED <<cacheVars, taskVars, load_permits, result, calls>>
        /\ \/ Count("cache_hits") /\ UNCHANGED probed_misses
           \/ Count("cache_misses") /\ probed_misses' = probed_misses + 1
    BY <1>p DEF Probe
  <2>2. TypeOK' /\ metrics'["active_model_loads"] = metrics["active_model_loads"]
    BY <1>t, <2>1 DEF TypeOK, cacheVars, taskVars, Count, Counter, Goto, Step
  <2>3. t \notin load_permits
    BY <2>1 DEF PermitsHeld, Admitted
  <2>4. PermitsHeld'
    BY <2>1, <2>3, PermitStep DEF Step, Admitted
  <2>5. GaugeNeverUnderflows'
    BY <2>1, <2>2, GaugeStep DEF Step, Counted
  <2>6. QED BY <2>2, <2>4, <2>5
<1>f. ASSUME NEW t \in Task, Find(t) PROVE Base'
  <2>1. /\ pc[t] = "find"
        /\ UNCHANGED <<load_permits, metrics, probed_misses, goal, resolving, handle, calls>>
        /\ \/ FindLoaded(t, goal[t].id, goal[t].version)
           \/ Goto(t, "check") /\ UNCHANGED <<cacheVars, result>>
    BY <1>f DEF Find, taskVars
  <2>2. TypeOK' /\ (Goto(t, "idle") \/ Goto(t, "check"))
    <3>1. CASE FindLoaded(t, goal[t].id, goal[t].version)
      BY <1>t, <2>1, <3>1, FindLoadedType DEF TypeOK
    <3>2. CASE Goto(t, "check") /\ UNCHANGED <<cacheVars, result>>
      BY <1>t, <2>1, <3>2 DEF TypeOK, cacheVars, Goto, Step
    <3>3. QED BY <2>1, <3>1, <3>2
  <2>3. t \notin load_permits
    BY <2>1 DEF PermitsHeld, Admitted
  <2>4. PermitsHeld'
    BY <2>1, <2>2, <2>3, PermitStep DEF Step, Admitted
  <2>5. GaugeNeverUnderflows'
    BY <2>1, <2>2, GaugeStep DEF Step, Counted
  <2>6. QED BY <2>2, <2>4, <2>5
<1>4. ASSUME NEW t \in Task, ReadCache(t) PROVE Base'
  <2>1. pc[t] = "check" /\ UNCHANGED <<cacheVars, load_permits, goal, resolving, probed_misses, calls>>
    BY <1>4 DEF ReadCache
  <2>2. t \notin load_permits
    BY <2>1 DEF PermitsHeld, Admitted
  <2>3. CASE Count("cache_hits") /\ LoadReturns(t)
    <3>1. TypeOK' /\ (Goto(t, "idle") \/ Goto(t, "refind"))
      BY <1>t, <2>1, <2>3, LoadReturnsType DEF TypeOK, Count, Counter, cacheVars
    <3>2. metrics'["active_model_loads"] = metrics["active_model_loads"]
      BY <1>t, <2>3 DEF TypeOK, Count, Counter
    <3>3. PermitsHeld'
      BY <2>1, <2>2, <3>1, PermitStep DEF Step, Admitted
    <3>4. GaugeNeverUnderflows'
      BY <2>1, <3>1, <3>2, GaugeStep DEF Step, Counted
    <3>5. QED BY <3>1, <3>3, <3>4
  <2>4. CASE /\ metrics' = [metrics EXCEPT !["cache_misses"] = @ + 1,
                                       !["active_model_loads"] = @ + 1]
             /\ Goto(t, "acquire") /\ UNCHANGED <<handle, result>>
    <3>1. TypeOK'
      BY <1>t, <2>1, <2>4 DEF TypeOK, Count, Counter, cacheVars, Goto, Step
    <3>2. metrics'["active_model_loads"] = metrics["active_model_loads"] + 1
      BY <1>t, <2>4 DEF TypeOK, Count, Counter
    <3>3. PermitsHeld'
      BY <2>1, <2>2, <2>4, PermitStep DEF Step, Admitted
    <3>4. GaugeNeverUnderflows'
      BY <2>4, <3>2, GaugeStep DEF Step
    <3>5. QED BY <3>1, <3>3, <3>4
  <2>5. CASE Return(t, "failed") /\ UNCHANGED <<metrics, handle>>
    <3>1. TypeOK' /\ Goto(t, "idle")
      BY <1>t, <2>1, <2>5 DEF TypeOK, cacheVars, Return, Goto, Step, Outcome
    <3>2. PermitsHeld'
      BY <2>1, <2>2, <3>1, PermitStep DEF Step, Admitted
    <3>3. GaugeNeverUnderflows'
      BY <2>1, <2>5, <3>1, GaugeStep DEF Step, Counted
    <3>4. QED BY <3>1, <3>2, <3>3
  <2>6. QED BY <1>4, <2>3, <2>4, <2>5 DEF ReadCache
<1>5. ASSUME NEW t \in Task, AcquireLoadPermit(t) PROVE Base'
  <2>1. /\ pc[t] = "acquire" /\ Goto(t, "recheck")
        /\ Cardinality(load_permits) < LoadPermits
        /\ load_permits' = load_permits \cup {t}
        /\ UNCHANGED <<cacheVars, taskVars, result, metrics, probed_misses, calls>>
    BY <1>5 DEF AcquireLoadPermit
  <2>2. TypeOK'
    BY <1>t, <2>1 DEF TypeOK, cacheVars, taskVars, Goto, Step
  <2>3. PermitsHeld'
    BY <2>1, PermitStep DEF Step, Admitted
  <2>4. GaugeNeverUnderflows'
    BY <2>1, GaugeStep DEF Step, Counted
  <2>5. QED BY <2>2, <2>3, <2>4
<1>6. ASSUME NEW t \in Task, RecheckCache(t) PROVE Base'
  <2>1. pc[t] = "recheck" /\ UNCHANGED <<cacheVars, goal, resolving, probed_misses, calls>>
    BY <1>6 DEF RecheckCache
  <2>2. t \in load_permits
    BY <2>1 DEF PermitsHeld, Admitted
  <2>3. CASE Count("cache_hits") /\ Release(t) /\ LoadReturns(t)
    <3>1. TypeOK' /\ (Goto(t, "idle") \/ Goto(t, "refind"))
      BY <1>t, <2>1, <2>3, LoadReturnsType DEF TypeOK, Count, Counter, cacheVars, Release
    <3>2. metrics'["active_model_loads"] = metrics["active_model_loads"]
      BY <1>t, <2>3 DEF TypeOK, Count, Counter
    <3>3. PermitsHeld'
      BY <2>1, <2>3, <3>1, PermitStep DEF Step, Admitted, Release
    <3>4. GaugeNeverUnderflows'
      BY <2>1, <3>1, <3>2, GaugeStep DEF Step, Counted
    <3>5. QED BY <3>1, <3>3, <3>4
  <2>4. CASE Goto(t, "loading") /\ UNCHANGED <<load_permits, handle, result, metrics>>
    <3>1. TypeOK'
      BY <1>t, <2>1, <2>4 DEF TypeOK, cacheVars, Goto, Step
    <3>2. PermitsHeld'
      BY <2>1, <2>2, <2>4, PermitStep DEF Step, Admitted
    <3>3. GaugeNeverUnderflows'
      BY <2>1, <2>4, GaugeStep DEF Step, Counted
    <3>4. QED BY <3>1, <3>2, <3>3
  <2>5. QED BY <1>6, <2>3, <2>4 DEF RecheckCache
<1>7. ASSUME NEW t \in Task, BackendLoads(t) PROVE Base'
  <2>1. pc[t] = "loading" /\ UNCHANGED <<cacheVars, taskVars, probed_misses, calls>>
    BY <1>7 DEF BackendLoads
  <2>2. t \in load_permits
    BY <2>1 DEF PermitsHeld, Admitted
  <2>3. CASE /\ metrics' = [metrics EXCEPT !["active_model_loads"] = @ - 1]
             /\ Goto(t, "insert") /\ UNCHANGED <<load_permits, result>>
    <3>1. metrics'["active_model_loads"] = metrics["active_model_loads"] - 1
      BY <1>t, <2>3 DEF TypeOK, Counter
    <3>2. metrics'["active_model_loads"] \in Nat /\ GaugeNeverUnderflows'
      BY <2>1, <2>3, <3>1, GaugeStep DEF Step, Counted
    <3>3. TypeOK'
      BY <1>t, <2>1, <2>3, <3>1, <3>2 DEF TypeOK, cacheVars, taskVars, Goto, Step
    <3>4. PermitsHeld'
      BY <2>1, <2>2, <2>3, PermitStep DEF Step, Admitted
    <3>5. QED BY <3>2, <3>3, <3>4
  <2>4. CASE /\ metrics' = [metrics EXCEPT !["model_load_failures"] = @ + 1,
                                       !["active_model_loads"] = @ - 1]
             /\ Release(t) /\ Return(t, "failed")
    <3>1. metrics'["active_model_loads"] = metrics["active_model_loads"] - 1
      BY <1>t, <2>4 DEF TypeOK, Count, Counter
    <3>2. Goto(t, "idle")
      BY <2>4 DEF Return
    <3>3. metrics'["active_model_loads"] \in Nat /\ GaugeNeverUnderflows'
      BY <2>1, <3>1, <3>2, GaugeStep DEF Step, Counted
    <3>4. TypeOK'
      <4>1. metrics' \in [Counter -> Nat]
        BY <1>t, <2>4, <3>1, <3>3 DEF TypeOK, Counter
      <4>2. result' \in [Task -> Outcome]
        BY <1>t, <2>4 DEF TypeOK, Return, Outcome
      <4>3. QED BY <1>t, <2>1, <2>4, <3>2, <4>1, <4>2
                   DEF TypeOK, cacheVars, taskVars, Goto, Step, Release
    <3>5. PermitsHeld'
      BY <2>1, <2>4, <3>2, PermitStep DEF Step, Admitted, Release
    <3>6. QED BY <3>3, <3>4, <3>5
  <2>5. QED BY <1>7, <2>3, <2>4 DEF BackendLoads
<1>8. ASSUME NEW t \in Task, InsertModel(t) PROVE Base'
  <2> PICK evicted \in Victims :
          /\ loaded_models' = (loaded_models \ evicted) \cup {goal[t]}
          /\ last_used' = [k \in Key |-> IF k = goal[t] THEN cache_clock
                                         ELSE IF k \in evicted THEN 0 ELSE last_used[k]]
          /\ metrics' = [metrics EXCEPT !["model_loads"] = @ + 1,
                                     !["evictions"] = @ + Cardinality(evicted)]
    BY <1>8 DEF InsertModel
  <2>1. /\ pc[t] = "insert" /\ cache_clock' = cache_clock + 1
        /\ Release(t) /\ LoadReturns(t) /\ UNCHANGED <<goal, resolving, probed_misses, calls>>
    BY <1>8 DEF InsertModel
  <2>2. Cardinality(evicted) \in Nat
    <3>1. evicted = {} \/ \E k : evicted = {k}
      BY DEF Victims
    <3>2. Cardinality(evicted) = 0 \/ Cardinality(evicted) = 1
      BY <3>1, FS_EmptySet, FS_Singleton, Zenon
    <3>3. QED BY <3>2
  <2>3. metrics'["active_model_loads"] = metrics["active_model_loads"]
    BY <1>t DEF TypeOK, Count, Counter
  <2>4. TypeOK' /\ (Goto(t, "idle") \/ Goto(t, "refind"))
    <3>1. metrics' \in [Counter -> Nat]
      BY <1>t, <2>2 DEF TypeOK, Count, Counter
    <3>2. loaded_models' \in SUBSET Key /\ last_used' \in [Key -> Nat] /\ cache_clock' \in Nat
      BY <1>t, <2>1 DEF TypeOK
    <3>3. QED BY <1>t, <2>1, <3>1, <3>2, LoadReturnsType DEF TypeOK, Release
  <2>5. PermitsHeld'
    BY <2>1, <2>4, PermitStep DEF Step, Admitted, Release
  <2>6. GaugeNeverUnderflows'
    BY <2>1, <2>3, <2>4, GaugeStep DEF Step, Counted
  <2>7. QED BY <2>4, <2>5, <2>6
<1>9. ASSUME NEW t \in Task, Refind(t) PROVE Base'
  <2>1. /\ pc[t] = "refind" /\ FindLoaded(t, goal[t].id, goal[t].version)
        /\ UNCHANGED <<load_permits, taskVars, metrics, probed_misses, calls>>
    BY <1>9 DEF Refind
  <2>2. TypeOK' /\ Goto(t, "idle")
    BY <1>t, <2>1, FindLoadedType DEF TypeOK, taskVars
  <2>3. t \notin load_permits
    BY <2>1 DEF PermitsHeld, Admitted
  <2>4. PermitsHeld'
    BY <2>1, <2>2, <2>3, PermitStep DEF Step, Admitted
  <2>5. GaugeNeverUnderflows'
    BY <2>1, <2>2, GaugeStep DEF Step, Counted
  <2>6. QED BY <2>2, <2>4, <2>5
<1>10. ASSUME NEW t \in Task, DropCall(t) PROVE Base'
  <2>1. /\ Release(t) /\ Return(t, "none")
        /\ UNCHANGED <<cacheVars, taskVars, metrics, probed_misses, calls>>
    BY <1>10 DEF DropCall
  <2>2. TypeOK' /\ Goto(t, "idle")
    BY <1>t, <2>1 DEF TypeOK, cacheVars, taskVars, Return, Goto, Step, Release, Outcome
  <2>3. PermitsHeld'
    BY <2>1, <2>2, PermitStep DEF Step, Admitted, Release
  <2>4. GaugeNeverUnderflows'
    BY <2>1, <2>2, GaugeStep DEF Step, Counted
  <2>5. QED BY <2>2, <2>3, <2>4
<1>11. CASE UNCHANGED vars
  BY <1>t, <1>11 DEF vars, TypeOK, PermitsHeld, GaugeNeverUnderflows
<1>12. QED
  BY <1>1, <1>2, <1>3, <1>p, <1>f, <1>4, <1>5, <1>6, <1>7, <1>8, <1>9, <1>10, <1>11
     DEF Next, Progress, Finished

\* The variables keep their types, the permits out are those of the tasks inside
\* the admitted part of load and never more than the limit, and the fetch_sub of
\* active_model_loads never wraps below zero.
THEOREM BaseInvariant == Spec => []Base
<1>1. Init => Base
  BY InitBase
<1>2. Base /\ [Next]_vars => Base'
  BY NextBase
<1>3. QED BY <1>1, <1>2, PTL DEF Spec

-----------------------------------------------------------------------------
\* The cache changes only when an entry is stamped or a load is inserted.
LEMMA CacheStep ==
    ASSUME TypeOK, [Next]_vars
    PROVE  \/ UNCHANGED cacheVars
           \/ \E k \in loaded_models : Refresh(k)
           \/ \E t \in Task : InsertModel(t)
<1>1. ASSUME NEW t \in Task, NEW id, NEW version, FindLoaded(t, id, version)
      PROVE  UNCHANGED cacheVars \/ \E k \in loaded_models : Refresh(k)
  BY <1>1 DEF FindLoaded, Matching
<1>2. ASSUME NEW t \in Task, CallFind(t) \/ Find(t) \/ Refind(t)
      PROVE  UNCHANGED cacheVars \/ \E k \in loaded_models : Refresh(k)
  <2>1. CASE \E id, version : FindLoaded(t, id, version)
    BY <2>1, <1>1
  <2>2. CASE ~\E id, version : FindLoaded(t, id, version)
    BY <1>2, <2>2 DEF CallFind, Find, Refind, cacheVars
  <2>3. QED BY <2>1, <2>2
<1>u. ASSUME NEW t \in Task, UseHandle(t)
      PROVE  UNCHANGED cacheVars \/ \E k \in loaded_models : Refresh(k)
  BY <1>u DEF UseHandle, Matching
<1>3. ASSUME NEW t \in Task, NEW k \in Key,
             CallLoad(t, k) \/ CallInfer(t, k) \/ CallResolve(t, k) \/ Probe(t)
      PROVE  UNCHANGED cacheVars
  BY <1>3 DEF CallLoad, CallInfer, CallResolve, CallWith, Probe, cacheVars
<1>4. ASSUME NEW t \in Task,
             ReadCache(t) \/ AcquireLoadPermit(t) \/ RecheckCache(t)
                \/ BackendLoads(t) \/ DropCall(t)
      PROVE  UNCHANGED cacheVars
  BY <1>4 DEF ReadCache, AcquireLoadPermit, RecheckCache, BackendLoads, DropCall, cacheVars
<1>5. CASE UNCHANGED vars
  BY <1>5 DEF vars, cacheVars
<1>6. QED BY <1>2, <1>u, <1>3, <1>4, <1>5, KeyAssumption DEF Next, Progress, Finished

\* What eviction gives up: nothing of a cache with room, one entry of a full
\* one, and that entry is older than every other.
LEMMA VictimsAreOldest ==
    ASSUME TypeOK, DistinctStamps,
           NEW evicted \in Victims
    PROVE  \/ ~AtCapacity(loaded_models) /\ evicted = {}
           \/ \E d \in loaded_models :
                 /\ AtCapacity(loaded_models)
                 /\ evicted = {d}
                 /\ \A j \in loaded_models \ {d} : last_used[d] < last_used[j]
<1>1. CASE ~AtCapacity(loaded_models)
  BY <1>1 DEF Victims
<1>2. CASE AtCapacity(loaded_models)
  <2>1. PICK d \in Oldest : evicted = {d}
    BY <1>2 DEF Victims
  <2>2. d \in loaded_models /\ \A j \in loaded_models : last_used[d] <= last_used[j]
    BY <2>1 DEF Oldest
  <2>3. \A j \in loaded_models \ {d} : last_used[d] < last_used[j]
    BY <2>2 DEF TypeOK, DistinctStamps
  <2>4. QED BY <1>2, <2>1, <2>2, <2>3
<1>3. QED BY <1>1, <1>2

\* The bound and the stamps: inductive together, as eviction relies on the one
\* oldest entry the distinct stamps give.
CacheInv == IsFiniteSet(loaded_models) /\ CacheBounded /\ DistinctStamps

\* The size of the cache after an insertion.
LEMMA InsertSize ==
    ASSUME TypeOK, CacheInv, NEW evicted \in Victims, NEW k \in Key
    PROVE  LET new == (loaded_models \ evicted) \cup {k}
           IN  /\ IsFiniteSet(new) /\ Cardinality(new) \in Nat
               /\ Cardinality(loaded_models) \in Nat /\ Cardinality(evicted) \in Nat
               /\ Cardinality(new) <= MaxModels
               /\ k \notin loaded_models =>
                     Cardinality(new) + Cardinality(evicted) = Cardinality(loaded_models) + 1
<1> DEFINE kept == loaded_models \ evicted
           new == kept \cup {k}
<1>1. Cardinality(loaded_models) \in Nat /\ Cardinality(loaded_models) <= MaxModels
  BY FS_CardinalityType DEF CacheInv, CacheBounded
<1>2. \/ /\ evicted = {} /\ Cardinality(evicted) = 0 /\ kept = loaded_models
         /\ Cardinality(loaded_models) < MaxModels
      \/ \E d \in loaded_models : evicted = {d} /\ Cardinality(evicted) = 1
  <2>1. \A d : Cardinality({d}) = 1
    BY FS_Singleton
  <2>2. Cardinality({}) = 0
    BY FS_EmptySet
  <2>3. ~AtCapacity(loaded_models) => Cardinality(loaded_models) < MaxModels
    BY <1>1, LimitsAssumption DEF AtCapacity
  <2>4. QED BY <2>1, <2>2, <2>3, VictimsAreOldest DEF CacheInv
<1>3. /\ IsFiniteSet(kept) /\ Cardinality(kept) \in Nat
      /\ Cardinality(kept) = Cardinality(loaded_models) - Cardinality(evicted)
  <2>1. CASE evicted = {} /\ Cardinality(evicted) = 0
    BY <1>1, <2>1 DEF CacheInv
  <2>2. CASE \E d \in loaded_models : evicted = {d} /\ Cardinality(evicted) = 1
    <3>1. PICK d \in loaded_models : evicted = {d} /\ Cardinality(evicted) = 1
      BY <2>2
    <3>2. IsFiniteSet(loaded_models \ {d})
          /\ Cardinality(loaded_models \ {d}) = Cardinality(loaded_models) - 1
      BY FS_RemoveElement DEF CacheInv
    <3>3. Cardinality(kept) \in Nat
      BY <3>1, <3>2, FS_CardinalityType
    <3>4. QED BY <3>1, <3>2, <3>3
  <2>3. QED BY <1>2, <2>1, <2>2
<1>4. /\ IsFiniteSet(new) /\ Cardinality(new) \in Nat
      /\ Cardinality(new) = IF k \in kept THEN Cardinality(kept) ELSE Cardinality(kept) + 1
  <2>1. IsFiniteSet(new)
        /\ Cardinality(new) = IF k \in kept THEN Cardinality(kept) ELSE Cardinality(kept) + 1
    BY <1>3, FS_AddElement
  <2>2. QED BY <1>3, <2>1
<1>5. Cardinality(new) <= MaxModels
  BY <1>1, <1>2, <1>3, <1>4, LimitsAssumption
<1>6. ASSUME k \notin loaded_models
      PROVE  Cardinality(new) + Cardinality(evicted) = Cardinality(loaded_models) + 1
  BY <1>1, <1>2, <1>3, <1>4, <1>6
<1>7. Cardinality(evicted) \in Nat
  BY <1>2
<1>8. QED BY <1>1, <1>4, <1>5, <1>6, <1>7

LEMMA NextCacheInv == TypeOK /\ CacheInv /\ [Next]_vars => CacheInv'
<1> SUFFICES ASSUME TypeOK, CacheInv, [Next]_vars PROVE CacheInv'
  OBVIOUS
<1>1. CASE UNCHANGED cacheVars
  BY <1>1 DEF cacheVars, CacheInv, CacheBounded, DistinctStamps
<1>2. ASSUME NEW k \in loaded_models, Refresh(k) PROVE CacheInv'
  <2>1. IsFiniteSet(loaded_models)' /\ CacheBounded'
    BY <1>2 DEF Refresh, CacheInv, CacheBounded
  <2>2. DistinctStamps'
    BY <1>2 DEF Refresh, CacheInv, DistinctStamps, TypeOK
  <2>3. QED BY <2>1, <2>2 DEF CacheInv
<1>3. ASSUME NEW t \in Task, InsertModel(t) PROVE CacheInv'
  <2> PICK evicted \in Victims :
          /\ loaded_models' = (loaded_models \ evicted) \cup {goal[t]}
          /\ last_used' = [k \in Key |-> IF k = goal[t] THEN cache_clock
                                         ELSE IF k \in evicted THEN 0 ELSE last_used[k]]
    BY <1>3 DEF InsertModel
  <2>1. goal[t] \in Key /\ cache_clock' = cache_clock + 1
    BY <1>3 DEF TypeOK, InsertModel
  <2>2. IsFiniteSet(loaded_models)' /\ CacheBounded'
    BY <2>1, InsertSize DEF CacheBounded
  <2>3. DistinctStamps'
    <3>1. ASSUME NEW k \in loaded_models' PROVE last_used'[k] < cache_clock'
      BY <2>1, <3>1 DEF TypeOK, CacheInv, DistinctStamps
    <3>2. ASSUME NEW k \in loaded_models', NEW j \in loaded_models',
                 last_used'[j] = last_used'[k]
          PROVE  j = k
      BY <2>1, <3>2 DEF TypeOK, CacheInv, DistinctStamps
    <3>3. QED BY <3>1, <3>2 DEF DistinctStamps
  <2>4. QED BY <2>2, <2>3 DEF CacheInv
<1>4. QED BY <1>1, <1>2, <1>3, CacheStep

LEMMA CacheInvariant == Spec => []CacheInv
<1>1. Init => CacheInv
  <2>1. IsFiniteSet({}) /\ Cardinality({}) = 0
    BY FS_EmptySet
  <2>2. QED BY <2>1, LimitsAssumption DEF Init, CacheInv, CacheBounded, DistinctStamps
<1>2. TypeOK /\ CacheInv /\ [Next]_vars => CacheInv'
  BY NextCacheInv
<1>3. QED BY <1>1, <1>2, BaseInvariant, PTL DEF Spec, Base

\* The cache never holds more than max_models entries.
THEOREM CacheIsBounded == Spec => []CacheBounded
BY CacheInvariant, PTL DEF CacheInv

\* No two entries share a last_used stamp, so eviction has one candidate.
THEOREM StampsAreDistinct == Spec => []DistinctStamps
BY CacheInvariant, PTL DEF CacheInv

-----------------------------------------------------------------------------
\* One permit is held by one task.
LEMMA OnePermit ==
    ASSUME Base, LoadPermits = 1,
           NEW t \in Task, NEW u \in Task, pc[t] \in Admitted, pc[u] \in Admitted
    PROVE  t = u
<1>1. load_permits = {v \in Task : pc[v] \in Admitted} /\ Cardinality(load_permits) <= 1
  BY DEF Base, PermitsHeld
<1>2. IsFiniteSet(load_permits) /\ Cardinality(load_permits) \in Nat
  <2>1. load_permits \in SUBSET Task
    BY <1>1
  <2>2. QED BY <2>1, FS_Subset, FS_CardinalityType, TaskAssumption
<1>3. t \in load_permits /\ u \in load_permits
  BY <1>1
<1>4. Cardinality(load_permits) # 0
  BY <1>2, <1>3, FS_EmptySet
<1>5. Cardinality(load_permits) = 1
  BY <1>1, <1>2, <1>4
<1>6. \E x : load_permits = {x}
  BY <1>2, <1>5, FS_Singleton
<1>7. QED BY <1>3, <1>6

\* A task gets to load only through the second lookup, and keeps its goal.
LEMMA LoadingStep ==
    ASSUME TypeOK, [Next]_vars, NEW u \in Task, pc'[u] \in {"loading", "insert"}
    PROVE  /\ goal'[u] = goal[u]
           /\ \/ pc[u] \in {"loading", "insert"}
              \/ pc[u] = "recheck" /\ goal[u] \notin loaded_models /\ UNCHANGED cacheVars
<1> USE DEF TypeOK
<1>1. ASSUME NEW t \in Task, CallFind(t) \/ Find(t) \/ Refind(t) \/ Probe(t)
      PROVE  goal'[u] = goal[u] /\ pc[u] \in {"loading", "insert"}
  BY <1>1 DEF CallFind, Find, Refind, Probe, FindLoaded, Return, Goto, taskVars
<1>u. ASSUME NEW t \in Task, UseHandle(t)
      PROVE  goal'[u] = goal[u] /\ pc[u] \in {"loading", "insert"}
  BY <1>u DEF UseHandle, Return, Goto
<1>2. ASSUME NEW t \in Task, NEW k \in Key,
             CallLoad(t, k) \/ CallInfer(t, k) \/ CallResolve(t, k)
      PROVE  goal'[u] = goal[u] /\ pc[u] \in {"loading", "insert"}
  BY <1>2 DEF CallLoad, CallInfer, CallResolve, CallWith, Goto
<1>3. ASSUME NEW t \in Task,
             ReadCache(t) \/ AcquireLoadPermit(t) \/ InsertModel(t) \/ DropCall(t)
                \/ BackendLoads(t)
      PROVE  goal'[u] = goal[u] /\ pc[u] \in {"loading", "insert"}
  BY <1>3 DEF ReadCache, AcquireLoadPermit, InsertModel, DropCall, BackendLoads,
              LoadReturns, Return, Goto, taskVars
<1>4. ASSUME NEW t \in Task, RecheckCache(t)
      PROVE  /\ goal'[u] = goal[u]
             /\ \/ pc[u] \in {"loading", "insert"}
                \/ pc[u] = "recheck" /\ goal[u] \notin loaded_models /\ UNCHANGED cacheVars
  BY <1>4 DEF RecheckCache, LoadReturns, Return, Goto
<1>5. CASE UNCHANGED vars
  BY <1>5 DEF vars
<1>6. QED BY <1>1, <1>u, <1>2, <1>3, <1>4, <1>5 DEF Next, Progress, Finished

LEMMA NextSingleFlight == Base /\ SingleFlight /\ [Next]_vars => SingleFlight'
<1> SUFFICES ASSUME Base, SingleFlight, [Next]_vars, LoadPermits = 1,
                    NEW u \in Task, pc'[u] \in {"loading", "insert"}
             PROVE  goal'[u] \notin loaded_models'
  BY DEF SingleFlight
<1>1. TypeOK
  BY DEF Base
<1>2. /\ goal'[u] = goal[u]
      /\ pc[u] \in Admitted /\ goal[u] \notin loaded_models
  BY <1>1, LoadingStep DEF SingleFlight, Admitted
<1>3. CASE UNCHANGED cacheVars \/ \E k \in loaded_models : Refresh(k)
  BY <1>2, <1>3 DEF cacheVars, Refresh
<1>4. ASSUME NEW t \in Task, InsertModel(t) PROVE FALSE
  <2>1. pc[t] = "insert" /\ (Goto(t, "idle") \/ Goto(t, "refind"))
    BY <1>4 DEF InsertModel, LoadReturns, Return
  <2>2. t = u
    BY <1>2, <2>1, OnePermit DEF Admitted
  <2>3. QED BY <1>1, <2>1, <2>2 DEF Goto, TypeOK
<1>5. QED BY <1>1, <1>3, <1>4, CacheStep

\* With one load permit no load is started or inserted for a model that is
\* already in the cache.
THEOREM LoadsAreSingleFlight == Spec => []SingleFlight
<1>1. Init => SingleFlight
  BY DEF Init, SingleFlight
<1>2. Base /\ SingleFlight /\ [Next]_vars => SingleFlight'
  BY NextSingleFlight
<1>3. QED BY <1>1, <1>2, BaseInvariant, PTL DEF Spec

\* The two counters of the insertion move with it and with nothing else.
LEMMA InsertCounters ==
    ASSUME TypeOK, [Next]_vars
    PROVE  \/ \E t \in Task : InsertModel(t)
           \/ /\ loaded_models' = loaded_models
              /\ metrics'["model_loads"] = metrics["model_loads"]
              /\ metrics'["evictions"] = metrics["evictions"]
<1> SUFFICES ASSUME ~\E t \in Task : InsertModel(t)
             PROVE  /\ loaded_models' = loaded_models
                    /\ metrics'["model_loads"] = metrics["model_loads"]
                    /\ metrics'["evictions"] = metrics["evictions"]
  OBVIOUS
<1>1. loaded_models' = loaded_models
  BY CacheStep DEF cacheVars, Refresh
<1>2. ASSUME NEW t \in Task, NEW k \in Key,
             \/ CallFind(t) \/ UseHandle(t) \/ Find(t) \/ Refind(t) \/ CallLoad(t, k)
             \/ CallInfer(t, k) \/ CallResolve(t, k) \/ AcquireLoadPermit(t) \/ DropCall(t)
      PROVE  metrics' = metrics
  BY <1>2 DEF CallFind, UseHandle, Find, Refind, CallLoad, CallInfer, CallResolve, CallWith,
              AcquireLoadPermit, DropCall
<1>3. ASSUME NEW t \in Task,
             Probe(t) \/ ReadCache(t) \/ RecheckCache(t) \/ BackendLoads(t)
      PROVE  /\ metrics'["model_loads"] = metrics["model_loads"]
             /\ metrics'["evictions"] = metrics["evictions"]
  BY <1>3 DEF Probe, ReadCache, RecheckCache, BackendLoads, Count, TypeOK, Counter
<1>4. CASE UNCHANGED vars
  BY <1>1, <1>4 DEF vars
<1>5. QED BY <1>1, <1>2, <1>3, <1>4, KeyAssumption DEF Next, Progress, Finished

LEMMA NextLoadsAccounted ==
    Base /\ CacheInv /\ SingleFlight /\ LoadsAccounted /\ [Next]_vars => LoadsAccounted'
<1> SUFFICES ASSUME Base, CacheInv, SingleFlight, LoadsAccounted, [Next]_vars, LoadPermits = 1
             PROVE  metrics'["model_loads"] = Cardinality(loaded_models') + metrics'["evictions"]
  BY DEF LoadsAccounted
<1>1. TypeOK /\ metrics["model_loads"] \in Nat /\ metrics["evictions"] \in Nat
  BY DEF Base, TypeOK, Counter
<1>2. ASSUME NEW t \in Task, InsertModel(t)
      PROVE  metrics'["model_loads"] = Cardinality(loaded_models') + metrics'["evictions"]
  <2>1. PICK evicted \in Victims :
          /\ loaded_models' = (loaded_models \ evicted) \cup {goal[t]}
          /\ metrics' = [metrics EXCEPT !["model_loads"] = @ + 1,
                                       !["evictions"] = @ + Cardinality(evicted)]
    BY <1>2 DEF InsertModel
  <2>2. goal[t] \in Key /\ goal[t] \notin loaded_models
    BY <1>1, <1>2 DEF InsertModel, SingleFlight, TypeOK
  <2>3. /\ Cardinality(loaded_models) \in Nat /\ Cardinality(evicted) \in Nat
        /\ Cardinality(loaded_models') \in Nat
        /\ Cardinality(loaded_models') + Cardinality(evicted) = Cardinality(loaded_models) + 1
    BY <1>1, <2>1, <2>2, InsertSize
  <2>4. /\ metrics'["model_loads"] = metrics["model_loads"] + 1
        /\ metrics'["evictions"] = metrics["evictions"] + Cardinality(evicted)
    BY <1>1, <2>1 DEF TypeOK, Counter
  <2>5. metrics["model_loads"] = Cardinality(loaded_models) + metrics["evictions"]
    BY DEF LoadsAccounted
  <2>6. QED BY <1>1, <2>3, <2>4, <2>5
<1>3. CASE /\ loaded_models' = loaded_models
           /\ metrics'["model_loads"] = metrics["model_loads"]
           /\ metrics'["evictions"] = metrics["evictions"]
  BY <1>3 DEF LoadsAccounted
<1>4. QED BY <1>1, <1>2, <1>3, InsertCounters

\* With one load permit, completed loads are entries or evictions.
THEOREM LoadsAreAccounted == Spec => []LoadsAccounted
<1>1. Init => LoadsAccounted
  BY FS_EmptySet DEF Init, LoadsAccounted, Counter
<1>2. Base /\ CacheInv /\ SingleFlight /\ LoadsAccounted /\ [Next]_vars => LoadsAccounted'
  BY NextLoadsAccounted
<1>3. QED BY <1>1, <1>2, BaseInvariant, CacheInvariant, LoadsAreSingleFlight, PTL DEF Spec

\* A move that neither reaches nor leaves the insertion keeps the number of
\* tasks about to insert.
LEMMA InsertersStay ==
    ASSUME TypeOK, NEW t \in Task, NEW s, Goto(t, s), s # "insert", pc[t] # "insert"
    PROVE  {u \in Task : pc'[u] = "insert"} = {u \in Task : pc[u] = "insert"}
BY DEF TypeOK, Goto

LEMMA NextMissesAccounted ==
    Base /\ MissesAccounted /\ [Next]_vars => MissesAccounted'
<1> SUFFICES ASSUME Base, MissesAccounted, [Next]_vars PROVE MissesAccounted'
  OBVIOUS
<1> DEFINE I == {u \in Task : pc[u] = "insert"}
<1>t. TypeOK /\ pc \in [Task -> Step]
  BY DEF Base, TypeOK
<1>n. /\ probed_misses \in Nat
      /\ metrics["active_model_loads"] \in Nat /\ metrics["model_load_failures"] \in Nat
      /\ metrics["model_loads"] \in Nat /\ metrics["cache_misses"] \in Nat
  BY <1>t DEF TypeOK, Counter
<1>i. I = At({"insert"}) /\ I' = At({"insert"})'
  BY DEF At
<1>1. ASSUME UNCHANGED <<metrics, probed_misses>>, I' = I PROVE MissesAccounted'
  BY <1>1 DEF MissesAccounted
<1>2. ASSUME NEW t \in Task, CallFind(t) \/ UseHandle(t) \/ Find(t) \/ Refind(t)
      PROVE  MissesAccounted'
  <2>1. /\ pc[t] \in {"idle", "find", "refind"}
        /\ \E s \in {"idle", "probe", "check"} : Goto(t, s)
        /\ UNCHANGED <<metrics, probed_misses>>
    BY <1>2 DEF CallFind, UseHandle, Find, Refind, Call, FindLoaded, Return
  <2>2. QED BY <1>t, <1>1, <2>1, InsertersStay
<1>3. ASSUME NEW t \in Task, NEW k \in Key,
             CallLoad(t, k) \/ CallInfer(t, k) \/ CallResolve(t, k)
      PROVE  MissesAccounted'
  <2>1. /\ pc[t] = "idle" /\ \E s \in {"check", "probe", "find"} : Goto(t, s)
        /\ UNCHANGED <<metrics, probed_misses>>
    BY <1>3 DEF CallLoad, CallInfer, CallResolve, CallWith, Call
  <2>2. QED BY <1>t, <1>1, <2>1, InsertersStay
<1>p. ASSUME NEW t \in Task, Probe(t) PROVE MissesAccounted'
  <2>1. I' = I
    BY <1>t, <1>p, InsertersStay DEF Probe
  <2>2. /\ metrics'["model_load_failures"] = metrics["model_load_failures"]
        /\ metrics'["model_loads"] = metrics["model_loads"]
        /\ metrics'["active_model_loads"] = metrics["active_model_loads"]
        /\ \/ /\ metrics'["cache_misses"] = metrics["cache_misses"]
              /\ probed_misses' = probed_misses
           \/ /\ metrics'["cache_misses"] = metrics["cache_misses"] + 1
              /\ probed_misses' = probed_misses + 1
    BY <1>t, <1>p DEF Probe, Count, TypeOK, Counter
  <2>3. Cardinality(I) \in Nat /\ Cardinality(I') = Cardinality(I)
    BY <1>t, <1>i, <2>1, FS_Subset, FS_CardinalityType, TaskAssumption
  <2>4. QED BY <1>n, <2>2, <2>3 DEF MissesAccounted
<1>4. ASSUME NEW t \in Task, AcquireLoadPermit(t) \/ DropCall(t) PROVE MissesAccounted'
  <2>1. /\ pc[t] \in {"acquire", "loading"} /\ UNCHANGED <<metrics, probed_misses>>
        /\ Goto(t, "idle") \/ Goto(t, "recheck")
    BY <1>4 DEF AcquireLoadPermit, DropCall, Return
  <2>2. QED BY <1>t, <1>1, <2>1, InsertersStay
<1>5. ASSUME NEW t \in Task, ReadCache(t) \/ RecheckCache(t) PROVE MissesAccounted'
  <2>1. /\ pc[t] \in {"check", "recheck"}
        /\ \/ Goto(t, "idle") \/ Goto(t, "refind") \/ Goto(t, "acquire") \/ Goto(t, "loading")
    BY <1>5 DEF ReadCache, RecheckCache, LoadReturns, Return
  <2>2. I' = I
    BY <1>t, <2>1, InsertersStay
  <2>3. /\ metrics'["model_load_failures"] = metrics["model_load_failures"]
        /\ metrics'["model_loads"] = metrics["model_loads"]
        /\ probed_misses' = probed_misses
        /\ \/ /\ metrics'["cache_misses"] = metrics["cache_misses"]
              /\ metrics'["active_model_loads"] = metrics["active_model_loads"]
           \/ /\ metrics'["cache_misses"] = metrics["cache_misses"] + 1
              /\ metrics'["active_model_loads"] = metrics["active_model_loads"] + 1
    BY <1>t, <1>5 DEF ReadCache, RecheckCache, Count, TypeOK, Counter
  <2>4. Cardinality(I) \in Nat /\ Cardinality(I') = Cardinality(I)
    BY <1>t, <1>i, <2>2, FS_Subset, FS_CardinalityType, TaskAssumption
  <2>5. QED BY <1>n, <2>3, <2>4 DEF MissesAccounted
<1>6. ASSUME NEW t \in Task, BackendLoads(t) PROVE MissesAccounted'
  <2>1. pc[t] = "loading" /\ probed_misses' = probed_misses
    BY <1>6 DEF BackendLoads
  <2>2. CASE /\ metrics' = [metrics EXCEPT !["active_model_loads"] = @ - 1]
             /\ Goto(t, "insert")
    <3>1. /\ Cardinality(I) \in Nat /\ Cardinality(I') = Cardinality(I) + 1
      BY <1>t, <1>i, <2>1, <2>2, MoveCount, ZenonT(30)
    <3>2. /\ metrics'["active_model_loads"] = metrics["active_model_loads"] - 1
          /\ metrics'["model_load_failures"] = metrics["model_load_failures"]
          /\ metrics'["model_loads"] = metrics["model_loads"]
          /\ metrics'["cache_misses"] = metrics["cache_misses"]
      BY <1>t, <2>2 DEF TypeOK, Counter
    <3>3. QED BY <1>n, <2>1, <3>1, <3>2 DEF MissesAccounted
  <2>3. CASE /\ metrics' = [metrics EXCEPT !["model_load_failures"] = @ + 1,
                                         !["active_model_loads"] = @ - 1]
             /\ Goto(t, "idle")
    <3>1. I' = I
      BY <1>t, <2>1, <2>3, InsertersStay
    <3>2. Cardinality(I) \in Nat
      BY <1>t, <1>i, FS_Subset, FS_CardinalityType, TaskAssumption
    <3>3. /\ metrics'["active_model_loads"] = metrics["active_model_loads"] - 1
          /\ metrics'["model_load_failures"] = metrics["model_load_failures"] + 1
          /\ metrics'["model_loads"] = metrics["model_loads"]
          /\ metrics'["cache_misses"] = metrics["cache_misses"]
      BY <1>t, <2>3 DEF TypeOK, Counter
    <3>4. Cardinality(I') = Cardinality(I)
      BY <3>1
    <3>5. QED BY <1>n, <2>1, <3>2, <3>3, <3>4 DEF MissesAccounted
  <2>4. QED BY <1>6, <2>2, <2>3 DEF BackendLoads, Return
<1>7. ASSUME NEW t \in Task, InsertModel(t) PROVE MissesAccounted'
  <2>1. pc[t] = "insert" /\ (Goto(t, "idle") \/ Goto(t, "refind"))
    BY <1>7 DEF InsertModel, LoadReturns, Return
  <2>2. /\ Cardinality(I) \in Nat /\ Cardinality(I') \in Nat
        /\ Cardinality(I') = Cardinality(I) - 1
    <3>1. ASSUME NEW s \in {"idle", "refind"}, Goto(t, s)
          PROVE  /\ Cardinality(I) \in Nat /\ Cardinality(I') \in Nat
                 /\ Cardinality(I') = Cardinality(I) - 1
      <4>1. pc[t] \in {"insert"} /\ s \notin {"insert"}
        BY <2>1, <3>1
      <4>2. /\ Cardinality(At({"insert"})) \in Nat /\ Cardinality(At({"insert"})') \in Nat
            /\ Cardinality(At({"insert"})') = Cardinality(At({"insert"})) - 1
        BY <1>t, <3>1, <4>1, MoveCount, ZenonT(30)
      <4>3. QED BY <1>i, <4>2
    <3>2. QED BY <2>1, <3>1
  <2>3. /\ metrics'["model_loads"] = metrics["model_loads"] + 1
        /\ metrics'["active_model_loads"] = metrics["active_model_loads"]
        /\ metrics'["model_load_failures"] = metrics["model_load_failures"]
        /\ metrics'["cache_misses"] = metrics["cache_misses"]
        /\ probed_misses' = probed_misses
    BY <1>t, <1>7 DEF InsertModel, TypeOK, Counter
  <2>4. QED BY <1>n, <2>2, <2>3 DEF MissesAccounted
<1>8. CASE UNCHANGED vars
  BY <1>1, <1>8 DEF vars
<1>9. QED BY <1>2, <1>3, <1>p, <1>4, <1>5, <1>6, <1>7, <1>8 DEF Next, Progress, Finished

\* The misses are those infer_inner counted for itself and those of load, which
\* failed, completed, are about to be inserted or stand in the gauge.
THEOREM MissesAreAccounted == Spec => []MissesAccounted
<1>1. Init => MissesAccounted
  <2> SUFFICES ASSUME Init PROVE MissesAccounted
    OBVIOUS
  <2>1. {t \in Task : pc[t] = "insert"} = {}
    BY DEF Init
  <2>2. Cardinality({t \in Task : pc[t] = "insert"}) = 0
    BY <2>1, FS_EmptySet
  <2>3. probed_misses = 0 /\ \A c \in Counter : metrics[c] = 0
    BY DEF Init
  <2>4. QED BY <2>2, <2>3 DEF MissesAccounted, Counter
<1>2. Base /\ MissesAccounted /\ [Next]_vars => MissesAccounted'
  BY NextMissesAccounted
<1>3. QED BY <1>1, <1>2, BaseInvariant, PTL DEF Spec

-----------------------------------------------------------------------------
\* The map with its stamps and its clock implements the abstract LRU cache.
THEOREM ImplementsLru == Spec => LruSpec
<1>1. Init => Lru!Init
  BY DEF Init, Lru!Init, StampOrder
<1>2. ASSUME TypeOK, CacheInv, [Next]_vars PROVE [Lru!Next]_(Lru!lruVars)
  <2>1. CASE UNCHANGED cacheVars
    BY <2>1 DEF cacheVars, StampOrder, Lru!lruVars
  <2>2. ASSUME NEW k \in loaded_models, Refresh(k) PROVE Lru!Use(k)
    <3>1. loaded_models' = loaded_models
      BY <2>2 DEF Refresh
    <3>2. \A j \in loaded_models \ {k} : last_used'[j] = last_used[j] /\ last_used[j] < cache_clock
      BY <1>2, <2>2 DEF Refresh, TypeOK, CacheInv, DistinctStamps
    <3>3. last_used'[k] = cache_clock /\ cache_clock \in Nat
          /\ \A j \in loaded_models : last_used[j] \in Nat
      BY <1>2, <2>2 DEF Refresh, TypeOK
    <3>4. StampOrder' = Lru!Refreshed(loaded_models, k)
      BY <3>1, <3>2, <3>3 DEF StampOrder, Lru!Refreshed
    <3>5. QED BY <3>1, <3>4 DEF Lru!Use
  <2>3. ASSUME NEW t \in Task, InsertModel(t) PROVE Lru!Publish(goal[t])
    <3> DEFINE k == goal[t]
    <3>1. PICK evicted \in Victims :
            /\ loaded_models' = (loaded_models \ evicted) \cup {k}
            /\ last_used' = [j \in Key |-> IF j = k THEN cache_clock
                                           ELSE IF j \in evicted THEN 0 ELSE last_used[j]]
      BY <2>3 DEF InsertModel
    <3> DEFINE S == loaded_models \ evicted
    <3>2. k \in Key /\ cache_clock \in Nat
      BY <1>2 DEF TypeOK
    <3>3. \A j \in S \ {k} : last_used'[j] = last_used[j] /\ last_used[j] < cache_clock
      BY <1>2, <3>1 DEF TypeOK, CacheInv, DistinctStamps
    <3>4. last_used'[k] = cache_clock /\ \A j \in loaded_models : last_used[j] \in Nat
      BY <1>2, <3>1, <3>2 DEF TypeOK
    <3>5. StampOrder' = Lru!Refreshed(S, k)
      BY <3>1, <3>2, <3>3, <3>4 DEF StampOrder, Lru!Refreshed
    <3>6. \/ ~AtCapacity(loaded_models) /\ S = loaded_models
          \/ /\ AtCapacity(loaded_models)
             /\ \E d \in loaded_models : Lru!LeastRecent(d) /\ S = loaded_models \ {d}
      BY <1>2, VictimsAreOldest DEF CacheInv, Lru!LeastRecent, StampOrder
    <3>7. QED BY <3>1, <3>5, <3>6 DEF Lru!Publish
  <2>4. ASSUME NEW t \in Task PROVE goal[t] \in Key
    BY <1>2 DEF TypeOK
  <2>5. loaded_models \in SUBSET Key
    BY <1>2 DEF TypeOK
  <2>6. QED BY <1>2, <2>1, <2>2, <2>3, <2>4, <2>5, CacheStep DEF Lru!Next
<1>3. QED BY <1>1, <1>2, BaseInvariant, CacheInvariant, PTL DEF Spec, Base, LruSpec, Lru!Spec

=============================================================================
