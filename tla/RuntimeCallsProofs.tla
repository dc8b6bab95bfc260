-------------------------- MODULE RuntimeCallsProofs --------------------------
(***************************************************************************)
(* Proofs about the calls of the runtime.  InferenceExecution: where a     *)
(* request may be executed, what its result records, which permits are out *)
(* and what the counters add up to, for every set of tasks, models,        *)
(* requests and every limit.  InferBatch: that an answered batch answers   *)
(* each of its requests, for any batches, models and policies.             *)
(* CapabilityExecution: that effects are allowed, for any providers,       *)
(* packages and requests.                                                  *)
(***************************************************************************)
EXTENDS RuntimeCalls, FiniteSetTheorems, SequenceTheorems, TLAPS

Step == {"idle", "start", "admit"} \cup Running
Outcome == {"ok"} \cup Failure

\* The steps of an execution on the local target.
LocalStep == {"lookup", "load", "loading", "refind", "backend"}

\* The attempts that end on the local target, and those that end on the remote
\* one, directly or by a fallback.
LocalTrails == {<< <<"local", o>> >> : o \in Outcome}
RemoteTrails ==
    {<< <<"remote", o>> >> : o \in Outcome}
    \cup {<< <<"local", "unavailable">>, <<"remote", o>> >> : o \in Outcome}

\* How the selection and the attempts of a call fit the step it is at.
Fits(step, operation, r, chosen, attempts) ==
    /\ step \in {"start", "admit", "resolve", "select"} =>
          chosen = NoSelection /\ attempts = <<>>
    /\ step \in LocalStep =>
          /\ chosen = [provider |-> "local", policy |-> EffectivePolicy(r), fallback |-> FALSE]
          /\ attempts = <<>>
    /\ step = "remote" =>
          /\ chosen.provider = "remote"
          /\ chosen.fallback <=> EffectivePolicy(r) \in LocalFirst
          /\ \/ attempts = <<>>
             \/ attempts = << <<"local", "unavailable">> >> /\ chosen.fallback
    /\ operation = "chat" => step \in {"idle", "start", "admit", "open"}
    /\ operation = "infer" => step # "open"
    /\ operation = "stream" => step # "admit"
    /\ chosen.provider = "remote" => EffectivePolicy(r) # "LocalOnly"
    /\ \/ attempts = <<>>
       \/ attempts \in LocalTrails
       \/ attempts \in RemoteTrails /\ EffectivePolicy(r) # "LocalOnly"

Fitting == \A t \in Task : Fits(pc[t], call[t], request[t], selection[t], trail[t])

-------------------------------------------------------------------------------
\* Selection: what the policy and the resident models make of a request.
LEMMA PolicyType ==
    ASSUME NEW r \in Request, allow_remote_fallback \in BOOLEAN
    PROVE  EffectivePolicy(r) \in ExecutionPolicy
BY DEF EffectivePolicy, Request, ExecutionPolicy, LocalFirst, RemoteFirst

\* A request that has to stay local is one whose effective policy is LocalOnly.
LEMMA LocalOnlyRequests ==
    ASSUME NEW r \in Request, allow_remote_fallback \in BOOLEAN
    PROVE  \/ r.require = "local"
           \/ r.require = "none" /\ r.execution = "LocalOnly" /\ ~allow_remote_fallback
           => EffectivePolicy(r) = "LocalOnly"
BY DEF EffectivePolicy, Request

\* The spec that is found for an id in the catalog is routed as the id.
LEMMA ResolvedRequest ==
    ASSUME NEW r \in Request
    PROVE  /\ [r EXCEPT !.reference = "spec"] \in Request
           /\ EffectivePolicy([r EXCEPT !.reference = "spec"]) = EffectivePolicy(r)
<1> DEFINE q == [r EXCEPT !.reference = "spec"]
<1>1. q = [model |-> r.model, reference |-> "spec", execution |-> r.execution,
           require |-> r.require, stream |-> r.stream]
  BY DEF Request
<1>2. q \in Request
  BY <1>1 DEF Request, ExecutionPolicy
<1>3. q.require = r.require /\ q.execution = r.execution
  BY <1>1
<1>4. QED BY <1>2, <1>3 DEF EffectivePolicy

LEMMA RemoteSelectionFacts ==
    ASSUME NEW r \in Request, NEW fallback \in BOOLEAN,
           RemoteSelection(r, fallback) # NoSelection
    PROVE  /\ RemoteSelection(r, fallback) \in Selection
           /\ RemoteSelection(r, fallback).provider = "remote"
           /\ RemoteSelection(r, fallback).fallback = fallback
BY DEF RemoteSelection, Selection, Request, ExecutionPolicy, LocalFirst, RemoteFirst

LEMMA SelectFacts ==
    ASSUME NEW r \in Request, NEW models, NEW chosen,
           allow_remote_fallback \in BOOLEAN,
           chosen = Select(r, models), chosen # NoSelection
    PROVE  /\ chosen \in Selection
           /\ chosen.provider = "local" =>
                 chosen = [provider |-> "local", policy |-> EffectivePolicy(r), fallback |-> FALSE]
           /\ chosen.provider # "local" =>
                 /\ chosen.provider = "remote"
                 /\ chosen.fallback <=> EffectivePolicy(r) \in LocalFirst
                 /\ EffectivePolicy(r) # "LocalOnly"
<1> DEFINE policy == EffectivePolicy(r)
           local == LocalSelection(r, models)
<1>1. policy \in ExecutionPolicy
  BY PolicyType
<1>2. \/ local = [provider |-> "local", policy |-> policy, fallback |-> FALSE]
      \/ local = NoSelection
  BY DEF LocalSelection
<1>3. CASE chosen = local
  <2>1. chosen = [provider |-> "local", policy |-> policy, fallback |-> FALSE]
    BY <1>2, <1>3
  <2>2. chosen \in Selection
    BY <1>1, <2>1 DEF Selection
  <2>3. chosen.provider = "local"
    BY <2>1
  <2>4. QED BY <2>1, <2>2, <2>3
<1>4. CASE chosen # local
  <2>1. \/ policy = "RemoteOnly" /\ chosen = RemoteSelection(r, FALSE)
        \/ policy \in LocalFirst /\ chosen = RemoteSelection(r, TRUE)
        \/ policy \in RemoteFirst /\ chosen = RemoteSelection(r, FALSE)
    BY <1>1, <1>4 DEF Select, Preferring, ExecutionPolicy, LocalFirst, RemoteFirst
  <2>2. chosen \in Selection /\ chosen.provider = "remote"
    BY <2>1, RemoteSelectionFacts
  <2>3. chosen.fallback <=> policy \in LocalFirst
    BY <2>1, RemoteSelectionFacts DEF LocalFirst, RemoteFirst
  <2>4. policy # "LocalOnly"
    BY <2>1 DEF LocalFirst, RemoteFirst
  <2>5. QED BY <2>2, <2>3, <2>4
<1>5. QED BY <1>3, <1>4

-------------------------------------------------------------------------------
\* Types.
LEMMA InitType == Init => TypeOK
<1> SUFFICES ASSUME Init PROVE TypeOK
  OBVIOUS
<1>1. request \in [Task -> Request]
  <2>1. \A t \in Task : (CHOOSE r \in Requests[t] : TRUE) \in Requests[t]
                        /\ Requests[t] \subseteq Request
    BY ExecutionAssumption
  <2>2. QED BY <2>1 DEF Init
<1>2. NoSelection \in Selection
  BY DEF NoSelection, Selection, ExecutionPolicy
<1>3. None \in [status : {"none", "ok"} \cup Failure, selection : Selection]
  BY <1>2 DEF None
<1>4. trail \in [Task -> Seq({"local", "remote"} \X ({"ok"} \cup Failure))]
  BY DEF Init
<1>5. calls \in 0..MaxCalls /\ tally \in [{"infer", "stream", "dropped"} -> Nat]
  BY ExecutionAssumption DEF Init
<1>6. QED BY <1>1, <1>2, <1>3, <1>4, <1>5 DEF Init, TypeOK

LEMMA GotoType ==
    ASSUME TypeOK, NEW t \in Task, NEW s \in Step, Goto(t, s)
    PROVE  pc' \in [Task -> {"idle", "start", "admit"} \cup Running]
BY DEF TypeOK, Goto, Step

LEMMA ReturnType ==
    ASSUME TypeOK, NEW t \in Task, NEW status \in Outcome, Return(t, status)
    PROVE  /\ pc' \in [Task -> {"idle", "start", "admit"} \cup Running]
           /\ result' \in [Task -> [status : {"none", "ok"} \cup Failure, selection : Selection]]
           /\ metrics' \in [Counter -> Int]
<1>1. pc' \in [Task -> {"idle", "start", "admit"} \cup Running]
  BY DEF TypeOK, Return, Goto
<1>2. [status |-> status, selection |-> selection[t]]
          \in [status : {"none", "ok"} \cup Failure, selection : Selection]
  BY DEF TypeOK, Outcome
<1>3. result' \in [Task -> [status : {"none", "ok"} \cup Failure, selection : Selection]]
  BY <1>2 DEF TypeOK, Return
<1>4. metrics' \in [Counter -> Int]
  BY DEF TypeOK, Return, Ended
<1>5. QED BY <1>1, <1>3, <1>4

LEMMA ProceedType ==
    ASSUME TypeOK, NEW t \in Task, NEW s \in Step, Proceed(t, s)
    PROVE  /\ pc' \in [Task -> {"idle", "start", "admit"} \cup Running]
           /\ result' \in [Task -> [status : {"none", "ok"} \cup Failure, selection : Selection]]
           /\ metrics' \in [Counter -> Int]
BY GotoType DEF TypeOK, Proceed

LEMMA AttemptedType ==
    ASSUME TypeOK, NEW t \in Task, NEW target \in {"local", "remote"}, NEW ended \in Outcome,
           Attempted(t, target, ended)
    PROVE  trail' \in [Task -> Seq({"local", "remote"} \X ({"ok"} \cup Failure))]
<1>1. <<target, ended>> \in {"local", "remote"} \X ({"ok"} \cup Failure)
  BY DEF Outcome
<1>2. Append(trail[t], <<target, ended>>) \in Seq({"local", "remote"} \X ({"ok"} \cup Failure))
  BY <1>1 DEF TypeOK
<1>3. QED BY <1>2 DEF TypeOK, Attempted

LEMMA LocalFailsType ==
    ASSUME TypeOK, NEW t \in Task, NEW error \in Failure, LocalFails(t, error)
    PROVE  /\ pc' \in [Task -> {"idle", "start", "admit"} \cup Running]
           /\ result' \in [Task -> [status : {"none", "ok"} \cup Failure, selection : Selection]]
           /\ metrics' \in [Counter -> Int]
           /\ trail' \in [Task -> Seq({"local", "remote"} \X ({"ok"} \cup Failure))]
           /\ selection' \in [Task -> Selection]
<1>1. trail' \in [Task -> Seq({"local", "remote"} \X ({"ok"} \cup Failure))]
  <2>1. Attempted(t, "local", error) /\ error \in Outcome
    BY DEF LocalFails, Outcome
  <2>2. QED BY <2>1, AttemptedType
<1>2. \/ /\ Proceed(t, "remote")
         /\ RemoteSelection(request[t], TRUE) # NoSelection
         /\ selection' = [selection EXCEPT ![t] = RemoteSelection(request[t], TRUE)]
      \/ (Return(t, "unavailable") \/ Return(t, error)) /\ UNCHANGED selection
  BY DEF LocalFails
<1>3. CASE Proceed(t, "remote") /\ RemoteSelection(request[t], TRUE) # NoSelection
           /\ selection' = [selection EXCEPT ![t] = RemoteSelection(request[t], TRUE)]
  <2>1. RemoteSelection(request[t], TRUE) \in Selection
    BY <1>3, RemoteSelectionFacts DEF TypeOK
  <2>2. "remote" \in Step
    BY DEF Step, Running
  <2>3. QED BY <1>1, <1>3, <2>1, <2>2, ProceedType DEF TypeOK
<1>4. CASE (Return(t, "unavailable") \/ Return(t, error)) /\ UNCHANGED selection
  <2>1. "unavailable" \in Outcome /\ error \in Outcome
    BY DEF Outcome, Failure
  <2>2. QED BY <1>1, <1>4, <2>1, ReturnType DEF TypeOK
<1>5. QED BY <1>2, <1>3, <1>4

LEMMA SucceedsType ==
    ASSUME TypeOK, NEW t \in Task, NEW target \in {"local", "remote"}, Succeeds(t, target)
    PROVE  /\ pc' \in [Task -> {"idle", "start", "admit"} \cup Running]
           /\ result' \in [Task -> [status : {"none", "ok"} \cup Failure, selection : Selection]]
           /\ metrics' \in [Counter -> Int]
           /\ trail' \in [Task -> Seq({"local", "remote"} \X ({"ok"} \cup Failure))]
           /\ selection' = selection
<1>1. "ok" \in Outcome /\ "open" \in Step
  BY DEF Outcome, Step, Running
<1>2. Attempted(t, target, "ok") /\ (Proceed(t, "open") \/ Return(t, "ok")) /\ UNCHANGED selection
  BY DEF Succeeds
<1>3. QED BY <1>1, <1>2, AttemptedType, ProceedType, ReturnType

LEMMA NextType == TypeOK /\ [Next]_vars => TypeOK'
<1> SUFFICES ASSUME TypeOK, [Next]_vars PROVE TypeOK'
  OBVIOUS
<1>a. /\ {"ok", "unavailable", "refused", "cancelled"} \subseteq Outcome
      /\ {"start", "admit", "resolve", "select", "lookup", "load", "loading", "refind",
          "backend", "remote", "open"} \subseteq Step
      /\ "unavailable" \in Failure /\ "refused" \in Failure /\ Failure \subseteq Outcome
  BY DEF Outcome, Failure, Step, Running
<1>1. ASSUME NEW t \in Task, Submit(t) PROVE TypeOK'
  <2>1. PICK c \in Calls, r \in Requests[t] :
           /\ call' = [call EXCEPT ![t] = c]
           /\ request' = [request EXCEPT ![t] = r]
           /\ Add(IF c = "infer" THEN {"total_requests", "active_inferences"}
                  ELSE IF c = "stream" THEN {"total_requests", "streaming_requests"}
                  ELSE {})
    BY <1>1 DEF Submit
  <2>2. c \in {"infer", "stream", "chat"} /\ r \in Request
    BY ExecutionAssumption
  <2>3. metrics' \in [Counter -> Int]
    BY <2>1 DEF TypeOK, Add
  <2>4. NoSelection \in Selection
    BY DEF NoSelection, Selection, ExecutionPolicy
  <2>5. pc' \in [Task -> {"idle", "start", "admit"} \cup Running]
    BY <1>a, <1>1, GotoType DEF Submit
  <2>6. calls' \in 0..MaxCalls
    BY <1>1, ExecutionAssumption DEF TypeOK, Submit
  <2>7. trail' \in [Task -> Seq({"local", "remote"} \X ({"ok"} \cup Failure))]
    BY <1>1 DEF TypeOK, Submit
  <2>8. call' \in [Task -> {"infer", "stream", "chat"}] /\ request' \in [Task -> Request]
    BY <2>1, <2>2 DEF TypeOK
  <2>9. selection' \in [Task -> Selection] /\ cancelled' \in [Task -> BOOLEAN]
    BY <1>1, <2>4 DEF TypeOK, Submit
  <2>10. /\ result' \in [Task -> [status : {"none", "ok"} \cup Failure, selection : Selection]]
         /\ resident' \subseteq Model /\ allow_remote_fallback' \in BOOLEAN
    BY <1>1 DEF TypeOK, Submit
  <2>11. tally' \in [{"infer", "stream", "dropped"} -> Nat]
    BY <1>1 DEF TypeOK, Submit
  <2>12. QED BY <2>3, <2>5, <2>6, <2>7, <2>8, <2>9, <2>10, <2>11 DEF TypeOK
<1>2. ASSUME NEW t \in Task, Start(t) PROVE TypeOK'
  <2>1. \/ \E status \in Outcome : Return(t, status)
        \/ \E s \in Step : Proceed(t, s)
    BY <1>a, <1>2 DEF Start
  <2>2. QED BY <1>2, <2>1, ReturnType, ProceedType DEF Start, TypeOK, jobVars
<1>3. ASSUME NEW t \in Task, Admit(t) PROVE TypeOK'
  <2>1. \E s \in Step : Goto(t, s)
    BY <1>a, <1>3 DEF Admit
  <2>2. QED BY <1>3, <2>1, GotoType DEF Admit, TypeOK, jobVars
<1>4. ASSUME NEW t \in Task, NoticeCancel(t) PROVE TypeOK'
  BY <1>a, <1>4, ReturnType DEF NoticeCancel, TypeOK, jobVars
<1>5. ASSUME NEW t \in Task, Resolve(t) PROVE TypeOK'
  <2>1. \/ Return(t, "unavailable") \/ Proceed(t, "select")
    BY <1>5 DEF Resolve
  <2>2. [request[t] EXCEPT !.reference = "spec"] \in Request
    BY ResolvedRequest DEF TypeOK
  <2>3. request' \in [Task -> Request]
    BY <1>5, <2>2 DEF Resolve, TypeOK
  <2>4. QED BY <1>a, <1>5, <2>1, <2>3, ReturnType, ProceedType DEF Resolve, TypeOK
<1>6. ASSUME NEW t \in Task, SelectTarget(t) PROVE TypeOK'
  <2> DEFINE chosen == Select(request[t], resident)
  <2>1. CASE chosen = NoSelection
    BY <1>a, <1>6, <2>1, ReturnType DEF SelectTarget, TypeOK, jobVars
  <2>2. CASE chosen # NoSelection
    <3>1. chosen \in Selection
      BY <2>2, SelectFacts DEF TypeOK
    <3>2. selection' = [selection EXCEPT ![t] = chosen]
          /\ (Proceed(t, "lookup") \/ Proceed(t, "remote"))
      BY <1>6, <2>2 DEF SelectTarget
    <3>3. QED BY <1>a, <1>6, <3>1, <3>2, ProceedType DEF SelectTarget, TypeOK, jobVars
  <2>3. QED BY <2>1, <2>2
<1>7. ASSUME NEW t \in Task, Lookup(t) PROVE TypeOK'
  <2>1. \/ \E s \in Step : Proceed(t, s) /\ UNCHANGED <<selection, trail>>
        \/ LocalFails(t, "unavailable")
    BY <1>a, <1>7 DEF Lookup
  <2>2. QED BY <1>a, <1>7, <2>1, ProceedType, LocalFailsType DEF Lookup, TypeOK, jobVars
<1>8. ASSUME NEW t \in Task, BeginLoad(t) PROVE TypeOK'
  <2>1. \E s \in Step : Goto(t, s)
    BY <1>a, <1>8 DEF BeginLoad
  <2>2. QED BY <1>8, <2>1, GotoType DEF BeginLoad, TypeOK, jobVars
<1>9. ASSUME NEW t \in Task, EndLoad(t) PROVE TypeOK'
  <2>1. CASE Proceed(t, "refind") /\ UNCHANGED <<selection, trail>>
             /\ \E S \in SUBSET resident : resident' = S \cup {request[t].model}
    <3>1. request[t].model \in Model
      BY DEF TypeOK, Request
    <3>2. QED BY <1>a, <1>9, <2>1, <3>1, ProceedType DEF EndLoad, TypeOK, jobVars
  <2>2. CASE (\E error \in {"unavailable", "refused"} : LocalFails(t, error)) /\ UNCHANGED resident
    BY <1>a, <1>9, <2>2, LocalFailsType DEF EndLoad, TypeOK, jobVars
  <2>3. QED BY <1>9, <2>1, <2>2 DEF EndLoad
<1>10. ASSUME NEW t \in Task, Refind(t) PROVE TypeOK'
  <2>1. \/ Proceed(t, "backend") /\ UNCHANGED <<selection, trail>>
        \/ LocalFails(t, "unavailable")
    BY <1>10 DEF Refind
  <2>2. QED BY <1>a, <1>10, <2>1, ProceedType, LocalFailsType DEF Refind, TypeOK, jobVars
<1>11. ASSUME NEW t \in Task, ExecuteLocal(t) PROVE TypeOK'
  <2>1. Succeeds(t, "local") \/ \E error \in Failure : LocalFails(t, error)
    BY <1>11 DEF ExecuteLocal, Failures
  <2>2. QED BY <1>11, <2>1, SucceedsType, LocalFailsType DEF ExecuteLocal, TypeOK, jobVars
<1>12. ASSUME NEW t \in Task, ExecuteRemote(t) PROVE TypeOK'
  <2>1. \/ Succeeds(t, "remote")
        \/ \E error \in Outcome :
              Attempted(t, "remote", error) /\ Return(t, error) /\ UNCHANGED selection
    BY <1>a, <1>12 DEF ExecuteRemote, Failures
  <2>2. QED BY <1>12, <2>1, SucceedsType, AttemptedType, ReturnType
            DEF ExecuteRemote, TypeOK, jobVars
<1>13. ASSUME NEW t \in Task, Close(t) PROVE TypeOK'
  BY <1>a, <1>13, ReturnType DEF Close, TypeOK, jobVars
<1>14. ASSUME NEW t \in Task, DropCall(t) PROVE TypeOK'
  <2>1. pc' \in [Task -> {"idle", "start", "admit"} \cup Running]
    BY <1>14, GotoType DEF DropCall, Step
  <2>2. None \in [status : {"none", "ok"} \cup Failure, selection : Selection]
    BY DEF None, NoSelection, Selection, ExecutionPolicy
  <2>3. tally' \in [{"infer", "stream", "dropped"} -> Nat]
    BY <1>14 DEF DropCall, TypeOK
  <2>4. QED BY <1>14, <2>1, <2>2, <2>3 DEF DropCall, TypeOK, jobVars
<1>15. ASSUME NEW t \in Task, Cancel(t) PROVE TypeOK'
  BY <1>15 DEF Cancel, TypeOK
<1>16. CASE UNCHANGED vars
  BY <1>16 DEF vars, TypeOK
<1>17. QED
  BY <1>1, <1>2, <1>3, <1>4, <1>5, <1>6, <1>7, <1>8, <1>9, <1>10, <1>11, <1>12, <1>13, <1>14,
     <1>15, <1>16 DEF Next, Progress, Finished

-------------------------------------------------------------------------------
\* A step of one task leaves the calls of the others alone.
Frame(t) ==
    /\ allow_remote_fallback' = allow_remote_fallback
    /\ \A u \in Task \ {t} :
          /\ pc'[u] = pc[u] /\ call'[u] = call[u] /\ request'[u] = request[u]
          /\ selection'[u] = selection[u] /\ trail'[u] = trail[u] /\ result'[u] = result[u]

LEMMA LocalFailsFrame ==
    ASSUME TypeOK, NEW t \in Task, NEW error \in Failure, LocalFails(t, error)
    PROVE  \A u \in Task \ {t} :
              /\ pc'[u] = pc[u] /\ selection'[u] = selection[u]
              /\ trail'[u] = trail[u] /\ result'[u] = result[u]
<1>1. \A u \in Task \ {t} : trail'[u] = trail[u]
  BY DEF TypeOK, LocalFails, Attempted
<1>2. \/ Proceed(t, "remote")
         /\ selection' = [selection EXCEPT ![t] = RemoteSelection(request[t], TRUE)]
      \/ (Return(t, "unavailable") \/ Return(t, error)) /\ UNCHANGED selection
  BY DEF LocalFails
<1>3. QED BY <1>1, <1>2 DEF TypeOK, Return, Proceed, Goto

LEMMA Frames ==
    ASSUME TypeOK, NEW t \in Task,
           Submit(t) \/ Progress(t) \/ Close(t) \/ DropCall(t) \/ Cancel(t)
    PROVE  Frame(t)
<1>a. "unavailable" \in Failure /\ "refused" \in Failure
  BY DEF Failure
<1>1. CASE Submit(t)
  BY <1>1 DEF TypeOK, Frame, Submit, Goto
<1>2. CASE Start(t) \/ Admit(t) \/ NoticeCancel(t) \/ BeginLoad(t) \/ Close(t) \/ DropCall(t)
  BY <1>2 DEF TypeOK, Frame, Start, Admit, NoticeCancel, BeginLoad, Close, DropCall,
              Return, Proceed, Goto, jobVars
<1>3. CASE Resolve(t)
  BY <1>3 DEF TypeOK, Frame, Resolve, Return, Proceed, Goto
<1>4. CASE SelectTarget(t)
  BY <1>4 DEF TypeOK, Frame, SelectTarget, Return, Proceed, Goto, jobVars
<1>5. CASE Lookup(t)
  <2>1. \/ (\E s \in {"backend", "load"} : Proceed(t, s)) /\ UNCHANGED <<selection, trail>>
        \/ LocalFails(t, "unavailable")
    BY <1>5 DEF Lookup
  <2>2. QED BY <1>a, <1>5, <2>1, LocalFailsFrame
            DEF TypeOK, Frame, Lookup, Proceed, Goto, jobVars
<1>6. CASE EndLoad(t)
  <2>1. \/ Proceed(t, "refind") /\ UNCHANGED <<selection, trail>>
        \/ \E error \in {"unavailable", "refused"} : LocalFails(t, error)
    BY <1>6 DEF EndLoad
  <2>2. QED BY <1>a, <1>6, <2>1, LocalFailsFrame
            DEF TypeOK, Frame, EndLoad, Proceed, Goto, jobVars
<1>7. CASE Refind(t)
  <2>1. \/ Proceed(t, "backend") /\ UNCHANGED <<selection, trail>>
        \/ LocalFails(t, "unavailable")
    BY <1>7 DEF Refind
  <2>2. QED BY <1>a, <1>7, <2>1, LocalFailsFrame
            DEF TypeOK, Frame, Refind, Proceed, Goto, jobVars
<1>8. CASE ExecuteLocal(t)
  <2>1. Succeeds(t, "local") \/ \E error \in Failure : LocalFails(t, error)
    BY <1>8 DEF ExecuteLocal, Failures
  <2>2. QED BY <1>8, <2>1, LocalFailsFrame
            DEF TypeOK, Frame, ExecuteLocal, Succeeds, Attempted, Return, Proceed, Goto, jobVars
<1>9. CASE ExecuteRemote(t)
  BY <1>9 DEF TypeOK, Frame, ExecuteRemote, Succeeds, Attempted, Return, Proceed, Goto, jobVars
<1>10. CASE Cancel(t)
  BY <1>10 DEF Frame, Cancel
<1>11. QED
  BY <1>1, <1>2, <1>3, <1>4, <1>5, <1>6, <1>7, <1>8, <1>9, <1>10 DEF Progress

\* So the invariants need a look at the moving task only.
LEMMA MoverFits ==
    ASSUME Fitting, NEW t \in Task, Frame(t),
           Fits(pc[t], call[t], request[t], selection[t], trail[t])'
    PROVE  Fitting'
<1> SUFFICES ASSUME NEW u \in Task
             PROVE  Fits(pc[u], call[u], request[u], selection[u], trail[u])'
  BY DEF Fitting
<1>1. CASE u = t
  BY <1>1
<1>2. CASE u # t
  <2>1. Fits(pc[u], call[u], request[u], selection[u], trail[u])
    BY DEF Fitting
  <2>2. /\ pc'[u] = pc[u] /\ call'[u] = call[u] /\ request'[u] = request[u]
        /\ selection'[u] = selection[u] /\ trail'[u] = trail[u]
        /\ allow_remote_fallback' = allow_remote_fallback
    BY <1>2 DEF Frame
  <2>3. EffectivePolicy(request[u])' = EffectivePolicy(request[u])
    BY <2>2 DEF EffectivePolicy
  <2>4. QED BY <2>1, <2>2, <2>3 DEF Fits
<1>3. QED BY <1>1, <1>2

\* A call that returns fits whatever it had attempted.
LEMMA ReturnFits ==
    ASSUME TypeOK, Fitting, NEW t \in Task, Frame(t), pc'[t] = "idle",
           UNCHANGED <<call, request, selection, trail>>
    PROVE  Fitting'
<1>1. Fits(pc[t], call[t], request[t], selection[t], trail[t])
  BY DEF Fitting
<1>2. EffectivePolicy(request[t])' = EffectivePolicy(request[t])
  BY DEF EffectivePolicy, Frame
<1>3. Fits(pc[t], call[t], request[t], selection[t], trail[t])'
  BY <1>1, <1>2 DEF Fits, LocalStep
<1>4. QED BY <1>3, MoverFits

LEMMA SecondAttempt ==
    ASSUME NEW S, NEW first \in S, NEW second \in S
    PROVE  Append(<<first>>, second) = <<first, second>>
<1> DEFINE long == Append(<<first>>, second)
<1>1. <<first>> \in Seq(S)
  OBVIOUS
<1>2. /\ long \in Seq(S) /\ Len(long) = 2
      /\ long[1] = first /\ long[2] = second
  BY <1>1
<1>3. <<first, second>> \in Seq(S) /\ Len(<<first, second>>) = 2
  OBVIOUS
<1>4. \A i \in 1..Len(long) : long[i] = <<first, second>>[i]
  BY <1>2
<1>5. QED BY <1>2, <1>3, <1>4, SeqEqual

\* An attempt on the local target is the first one of a call.
LEMMA LocalFailsFits ==
    ASSUME TypeOK, Fitting, NEW t \in Task, Frame(t), NEW error \in Failure,
           pc[t] \in LocalStep, LocalFails(t, error), UNCHANGED <<call, request>>
    PROVE  Fitting'
<1> DEFINE policy == EffectivePolicy(request[t])
<1>1. /\ selection[t] = [provider |-> "local", policy |-> policy, fallback |-> FALSE]
      /\ trail[t] = <<>> /\ call[t] # "chat"
  BY DEF Fitting, Fits, LocalStep
<1>2. policy' = policy
  BY DEF EffectivePolicy, Frame
<1>3. trail'[t] = << <<"local", error>> >>
  <2>1. trail'[t] = Append(<<>>, <<"local", error>>)
    BY <1>1 DEF LocalFails, Attempted, TypeOK
  <2>2. QED BY <2>1
<1>4. trail'[t] \in LocalTrails
  BY <1>3 DEF LocalTrails, Outcome
<1>5. CASE /\ Proceed(t, "remote") /\ CanFallback(request[t], selection[t], error)
           /\ selection' = [selection EXCEPT ![t] = RemoteSelection(request[t], TRUE)]
           /\ RemoteSelection(request[t], TRUE) # NoSelection
  <2>1. /\ selection'[t].provider = "remote" /\ selection'[t].fallback = TRUE
        /\ selection'[t] # NoSelection
    BY <1>5, RemoteSelectionFacts DEF TypeOK
  <2>2. policy \in LocalFirst /\ error = "unavailable"
    BY <1>1, <1>5 DEF CanFallback
  <2>3. pc'[t] = "remote" /\ call'[t] = call[t]
    BY <1>5 DEF Proceed, Goto, TypeOK
  <2>4. Fits(pc[t], call[t], request[t], selection[t], trail[t])'
    BY <1>1, <1>2, <1>3, <1>4, <2>1, <2>2, <2>3 DEF Fits, LocalStep, LocalFirst
  <2>5. QED BY <2>4, MoverFits
<1>6. CASE pc'[t] = "idle" /\ UNCHANGED selection
  <2>1. Fits(pc[t], call[t], request[t], selection[t], trail[t])'
    BY <1>1, <1>2, <1>4, <1>6 DEF Fits, LocalStep
  <2>2. QED BY <2>1, MoverFits
<1>7. \/ /\ Proceed(t, "remote") /\ CanFallback(request[t], selection[t], error)
         /\ selection' = [selection EXCEPT ![t] = RemoteSelection(request[t], TRUE)]
         /\ RemoteSelection(request[t], TRUE) # NoSelection
      \/ (Return(t, "unavailable") \/ Return(t, error)) /\ UNCHANGED selection
  BY DEF LocalFails
<1>8. QED BY <1>5, <1>6, <1>7 DEF Return, Goto, TypeOK

LEMMA NextFitting == TypeOK /\ Fitting /\ [Next]_vars => Fitting'
<1> SUFFICES ASSUME TypeOK, Fitting, [Next]_vars PROVE Fitting'
  OBVIOUS
<1>0. ASSUME NEW t \in Task
      PROVE  Fits(pc[t], call[t], request[t], selection[t], trail[t])
  BY DEF Fitting
<1>1. ASSUME NEW t \in Task, Submit(t) PROVE Fitting'
  <2>1. /\ pc'[t] = "start" /\ selection'[t] = NoSelection /\ trail'[t] = <<>>
    BY <1>1 DEF Submit, Goto, TypeOK
  <2>2. Fits(pc[t], call[t], request[t], selection[t], trail[t])'
    BY <2>1 DEF Fits, LocalStep, NoSelection
  <2>3. QED BY <1>1, <2>2, Frames, MoverFits
<1>2. ASSUME NEW t \in Task, Start(t) PROVE Fitting'
  <2>1. CASE pc'[t] = "idle"
    BY <1>2, <2>1, Frames, ReturnFits DEF Start, Progress, jobVars
  <2>2. CASE \/ pc'[t] = "admit" /\ call[t] # "stream"
             \/ pc'[t] = "resolve" /\ call[t] = "stream"
    <3>1. EffectivePolicy(request[t])' = EffectivePolicy(request[t])
      BY <1>2 DEF EffectivePolicy, Start, jobVars
    <3>2. Fits(pc[t], call[t], request[t], selection[t], trail[t])'
      BY <1>0, <1>2, <2>2, <3>1 DEF Fits, LocalStep, Start, jobVars
    <3>3. QED BY <1>2, <3>2, Frames, MoverFits DEF Progress
  <2>3. QED BY <1>2, <2>1, <2>2 DEF Start, Return, Proceed, Goto, TypeOK
<1>3. ASSUME NEW t \in Task, Admit(t) PROVE Fitting'
  <2>1. /\ pc[t] = "admit" /\ UNCHANGED <<call, request, selection, trail, allow_remote_fallback>>
        /\ pc'[t] = IF call[t] = "chat" THEN "open" ELSE "resolve"
    BY <1>3 DEF Admit, Goto, jobVars, TypeOK
  <2>2. EffectivePolicy(request[t])' = EffectivePolicy(request[t])
    BY <2>1 DEF EffectivePolicy
  <2>3. Fits(pc[t], call[t], request[t], selection[t], trail[t])'
    BY <1>0, <2>1, <2>2 DEF Fits, LocalStep
  <2>4. QED BY <1>3, <2>3, Frames, MoverFits DEF Progress
<1>4. ASSUME NEW t \in Task, NoticeCancel(t) PROVE Fitting'
  BY <1>4, Frames, ReturnFits DEF NoticeCancel, Progress, Return, Goto, TypeOK, jobVars
<1>5. ASSUME NEW t \in Task, Resolve(t) PROVE Fitting'
  <2>1. CASE pc'[t] = "idle" /\ UNCHANGED request
    BY <1>5, <2>1, Frames, ReturnFits DEF Resolve, Progress
  <2>2. CASE /\ pc'[t] = "select"
             /\ request'[t] \in {request[t], [request[t] EXCEPT !.reference = "spec"]}
    <3>1. /\ request[t] \in Request
          /\ \/ request'[t] = request[t]
             \/ request'[t] = [request[t] EXCEPT !.reference = "spec"]
      BY <2>2 DEF TypeOK
    <3>2. EffectivePolicy(request'[t]) = EffectivePolicy(request[t])
      BY <3>1, ResolvedRequest DEF TypeOK
    <3>3. EffectivePolicy(request[t])' = EffectivePolicy(request[t])
      BY <1>5, <3>2 DEF EffectivePolicy, Resolve
    <3>4. Fits(pc[t], call[t], request[t], selection[t], trail[t])'
      BY <1>0, <1>5, <2>2, <3>3 DEF Fits, LocalStep, Resolve
    <3>5. QED BY <1>5, <3>4, Frames, MoverFits DEF Progress
  <2>3. QED BY <1>5, <2>1, <2>2 DEF Resolve, Return, Proceed, Goto, TypeOK
<1>6. ASSUME NEW t \in Task, SelectTarget(t) PROVE Fitting'
  <2> DEFINE chosen == Select(request[t], resident)
  <2>1. CASE pc'[t] = "idle" /\ UNCHANGED selection
    BY <1>6, <2>1, Frames, ReturnFits DEF SelectTarget, Progress, jobVars
  <2>2. CASE /\ chosen # NoSelection /\ selection'[t] = chosen
             /\ pc'[t] = IF chosen.provider = "local" THEN "lookup" ELSE "remote"
    <3>1. /\ chosen.provider = "local" =>
                chosen = [provider |-> "local", policy |-> EffectivePolicy(request[t]),
                          fallback |-> FALSE]
          /\ chosen.provider # "local" =>
                /\ chosen.provider = "remote"
                /\ chosen.fallback <=> EffectivePolicy(request[t]) \in LocalFirst
                /\ EffectivePolicy(request[t]) # "LocalOnly"
      BY <2>2, SelectFacts DEF TypeOK
    <3>2. EffectivePolicy(request[t])' = EffectivePolicy(request[t])
      BY <1>6 DEF EffectivePolicy, SelectTarget, jobVars
    <3>3. trail'[t] = <<>> /\ call'[t] # "chat"
      BY <1>0, <1>6 DEF Fits, SelectTarget, jobVars
    <3>4. Fits(pc[t], call[t], request[t], selection[t], trail[t])'
      BY <2>2, <3>1, <3>2, <3>3 DEF Fits, LocalStep
    <3>5. QED BY <1>6, <3>4, Frames, MoverFits DEF Progress
  <2>3. QED BY <1>6, <2>1, <2>2 DEF SelectTarget, Return, Proceed, Goto, TypeOK

<1>7. ASSUME NEW t \in Task, Lookup(t) \/ BeginLoad(t) \/ EndLoad(t) \/ Refind(t) PROVE Fitting'
  <2>1. pc[t] \in LocalStep /\ UNCHANGED <<call, request, allow_remote_fallback>>
    BY <1>7 DEF Lookup, BeginLoad, EndLoad, Refind, LocalStep, jobVars
  <2>2. CASE \E error \in Failure : LocalFails(t, error)
    BY <1>7, <2>1, <2>2, Frames, LocalFailsFits DEF Progress
  <2>3. CASE pc'[t] \in LocalStep /\ UNCHANGED <<selection, trail>>
    <3>1. EffectivePolicy(request[t])' = EffectivePolicy(request[t])
      BY <2>1 DEF EffectivePolicy
    <3>2. Fits(pc[t], call[t], request[t], selection[t], trail[t])'
      BY <1>0, <2>1, <2>3, <3>1 DEF Fits, LocalStep
    <3>3. QED BY <1>7, <3>2, Frames, MoverFits DEF Progress
  <2>4. "unavailable" \in Failure /\ "refused" \in Failure
    BY DEF Failure
  <2>5. \/ \E error \in Failure : LocalFails(t, error)
        \/ /\ \E s \in LocalStep : Goto(t, s)
           /\ UNCHANGED <<selection, trail>>
    <3>1. CASE Lookup(t)
      BY <2>4, <3>1 DEF Lookup, Proceed, LocalStep
    <3>2. CASE BeginLoad(t)
      BY <3>2 DEF BeginLoad, LocalStep
    <3>3. CASE EndLoad(t)
      BY <2>4, <3>3 DEF EndLoad, Proceed, LocalStep
    <3>4. CASE Refind(t)
      BY <2>4, <3>4 DEF Refind, Proceed, LocalStep
    <3>5. QED BY <1>7, <3>1, <3>2, <3>3, <3>4
  <2>6. QED BY <2>2, <2>3, <2>5 DEF Goto, TypeOK
<1>8. ASSUME NEW t \in Task, ExecuteLocal(t) PROVE Fitting'
  <2>1. pc[t] = "backend" /\ UNCHANGED <<call, request, allow_remote_fallback>>
    BY <1>8 DEF ExecuteLocal, jobVars
  <2>2. CASE \E error \in Failure : LocalFails(t, error)
    BY <1>8, <2>1, <2>2, Frames, LocalFailsFits DEF Progress, LocalStep
  <2>3. CASE Succeeds(t, "local")
    <3>0. trail[t] = <<>> /\ selection[t] =
             [provider |-> "local", policy |-> EffectivePolicy(request[t]), fallback |-> FALSE]
      BY <1>0, <2>1 DEF Fits, LocalStep
    <3>1. trail[t] = <<>> /\ selection[t].provider = "local"
      BY <3>0
    <3>2. trail'[t] = << <<"local", "ok">> >>
      BY <2>3, <3>1 DEF Succeeds, Attempted, TypeOK
    <3>3. trail'[t] \in LocalTrails
      BY <3>2 DEF LocalTrails, Outcome
    <3>4. UNCHANGED selection
          /\ pc'[t] = IF call[t] = "stream" THEN "open" ELSE "idle"
      BY <2>3 DEF Succeeds, Proceed, Return, Goto, TypeOK
    <3>5. Fits(pc[t], call[t], request[t], selection[t], trail[t])'
      BY <2>1, <3>1, <3>3, <3>4 DEF Fits, LocalStep
    <3>6. QED BY <1>8, <3>5, Frames, MoverFits DEF Progress
  <2>4. QED BY <1>8, <2>2, <2>3 DEF ExecuteLocal, Failures
<1>9. ASSUME NEW t \in Task, ExecuteRemote(t) PROVE Fitting'
  <2>1. pc[t] = "remote" /\ UNCHANGED <<call, request, allow_remote_fallback>>
    BY <1>9 DEF ExecuteRemote, jobVars
  <2>2. \E ended \in Outcome : Attempted(t, "remote", ended)
    BY <1>9 DEF ExecuteRemote, Succeeds, Failures, Outcome
  <2>3. PICK ended \in Outcome : Attempted(t, "remote", ended)
    BY <2>2
  <2>4. UNCHANGED selection
        /\ pc'[t] \in {"idle"} \cup IF call[t] = "stream" THEN {"open"} ELSE {}
    BY <1>9 DEF ExecuteRemote, Succeeds, Proceed, Return, Goto, TypeOK
  <2>5. /\ selection[t].provider = "remote" /\ EffectivePolicy(request[t]) # "LocalOnly"
        /\ trail[t] = <<>> \/ trail[t] = << <<"local", "unavailable">> >>
    BY <1>0, <2>1 DEF Fits
  <2>6. trail'[t] = Append(trail[t], <<"remote", ended>>)
    BY <2>3 DEF Attempted, TypeOK
  <2>7. \/ trail'[t] = << <<"remote", ended>> >>
        \/ trail'[t] = << <<"local", "unavailable">>, <<"remote", ended>> >>
    <3>1. CASE trail[t] = <<>>
      BY <2>6, <3>1
    <3>2. CASE trail[t] = << <<"local", "unavailable">> >>
      <4> DEFINE S == {"local", "remote"} \X Outcome
      <4>1. <<"local", "unavailable">> \in S /\ <<"remote", ended>> \in S
        BY DEF Outcome, Failure
      <4>2. QED BY <2>6, <3>2, <4>1, SecondAttempt
    <3>3. QED BY <2>5, <3>1, <3>2
  <2>8. trail'[t] \in RemoteTrails
    BY <2>7 DEF RemoteTrails
  <2>9. EffectivePolicy(request[t])' = EffectivePolicy(request[t])
    BY <2>1 DEF EffectivePolicy
  <2>10. Fits(pc[t], call[t], request[t], selection[t], trail[t])'
    BY <2>1, <2>4, <2>5, <2>8, <2>9 DEF Fits, LocalStep
  <2>11. QED BY <1>9, <2>10, Frames, MoverFits DEF Progress
<1>10. ASSUME NEW t \in Task, Close(t) \/ DropCall(t) PROVE Fitting'
  <2>1. pc'[t] = "idle" /\ UNCHANGED <<call, request, selection, trail>>
    BY <1>10 DEF Close, DropCall, Return, Goto, TypeOK, jobVars
  <2>2. QED BY <1>10, <2>1, Frames, ReturnFits
<1>11. CASE UNCHANGED vars \/ \E t \in Task : Cancel(t)
  <2>1. UNCHANGED <<pc, call, request, selection, trail, allow_remote_fallback>>
    BY <1>11 DEF vars, Cancel
  <2>2. \A t \in Task : EffectivePolicy(request[t])' = EffectivePolicy(request[t])
    BY <2>1 DEF EffectivePolicy
  <2>3. QED BY <1>0, <2>1, <2>2 DEF Fitting, Fits
<1>12. QED
  BY <1>1, <1>2, <1>3, <1>4, <1>5, <1>6, <1>7, <1>8, <1>9, <1>10, <1>11 DEF Next, Progress, Finished

LEMMA InitFitting == Init => Fitting
<1> SUFFICES ASSUME Init, NEW t \in Task
             PROVE  Fits(pc[t], call[t], request[t], selection[t], trail[t])
  BY DEF Fitting
<1>1. /\ pc[t] = "idle" /\ call[t] = "infer" /\ selection[t] = NoSelection /\ trail[t] = <<>>
  BY DEF Init
<1>2. QED BY <1>1 DEF Fits, LocalStep, NoSelection

\* The selection and the attempts of every call fit the step it is at, in every
\* reachable state, whatever tasks, models, limits and requests there are; the
\* types are right.
THEOREM RoutingInvariant == Spec => [](TypeOK /\ Fitting)
<1>1. Init => TypeOK /\ Fitting
  BY InitType, InitFitting
<1>2. TypeOK /\ Fitting /\ [Next]_vars => (TypeOK /\ Fitting)'
  BY NextType, NextFitting
<1>3. QED BY <1>1, <1>2, PTL DEF Spec

-------------------------------------------------------------------------------
\* What may have been attempted on the remote target was no local-only request.
LEMMA FittingStaysLocal == TypeOK /\ Fitting => LocalStaysLocal
<1> SUFFICES ASSUME TypeOK, Fitting, NEW t \in Task,
                    \/ request[t].require = "local"
                    \/ request[t].require = "none" /\ request[t].execution = "LocalOnly"
                       /\ ~allow_remote_fallback
             PROVE  /\ selection[t].provider # "remote"
                    /\ \A i \in 1..Len(trail[t]) : trail[t][i][1] = "local"
  BY DEF LocalStaysLocal
<1>1. EffectivePolicy(request[t]) = "LocalOnly"
  BY LocalOnlyRequests DEF TypeOK
<1>2. selection[t].provider # "remote" /\ (trail[t] = <<>> \/ trail[t] \in LocalTrails)
  BY <1>1 DEF Fitting, Fits
<1>3. \A i \in 1..Len(trail[t]) : trail[t][i][1] = "local"
  <2>1. CASE trail[t] = <<>>
    BY <2>1
  <2>2. CASE trail[t] \in LocalTrails
    <3>1. PICK o \in Outcome : trail[t] = << <<"local", o>> >>
      BY <2>2 DEF LocalTrails
    <3>2. QED BY <3>1
  <2>3. QED BY <1>2, <2>1, <2>2
<1>4. QED BY <1>2, <1>3

\* A request that requires local execution, or says LocalOnly to a runtime that
\* does not allow remote fallback, never reaches the remote provider.
THEOREM LocalOnlyStaysLocal == Spec => []LocalStaysLocal
BY RoutingInvariant, FittingStaysLocal, PTL

LEMMA FittingRefusesFallback == TypeOK /\ Fitting => ContractErrorsNeverFallBack
<1> SUFFICES ASSUME TypeOK, Fitting, NEW t \in Task,
                    pc[t] = "remote" \/ Len(trail[t]) = 2, trail[t] # <<>>
             PROVE  trail[t][1] \in {<<"local", "unavailable">>} \/ trail[t][1][1] = "remote"
  BY DEF ContractErrorsNeverFallBack
<1>1. Fits(pc[t], call[t], request[t], selection[t], trail[t])
  BY DEF Fitting
<1>2. CASE pc[t] = "remote"
  <2>1. trail[t] = << <<"local", "unavailable">> >>
    BY <1>1, <1>2 DEF Fits
  <2>2. QED BY <2>1
<1>3. CASE Len(trail[t]) = 2
  <2>1. trail[t] \in LocalTrails \/ trail[t] \in RemoteTrails
    BY <1>1 DEF Fits
  <2>2. CASE trail[t] \in LocalTrails
    <3>1. PICK o \in Outcome : trail[t] = << <<"local", o>> >>
      BY <2>2 DEF LocalTrails
    <3>2. QED BY <1>3, <3>1
  <2>3. CASE trail[t] \in RemoteTrails
    <3>1. PICK o \in Outcome : \/ trail[t] = << <<"remote", o>> >>
                               \/ trail[t] = << <<"local", "unavailable">>, <<"remote", o>> >>
      BY <2>3 DEF RemoteTrails
    <3>2. QED BY <1>3, <3>1
  <2>4. QED BY <2>1, <2>2, <2>3
<1>4. QED BY <1>2, <1>3

\* Invalid input, refused execution and cancellation never lead to a fallback:
\* after a local attempt the remote provider is tried only if the attempt found
\* its target unavailable.
THEOREM FallbackNeedsUnavailability == Spec => []ContractErrorsNeverFallBack
BY RoutingInvariant, FittingRefusesFallback, PTL

-------------------------------------------------------------------------------
\* What FallbackRecorded says of one task.
ResultRecorded(t) ==
    LET chosen == result[t].selection IN
    Answered(t) =>
        /\ trail[t] # <<>> /\ trail[t][Len(trail[t])] = <<chosen.provider, "ok">>
        /\ chosen.fallback <=> chosen.provider = "remote" /\ FirstTarget(request[t]) = "local"
        /\ Len(trail[t]) > 1 => chosen.fallback

\* A step of one task leaves the results of the others as they were recorded.
LEMMA OthersRecorded ==
    ASSUME FallbackRecorded, NEW t \in Task, Frame(t), ResultRecorded(t)'
    PROVE  FallbackRecorded'
<1> SUFFICES ASSUME NEW u \in Task \ {t} PROVE ResultRecorded(u)'
  BY DEF FallbackRecorded, ResultRecorded
<1>1. ResultRecorded(u)
  BY DEF FallbackRecorded, ResultRecorded
<1>2. /\ pc'[u] = pc[u] /\ call'[u] = call[u] /\ result'[u] = result[u]
      /\ trail'[u] = trail[u] /\ request'[u] = request[u]
  BY DEF Frame
<1>3. FirstTarget(request[u])' = FirstTarget(request[u])
  BY <1>2 DEF FirstTarget, EffectivePolicy, Frame
<1>4. Answered(u)' = Answered(u)
  BY <1>2 DEF Answered
<1>5. QED BY <1>1, <1>2, <1>3, <1>4 DEF ResultRecorded

\* The result of a call that has not just succeeded says nothing.
LEMMA NothingToRecord ==
    ASSUME TypeOK, FallbackRecorded, NEW t \in Task, Frame(t),
           pc'[t] # "idle" \/ call'[t] # "infer" \/ result'[t].status # "ok"
    PROVE  FallbackRecorded'
<1>1. ResultRecorded(t)'
  BY DEF ResultRecorded, Answered
<1>2. QED BY <1>1, OthersRecorded

\* A call of infer that succeeds records the target it succeeded on, and an
\* attempt before it only together with a fallback.
LEMMA RecordsSuccess ==
    ASSUME TypeOK, FallbackRecorded, NEW t \in Task, Frame(t),
           UNCHANGED <<request, selection>>,
           NEW target \in {"local", "remote"}, Attempted(t, target, "ok"), Return(t, "ok"),
           selection[t].provider = target,
           selection[t].fallback <=> target = "remote" /\ FirstTarget(request[t]) = "local",
           trail[t] = <<>> \/ selection[t].fallback
    PROVE  FallbackRecorded'
<1>1. FirstTarget(request[t])' = FirstTarget(request[t])
  BY DEF FirstTarget, EffectivePolicy, Frame
<1>2. result'[t].selection = selection[t]
  BY DEF Return, TypeOK
<1>3. /\ trail'[t] # <<>> /\ trail'[t][Len(trail'[t])] = <<target, "ok">>
      /\ Len(trail'[t]) = Len(trail[t]) + 1
  <2>1. trail[t] \in Seq({"local", "remote"} \X ({"ok"} \cup Failure))
    BY DEF TypeOK
  <2>2. trail'[t] = Append(trail[t], <<target, "ok">>)
    BY DEF Attempted, TypeOK
  <2>3. <<target, "ok">> \in {"local", "remote"} \X ({"ok"} \cup Failure)
    OBVIOUS
  <2>4. QED BY <2>1, <2>2, <2>3, AppendProperties
<1>4. Len(trail'[t]) > 1 => selection[t].fallback
  BY <1>3
<1>5. ResultRecorded(t)'
  BY <1>1, <1>2, <1>3, <1>4 DEF ResultRecorded
<1>6. QED BY <1>5, OthersRecorded

LEMMA NextRecorded ==
    TypeOK /\ Fitting /\ FallbackRecorded /\ [Next]_vars => FallbackRecorded'
<1> SUFFICES ASSUME TypeOK, Fitting, FallbackRecorded, [Next]_vars PROVE FallbackRecorded'
  OBVIOUS
<1>0. ASSUME NEW t \in Task
      PROVE  Fits(pc[t], call[t], request[t], selection[t], trail[t])
  BY DEF Fitting
<1>a. ASSUME NEW t \in Task, NEW error \in Failure, LocalFails(t, error)
      PROVE  pc'[t] # "idle" \/ result'[t].status # "ok"
  <2>1. Proceed(t, "remote") \/ Return(t, "unavailable") \/ Return(t, error)
    BY <1>a DEF LocalFails
  <2>2. error # "ok"
    BY DEF Failure
  <2>3. QED BY <2>1, <2>2 DEF Proceed, Return, Goto, TypeOK
<1>1. ASSUME NEW t \in Task, Submit(t) PROVE FallbackRecorded'
  BY <1>1, Frames, NothingToRecord DEF Submit, Goto, TypeOK
<1>2. ASSUME NEW t \in Task,
             Start(t) \/ Admit(t) \/ NoticeCancel(t) \/ Resolve(t) \/ SelectTarget(t) \/ BeginLoad(t)
      PROVE  FallbackRecorded'
  <2>1. pc'[t] # "idle" \/ result'[t].status # "ok"
    BY <1>2 DEF Start, Admit, NoticeCancel, Resolve, SelectTarget, BeginLoad,
                Proceed, Return, Goto, TypeOK
  <2>2. QED BY <1>2, <2>1, Frames, NothingToRecord DEF Progress
<1>3. ASSUME NEW t \in Task, Lookup(t) \/ EndLoad(t) \/ Refind(t) PROVE FallbackRecorded'
  <2>1. \/ \E s \in LocalStep : Proceed(t, s)
        \/ \E error \in Failure : LocalFails(t, error)
    BY <1>3 DEF Lookup, EndLoad, Refind, LocalStep, Failure
  <2>2. pc'[t] # "idle" \/ result'[t].status # "ok"
    BY <1>a, <2>1 DEF Proceed, Goto, TypeOK, LocalStep
  <2>3. QED BY <1>3, <2>2, Frames, NothingToRecord DEF Progress
<1>4. ASSUME NEW t \in Task, ExecuteLocal(t) PROVE FallbackRecorded'
  <2>1. CASE pc'[t] # "idle" \/ result'[t].status # "ok"
    BY <1>4, <2>1, Frames, NothingToRecord DEF Progress
  <2>2. CASE Attempted(t, "local", "ok") /\ Return(t, "ok") /\ UNCHANGED selection
    <3>1. selection[t] = [provider |-> "local", policy |-> EffectivePolicy(request[t]),
                          fallback |-> FALSE]
      BY <1>0, <1>4 DEF Fits, LocalStep, ExecuteLocal
    <3>2. selection[t].provider = "local" /\ selection[t].fallback = FALSE /\ trail[t] = <<>>
      BY <1>0, <1>4, <3>1 DEF Fits, LocalStep, ExecuteLocal
    <3>3. Frame(t) /\ UNCHANGED <<request, selection>>
      BY <1>4, <2>2, Frames DEF Progress, ExecuteLocal, jobVars
    <3>4. QED BY <2>2, <3>2, <3>3, RecordsSuccess
  <2>3. \/ pc'[t] # "idle"
        \/ Attempted(t, "local", "ok") /\ Return(t, "ok") /\ UNCHANGED selection
        \/ \E error \in Failure : LocalFails(t, error)
    BY <1>4 DEF ExecuteLocal, Succeeds, Failures, Proceed, Goto, TypeOK
  <2>4. QED BY <1>a, <2>1, <2>2, <2>3
<1>5. ASSUME NEW t \in Task, ExecuteRemote(t) PROVE FallbackRecorded'
  <2>1. CASE pc'[t] # "idle" \/ result'[t].status # "ok"
    BY <1>5, <2>1, Frames, NothingToRecord DEF Progress
  <2>2. CASE Attempted(t, "remote", "ok") /\ Return(t, "ok") /\ UNCHANGED selection
    <3>1. /\ selection[t].provider = "remote"
          /\ selection[t].fallback <=> EffectivePolicy(request[t]) \in LocalFirst
          /\ EffectivePolicy(request[t]) # "LocalOnly"
          /\ trail[t] = <<>> \/ selection[t].fallback
      BY <1>0, <1>5 DEF Fits, ExecuteRemote
    <3>2. Frame(t) /\ UNCHANGED <<request, selection>>
      BY <1>5, <2>2, Frames DEF Progress, ExecuteRemote, jobVars
    <3>3. selection[t].fallback <=> FirstTarget(request[t]) = "local"
      BY <3>1 DEF FirstTarget
    <3>4. QED BY <2>2, <3>1, <3>2, <3>3, RecordsSuccess
  <2>3. \/ pc'[t] # "idle"
        \/ Attempted(t, "remote", "ok") /\ Return(t, "ok") /\ UNCHANGED selection
        \/ result'[t].status # "ok"
    BY <1>5 DEF ExecuteRemote, Succeeds, Failures, Failure, Proceed, Return, Goto, TypeOK
  <2>4. QED BY <2>1, <2>2, <2>3
<1>6. ASSUME NEW t \in Task, Close(t) PROVE FallbackRecorded'
  <2>1. call'[t] # "infer"
    BY <1>0, <1>6 DEF Fits, Close, jobVars
  <2>2. QED BY <1>6, <2>1, Frames, NothingToRecord
<1>7. ASSUME NEW t \in Task, DropCall(t) PROVE FallbackRecorded'
  BY <1>7, Frames, NothingToRecord DEF DropCall, None, TypeOK
<1>8. CASE UNCHANGED vars \/ \E t \in Task : Cancel(t)
  <2>1. UNCHANGED <<pc, call, request, selection, trail, result, allow_remote_fallback>>
    BY <1>8 DEF vars, Cancel
  <2>2. \A t \in Task : FirstTarget(request[t])' = FirstTarget(request[t])
    BY <2>1 DEF FirstTarget, EffectivePolicy
  <2>3. QED BY <2>1, <2>2 DEF FallbackRecorded, Answered
<1>9. QED
  BY <1>1, <1>2, <1>3, <1>4, <1>5, <1>6, <1>7, <1>8 DEF Next, Progress, Finished

\* A result of infer names the target of the attempt that succeeded, is marked
\* as a fallback exactly when the local target was put first and the remote one
\* answered, and never hides a failed attempt.
THEOREM FallbacksAreRecorded == Spec => []FallbackRecorded
<1>1. Init => FallbackRecorded
  BY DEF Init, FallbackRecorded, Answered, None
<1>2. TypeOK /\ Fitting /\ FallbackRecorded /\ [Next]_vars => FallbackRecorded'
  BY NextRecorded
<1>3. QED BY <1>1, <1>2, RoutingInvariant, PTL DEF Spec

-------------------------------------------------------------------------------
\* A bounded set that changes by one element, and grows only under the bound.
LEMMA BoundStep ==
    ASSUME NEW S, IsFiniteSet(S), NEW n \in Nat, Cardinality(S) <= n, NEW t, NEW T,
           T = S \/ T = S \ {t} \/ (T = S \cup {t} /\ Cardinality(S) < n)
    PROVE  Cardinality(T) <= n
<1>1. CASE T \subseteq S
  <2>1. Cardinality(T) <= Cardinality(S) /\ Cardinality(T) \in Nat /\ Cardinality(S) \in Nat
    BY <1>1, FS_Subset, FS_CardinalityType
  <2>2. QED BY <2>1
<1>2. CASE T = S \cup {t} /\ Cardinality(S) < n
  <2>1. Cardinality(S) \in Nat
        /\ Cardinality(T) = IF t \in S THEN Cardinality(S) ELSE Cardinality(S) + 1
    BY <1>2, FS_AddElement, FS_CardinalityType
  <2>2. QED BY <1>2, <2>1
<1>3. QED BY <1>1, <1>2

\* The permits out are those of the tasks that need one: a step only has to say
\* what becomes of the permits of the task that moves.
LEMMA PermitStep ==
    ASSUME TypeOK, PermitsHeld, NEW t \in Task, Frame(t),
           \/ inference_permits' \in {inference_permits, inference_permits \ {t}}
           \/ /\ inference_permits' = inference_permits \cup {t}
              /\ Cardinality(inference_permits) < InferPermits,
           \/ load_permits' \in {load_permits, load_permits \ {t}}
           \/ /\ load_permits' = load_permits \cup {t}
              /\ Cardinality(load_permits) < LoadPermits,
           t \in inference_permits' <=> pc'[t] \in Running /\ call'[t] # "stream",
           t \in load_permits' <=> pc'[t] = "loading"
    PROVE  PermitsHeld'
<1>1. inference_permits \subseteq Task /\ load_permits \subseteq Task
  BY DEF PermitsHeld
<1>2. IsFiniteSet(inference_permits) /\ IsFiniteSet(load_permits)
  BY <1>1, FS_Subset, ExecutionAssumption
<1>3. InferPermits \in Nat /\ LoadPermits \in Nat
  BY ExecutionAssumption
<1>5. Cardinality(inference_permits) <= InferPermits /\ Cardinality(load_permits) <= LoadPermits
  BY DEF PermitsHeld
<1>6. Cardinality(inference_permits') <= InferPermits
  <2>1. \/ inference_permits' = inference_permits
        \/ inference_permits' = inference_permits \ {t}
        \/ inference_permits' = inference_permits \cup {t}
           /\ Cardinality(inference_permits) < InferPermits
    OBVIOUS
  <2>2. QED BY <1>2, <1>3, <1>5, <2>1, BoundStep
<1>7. Cardinality(load_permits') <= LoadPermits
  <2>1. \/ load_permits' = load_permits
        \/ load_permits' = load_permits \ {t}
        \/ load_permits' = load_permits \cup {t}
           /\ Cardinality(load_permits) < LoadPermits
    OBVIOUS
  <2>2. QED BY <1>2, <1>3, <1>5, <2>1, BoundStep
<1>8. inference_permits' \subseteq Task /\ load_permits' \subseteq Task
  BY <1>1
<1>9. \A u \in Task : /\ u \in inference_permits' <=> pc'[u] \in Running /\ call'[u] # "stream"
                      /\ u \in load_permits' <=> pc'[u] = "loading"
  <2> SUFFICES ASSUME NEW u \in Task, u # t
               PROVE  /\ u \in inference_permits' <=> pc'[u] \in Running /\ call'[u] # "stream"
                      /\ u \in load_permits' <=> pc'[u] = "loading"
    OBVIOUS
  <2>1. pc'[u] = pc[u] /\ call'[u] = call[u]
    BY DEF Frame
  <2>2. /\ u \in inference_permits' <=> u \in inference_permits
        /\ u \in load_permits' <=> u \in load_permits
    OBVIOUS
  <2>3. QED BY <2>1, <2>2 DEF PermitsHeld
<1>10. QED BY <1>6, <1>7, <1>8, <1>9 DEF PermitsHeld

LEMMA NextPermits == TypeOK /\ Fitting /\ PermitsHeld /\ [Next]_vars => PermitsHeld'
<1> SUFFICES ASSUME TypeOK, Fitting, PermitsHeld, [Next]_vars PROVE PermitsHeld'
  OBVIOUS
<1>0. ASSUME NEW t \in Task
      PROVE  /\ t \in inference_permits <=> pc[t] \in Running /\ call[t] # "stream"
             /\ t \in load_permits <=> pc[t] = "loading"
             /\ call[t] = "chat" => pc[t] \in {"idle", "start", "admit", "open"}
  BY DEF PermitsHeld, Fitting, Fits
<1>a. ASSUME NEW t \in Task, NEW error, LocalFails(t, error)
      PROVE  \/ pc'[t] = "remote" /\ UNCHANGED inference_permits
             \/ pc'[t] = "idle" /\ inference_permits' = inference_permits \ {t}
  <2>1. Proceed(t, "remote") \/ Return(t, "unavailable") \/ Return(t, error)
    BY <1>a DEF LocalFails
  <2>2. QED BY <2>1 DEF Proceed, Return, Goto, TypeOK
<1>1. ASSUME NEW t \in Task, Submit(t) PROVE PermitsHeld'
  <2>1. pc[t] = "idle" /\ pc'[t] = "start" /\ UNCHANGED <<inference_permits, load_permits>>
    BY <1>1 DEF Submit, Goto, TypeOK, semaphores
  <2>2. QED BY <1>0, <1>1, <2>1, Frames, PermitStep DEF Running
<1>2. ASSUME NEW t \in Task, Start(t) \/ NoticeCancel(t) \/ Close(t) PROVE PermitsHeld'
  <2>1. /\ pc[t] # "loading" /\ UNCHANGED <<call, load_permits>>
        /\ \/ pc'[t] = "idle" /\ inference_permits' = inference_permits \ {t}
           \/ /\ pc[t] = "start" /\ pc'[t] = "admit" /\ UNCHANGED inference_permits
           \/ /\ pc[t] = "start" /\ pc'[t] = "resolve" /\ UNCHANGED inference_permits
              /\ call[t] = "stream"
    BY <1>2 DEF Start, NoticeCancel, Close, Return, Proceed, Goto, TypeOK, jobVars
  <2>2. QED BY <1>0, <1>2, <2>1, Frames, PermitStep DEF Running, Progress
<1>3. ASSUME NEW t \in Task, Admit(t) PROVE PermitsHeld'
  <2>1. /\ pc[t] = "admit" /\ pc'[t] \in {"open", "resolve"}
        /\ UNCHANGED <<call, load_permits>>
        /\ inference_permits' = inference_permits \cup {t}
        /\ Cardinality(inference_permits) < InferPermits
    BY <1>3 DEF Admit, PermitFree, Goto, TypeOK, jobVars
  <2>2. call[t] # "stream"
    BY <2>1 DEF Fitting, Fits
  <2>3. QED BY <1>0, <1>3, <2>1, <2>2, Frames, PermitStep DEF Running, Progress

<1>4. ASSUME NEW t \in Task, Resolve(t) \/ SelectTarget(t) \/ Lookup(t) \/ Refind(t)
                             \/ ExecuteLocal(t) \/ ExecuteRemote(t)
      PROVE  PermitsHeld'
  <2>1. pc[t] \in {"resolve", "select", "lookup", "refind", "backend", "remote"}
        /\ UNCHANGED <<call, load_permits>>
    BY <1>4 DEF Resolve, SelectTarget, Lookup, Refind, ExecuteLocal, ExecuteRemote, jobVars
  <2>2. \/ \E s \in Running \ {"loading"} : Proceed(t, s)
        \/ \E status : Return(t, status)
        \/ \E error : LocalFails(t, error)
    <3>1. CASE Resolve(t) \/ SelectTarget(t)
      BY <3>1 DEF Resolve, SelectTarget, Running
    <3>2. CASE Lookup(t) \/ Refind(t)
      BY <3>2 DEF Lookup, Refind, Running
    <3>3. CASE ExecuteLocal(t) \/ ExecuteRemote(t)
      BY <3>3 DEF ExecuteLocal, ExecuteRemote, Succeeds, Running
    <3>4. QED BY <1>4, <3>1, <3>2, <3>3
  <2>3. \/ pc'[t] \in Running \ {"loading"} /\ UNCHANGED inference_permits
        \/ pc'[t] = "idle" /\ inference_permits' = inference_permits \ {t}
    <3>1. CASE \E s \in Running \ {"loading"} : Proceed(t, s)
      BY <3>1 DEF Proceed, Goto, TypeOK
    <3>2. CASE \E status : Return(t, status)
      BY <3>2 DEF Return, Goto, TypeOK
    <3>3. CASE \E error : LocalFails(t, error)
      BY <1>a, <3>3 DEF Running
    <3>4. QED BY <2>2, <3>1, <3>2, <3>3
  <2>4. QED BY <1>0, <1>4, <2>1, <2>3, Frames, PermitStep DEF Running, Progress
<1>5. ASSUME NEW t \in Task, BeginLoad(t) PROVE PermitsHeld'
  <2>1. /\ pc[t] = "load" /\ UNCHANGED <<call, inference_permits>>
        /\ \/ pc'[t] = "refind" /\ UNCHANGED load_permits
           \/ /\ pc'[t] = "loading" /\ load_permits' = load_permits \cup {t}
              /\ Cardinality(load_permits) < LoadPermits
    BY <1>5 DEF BeginLoad, Goto, TypeOK, jobVars
  <2>2. QED BY <1>0, <1>5, <2>1, Frames, PermitStep DEF Running, Progress
<1>6. ASSUME NEW t \in Task, EndLoad(t) PROVE PermitsHeld'
  <2>1. /\ pc[t] = "loading" /\ UNCHANGED call /\ load_permits' = load_permits \ {t}
        /\ \/ Proceed(t, "refind")
           \/ \E error : LocalFails(t, error)
    BY <1>6 DEF EndLoad, jobVars
  <2>2. \/ pc'[t] \in {"refind", "remote"} /\ UNCHANGED inference_permits
        \/ pc'[t] = "idle" /\ inference_permits' = inference_permits \ {t}
    BY <1>a, <2>1 DEF Proceed, Goto, TypeOK
  <2>3. QED BY <1>0, <1>6, <2>1, <2>2, Frames, PermitStep DEF Running, Progress
<1>7. ASSUME NEW t \in Task, DropCall(t) PROVE PermitsHeld'
  <2>1. /\ pc'[t] = "idle" /\ UNCHANGED call
        /\ inference_permits' = inference_permits \ {t} /\ load_permits' = load_permits \ {t}
    BY <1>7 DEF DropCall, Goto, TypeOK, jobVars
  <2>2. QED BY <1>7, <2>1, Frames, PermitStep DEF Running
<1>8. CASE UNCHANGED vars \/ \E t \in Task : Cancel(t)
  BY <1>8 DEF PermitsHeld, vars, Cancel, semaphores
<1>9. QED
  BY <1>1, <1>2, <1>3, <1>4, <1>5, <1>6, <1>7, <1>8 DEF Next, Progress, Finished

\* The permits out are those of the admitted calls and of the loads, on every
\* way out of them, dropped futures included, and never more than the limits.
THEOREM PermitsAreHeld == Spec => []PermitsHeld
<1>1. Init => PermitsHeld
  <2>1. Cardinality({}) = 0
    BY FS_EmptySet
  <2>2. QED BY <2>1, ExecutionAssumption DEF Init, PermitsHeld, Running
<1>2. TypeOK /\ Fitting /\ PermitsHeld /\ [Next]_vars => PermitsHeld'
  BY NextPermits
<1>3. QED BY <1>1, <1>2, RoutingInvariant, PTL DEF Spec

-------------------------------------------------------------------------------
\* The counters.  A step of a call that goes on leaves them alone.
InFlight == {t \in Task : pc[t] # "idle" /\ call[t] = "infer"}

LEMMA CallSteps ==
    ASSUME TypeOK, NEW t \in Task, Progress(t) \/ Close(t)
    PROVE  /\ pc[t] # "idle" /\ call' = call /\ tally' = tally
           /\ \/ pc'[t] # "idle" /\ metrics' = metrics
              \/ \E status : Return(t, status)
<1> DEFINE GoesOn == pc'[t] # "idle" /\ metrics' = metrics
           Ends == \E status : Return(t, status)
<1>a. ASSUME NEW s \in Running \cup {"admit"}, Proceed(t, s) PROVE GoesOn
  BY <1>a DEF Proceed, Goto, TypeOK, Running
<1>b. ASSUME NEW error, LocalFails(t, error) PROVE GoesOn \/ Ends
  <2>1. Proceed(t, "remote") \/ Ends
    BY <1>b DEF LocalFails
  <2>2. QED BY <1>a, <2>1 DEF Running
<1>1. CASE Start(t) \/ NoticeCancel(t) \/ Close(t)
  BY <1>a, <1>1 DEF Start, NoticeCancel, Close, jobVars, Running
<1>2. CASE Admit(t) \/ BeginLoad(t)
  BY <1>2 DEF Admit, BeginLoad, Goto, TypeOK, jobVars
<1>3. CASE Resolve(t) \/ SelectTarget(t)
  BY <1>a, <1>3 DEF Resolve, SelectTarget, jobVars, Running
<1>4. CASE Lookup(t) \/ EndLoad(t) \/ Refind(t)
  BY <1>a, <1>b, <1>4 DEF Lookup, EndLoad, Refind, jobVars, Running
<1>5. CASE ExecuteLocal(t) \/ ExecuteRemote(t)
  BY <1>a, <1>b, <1>5 DEF ExecuteLocal, ExecuteRemote, Succeeds, jobVars, Running
<1>6. QED BY <1>1, <1>2, <1>3, <1>4, <1>5 DEF Progress

\* An infer ends under one outcome and one target, whatever its status, and
\* counts as a stream besides only if it did not succeed.
LEMMA EndedCounters ==
    ASSUME TypeOK, NEW t \in Task, NEW status, metrics' = Ended(t, status)
    PROVE  /\ metrics' \in [Counter -> Int]
           /\ metrics'["total_requests"] = metrics["total_requests"]
           /\ metrics'["active_inferences"] = metrics["active_inferences"] - 1
           /\ metrics'["successful_requests"] + metrics'["failed_requests"]
                 + metrics'["cancelled_requests"]
              = metrics["successful_requests"] + metrics["failed_requests"]
                 + metrics["cancelled_requests"] + 1
           /\ metrics'["local_executions"] + metrics'["remote_executions"]
              = metrics["local_executions"] + metrics["remote_executions"] + 1
           /\ metrics["streaming_requests"] <= metrics'["streaming_requests"]
           /\ metrics'["streaming_requests"] - metrics["streaming_requests"]
              <= metrics'["failed_requests"] + metrics'["cancelled_requests"]
                 - (metrics["failed_requests"] + metrics["cancelled_requests"])
<1> DEFINE ending == IF status = "ok" THEN {"successful_requests"}
                     ELSE IF status = "cancelled" THEN {"cancelled_requests"}
                     ELSE {"failed_requests"}
           outcomes == {"successful_requests", "failed_requests", "cancelled_requests"}
           targets == {"local_executions", "remote_executions"}
<1>1. \A c \in Counter : metrics[c] \in Int
  BY DEF TypeOK
<1>2. metrics' = [c \in Counter |-> IF c = "active_inferences" THEN metrics[c] - 1
                                    ELSE metrics[c] + (IF c \in ending \cup Recorded(t, status)
                                                       THEN 1 ELSE 0)]
  BY DEF Ended
<1>3. /\ Recorded(t, status) \cap ({"total_requests", "active_inferences"} \cup outcomes) = {}
      /\ "streaming_requests" \in Recorded(t, status) => status # "ok"
      /\ \/ Recorded(t, status) \cap targets = {"local_executions"}
         \/ Recorded(t, status) \cap targets = {"remote_executions"}
  BY DEF Recorded
<1>4. \A c \in Counter : metrics'[c] \in Int
  BY <1>1, <1>2
<1>5. metrics' \in [Counter -> Int]
  BY <1>2, <1>4
<1>6. /\ metrics'["total_requests"] = metrics["total_requests"]
      /\ metrics'["active_inferences"] = metrics["active_inferences"] - 1
  BY <1>1, <1>2, <1>3 DEF Counter
<1>7. \A c \in outcomes : metrics'[c] = metrics[c] + (IF c \in ending THEN 1 ELSE 0)
  BY <1>1, <1>2, <1>3 DEF Counter
<1>8. \A c \in targets : metrics'[c] = metrics[c] + (IF c \in Recorded(t, status) THEN 1 ELSE 0)
  BY <1>1, <1>2 DEF Counter
<1>9. metrics'["local_executions"] + metrics'["remote_executions"]
         = metrics["local_executions"] + metrics["remote_executions"] + 1
  <2>1. "local_executions" \in Recorded(t, status)
           <=> "remote_executions" \notin Recorded(t, status)
    BY <1>3
  <2>2. QED BY <1>1, <1>8, <2>1 DEF Counter
<1>10. /\ metrics'["streaming_requests"] \in {metrics["streaming_requests"],
                                              metrics["streaming_requests"] + 1}
       /\ status = "ok" => metrics'["streaming_requests"] = metrics["streaming_requests"]
  BY <1>1, <1>2, <1>3 DEF Counter
<1>11. metrics'["successful_requests"] + metrics'["failed_requests"]
            + metrics'["cancelled_requests"]
         = metrics["successful_requests"] + metrics["failed_requests"]
            + metrics["cancelled_requests"] + 1
  BY <1>1, <1>7 DEF Counter
<1>12. metrics'["failed_requests"] + metrics'["cancelled_requests"]
         = metrics["failed_requests"] + metrics["cancelled_requests"]
           + (IF status = "ok" THEN 0 ELSE 1)
  BY <1>1, <1>7 DEF Counter
<1>13. /\ metrics["streaming_requests"] <= metrics'["streaming_requests"]
       /\ metrics'["streaming_requests"] - metrics["streaming_requests"]
          <= metrics'["failed_requests"] + metrics'["cancelled_requests"]
             - (metrics["failed_requests"] + metrics["cancelled_requests"])
  <2>1. metrics["streaming_requests"] \in Int
    BY <1>1 DEF Counter
  <2>2. metrics["failed_requests"] \in Int /\ metrics["cancelled_requests"] \in Int
    BY <1>1 DEF Counter
  <2>3. metrics'["failed_requests"] \in Int /\ metrics'["cancelled_requests"] \in Int
    BY <1>4 DEF Counter
  <2>4. CASE status = "ok"
    BY <1>10, <1>12, <2>1, <2>2, <2>3, <2>4
  <2>5. CASE status # "ok"
    BY <1>10, <1>12, <2>1, <2>2, <2>3, <2>5
  <2>6. QED BY <2>4, <2>5
<1>14. QED BY <1>5, <1>6, <1>9, <1>11, <1>13

LEMMA NextAccounted ==
    TypeOK /\ RequestsAccounted /\ [Next]_vars => RequestsAccounted'
<1> SUFFICES ASSUME TypeOK, RequestsAccounted, [Next]_vars PROVE RequestsAccounted'
  OBVIOUS
<1>a. /\ \A c \in Counter : metrics[c] \in Int
      /\ tally["infer"] \in Nat /\ tally["stream"] \in Nat /\ tally["dropped"] \in Nat
  BY DEF TypeOK
<1>b. IsFiniteSet(InFlight) /\ Cardinality(InFlight) \in Nat
  <2>1. InFlight \subseteq Task
    BY DEF InFlight
  <2>2. QED BY <2>1, FS_Subset, FS_CardinalityType, ExecutionAssumption
<1>c. metrics["active_inferences"] = Cardinality(InFlight) + tally["dropped"]
  BY DEF RequestsAccounted, InFlight
<1>d. ASSUME InFlight' = InFlight, metrics' = metrics, tally' = tally PROVE RequestsAccounted'
  BY <1>d DEF RequestsAccounted, InFlight
<1>e. ASSUME NEW t \in Task, Submit(t) \/ Progress(t) \/ Close(t) \/ DropCall(t) \/ Cancel(t)
      PROVE  \A u \in Task \ {t} : u \in InFlight' <=> u \in InFlight
  BY <1>e, Frames DEF Frame, InFlight
<1>1. ASSUME NEW t \in Task, Submit(t) PROVE RequestsAccounted'
  <2>1. t \notin InFlight
    BY <1>1 DEF InFlight, Submit
  <2>2. PICK c \in Calls :
           /\ call'[t] = c /\ pc'[t] # "idle"
           /\ Add(IF c = "infer" THEN {"total_requests", "active_inferences"}
                  ELSE IF c = "stream" THEN {"total_requests", "streaming_requests"}
                  ELSE {})
           /\ tally' = [k \in DOMAIN tally |-> tally[k] + IF k = c THEN 1 ELSE 0]
    BY <1>1 DEF Submit, Goto, TypeOK
  <2>3. c \in {"infer", "stream", "chat"}
    BY ExecutionAssumption
  <2>4. /\ tally'["infer"] = tally["infer"] + (IF c = "infer" THEN 1 ELSE 0)
        /\ tally'["stream"] = tally["stream"] + (IF c = "stream" THEN 1 ELSE 0)
        /\ tally'["dropped"] = tally["dropped"]
    BY <1>a, <2>2, <2>3 DEF TypeOK
  <2>5. CASE c = "infer"
    <3>1. Add({"total_requests", "active_inferences"})
      BY <2>2, <2>5
    <3>2. /\ metrics'["total_requests"] = metrics["total_requests"] + 1
          /\ metrics'["active_inferences"] = metrics["active_inferences"] + 1
          /\ \A k \in {"successful_requests", "failed_requests", "cancelled_requests",
                       "streaming_requests", "local_executions", "remote_executions"} :
                metrics'[k] = metrics[k]
      BY <1>a, <3>1 DEF Add, Counter
    <3>3. InFlight' = InFlight \cup {t}
      BY <1>1, <1>e, <2>2, <2>5 DEF InFlight
    <3>4. Cardinality(InFlight') = Cardinality(InFlight) + 1
      BY <1>b, <2>1, <3>3, FS_AddElement
    <3>5. metrics'["active_inferences"] = Cardinality(InFlight') + tally'["dropped"]
      BY <1>a, <1>b, <1>c, <2>4, <3>2, <3>4 DEF Counter
    <3>6. QED BY <1>a, <2>4, <2>5, <3>2, <3>5 DEF RequestsAccounted, InFlight, Counter
  <2>6. CASE c # "infer"
    <3>1. InFlight' = InFlight
      BY <1>1, <1>e, <2>1, <2>2, <2>6 DEF InFlight
    <3>2. CASE c = "stream"
      <4>1. Add({"total_requests", "streaming_requests"})
        BY <2>2, <3>2
      <4>2. /\ metrics'["total_requests"] = metrics["total_requests"] + 1
            /\ metrics'["streaming_requests"] = metrics["streaming_requests"] + 1
            /\ \A k \in {"successful_requests", "failed_requests", "cancelled_requests",
                         "active_inferences", "local_executions", "remote_executions"} :
                  metrics'[k] = metrics[k]
        BY <1>a, <4>1 DEF Add, Counter
      <4>3. metrics'["active_inferences"] = Cardinality(InFlight') + tally'["dropped"]
        BY <1>c, <2>4, <3>1, <4>2
      <4>4. QED BY <1>a, <2>4, <3>2, <4>2, <4>3 DEF RequestsAccounted, InFlight, Counter
    <3>3. CASE c # "stream"
      <4>1. Add({})
        BY <2>2, <2>6, <3>3
      <4>2. metrics' = [k \in Counter |-> metrics[k]]
        BY <1>a, <4>1 DEF Add
      <4>3. metrics' = metrics
        BY <4>2 DEF TypeOK
      <4>4. tally' = [k \in {"infer", "stream", "dropped"} |-> tally[k]]
        BY <1>a, <2>2, <2>3, <2>6, <3>3 DEF TypeOK
      <4>5. tally' = tally
        BY <4>4 DEF TypeOK
      <4>6. QED BY <1>d, <3>1, <4>3, <4>5
    <3>4. QED BY <3>2, <3>3
  <2>7. QED BY <2>5, <2>6
<1>2. ASSUME NEW t \in Task, Progress(t) \/ Close(t) PROVE RequestsAccounted'
  <2>1. /\ pc[t] # "idle" /\ call' = call /\ tally' = tally
        /\ \/ pc'[t] # "idle" /\ metrics' = metrics
           \/ \E status : Return(t, status)
    BY <1>2, CallSteps
  <2>2. CASE pc'[t] # "idle" /\ metrics' = metrics
    <3>1. InFlight' = InFlight
      BY <1>2, <1>e, <2>1, <2>2 DEF InFlight
    <3>2. QED BY <1>d, <2>1, <2>2, <3>1
  <2>3. ASSUME NEW status, Return(t, status), call[t] # "infer" PROVE RequestsAccounted'
    <3>1. metrics' = metrics
      BY <2>3 DEF Return
    <3>2. InFlight' = InFlight
      BY <1>2, <1>e, <2>1, <2>3 DEF InFlight
    <3>3. QED BY <1>d, <2>1, <3>1, <3>2
  <2>4. ASSUME NEW status, Return(t, status), call[t] = "infer" PROVE RequestsAccounted'
    <3>1. metrics' = Ended(t, status) /\ pc'[t] = "idle"
      BY <2>4 DEF Return, Goto, TypeOK
    <3>2. t \in InFlight /\ InFlight' = InFlight \ {t}
      BY <1>2, <1>e, <2>1, <2>4, <3>1 DEF InFlight
    <3>3. Cardinality(InFlight') = Cardinality(InFlight) - 1
      BY <1>b, <3>2, FS_RemoveElement
    <3>4. /\ \A k \in Counter : metrics'[k] \in Int
          /\ metrics'["total_requests"] = metrics["total_requests"]
          /\ metrics'["active_inferences"] = metrics["active_inferences"] - 1
          /\ metrics'["successful_requests"] + metrics'["failed_requests"]
                + metrics'["cancelled_requests"]
             = metrics["successful_requests"] + metrics["failed_requests"]
                + metrics["cancelled_requests"] + 1
          /\ metrics'["local_executions"] + metrics'["remote_executions"]
             = metrics["local_executions"] + metrics["remote_executions"] + 1
          /\ metrics["streaming_requests"] <= metrics'["streaming_requests"]
          /\ metrics'["streaming_requests"] - metrics["streaming_requests"]
             <= metrics'["failed_requests"] + metrics'["cancelled_requests"]
                - (metrics["failed_requests"] + metrics["cancelled_requests"])
      BY <3>1, EndedCounters
    <3>5. metrics'["active_inferences"] = Cardinality(InFlight') + tally'["dropped"]
      BY <1>a, <1>b, <1>c, <2>1, <3>3, <3>4 DEF Counter
    <3>6. QED BY <1>a, <2>1, <3>4, <3>5 DEF RequestsAccounted, InFlight, Counter
  <2>5. QED BY <2>1, <2>2, <2>3, <2>4
<1>3. ASSUME NEW t \in Task, DropCall(t) PROVE RequestsAccounted'
  <2>1. /\ metrics' = metrics /\ pc[t] # "idle" /\ pc'[t] = "idle" /\ call' = call
        /\ tally' = IF call[t] = "infer" THEN [tally EXCEPT !["dropped"] = @ + 1] ELSE tally
    BY <1>3 DEF DropCall, Goto, TypeOK, jobVars
  <2>2. CASE call[t] = "infer"
    <3>1. t \in InFlight /\ InFlight' = InFlight \ {t}
      BY <1>3, <1>e, <2>1, <2>2 DEF InFlight
    <3>2. Cardinality(InFlight') = Cardinality(InFlight) - 1
      BY <1>b, <3>1, FS_RemoveElement
    <3>3. /\ tally'["infer"] = tally["infer"] /\ tally'["stream"] = tally["stream"]
          /\ tally'["dropped"] = tally["dropped"] + 1
      BY <2>1, <2>2 DEF TypeOK
    <3>4. metrics'["active_inferences"] = Cardinality(InFlight') + tally'["dropped"]
      BY <1>a, <1>b, <1>c, <2>1, <3>2, <3>3
    <3>5. QED BY <2>1, <3>3, <3>4 DEF RequestsAccounted, InFlight
  <2>3. CASE call[t] # "infer"
    <3>1. InFlight' = InFlight
      BY <1>3, <1>e, <2>1, <2>3 DEF InFlight
    <3>2. QED BY <1>d, <2>1, <2>3, <3>1
  <2>4. QED BY <2>2, <2>3
<1>4. CASE UNCHANGED vars \/ \E t \in Task : Cancel(t)
  <2>1. UNCHANGED <<pc, call, metrics, tally>>
    BY <1>4 DEF vars, Cancel
  <2>2. QED BY <1>d, <2>1 DEF InFlight
<1>5. QED BY <1>1, <1>2, <1>3, <1>4 DEF Next, Finished

\* Every infer that was asked for ended under exactly one outcome and one
\* target, is in flight, or was dropped and stays active; a stream counts once,
\* and so does an infer that did not succeed at most.
THEOREM RequestsAreAccounted == Spec => []RequestsAccounted
<1>1. Init => RequestsAccounted
  <2>1. Cardinality({}) = 0
    BY FS_EmptySet
  <2>2. ASSUME Init PROVE RequestsAccounted
    <3>1. {t \in Task : pc[t] # "idle" /\ call[t] = "infer"} = {}
      BY <2>2 DEF Init
    <3>2. /\ \A c \in Counter : metrics[c] = 0
          /\ tally["infer"] = 0 /\ tally["stream"] = 0 /\ tally["dropped"] = 0
      BY <2>2 DEF Init
    <3>3. QED BY <2>1, <3>1, <3>2 DEF RequestsAccounted, Counter
  <2>3. QED BY <2>2
<1>2. TypeOK /\ RequestsAccounted /\ [Next]_vars => RequestsAccounted'
  BY NextAccounted
<1>3. QED BY <1>1, <1>2, RoutingInvariant, PTL DEF Spec

-------------------------------------------------------------------------------
\* InferBatch routes as InferenceExecution does, and both are about the same
\* requests.
LEMMA SameRouting ==
    ASSUME NEW r, NEW models, NEW chosen
    PROVE  /\ Batch!Request = Request
           /\ Batch!EffectivePolicy(r) = EffectivePolicy(r)
           /\ Batch!Select(r, models) = Select(r, models)
           /\ Batch!CanFallback(r, chosen, "unavailable") = CanFallback(r, chosen, "unavailable")
<1>1. Batch!Request = Request
  BY DEF Request, ExecutionPolicy, LocalFirst, RemoteFirst,
     Batch!Request, Batch!ExecutionPolicy, Batch!LocalFirst, Batch!RemoteFirst
<1>2. Batch!EffectivePolicy(r) = EffectivePolicy(r)
  BY DEF EffectivePolicy, Batch!EffectivePolicy
<1>3. Batch!LocalSelection(r, models) = LocalSelection(r, models)
  BY <1>2 DEF LocalSelection, NoSelection, Batch!LocalSelection, Batch!NoSelection
<1>4. \A fallback : Batch!RemoteSelection(r, fallback) = RemoteSelection(r, fallback)
  BY DEF RemoteSelection, NoSelection, Batch!RemoteSelection, Batch!NoSelection
<1>5. Batch!Select(r, models) = Select(r, models)
  <2>1. \A first, second : Batch!Preferring(first, second) = Preferring(first, second)
    BY DEF Preferring, NoSelection, Batch!Preferring, Batch!NoSelection
  <2>2. /\ Batch!LocalFirst = LocalFirst
        /\ Batch!RemoteSelection(r, TRUE) = RemoteSelection(r, TRUE)
        /\ Batch!RemoteSelection(r, FALSE) = RemoteSelection(r, FALSE)
    BY <1>4 DEF LocalFirst, Batch!LocalFirst
  <2>3. QED BY <1>2, <1>3, <2>1, <2>2 DEF Select, Batch!Select
<1>6. Batch!CanFallback(r, chosen, "unavailable") = CanFallback(r, chosen, "unavailable")
  BY DEF CanFallback, LocalFirst, Batch!CanFallback, Batch!LocalFirst
<1>7. QED BY <1>1, <1>2, <1>5, <1>6

\* An infer that may end on the remote target, directly or by a fallback, is not
\* LocalOnly.
LEMMA ReachableTargets ==
    ASSUME NEW r \in Request, allow_remote_fallback \in BOOLEAN
    PROVE  /\ Batch!Reachable(r) \subseteq {"none", "local", "remote"}
           /\ "remote" \in Batch!Reachable(r) => EffectivePolicy(r) # "LocalOnly"
<1> DEFINE chosen == Select(r, loaded)
<1>1. Batch!Reachable(r) = {chosen.provider}
                           \cup IF CanFallback(r, chosen, "unavailable") THEN {"remote"} ELSE {}
  BY SameRouting DEF Batch!Reachable
<1>2. CASE chosen = NoSelection
  BY <1>1, <1>2 DEF NoSelection, CanFallback, LocalFirst
<1>3. CASE chosen # NoSelection
  <2>1. /\ chosen \in Selection
        /\ chosen.provider = "local" =>
              chosen = [provider |-> "local", policy |-> EffectivePolicy(r), fallback |-> FALSE]
        /\ chosen.provider # "local" =>
              chosen.provider = "remote" /\ EffectivePolicy(r) # "LocalOnly"
    BY <1>3, SelectFacts
  <2>2. CASE chosen.provider = "local"
    <3>1. chosen.policy = EffectivePolicy(r)
      BY <2>1, <2>2
    <3>2. CanFallback(r, chosen, "unavailable") => EffectivePolicy(r) # "LocalOnly"
      BY <3>1 DEF CanFallback, LocalFirst
    <3>3. QED BY <1>1, <2>2, <3>2
  <2>3. CASE chosen.provider # "local"
    BY <1>1, <2>1, <2>3
  <2>4. QED BY <2>2, <2>3
<1>4. QED BY <1>2, <1>3

\* The catalog says where a model comes from, not which model it is.
LEMMA ResolvedInBatch ==
    ASSUME NEW r \in Request
    PROVE  /\ Batch!Resolved(r) \in Request
           /\ Batch!Resolved(r).model = r.model
           /\ EffectivePolicy(Batch!Resolved(r)) = EffectivePolicy(r)
<1>1. Batch!Resolved(r) = r \/ Batch!Resolved(r) = [r EXCEPT !.reference = "spec"]
  BY DEF Batch!Resolved
<1>2. [r EXCEPT !.reference = "spec"].model = r.model
  BY DEF Request
<1>3. QED BY <1>1, <1>2, ResolvedRequest

BatchResult == [state : {"pending", "ok", "failed"}, target : {"none", "local", "remote"},
                model : Seq(Model)]

\* A result of an infer of its own: of the model of its request, and remote only
\* if the policy of that request permits it.
OwnResult(i) ==
    /\ items[i].model = <<requests[i].model>>
    /\ items[i].target = "remote" => EffectivePolicy(requests[i]) # "LocalOnly"

\* What a batch has got so far are results of their own, and what it answers
\* answers its requests.
BatchInv ==
    /\ allow_remote_fallback \in BOOLEAN
    /\ requests \in Seq(Request) /\ items \in Seq(BatchResult) /\ Len(items) = Len(requests)
    /\ batch_step \in {"lookup", "batch"} => Batch!SameModel
    /\ batch_step # "idle" =>
          /\ answer = "none"
          /\ \A i \in 1..Len(requests) : items[i].state = "ok" => OwnResult(i)
    /\ ResultsAnswerRequests

\* A batch that has no answer, or one that is not Ok, has nothing to answer for.
LEMMA NoAnswer == ASSUME answer' # "ok" PROVE ResultsAnswerRequests'
BY DEF ResultsAnswerRequests, Batch!ResultsAnswerRequests

LEMMA OwnAnswers ==
    ASSUME requests \in Seq(Request), items \in Seq(BatchResult), Len(items) = Len(requests),
           \A i \in 1..Len(requests) : items[i].state = "ok" /\ OwnResult(i)
    PROVE  ResultsAnswerRequests
<1> SUFFICES ASSUME NEW i \in 1..Len(requests)
             PROVE  /\ items[i].state = "ok" /\ items[i].model[1].id = requests[i].model.id
                    /\ items[i].model = <<requests[i].model>>
                    /\ items[i].target = "remote" => EffectivePolicy(requests[i]) # "LocalOnly"
  BY SameRouting DEF ResultsAnswerRequests, Batch!ResultsAnswerRequests
<1>1. items[i].model[1] = requests[i].model
  BY DEF OwnResult
<1>2. QED BY <1>1 DEF OwnResult

\* What leaves the requests and their results alone.
LEMMA ResultsKept ==
    ASSUME BatchInv, UNCHANGED <<requests, items, allow_remote_fallback>>
    PROVE  \A i \in 1..Len(requests) : OwnResult(i)' = OwnResult(i)
BY DEF OwnResult, EffectivePolicy

LEMMA InitBatch == ASSUME Batch!Init PROVE BatchInv
<1>1. <<>> \in Seq(Request) /\ <<>> \in Seq(BatchResult) /\ Len(<<>>) = 0
  OBVIOUS
<1>2. QED BY <1>1 DEF Batch!Init, BatchInv, ResultsAnswerRequests, Batch!ResultsAnswerRequests

LEMMA SubmitBatch == ASSUME BatchInv, Batch!Submit PROVE BatchInv'
<1>1. PICK batch \in Batches : /\ requests' = batch
                               /\ items' = [i \in 1..Len(batch) |-> Batch!Pending]
  BY DEF Batch!Submit
<1>2. batch \in Seq(Request)
  BY BatchAssumption
<1>3. /\ items' \in Seq(BatchResult) /\ Len(items') = Len(batch)
      /\ \A i \in 1..Len(batch) : items'[i].state = "pending"
  <2>1. Batch!Pending \in BatchResult /\ Batch!Pending.state = "pending" /\ Len(batch) \in Nat
    BY <1>2 DEF Batch!Pending, BatchResult
  <2>2. QED BY <1>1, <2>1
<1>4. answer' = "none" /\ batch_step' = "resolve" /\ UNCHANGED allow_remote_fallback
  BY DEF Batch!Submit, Batch!Goto
<1>5. ResultsAnswerRequests'
  BY <1>4, NoAnswer
<1>6. QED BY <1>1, <1>2, <1>3, <1>4, <1>5 DEF BatchInv

LEMMA ResolveBatch == ASSUME BatchInv, Batch!Resolve PROVE BatchInv'
<1>1. /\ batch_step = "resolve" /\ answer = "none" /\ UNCHANGED <<items, allow_remote_fallback>>
      /\ requests \in Seq(Request) /\ Len(requests) \in Nat
      /\ \A i \in 1..Len(requests) : items[i].state = "ok" => OwnResult(i)
  BY DEF Batch!Resolve, BatchInv
<1>2. answer' # "ok"
  BY <1>1 DEF Batch!Resolve, Batch!Answer
<1>3. ResultsAnswerRequests'
  BY <1>2, NoAnswer
<1>4. CASE Batch!Answer("failed") /\ UNCHANGED requests
  BY <1>1, <1>3, <1>4 DEF BatchInv, Batch!Answer
<1>5. CASE /\ requests' = [i \in 1..Len(requests) |-> Batch!Resolved(requests[i])]
           /\ Batch!Goto("select") /\ UNCHANGED answer
  <2>1. \A i \in 1..Len(requests) :
           /\ Batch!Resolved(requests[i]) \in Request
           /\ Batch!Resolved(requests[i]).model = requests[i].model
           /\ EffectivePolicy(Batch!Resolved(requests[i])) = EffectivePolicy(requests[i])
    <3>1. \A i \in 1..Len(requests) : requests[i] \in Request
      BY <1>1
    <3>2. QED BY <3>1, ResolvedInBatch
  <2>2. /\ requests' \in Seq(Request) /\ Len(requests') = Len(requests)
        /\ \A i \in 1..Len(requests) : requests'[i] = Batch!Resolved(requests[i])
    BY <1>1, <1>5, <2>1
  <2>3. \A i \in 1..Len(requests) : /\ requests'[i].model = requests[i].model
                                    /\ EffectivePolicy(requests'[i]) = EffectivePolicy(requests[i])
    BY <2>1, <2>2
  <2>4. \A i \in 1..Len(requests) : EffectivePolicy(requests[i])' = EffectivePolicy(requests'[i])
    BY <1>1 DEF EffectivePolicy
  <2>5. \A i \in 1..Len(requests) : items'[i].state = "ok" => OwnResult(i)'
    BY <1>1, <2>3, <2>4 DEF OwnResult
  <2>6. QED BY <1>1, <1>3, <1>5, <2>2, <2>5 DEF BatchInv, Batch!Goto
<1>6. QED BY <1>4, <1>5 DEF Batch!Resolve

\* The routing of the batch is a step that leaves its results alone.
LEMMA RouteBatch ==
    ASSUME BatchInv, batch_step # "idle", UNCHANGED <<requests, items, allow_remote_fallback>>,
           answer' # "ok", batch_step' # "idle" => answer' = "none",
           batch_step' \in {"lookup", "batch"} => Batch!SameModel
    PROVE  BatchInv'
<1>1. ResultsAnswerRequests'
  BY NoAnswer
<1>2. \A i \in 1..Len(requests) : items[i].state = "ok" => OwnResult(i)'
  BY ResultsKept DEF BatchInv
<1>3. Batch!SameModel' = Batch!SameModel
  BY DEF Batch!SameModel
<1>4. QED BY <1>1, <1>2, <1>3 DEF BatchInv

LEMMA SelectTargetBatch == ASSUME BatchInv, Batch!SelectTarget PROVE BatchInv'
<1> DEFINE chosen == Batch!Select(requests[1], loaded)
<1>1. /\ batch_step = "select" /\ answer = "none"
      /\ UNCHANGED <<requests, items, allow_remote_fallback>>
      /\ \/ Batch!Answer("failed")
         \/ /\ Batch!Goto(IF chosen.provider = "local" /\ Batch!SameModel
                          THEN "lookup" ELSE "individually")
            /\ UNCHANGED answer
  BY DEF Batch!SelectTarget, BatchInv
<1> HIDE DEF chosen
<1>2. /\ answer' # "ok" /\ (batch_step' # "idle" => answer' = "none")
      /\ batch_step' \in {"lookup", "batch"} => Batch!SameModel
  BY <1>1 DEF Batch!Answer, Batch!Goto
<1>3. QED BY <1>1, <1>2, RouteBatch

LEMMA LookupBatch == ASSUME BatchInv, Batch!Lookup PROVE BatchInv'
<1>1. /\ batch_step = "lookup" /\ answer = "none" /\ Batch!SameModel
      /\ UNCHANGED <<requests, items, allow_remote_fallback>>
  BY DEF Batch!Lookup, BatchInv
<1>2. answer' # "ok" /\ (batch_step' # "idle" => answer' = "none")
  BY <1>1 DEF Batch!Lookup, Batch!Answer, Batch!Goto
<1>3. QED BY <1>1, <1>2, RouteBatch

\* The backend gives every request the model of the first, which has the name
\* that each of them asks for.
LEMMA ExecuteBatchInv == ASSUME BatchInv, Batch!ExecuteBatch PROVE BatchInv'
<1>1. /\ batch_step = "batch" /\ answer = "none" /\ Batch!SameModel
      /\ UNCHANGED <<requests, allow_remote_fallback>> /\ batch_step' = "idle"
      /\ requests \in Seq(Request) /\ Len(requests) \in Nat
  BY DEF Batch!ExecuteBatch, BatchInv, Batch!Answer
<1>2. CASE /\ items' = [i \in 1..Len(requests) |-> Batch!Item("ok", "local", requests[1].model)]
           /\ Batch!Answer("ok")
  <2> DEFINE item == Batch!Item("ok", "local", requests[1].model)
  <2>1. item.state = "ok" /\ item.target = "local" /\ item.model[1] = requests[1].model
    BY DEF Batch!Item
  <2>2. \A i \in 1..Len(requests) : items'[i] = item
    BY <1>2
  <2>3. \A i \in 1..Len(requests) : requests[1].model \in Model
    <3>1. \A i \in 1..Len(requests) : requests[1] \in Request
      BY <1>1
    <3>2. QED BY <3>1 DEF Request
  <2>4. \A i \in 1..Len(requests) : item \in BatchResult
    <3>1. \A m \in Model : Batch!Item("ok", "local", m) \in BatchResult
      BY DEF Batch!Item, BatchResult
    <3>2. QED BY <2>3, <3>1
  <2> HIDE DEF item
  <2>5. items' = [i \in 1..Len(requests) |-> items'[i]]
    BY <1>2
  <2>6. items' \in Seq(BatchResult) /\ Len(items') = Len(requests)
    BY <1>1, <2>2, <2>4, <2>5
  <2>7. \A i \in 1..Len(requests) : requests[i].model.id = requests[1].model.id
    BY <1>1 DEF Batch!SameModel
  <2>8. \A i \in 1..Len(requests) :
           /\ items'[i].state = "ok" /\ items'[i].model[1].id = requests[i].model.id
           /\ \A j \in 1..Len(requests) :
                 items'[j] = Batch!Item("ok", "local", requests[1].model)
           /\ items'[i].target # "remote"
    BY <2>1, <2>2, <2>7 DEF item
  <2>9. ResultsAnswerRequests'
    BY <1>1, <2>8 DEF ResultsAnswerRequests, Batch!ResultsAnswerRequests, Batch!Item
  <2>10. QED BY <1>1, <2>6, <2>9 DEF BatchInv
<1>3. CASE Batch!Answer("failed") /\ UNCHANGED items
  <2>1. ResultsAnswerRequests'
    BY <1>3, NoAnswer DEF Batch!Answer
  <2>2. QED BY <1>1, <1>3, <2>1 DEF BatchInv
<1>4. QED BY <1>2, <1>3 DEF Batch!ExecuteBatch

LEMMA ExecuteItemInv ==
    ASSUME BatchInv, NEW k \in 1..Len(items), Batch!ExecuteItem(k)
    PROVE  BatchInv'
<1>1. /\ batch_step = "individually" /\ answer = "none"
      /\ UNCHANGED <<requests, batch_step, answer, allow_remote_fallback>>
      /\ items \in Seq(BatchResult) /\ requests \in Seq(Request)
      /\ Len(items) = Len(requests) /\ Len(requests) \in Nat /\ k \in 1..Len(requests)
      /\ allow_remote_fallback \in BOOLEAN
  BY DEF Batch!ExecuteItem, BatchInv
<1>2. ASSUME NEW item \in BatchResult, items' = [items EXCEPT ![k] = item],
             item.state = "ok" =>
                /\ item.model = <<requests[k].model>>
                /\ item.target = "remote" => EffectivePolicy(requests[k]) # "LocalOnly"
      PROVE  BatchInv'
  <2>1. /\ items' \in Seq(BatchResult) /\ Len(items') = Len(items)
        /\ \A i \in 1..Len(requests) : items'[i] = IF i = k THEN item ELSE items[i]
    BY <1>1, <1>2
  <2>2. \A i \in 1..Len(requests) : EffectivePolicy(requests[i])' = EffectivePolicy(requests[i])
    BY <1>1 DEF EffectivePolicy
  <2>3. \A i \in 1..Len(requests) : items[i].state = "ok" => OwnResult(i)
    BY <1>1 DEF BatchInv
  <2>4. \A i \in 1..Len(requests) : items'[i].state = "ok" => OwnResult(i)'
    BY <1>1, <1>2, <2>1, <2>2, <2>3 DEF OwnResult
  <2>5. ResultsAnswerRequests'
    BY <1>1, NoAnswer
  <2>6. QED BY <1>1, <2>1, <2>4, <2>5 DEF BatchInv
<1>3. ASSUME NEW target \in Batch!Targets(requests[k]) \ {"none"},
             items' = [items EXCEPT ![k] = Batch!Item("ok", target, requests[k].model)]
      PROVE  BatchInv'
  <2>1. requests[k] \in Request
    BY <1>1
  <2>2. /\ Batch!Resolved(requests[k]) \in Request
        /\ EffectivePolicy(Batch!Resolved(requests[k])) = EffectivePolicy(requests[k])
    BY <2>1, ResolvedInBatch
  <2>3. /\ target \in {"local", "remote"}
        /\ target = "remote" => EffectivePolicy(requests[k]) # "LocalOnly"
    BY <1>1, <1>3, <2>2, ReachableTargets DEF Batch!Targets
  <2>4. requests[k].model \in Model
    BY <2>1 DEF Request
  <2>5. /\ Batch!Item("ok", target, requests[k].model) \in BatchResult
        /\ Batch!Item("ok", target, requests[k].model).model = <<requests[k].model>>
        /\ Batch!Item("ok", target, requests[k].model).target = target
    BY <2>3, <2>4 DEF Batch!Item, BatchResult
  <2>6. QED BY <1>2, <1>3, <2>3, <2>5
<1>4. CASE items' = [items EXCEPT ![k].state = "failed"]
  <2>1. items[k] \in BatchResult
    BY <1>1
  <2>2. \A item \in BatchResult : /\ [item EXCEPT !.state = "failed"] \in BatchResult
                                  /\ [item EXCEPT !.state = "failed"].state = "failed"
    BY Zenon DEF BatchResult
  <2>3. items' = [items EXCEPT ![k] = [items[k] EXCEPT !.state = "failed"]]
    BY <1>4, Zenon
  <2>4. PICK item \in BatchResult : item.state = "failed" /\ items' = [items EXCEPT ![k] = item]
    BY <2>1, <2>2, <2>3, Zenon
  <2>5. QED BY <1>2, <2>4
<1>5. QED BY <1>3, <1>4 DEF Batch!ExecuteItem

LEMMA JoinBatch == ASSUME BatchInv, Batch!Join PROVE BatchInv'
<1>1. /\ batch_step = "individually" /\ batch_step' = "idle"
      /\ UNCHANGED <<requests, items, allow_remote_fallback>>
  BY DEF Batch!Join, Batch!Answer
<1>2. answer' = "ok" => \A i \in 1..Len(requests) : items[i].state = "ok"
  BY DEF Batch!Join, Batch!Answer, BatchInv
<1>3. ResultsAnswerRequests'
  <2>1. CASE answer' # "ok"
    BY <2>1, NoAnswer
  <2>2. CASE answer' = "ok"
    <3>1. ResultsAnswerRequests
      BY <1>1, <1>2, <2>2, OwnAnswers DEF BatchInv
    <3>2. \A i \in 1..Len(requests) : /\ items[i].state = "ok" /\ OwnResult(i)
      BY <1>1, <1>2, <2>2 DEF BatchInv
    <3>3. \A i \in 1..Len(requests) : OwnResult(i)'
      BY <1>1, <3>2, ResultsKept
    <3>4. /\ requests' \in Seq(Request) /\ items' \in Seq(BatchResult)
          /\ Len(items') = Len(requests')
          /\ \A i \in 1..Len(requests') : items'[i].state = "ok" /\ OwnResult(i)'
      BY <1>1, <3>2, <3>3 DEF BatchInv
    <3>5. \A i \in 1..Len(requests') :
             /\ items'[i].state = "ok" /\ items'[i].model = <<requests'[i].model>>
             /\ items'[i].model[1].id = requests'[i].model.id
             /\ items'[i].target = "remote" => EffectivePolicy(requests[i])' # "LocalOnly"
      BY <3>4 DEF OwnResult
    <3>6. \A i \in 1..Len(requests') :
             Batch!EffectivePolicy(requests[i])' = EffectivePolicy(requests[i])'
      BY DEF EffectivePolicy, Batch!EffectivePolicy
    <3>7. QED BY <3>5, <3>6 DEF ResultsAnswerRequests, Batch!ResultsAnswerRequests
  <2>3. QED BY <2>1, <2>2
<1>4. QED BY <1>1, <1>3 DEF BatchInv

\* Other calls change the cache, and nothing of this one.
LEMMA ChurnBatch == ASSUME BatchInv, Batch!Churn \/ UNCHANGED Batch!vars PROVE BatchInv'
<1>1. UNCHANGED <<batch_step, requests, items, answer, allow_remote_fallback>>
  BY DEF Batch!Churn, Batch!vars
<1>2. ResultsAnswerRequests' = ResultsAnswerRequests
  BY <1>1 DEF ResultsAnswerRequests, Batch!ResultsAnswerRequests, Batch!EffectivePolicy, Batch!Item
<1>3. Batch!SameModel' = Batch!SameModel
  BY <1>1 DEF Batch!SameModel
<1>4. \A i \in 1..Len(requests) : OwnResult(i)' = OwnResult(i)
  BY <1>1, ResultsKept
<1>5. QED BY <1>1, <1>2, <1>3, <1>4 DEF BatchInv

\* What a batch has got so far are results of the models of its requests, on
\* targets that their policies permit.
THEOREM BatchInvariant == Batch!Spec => []BatchInv
<1>1. BatchInv /\ [Batch!Next]_Batch!vars => BatchInv'
  BY SubmitBatch, ResolveBatch, SelectTargetBatch, LookupBatch, ExecuteBatchInv, ExecuteItemInv,
     JoinBatch, ChurnBatch DEF Batch!Next, Batch!Progress
<1>2. QED BY <1>1, InitBatch, PTL DEF Batch!Spec

\* A batch that is answered has a result for every request, from a model of the
\* name it asks for, and from that very model unless the backend was given the
\* whole batch with the first one; and no LocalOnly request of it was executed
\* remotely, though the first request routes the batch.
THEOREM BatchesAnswerRequests == Batch!Spec => []ResultsAnswerRequests
<1>1. BatchInv => ResultsAnswerRequests
  BY DEF BatchInv
<1>2. QED BY <1>1, BatchInvariant, PTL

-------------------------------------------------------------------------------
\* A request that may run: who had to approve it has.
Admitted ==
    /\ provider = Builtin /\ asked.capability \in Capability!Restricted => approved
    /\ asked.require /\ (provider = Builtin \/ asked.authorizer) => approved

\* Nothing has an effect before it runs, and nothing runs that was not admitted.
CapabilityInv ==
    /\ call_step \in {"authorize", "run", "file"} => performed = "none"
    /\ call_step \in {"run", "file"} => Admitted
    /\ call_step = "file" =>
          /\ provider = Builtin /\ asked.capability \in Capability!Files
          /\ asked.scoped => seen = "inside"
    /\ EffectsAllowed

CapabilityCall == <<call_step, asked, provider, approved, seen, performed>>

\* Whoever is waited for, and whatever is registered, changes nothing of this.
LEMMA CallUnchanged == ASSUME CapabilityInv, UNCHANGED CapabilityCall PROVE CapabilityInv'
BY DEF CapabilityInv, CapabilityCall, Admitted, EffectsAllowed, Capability!EffectsAllowed

\* A call ends without an effect, or after the one it has had.
LEMMA CallEnds ==
    ASSUME CapabilityInv, call_step' = "idle", UNCHANGED <<asked, provider, approved, performed>>,
           performed = "none" \/ UNCHANGED seen
    PROVE  CapabilityInv'
BY DEF CapabilityInv, Admitted, EffectsAllowed, Capability!EffectsAllowed

\* What a request that runs may do.
LEMMA EffectInv ==
    ASSUME CapabilityInv, call_step \in {"run", "file"}, call_step' \in {"idle", "waiting"},
           UNCHANGED <<asked, provider, approved, seen>>,
           performed' = asked.capability,
           provider = Builtin =>
              /\ performed' \in Capability!Files /\ asked.scoped => seen = "inside"
              /\ performed' = "filesystem.write" => ~asked.over
              /\ performed' = "network.http" => asked.network
    PROVE  CapabilityInv'
<1>1. Admitted
  BY DEF CapabilityInv
<1>2. EffectsAllowed'
  BY <1>1 DEF Admitted, EffectsAllowed, Capability!EffectsAllowed
<1>3. QED BY <1>2 DEF CapabilityInv

LEMMA ExecuteInv ==
    ASSUME CapabilityInv, NEW r \in CapabilityRequests, Capability!Execute(r)
    PROVE  CapabilityInv'
<1>1. /\ asked' = r /\ approved' = FALSE /\ performed' = "none"
      /\ \/ call_step' \in {"idle", "authorize"}
         \/ /\ call_step' = "run" /\ provider' = Builtin /\ ~Capability!NeedsApproval(r)
         \/ /\ call_step' = "run" /\ provider' # Builtin /\ ~(r.authorizer /\ r.require)
  BY DEF Capability!Execute, Capability!End, Capability!Goto
<1>2. call_step' = "run" => Admitted'
  BY <1>1 DEF Admitted, Capability!NeedsApproval
<1>3. QED BY <1>1, <1>2 DEF CapabilityInv, EffectsAllowed, Capability!EffectsAllowed

LEMMA AuthorizeInv == ASSUME CapabilityInv, Capability!Authorize PROVE CapabilityInv'
BY DEF Capability!Authorize, Capability!pathVars, Capability!End, Capability!Goto,
   CapabilityInv, Admitted, EffectsAllowed, Capability!EffectsAllowed

LEMMA ProgressInv == ASSUME CapabilityInv, Capability!Progress PROVE CapabilityInv'
<1> USE DEF Capability!End, Capability!Goto, Capability!AtOnce, Capability!pathVars
<1>0. CASE Capability!CheckPath
  <2>1. /\ call_step = "run" /\ performed = "none" /\ Admitted
        /\ provider = Builtin /\ asked.capability \in Capability!Files
        /\ UNCHANGED <<asked, provider, approved, performed>> /\ seen' = place
    BY <1>0 DEF Capability!CheckPath, CapabilityInv
  <2>2. CASE call_step' = "idle"
    BY <2>1, <2>2, CallEnds
  <2>3. CASE call_step' = "file" /\ (asked.scoped => place = "inside")
    BY <2>1, <2>3 DEF CapabilityInv, Admitted, EffectsAllowed, Capability!EffectsAllowed
  <2>4. QED BY <1>0, <2>2, <2>3 DEF Capability!CheckPath
<1>1. CASE Capability!UseFile
  <2>1. /\ call_step = "file" /\ call_step' = "idle"
        /\ asked.capability \in Capability!Files
        /\ asked.scoped => seen = "inside"
        /\ UNCHANGED <<asked, provider, approved, seen>>
    BY <1>1 DEF Capability!UseFile, CapabilityInv
  <2>2. CASE UNCHANGED performed
    BY <2>1, <2>2, CallEnds
  <2>3. CASE /\ performed' = asked.capability
             /\ asked.capability = "filesystem.write" => ~asked.over
    <3>1. performed' # "network.http"
      BY <2>1, <2>3 DEF Capability!Files
    <3>2. QED BY <2>1, <2>3, <3>1, EffectInv
  <2>4. QED BY <1>1, <2>2, <2>3 DEF Capability!UseFile
<1>2. CASE Capability!ParseData
  BY <1>2, EffectInv DEF Capability!ParseData, Capability!Files
<1>3. CASE Capability!NeedsModel \/ Capability!NetworkRefused
  BY <1>3, CallEnds DEF Capability!NeedsModel, Capability!NetworkRefused
<1>4. ASSUME NEW c \in {"process.spawn", "git.status", "network.http"}, Capability!Starts(c),
             c = "network.http" => asked.network
      PROVE  CapabilityInv'
  <2>1. CASE UNCHANGED performed /\ call_step' = "idle"
    BY <1>4, <2>1, CallEnds DEF Capability!Starts
  <2>2. CASE performed' = c /\ call_step' = "waiting"
    <3>1. c \notin Capability!Files /\ asked.capability = c /\ call_step = "run"
      BY <1>4 DEF Capability!Starts, Capability!Files
    <3>2. QED BY <1>4, <2>2, <3>1, EffectInv DEF Capability!Starts
  <2>3. QED BY <1>4, <2>1, <2>2 DEF Capability!Starts
<1>5. CASE Capability!SpawnProcess \/ Capability!RunGit \/ Capability!SendRequest
  BY <1>4, <1>5 DEF Capability!SpawnProcess, Capability!RunGit, Capability!SendRequest
<1>6. CASE Capability!BeginProvider
  <2>1. CASE UNCHANGED performed /\ call_step' = "idle"
    BY <1>6, <2>1, CallEnds DEF Capability!BeginProvider
  <2>2. CASE performed' = asked.capability /\ call_step' = "waiting"
    BY <1>6, <2>2, EffectInv DEF Capability!BeginProvider
  <2>3. QED BY <1>6, <2>1, <2>2 DEF Capability!BeginProvider
<1>7. CASE Capability!Complete \/ Capability!NoticeCancel \/ Capability!TimeOut
  BY <1>7, CallEnds DEF Capability!Complete, Capability!NoticeCancel, Capability!TimeOut
<1>8. QED BY <1>0, <1>1, <1>2, <1>3, <1>5, <1>6, <1>7 DEF Capability!Progress

\* What a capability does has been approved, on a path that was found inside the
\* scope, and within the limits, whatever is registered under whatever id, and
\* when; whoever moves the path afterwards changes none of it.
THEOREM EffectsAreAllowed == Capability!Spec => []EffectsAllowed
<1>1. Capability!Init => CapabilityInv
  BY DEF Capability!Init, CapabilityInv, EffectsAllowed, Capability!EffectsAllowed
<1>2. CapabilityInv /\ [Capability!Next]_Capability!vars => CapabilityInv'
  <2> SUFFICES ASSUME CapabilityInv, [Capability!Next]_Capability!vars PROVE CapabilityInv'
    OBVIOUS
  <2>1. CASE \/ \E p \in Providers : Capability!Register(p)
             \/ \E packages \in Packages : Capability!LoadPackages(packages)
             \/ Capability!Cancel \/ Capability!Expire \/ Capability!MovePath \/ Capability!Finish
             \/ UNCHANGED Capability!vars
    <3>1. UNCHANGED CapabilityCall
      BY <2>1 DEF Capability!Register, Capability!LoadPackages, Capability!Cancel,
         Capability!Expire, Capability!MovePath, Capability!Finish, Capability!vars,
         Capability!callVars, Capability!pathVars, CapabilityCall
    <3>2. QED BY <3>1, CallUnchanged
  <2>2. QED
    BY <2>1, ExecuteInv, AuthorizeInv, ProgressInv DEF Capability!Next
<1>3. CapabilityInv => EffectsAllowed
  BY DEF CapabilityInv
<1>4. QED BY <1>1, <1>2, <1>3, PTL DEF Capability!Spec
===============================================================================
