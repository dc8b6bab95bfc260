----------------------------- MODULE RuntimeCalls -----------------------------
(***************************************************************************)
(* The calls of the runtime that execute something, side by side:          *)
(* InferenceExecution, for infer and the streams; and, without permits,    *)
(* InferBatch, for infer_batch, and CapabilityExecution, for               *)
(* execute_capability.  They share the constants of Routing and no state;  *)
(* a behaviour is one of one of them, while the variables of the others    *)
(* stay what they are.                                                     *)
(***************************************************************************)
EXTENDS InferenceExecution

CONSTANTS Batches, Batching, \* those of InferBatch
          Builtin, Ids, Providers, Packages, CapabilityRequests \* of CapabilityExecution

ASSUME BatchAssumption ==
    /\ Batches \subseteq Seq(Request) \ {<<>>}
    /\ Batching \in BOOLEAN

VARIABLES batch_step, requests, items, answer, loaded
VARIABLES registry, call_step, asked, provider, approved, token, expired, work, place, seen,
          performed, outcome

\* vars without allow_remote_fallback, which InferBatch has as well.
executionVars == <<pc, call, request, selection, trail, cancelled, result, resident, semaphores,
                   metrics, tally, calls>>
batchVars == <<batch_step, requests, items, answer, loaded>>
capabilityVars == <<registry, call_step, asked, provider, approved, token, expired, work,
                    place, seen, performed, outcome>>

Batch == INSTANCE InferBatch WITH step <- batch_step, resident <- loaded

Capability == INSTANCE CapabilityExecution
    WITH step <- call_step, request <- asked, cancelled <- token, Requests <- CapabilityRequests

-------------------------------------------------------------------------------
NoBatch ==
    batch_step = "unused" /\ requests = <<>> /\ items = <<>> /\ answer = "none" /\ loaded = {}

NoCapability ==
    /\ registry = <<>> /\ call_step = "unused" /\ asked = "none" /\ provider = "none"
    /\ approved = FALSE /\ token = FALSE /\ expired = FALSE
    /\ work = "none" /\ place = "none" /\ seen = "none"
    /\ performed = "none" /\ outcome = "none"

\* infer, infer_stream and chat_stream alone.
CallsInit == Init /\ NoBatch /\ NoCapability

CallsNext == Next /\ UNCHANGED <<batchVars, capabilityVars>>

CallsSpec == CallsInit /\ [][CallsNext]_<<vars, batchVars, capabilityVars>> /\ Scheduled

\* infer_batch alone, or execute_capability alone.
EitherInit ==
    /\ Init
    /\ \/ Batch!Init /\ NoCapability
       \/ Capability!Init /\ NoBatch /\ allow_remote_fallback = FALSE

EitherNext ==
    \/ /\ call_step = "unused"
       /\ Batch!Next
       /\ UNCHANGED <<executionVars, capabilityVars>>
    \/ batch_step = "unused" /\ Capability!Next /\ UNCHANGED <<vars, batchVars>>

EitherSpec ==
    EitherInit /\ [][EitherNext]_<<vars, batchVars, capabilityVars>> /\ Capability!Fairness

\* A batch that returns Ok has a result for every request, from a model of its
\* id and on a target that the request's own policy permits.
ResultsAnswerRequests == Batch!ResultsAnswerRequests

\* The i-th result of a batch comes from the model its i-th request names; not
\* so for two versions of a model.
ResultsKeepIdentity == Batch!ResultsKeepIdentity

\* A built-in operation has an effect only with the approval, in the scope and
\* within the limits its request and the catalog ask for.
EffectsAllowed == Capability!EffectsAllowed

\* A built-in operation ends once it is cancelled, or by its time limit.
BoundedEnds == Capability!BoundedEnds

\* A file is touched inside the scope; not so if its path is moved meanwhile.
StaysInScope == Capability!StaysInScope

\* What a policy promises of the requests of a batch; the code does not keep it.
BatchesStayRemote == Batch!RemoteStaysRemote
===============================================================================
