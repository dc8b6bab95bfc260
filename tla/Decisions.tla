------------------------------- MODULE Decisions -------------------------------
(***************************************************************************)
(* Typed decisions: the graphs of the runtime and the prompts of the       *)
(* adapters.  A behaviour is one of DecisionGraph or one of LayaDecisions. *)
(***************************************************************************)
EXTENDS DecisionGraph

CONSTANTS LayaRequests, LayaConfigs

LayaQuestion ==
    [name : STRING, kind : {"choice", "score", "noul"}, head : Nat, options : Seq(Nat),
     labels : Seq(STRING)]

LayaConfig ==
    [maxLen : Nat, headMax : Nat, maxOptions : Nat, lengths : Seq(Nat), flexible : BOOLEAN,
     minLength : Nat]

\* What validate_shape and validate_agent of the Core ML adapter check of an
\* artifact when it is loaded (coreml/src/laya.rs 933-980).
ASSUME LayaAssumption ==
    /\ \A r \in LayaRequests : r.questions \in Seq(LayaQuestion) /\ r.state \in Nat
    /\ \A c \in LayaConfigs :
          /\ c \in LayaConfig
          /\ c.headMax <= c.maxLen /\ c.minLength <= c.maxLen
          /\ \A i \in DOMAIN c.lengths :
                c.lengths[i] <= c.maxLen /\ \A j \in 1 .. i - 1 : c.lengths[j] < c.lengths[i]

-------------------------------------------------------------------------------
VARIABLES backend, config, laya_request, prepared, decisions, status

layaVars == <<backend, config, laya_request, prepared, decisions, status>>

Laya == INSTANCE LayaDecisions WITH Request <- LayaRequests, Config <- LayaConfigs,
                                    request <- laya_request

GraphAlone ==
    /\ backend = "none" /\ config = "none" /\ laya_request = "none"
    /\ prepared = <<>> /\ decisions = <<>> /\ status = "unused"

LayaAlone ==
    /\ request = CHOOSE r \in Requests : r.nodes = <<>>
    /\ model = CHOOSE m \in Capabilities : TRUE
    /\ cancelled = FALSE /\ step = "dropped" /\ failure = "none"
    /\ pending = {} /\ skipped = {} /\ resolved = <<>>
    /\ chunks = <<>> /\ calls = <<>> /\ batches = <<>>

EitherInit == (Init /\ GraphAlone) \/ (Laya!Init /\ LayaAlone)

EitherNext ==
    \/ status = "unused" /\ Next /\ UNCHANGED layaVars
    \/ status # "unused" /\ Laya!Next /\ UNCHANGED vars

EitherSpec == EitherInit /\ [][EitherNext]_<<vars, layaVars>> /\ Fairness

\* No prompt that reaches the network has lost a separator, a mask or its end to
\* the budgets of the artifact.
PromptsFit == Laya!PromptsFit

\* Questions that share a batch do not see each other.
AnswersOwnPrompt == Laya!AnswersOwnPrompt
===============================================================================
