---------------------------- MODULE ChatCompletions ----------------------------
(***************************************************************************)
(* Chat completions besides their stream (ChatStream): the conversation    *)
(* with tools that a reply is a part of (ToolConversation), and the event  *)
(* stream that it is read from (SseParsing).  They share no state: a       *)
(* behaviour of EitherSpec is one of ToolConversation or one of            *)
(* SseParsing, and the variables of the other stay what they are.          *)
(***************************************************************************)
EXTENDS Integers, Sequences, FiniteSets

CONSTANTS History, Options, Fragment, Declared, MaxCalls, MaxFragments, MaxTurns,
          Streams, MaxEvent

Text == Seq(STRING)

ToolCall == [id : Text, name : Text, arguments : Text]

ChatMessage ==
    [role : {"system", "user", "assistant", "tool"}, calls : Seq(ToolCall), answers : SUBSET Text]

GenerationOptions ==
    [tools : Seq([name : Text, schema : STRING]),
     choice : {"absent", "auto", "none", "tool"}, named : Text]

\* An index is unsigned; -1 stands for none.
WireToolCallOut ==
    [index : Nat \cup {-1}, hasId : BOOLEAN, id : Text, name : Text, arguments : Text,
     malformed : BOOLEAN]

\* The types of the wire.
ASSUME CompletionsAssumption ==
    /\ History \subseteq Seq(ChatMessage)
    /\ Options \subseteq GenerationOptions
    /\ Fragment \subseteq WireToolCallOut

-------------------------------------------------------------------------------
VARIABLES declared, history, request, fragments, assembler, outcome, proposals, turns

talkVars == <<declared, history, request, fragments, assembler, outcome, proposals, turns>>

Talk == INSTANCE ToolConversation WITH MaxToolCalls <- MaxCalls

VARIABLES bytes, received, parser, parsed, status

sseVars == <<bytes, received, parser, parsed, status>>

Sse == INSTANCE SseParsing WITH Stream <- Streams, stream <- bytes, events <- parsed

ConversationAlone ==
    /\ bytes = <<>> /\ received = 0 /\ parser = Sse!New /\ parsed = <<>> /\ status = "unused"

ParsingAlone ==
    /\ declared = {} /\ history = <<>> /\ request = <<>> /\ fragments = <<>>
    /\ assembler = <<>> /\ proposals = <<>> /\ outcome = "unused" /\ turns = 0

EitherInit == (Talk!Init /\ ConversationAlone) \/ (Sse!Init /\ ParsingAlone)

EitherNext ==
    \/ outcome # "unused" /\ Talk!Next /\ UNCHANGED sseVars
    \/ outcome = "unused" /\ Sse!Next /\ UNCHANGED talkVars

EitherSpec == EitherInit /\ [][EitherNext]_<<talkVars, sseVars>>

\* A proposal is what the server sent for it, and what the request offered.
ProposalsUsable == Talk!ProposalsUsable

\* A reply with tool calls can be sent back with their results.
ReplayAccepted == Talk!ReplayAccepted

\* Where the network cuts the bytes of a response makes no difference to the
\* events read from it.
ChunkingInvisible == Sse!ChunkingInvisible
===============================================================================
