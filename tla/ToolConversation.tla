--------------------------- MODULE ToolConversation ---------------------------
(***************************************************************************)
(* Tool calling as a protocol over several requests: the caller keeps the  *)
(* history, ChatRequest::validate and GenerationCapabilities::check        *)
(* (crates/provider/src/generation.rs) decide whether a request is sent,   *)
(* the OpenAI-compatible adapter (providers/http/src/openai.rs) assembles  *)
(* the fragments of the proposals, and Runtime::chat                       *)
(* (crates/runtime/src/generation.rs) compares them with what was offered. *)
(* Identifiers, names and arguments are sequences of the pieces they       *)
(* arrive in; the server, and what the caller does, are free.              *)
(***************************************************************************)
EXTENDS Integers, Sequences, FiniteSets, SequencesExt

CONSTANTS History,      \* histories a conversation may start with
          Options,      \* the options of a request
          Fragment,     \* tool-call fragments a server may send
          Declared,     \* capabilities the provider may be declared with
          MaxToolCalls, \* max_tool_calls of the provider
          MaxFragments, \* bound: fragments of a response
          MaxTurns      \* bound: requests of a conversation

VARIABLES declared,   \* generation_capabilities of the provider
          history,    \* the caller's messages
          request,    \* the request of the call in flight, or of the last one
          fragments,  \* what the server has sent of the response
          assembler,  \* ToolAssembler.calls
          outcome,    \* "composing", "sent", "answered" or an error
          proposals,  \* the proposals of the response, when it was accepted
          turns

vars == <<declared, history, request, fragments, assembler, outcome, proposals, turns>>

-------------------------------------------------------------------------------
\* Messages: a role, the proposals and the identifiers it answers (at most one).
Message(role, calls, answers) == [role |-> role, calls |-> calls, answers |-> answers]

User == Message("user", <<>>, {})
Assistant(calls) == Message("assistant", calls, {})
ToolResult(id) == Message("tool", <<>>, {id})

Names(tools) == {tools[i].name : i \in DOMAIN tools}

IsValidToolName(name) == name # <<>> /\ "~" \notin ToSet(name)

\* Text that is one complete JSON object.
IsObject(text) ==
    /\ Len(text) >= 2 /\ text[1] = "{" /\ Last(text) = "}"
    /\ {"{", "}"} \cap ToSet(SubSeq(text, 2, Len(text) - 1)) = {}

ValidTools(options) ==
    /\ \A i \in DOMAIN options.tools :
          IsValidToolName(options.tools[i].name) /\ options.tools[i].schema # "not_object"
    /\ \A i, j \in DOMAIN options.tools :
          i # j => options.tools[i].name # options.tools[j].name
    /\ options.choice # "absent" => options.tools # <<>>
    /\ options.choice = "tool" => options.named \in Names(options.tools)

Ids(calls) == {calls[k].id : k \in DOMAIN calls}

\* What validate_messages has in "proposed" and in "open" when it comes to
\* message n, if it comes to it.
ProposedBefore(messages, n) == UNION {Ids(messages[m].calls) : m \in 1 .. n - 1}

OpenBefore(messages, n) ==
    ProposedBefore(messages, n) \ UNION {messages[m].answers : m \in 1 .. n - 1}

ValidProposal(call) == call.id # <<>> /\ IsValidToolName(call.name) /\ IsObject(call.arguments)

ValidMessage(messages, n) ==
    LET message == messages[n]
    IN  \/ /\ message.role = "assistant" /\ message.answers = {}
           /\ \A k \in DOMAIN message.calls :
                 /\ ValidProposal(message.calls[k])
                 /\ message.calls[k].id \notin ProposedBefore(messages, n)
                 /\ \A j \in 1 .. k - 1 : message.calls[j].id # message.calls[k].id
        \/ /\ message.role = "tool" /\ message.calls = <<>>
           /\ \E id \in OpenBefore(messages, n) : id # <<>> /\ message.answers = {id}
        \/ /\ message.role \in {"system", "user"}
           /\ message.calls = <<>> /\ message.answers = {}

ValidMessages(messages) == \A n \in DOMAIN messages : ValidMessage(messages, n)

\* ChatRequest::validate, in so far as a request has more than text.
Valid(sending) ==
    /\ \E i \in DOMAIN sending.messages : sending.messages[i].role = "user"
    /\ ValidTools(sending.options)
    /\ ValidMessages(sending.messages)

\* GenerationCapabilities::check.
Supported(sending) ==
    /\ \/ sending.options.tools # <<>>
       \/ \E i \in DOMAIN sending.messages :
             sending.messages[i].role = "tool" \/ sending.messages[i].calls # <<>>
       => "tools" \in declared
    /\ sending.options.choice # "absent" => "tool_choice" \in declared

\* ToolChecks::compile: the schemas compile before anything is sent.
Compiles(options) == \A i \in DOMAIN options.tools : options.tools[i].schema # "unusable"

-------------------------------------------------------------------------------
\* ToolAssembler::feed.  An index picks the call that has it; a fragment
\* without one continues the last call unless it has an identifier.
NoIndex == -1

SlotOf(calls, fragment) ==
    IF \E i \in DOMAIN calls : calls[i].index = fragment.index
    THEN SelectInSeq(calls, LAMBDA call : call.index = fragment.index)
    ELSE IF fragment.index = NoIndex /\ ~fragment.hasId /\ calls # <<>> THEN Len(calls) ELSE 0

Extend(call, fragment) ==
    [index |-> call.index, id |-> call.id \o fragment.id, name |-> call.name \o fragment.name,
     arguments |-> call.arguments \o fragment.arguments]

Begin(calls, fragment) ==
    Append(calls, Extend([index |-> IF fragment.index = NoIndex THEN Len(calls)
                                    ELSE fragment.index,
                          id |-> <<>>, name |-> <<>>, arguments |-> <<>>], fragment))

Feed(calls, fragment) ==
    LET slot == SlotOf(calls, fragment)
    IN  IF slot = 0 THEN Begin(calls, fragment)
        ELSE [calls EXCEPT ![slot] = Extend(@, fragment)]

\* Fault: an identifier may repeat.
FinishErrorAnyIds(calls) ==
    CASE \E i \in DOMAIN calls : calls[i].id = <<>> \/ calls[i].name = <<>> -> "protocol"
      [] \E i \in DOMAIN calls : ~IsValidToolName(calls[i].name)
                                 \/ ~IsObject(calls[i].arguments) -> "invalid_output"
      [] OTHER -> "none"

\* ToolAssembler::finish: the first call that cannot be used fails them all.
CallError(calls, i) ==
    IF calls[i].id = <<>> \/ calls[i].name = <<>> \/ \E j \in 1 .. i - 1 : calls[j].id = calls[i].id
    THEN "protocol"
    ELSE IF IsValidToolName(calls[i].name) /\ IsObject(calls[i].arguments) THEN "none"
    ELSE "invalid_output"

FinishError(calls) ==
    LET bad == SelectInSeq([i \in DOMAIN calls |-> CallError(calls, i)], LAMBDA e : e # "none")
    IN  IF bad = 0 THEN "none" ELSE CallError(calls, bad)

ToolCalls(calls) ==
    [i \in DOMAIN calls |->
        [id |-> calls[i].id, name |-> calls[i].name, arguments |-> calls[i].arguments]]

\* The schema of a tool, as far as it matters: which arguments satisfy it.
Satisfies(arguments, schema) == schema = "any" \/ "violation" \notin ToSet(arguments)

SchemaOf(tools, name) == tools[SelectInSeq(tools, LAMBDA tool : tool.name = name)].schema

\* Fault: a call to another tool than the one required is passed on.
ToolCheckAnyChoice(calls, options) ==
    \A i \in DOMAIN calls :
       /\ calls[i].name \in Names(options.tools)
       /\ Satisfies(calls[i].arguments, SchemaOf(options.tools, calls[i].name))

\* ToolChecks::check.
ToolCheck(calls, options) ==
    calls # <<>> =>
       /\ options.choice # "none"
       /\ \A i \in DOMAIN calls :
             /\ calls[i].name \in Names(options.tools)
             /\ options.choice = "tool" => calls[i].name = options.named
             /\ Satisfies(calls[i].arguments, SchemaOf(options.tools, calls[i].name))

-------------------------------------------------------------------------------
Ends(result) == outcome' = result /\ UNCHANGED <<declared, history, fragments, assembler>>

\* chat and chat_stream refuse a request before anything is sent.
Send ==
    /\ outcome = "composing" /\ turns < MaxTurns
    /\ turns' = turns + 1
    /\ \E options \in Options :
          LET sending == [messages |-> history, options |-> options]
          IN  /\ request' = sending
              /\ outcome' = CASE ~Valid(sending) -> "invalid_request"
                              [] ~Compiles(options) -> "invalid_request"
                              [] ~Supported(sending) -> "capability_mismatch"
                              [] OTHER -> "sent"
    /\ fragments' = <<>> /\ assembler' = <<>> /\ proposals' = <<>>
    /\ UNCHANGED <<declared, history>>

\* A chunk of a stream, or an element of the list of a whole response.
Receive ==
    /\ outcome = "sent" /\ Len(fragments) < MaxFragments
    /\ \E fragment \in Fragment :
          /\ fragments' = Append(fragments, fragment)
          /\ \/ /\ fragment.malformed
                /\ outcome' = "protocol" /\ UNCHANGED assembler
             \/ /\ ~fragment.malformed
                /\ SlotOf(assembler, fragment) = 0 /\ Len(assembler) >= MaxToolCalls
                /\ outcome' = "resource_limit" /\ UNCHANGED assembler
             \/ /\ ~fragment.malformed
                /\ SlotOf(assembler, fragment) # 0 \/ Len(assembler) < MaxToolCalls
                /\ assembler' = Feed(assembler, fragment) /\ UNCHANGED outcome
    /\ UNCHANGED <<declared, history, request, proposals, turns>>

\* The response is whole: nothing is exposed unless all of it validates.
Answered ==
    /\ outcome = "sent"
    /\ LET error == IF FinishError(assembler) # "none" THEN FinishError(assembler)
                    ELSE IF ToolCheck(ToolCalls(assembler), request.options) THEN "none"
                    ELSE "invalid_output"
       IN  \/ error # "none" /\ outcome' = error /\ UNCHANGED proposals
           \/ error = "none" /\ outcome' = "answered" /\ proposals' = ToolCalls(assembler)
    /\ UNCHANGED <<declared, history, request, fragments, assembler, turns>>

\* An HTTP status or transport failure, a timeout, a cancellation, or more
\* output than the provider's limit.
Unanswered == outcome = "sent" /\ Ends("failed") /\ UNCHANGED <<request, proposals, turns>>

\* The caller replays the assistant turn and adds what it has to say: results
\* in any order, some of them twice or for no call at all, or a question.
Replay ==
    /\ outcome = "answered"
    /\ \E ids \in SeqOf({proposals[i].id : i \in DOMAIN proposals}
                        \cup {call.id : call \in UNION {ToSet(m.calls) : m \in ToSet(history)}}, 2) :
          history' = Append(history, Assistant(proposals))
                     \o [i \in DOMAIN ids |-> ToolResult(ids[i])]
                     \o (IF ids = <<>> THEN <<User>> ELSE <<>>)
    /\ outcome' = "composing"
    /\ UNCHANGED <<declared, request, fragments, assembler, proposals, turns>>

\* The caller sends the same history again, with other options.
Retry ==
    /\ outcome \notin {"composing", "sent", "answered"}
    /\ Ends("composing")
    /\ UNCHANGED <<request, proposals, turns>>

Init ==
    /\ declared \in Declared
    /\ history \in History
    /\ request = [messages |-> <<>>, options |-> [tools |-> <<>>, choice |-> "absent", named |-> <<>>]]
    /\ fragments = <<>> /\ assembler = <<>> /\ proposals = <<>>
    /\ outcome = "composing"
    /\ turns = 0

Next == Send \/ Receive \/ Answered \/ Unanswered \/ Replay \/ Retry

Spec == Init /\ [][Next]_vars

-------------------------------------------------------------------------------
\* The fragments of each call, from a server that gives all of them an index or
\* none: those with the index, or the one with an identifier and what follows.
Opens(i) ==
    IF fragments[i].index = NoIndex THEN i = 1 \/ fragments[i].hasId
    ELSE \A j \in 1 .. i - 1 : fragments[j].index # fragments[i].index

Belongs(i, opening) ==
    IF fragments[i].index = NoIndex
    THEN opening <= i /\ \A j \in opening + 1 .. i : ~Opens(j)
    ELSE fragments[i].index = fragments[opening].index

Joined(opening, Part(_)) ==
    FlattenSeq([i \in DOMAIN fragments |-> IF Belongs(i, opening) THEN Part(fragments[i]) ELSE <<>>])

\* Calls are in the order in which they open.
Ascending(opening) == \A k \in DOMAIN opening : \A j \in 1 .. k - 1 : opening[j] < opening[k]

Uniform == \A i, j \in DOMAIN fragments : (fragments[i].index = NoIndex) = (fragments[j].index = NoIndex)

\* docs/generation.md: what is exposed as a proposal was sent by the server,
\* piece by piece and in order, was offered, and satisfies the choice and the
\* schema.
ProposalsUsable ==
    outcome = "answered" =>
       /\ Uniform => \E opening \in [DOMAIN proposals -> DOMAIN fragments] :
             /\ Ascending(opening)
             /\ \A i \in DOMAIN fragments : Opens(i) <=> \E k \in DOMAIN opening : opening[k] = i
             /\ proposals = [k \in DOMAIN proposals |->
                   [id |-> Joined(opening[k], LAMBDA f : f.id),
                    name |-> Joined(opening[k], LAMBDA f : f.name),
                    arguments |-> Joined(opening[k], LAMBDA f : f.arguments)]]
       /\ \A i \in DOMAIN proposals :
             \E k \in DOMAIN request.options.tools :
                LET tool == request.options.tools[k]
                IN  /\ tool.name = proposals[i].name
                    /\ request.options.choice \in {"absent", "auto"}
                       \/ (request.options.choice = "tool" /\ request.options.named = tool.name)
                    /\ Satisfies(proposals[i].arguments, tool.schema)

\* An assistant turn that was accepted can be replayed unchanged: with a result
\* for each of its calls the history is valid again, unless the server gave one
\* of them an identifier the history has already.
ReplayAccepted ==
    outcome = "answered" =>
       LET messages == history \o <<Assistant(proposals)>>
                       \o [i \in DOMAIN proposals |-> ToolResult(proposals[i].id)]
       IN  \/ ValidMessages(messages)
           \/ ProposedBefore(history, Len(history) + 1) \cap Ids(proposals) # {}
===============================================================================
