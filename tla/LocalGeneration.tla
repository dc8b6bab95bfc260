--------------------------- MODULE LocalGeneration ---------------------------
(***************************************************************************)
(* The in-process llama.cpp provider (providers/llama/src/lib.rs): loading *)
(* the model file, the admission of chat and chat_stream calls, the        *)
(* blocking generation loop with its UTF-8 and stop-sequence buffers, and  *)
(* the bounded channel the loop delivers to.  A worker thread cannot be    *)
(* interrupted: it looks at the cancellation token between two steps.  The *)
(* tokenizer, the template and the evaluation of a batch are external.     *)
(* Text is a sequence of characters, a piece of a token one of bytes.      *)
(***************************************************************************)
EXTENDS Naturals, Sequences, FiniteSets, SequencesExt

CONSTANTS Calls,
          Asks,      \* call -> the requests it may be made with
          Pieces,    \* the pieces of the vocabulary, as bytes
          LlamaConfig, ModelFile,
          MaxOutput  \* DEFAULT_MAX_OUTPUT_BYTES

\* ChatRequest::validate refuses an empty stop sequence and max_tokens of zero;
\* lengths and limits are unsigned; a stop sequence is text.
ASSUME GenerationAssumption ==
    /\ MaxOutput \in Nat
    /\ \A c \in Calls : \A request \in Asks[c] :
          /\ request.stream \in BOOLEAN /\ request.prompt \in Nat
          /\ request.maxTokens \subseteq Nat
          /\ 0 \notin request.maxTokens
          /\ request.stops \subseteq Seq(STRING) \ {<<>>}
    /\ \A c \in LlamaConfig :
          /\ c.context \in Nat /\ c.maxOutput \in Nat /\ c.slots \in Nat
          /\ c.batch \in Nat /\ c.buffer \in Nat
    /\ \A f \in ModelFile : f.trained \in Nat

VARIABLES config, file,
          call,       \* call -> what its future, worker and buffers hold
          sent,       \* call -> everything that went into its channel
          taken,      \* call -> how much of it the consumer has taken
          cancelled,  \* calls whose token the caller has cancelled
          dropped     \* calls whose future or stream was dropped

vars == <<config, file, call, sent, taken, cancelled, dropped>>

-------------------------------------------------------------------------------
\* LlamaProvider::new: the limits of the configuration, the magic bytes and the
\* digest of the file, llama.cpp's loader, and the context the model was
\* trained for.
LoadError ==
    IF \/ 0 \in {config.context, config.maxOutput, config.slots, config.batch, config.buffer}
       \/ config.maxOutput >= config.context
    THEN "invalid_request"
    ELSE IF file.kind = "missing" THEN "unavailable"
    ELSE IF file.kind # "gguf" THEN "unsupported"
    ELSE IF config.sha256 \notin {"none", file.sha256} THEN "integrity"
    ELSE IF ~file.loads THEN "unsupported"
    ELSE IF config.context > file.trained THEN "invalid_request"
    ELSE "none"

\* linked: the child token of the worker, cancelled with the caller's and by
\* the guard that is dropped with the future or the stream.
Stopping(c) == c \in cancelled \cup dropped

Holds(c) == call[c].pc \notin {"idle", "waiting", "ended"}

SlotFree == Cardinality({c \in Calls : Holds(c)}) < config.slots

-------------------------------------------------------------------------------
\* Utf8Buffer: bytes of a character that is not complete yet are kept; bytes
\* that cannot begin or go on one become the replacement character.
Utf8Push(pending, bytes) ==
    FoldLeft(LAMBDA out, byte :
                LET lone == IF out.pending = <<>> THEN <<>> ELSE <<"?">>
                IN  CASE byte = "lead" -> [text |-> out.text \o lone, pending |-> <<"lead">>]
                      [] byte = "tail" ->
                             [text |-> out.text \o (IF lone = <<>> THEN <<"?">> ELSE <<"wide">>),
                              pending |-> <<>>]
                      [] OTHER -> [text |-> out.text \o lone \o <<byte>>, pending |-> <<>>],
             [text |-> <<>>, pending |-> pending], bytes)

\* The buffer gives text for every piece, and keeps what begins a character.
ASSUME DecodingAssumption ==
    \A pending \in {<<>>, <<"lead">>}, piece \in Pieces :
       Utf8Push(pending, piece) \in [text : Seq(STRING), pending : {<<>>, <<"lead">>}]

\* Where a stop sequence begins in text.
Found(text, stops) ==
    {i \in DOMAIN text : \E stop \in stops : IsPrefix(stop, SubSeq(text, i, Len(text)))}

\* Fault: only the last character is compared with the stop sequences.
KeepLastOnly(text, stops) ==
    IF \E stop \in stops : Len(stop) > 1 /\ IsSuffix(SubSeq(stop, 1, 1), text) THEN 1 ELSE 0

\* The longest suffix of text that is a proper prefix of a stop sequence.
Keep(text, stops) ==
    Max({0} \cup {n \in DOMAIN text :
                    \E stop \in stops :
                       IsStrictPrefix(SubSeq(text, Len(text) - n + 1, Len(text)), stop)})

\* StopFilter.push: what may be passed on and what is held back.
StopPush(held, text, stops) ==
    LET all == held \o text
        cut == Len(all) - Keep(all, stops)
    IN  IF Found(all, stops) # {}
        THEN [out |-> SubSeq(all, 1, Min(Found(all, stops)) - 1), held |-> <<>>,
              stopped |-> TRUE]
        ELSE [out |-> SubSeq(all, 1, cut), held |-> SubSeq(all, cut + 1, Len(all)),
              stopped |-> FALSE]

-------------------------------------------------------------------------------
Event(kind, text) == [kind |-> kind, text |-> text]

\* Cancelled; "failed" is every other error.
Errors == {"failed", "cancelled"}

NoRequest == [stream |-> FALSE, prompt |-> 0, maxTokens |-> {}, stops |-> {}]

\* streamed is a history: the text of the deltas that went into the channel.
Idle == [pc |-> "idle", request |-> NoRequest, streamed |-> <<>>,
         position |-> 0, produced |-> 0, pending |-> <<>>, held |-> <<>>,
         decoded |-> <<>>, text |-> <<>>, finish |-> "length", item |-> Event("none", <<>>),
         next |-> "none", late |-> 0]

Set(c, changed) == call' = [call EXCEPT ![c] = changed]

Channel == <<sent, taken>>
Caller == <<cancelled, dropped>>
UNCHANGEDRest == UNCHANGED <<config, file, Channel, Caller>>

\* The item that is delivered next and where the worker goes on after it.
Delivers(state, item, next) == [state EXCEPT !.pc = "deliver", !.item = item, !.next = next]

\* generate returns an error: chat returns it, a stream delivers it last.  (The
\* early return for a cancelled stream nobody reads is what deliver does then.)
Fails(state, error) ==
    IF state.request.stream THEN Delivers(state, Event(error, <<>>), "end")
    ELSE [state EXCEPT !.pc = "ended", !.item = Event(error, <<>>)]

\* send of generate: empty text is not sent; chat only collects it.
Sends(state, out, next) ==
    IF out = <<>> THEN [state EXCEPT !.pc = next]
    ELSE IF Len(state.text) + Len(out) > MaxOutput THEN Fails(state, "failed")
    ELSE LET sending == [state EXCEPT !.text = @ \o out]
         IN  IF state.request.stream THEN Delivers(sending, Event("delta", out), next)
             ELSE [sending EXCEPT !.pc = next]

-------------------------------------------------------------------------------
Begin(c) ==
    /\ call[c].pc = "idle" /\ LoadError = "none"
    /\ c \notin dropped
    /\ \E request \in Asks[c] : Set(c, [call[c] EXCEPT !.pc = "waiting", !.request = request])
    /\ UNCHANGEDRest

\* admit is biased: the token first.  A dropped future leaves the queue.
AdmitCancelled(c) ==
    /\ call[c].pc = "waiting" /\ Stopping(c)
    /\ Set(c, [call[c] EXCEPT !.pc = "ended", !.item = Event("cancelled", <<>>)])
    /\ UNCHANGEDRest

\* The blocking task is spawned with the permit in it.
Admit(c) ==
    /\ call[c].pc = "waiting" /\ ~Stopping(c) /\ SlotFree
    /\ Set(c, IF call[c].request.stream
              THEN Delivers(call[c], Event("started", <<>>), "prepare")
              ELSE [call[c] EXCEPT !.pc = "prepare"])
    /\ UNCHANGEDRest

\* max_tokens is an option: a set of at most one number.
MaxNew(request) ==
    IF request.maxTokens = {} THEN config.maxOutput ELSE CHOOSE n \in request.maxTokens : TRUE

\* Fault: the prompt alone is compared with the context window.
TooLongPromptOnly(request) ==
    MaxNew(request) > config.maxOutput \/ request.prompt > config.context

TooLong(request) ==
    MaxNew(request) > config.maxOutput \/ request.prompt + MaxNew(request) > config.context

\* generate up to the prompt: its limits, the template, the grammar and the
\* context, any of which may be refused, and the first look at the token.
Prepare(c) ==
    /\ call[c].pc = "prepare"
    /\ LET state == call[c]
       IN  \/ /\ ~TooLong(state.request) /\ state.request.prompt # 0 /\ ~Stopping(c)
              /\ Set(c, [state EXCEPT !.pc = "prompt"])
           \/ /\ ~TooLong(state.request) /\ state.request.prompt # 0 /\ Stopping(c)
              /\ Set(c, Fails(state, "cancelled"))
           \/ /\ TooLong(state.request) \/ state.request.prompt = 0 \/ ~Stopping(c)
              /\ Set(c, Fails(state, "failed"))
    /\ UNCHANGEDRest

\* A batch is evaluated, which nothing interrupts.
Evaluated(c, state) == [state EXCEPT !.late = IF Stopping(c) THEN @ + 1 ELSE @]

EvaluateChunk(c) ==
    /\ call[c].pc = "prompt"
    /\ LET state == call[c]
           left == state.request.prompt - state.position
           chunk == IF left < config.batch THEN left ELSE config.batch
       IN  \/ Set(c, Evaluated(c, [state EXCEPT !.pc = "chunk", !.position = @ + chunk]))
           \/ Set(c, Fails(state, "failed"))
    /\ UNCHANGEDRest

\* Fault: the token is looked at when the prompt is done.
AfterChunkAtEnd(c) ==
    /\ call[c].pc = "chunk"
    /\ LET state == call[c]
       IN  CASE state.position < state.request.prompt -> Set(c, [state EXCEPT !.pc = "prompt"])
             [] Stopping(c) -> Set(c, Fails(state, "cancelled"))
             [] OTHER -> Set(c, [state EXCEPT !.pc = "generate"])
    /\ UNCHANGEDRest

\* The token is looked at between two chunks and after the last.
AfterChunk(c) ==
    /\ call[c].pc = "chunk"
    /\ LET state == call[c]
       IN  Set(c, IF Stopping(c) THEN Fails(state, "cancelled")
                  ELSE IF state.position < state.request.prompt THEN [state EXCEPT !.pc = "prompt"]
                  ELSE [state EXCEPT !.pc = "generate"])
    /\ UNCHANGEDRest

\* The head of the loop.
LoopHead(c) ==
    /\ call[c].pc = "generate"
    /\ Set(c, IF Stopping(c) THEN Fails(call[c], "cancelled")
              ELSE [call[c] EXCEPT !.pc = "sample"])
    /\ UNCHANGEDRest

\* A token is sampled: the end of generation, or a piece of text.
Sample(c) ==
    /\ call[c].pc = "sample"
    /\ LET state == call[c]
       IN  \/ Set(c, [state EXCEPT !.pc = "flush", !.finish = "stop"])
           \/ \E piece \in Pieces :
                 LET utf8 == Utf8Push(state.pending, piece)
                     filter == StopPush(state.held, utf8.text, state.request.stops)
                     sampled == [state EXCEPT !.produced = @ + 1,
                                              !.pending = utf8.pending,
                                              !.decoded = @ \o utf8.text,
                                              !.held = filter.held,
                                              !.finish = IF filter.stopped THEN "stop" ELSE @]
                 IN  Set(c, Sends(sampled, filter.out,
                                  IF filter.stopped \/ sampled.produced >= MaxNew(state.request)
                                  THEN "flush" ELSE "evaluate"))
    /\ UNCHANGEDRest

EvaluateToken(c) ==
    /\ call[c].pc = "evaluate"
    /\ LET state == call[c]
       IN  \/ Set(c, Evaluated(c, [state EXCEPT !.pc = "generate", !.position = @ + 1]))
           \/ Set(c, Fails(state, "failed"))
    /\ UNCHANGEDRest

\* What the filter still holds is output.
Flush(c) ==
    /\ call[c].pc = "flush"
    /\ Set(c, Sends([call[c] EXCEPT !.held = <<>>], call[c].held, "finish"))
    /\ UNCHANGEDRest

Finish(c) ==
    /\ call[c].pc = "finish"
    /\ Set(c, IF call[c].request.stream
              THEN Delivers(call[c], Event("completed", <<>>), "end")
              ELSE [call[c] EXCEPT !.pc = "ended", !.item = Event("completed", <<>>)])
    /\ UNCHANGEDRest

HasRoom(c) == Len(sent[c]) - taken[c] < config.buffer

\* deliver: try_send until there is room.
Deliver(c) ==
    /\ call[c].pc = "deliver"
    /\ c \notin dropped /\ HasRoom(c)
    /\ sent' = [sent EXCEPT ![c] = Append(@, call[c].item)]
    /\ Set(c, [call[c] EXCEPT !.pc = IF call[c].next = "end" THEN "ended" ELSE call[c].next,
                              !.streamed = @ \o call[c].item.text])
    /\ UNCHANGED <<config, file, taken, Caller>>

\* A delta that is not delivered makes generate return Cancelled, which is
\* delivered last.  Started and the last event just end the worker.
Undelivered(state) ==
    IF state.item.kind = "delta" THEN Fails(state, "cancelled") ELSE [state EXCEPT !.pc = "ended"]

\* Fault: only a consumer that is gone ends the wait for room.
DeliverStopsClosed(c) ==
    /\ call[c].pc = "deliver"
    /\ c \in dropped
    /\ Set(c, Undelivered(call[c]))
    /\ UNCHANGEDRest

\* Fault: the last event is tried once.
DeliverStopsLast(c) ==
    /\ call[c].pc = "deliver"
    /\ c \in dropped \/ ((c \in cancelled \/ call[c].next = "end") /\ ~HasRoom(c))
    /\ Set(c, Undelivered(call[c]))
    /\ UNCHANGEDRest

\* The receiver is gone, or the buffer is full and the token is cancelled.
DeliverStops(c) ==
    /\ call[c].pc = "deliver"
    /\ c \in dropped \/ (c \in cancelled /\ ~HasRoom(c))
    /\ Set(c, Undelivered(call[c]))
    /\ UNCHANGEDRest

-------------------------------------------------------------------------------
\* The consumer of a stream; it may stop reading.
Take(c) ==
    /\ c \notin dropped
    /\ taken[c] < Len(sent[c])
    /\ taken' = [taken EXCEPT ![c] = @ + 1]
    /\ UNCHANGED <<config, file, call, sent, Caller>>

Cancel(c) ==
    /\ c \notin cancelled
    /\ cancelled' = cancelled \cup {c}
    /\ UNCHANGED <<config, file, call, Channel, dropped>>

\* The future of the call, or the stream it returned, is dropped, and what its
\* channel holds with it.
Drop(c) ==
    /\ c \notin dropped
    /\ dropped' = dropped \cup {c}
    /\ sent' = [sent EXCEPT ![c] = <<>>]
    /\ taken' = [taken EXCEPT ![c] = 0]
    /\ UNCHANGED <<config, file, call, cancelled>>

-------------------------------------------------------------------------------
Init ==
    /\ config \in LlamaConfig
    /\ file \in ModelFile
    /\ call = [c \in Calls |-> Idle]
    /\ sent = [c \in Calls |-> <<>>]
    /\ taken = [c \in Calls |-> 0]
    /\ cancelled = {} /\ dropped = {}

Admission(c) == AdmitCancelled(c) \/ Admit(c)

\* The blocking task of a call.
Worker(c) ==
    \/ Prepare(c) \/ EvaluateChunk(c) \/ AfterChunk(c)
    \/ LoopHead(c) \/ Sample(c) \/ EvaluateToken(c)
    \/ Flush(c) \/ Finish(c)
    \/ Deliver(c) \/ DeliverStops(c)

Consumer(c) == Begin(c) \/ Take(c) \/ Cancel(c) \/ Drop(c)

Next == \E c \in Calls : Admission(c) \/ Worker(c) \/ Consumer(c)

Spec == Init /\ [][Next]_vars

\* A thread of the blocking pool runs on; deliver wakes up every millisecond.
\* The consumer need not read, cancel or drop anything.
FairSpec == Spec /\ \A c \in Calls : WF_vars(Admission(c)) /\ WF_vars(Worker(c))

-------------------------------------------------------------------------------
\* "It cannot outlive an abandoned stream by more than one token (or one prompt
\* chunk)": of a call that was cancelled or dropped, at whatever step, the
\* worker evaluates at most one more batch.
AbandonedStopsSoon == \A c \in Calls : call[c].late <= 1

\* A call that was cancelled or dropped gives its admission slot back, also
\* when its buffer is full and its consumer never reads again.
AbandonedFreesSlot == \A c \in Calls : Stopping(c) ~> ~Holds(c)

\* A batch is evaluated for positions of the context only, which the trained
\* context of the file contains.
ContextFits ==
    \A c \in Calls : call[c].position > 0 =>
       call[c].position <= config.context /\ config.context <= file.trained

\* A stream is Started, deltas and one last event; the end of the channel never
\* stands for success or failure unless the consumer cancelled.
IsDelta(event) == event.kind = "delta"

EndsExplicitly ==
    \A c \in Calls :
       LET events == sent[c]
       IN  /\ \A i \in DOMAIN events : /\ (i = 1) = (events[i].kind = "started")
                                       /\ 1 < i /\ i < Len(events) => IsDelta(events[i])
           /\ /\ call[c].pc = "ended" /\ call[c].request.stream
              /\ ~Stopping(c)
              => Last(events).kind \in Errors \cup {"completed"}

\* What the consumer may see of the decoded text ends before the first stop
\* sequence, however tokens and characters are split, and is all of it when the
\* call completes.
StopNeverLeaks ==
    \A c \in Calls :
       LET state == call[c]
           stops == Found(state.decoded, state.request.stops)
       IN  /\ IsPrefix(state.text, state.decoded)
           /\ Found(state.text, state.request.stops) = {}
           /\ state.request.stream => IsPrefix(state.streamed, state.text)
           /\ state.pc = "ended" /\ state.item.kind = "completed" =>
                 state.text = IF stops = {} THEN state.decoded
                              ELSE SubSeq(state.decoded, 1, Min(stops) - 1)
===============================================================================
