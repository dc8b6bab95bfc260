------------------------------ MODULE ChatStream ------------------------------
(***************************************************************************)
(* A streaming chat completion: the task that reads the provider's event   *)
(* stream (pump_stream, emit and read_stream of providers/http/src/        *)
(* openai.rs), the bounded channel, and the stream that Runtime::          *)
(* chat_stream unfolds from it (crates/runtime/src/generation.rs), which   *)
(* holds tool-call proposals back until the whole response has validated.  *)
(***************************************************************************)
EXTENDS Naturals, Sequences

CONSTANTS StreamBuffer,  \* stream_buffer of the provider
          MaxDeltas,     \* bound: content fragments of a response
          MaxToolCalls   \* max_tool_calls of the provider

\* The provider's configuration refuses zero for each of its limits.
ASSUME ChatAssumption ==
    /\ StreamBuffer \in Nat \ {0}
    /\ MaxToolCalls \in Nat
    /\ MaxDeltas \in Nat

VARIABLES pump,       \* where the reading task is
          outgoing,   \* events it emits before it reads on
          deltas,     \* content fragments read
          calls,      \* tool calls the assembler has begun
          finish,     \* a finish_reason was read
          assembled,  \* the whole response was received and validated
          failure,    \* the error of read_stream, or "none"
          sent,       \* everything that went into the channel
          taken,      \* how much of it the runtime's stream has taken
          held,       \* proposals held back
          outbox,     \* events ready for the consumer
          stream,     \* the runtime's stream: "open", "finished" or "closed"
          seen,       \* what the consumer got
          reply,      \* history: seen without its tool events, as StreamContract has them
          cancelled   \* the CancellationToken

readVars == <<deltas, calls, finish, assembled>>
channelVars == <<sent, taken>>
got == <<seen, reply>>
streamVars == <<held, outbox, stream, got>>
vars == <<pump, outgoing, readVars, failure, channelVars, streamVars, cancelled>>

Event(kind, number) == [kind |-> kind, number |-> number]
Error(kind) == Event(kind, 0)

\* Timeout, Protocol, InvalidOutput, Cancelled; "failed" is every other error.
ErrorKind == {"timeout", "protocol", "invalid_output", "failed", "cancelled"}

IsReply(event) == event.kind \notin {"tool_delta", "tool_call"}

AsContract(event) ==
    [kind |-> IF event.kind = "delta" THEN "output"
              ELSE IF event.kind \in ErrorKind \ {"cancelled"} THEN "failed" ELSE event.kind,
     number |-> event.number]

\* The receiver half of the channel is gone.
Closed == stream = "closed"

\* What the stream holds when it is closed is dropped with it.
Close == stream' = "closed" /\ held' = 0 /\ outbox' = <<>>

-------------------------------------------------------------------------------
HasRoom == Len(sent) - taken < StreamBuffer

\* read_stream at its select!, which is biased: the closed channel first, the
\* token next, the response last.
Reading == pump = "running" /\ outgoing = <<>>

Fail(error) == failure' = error /\ pump' = "failed" /\ outgoing' = <<>>

NoticeClosed ==
    /\ Reading
    /\ Closed
    /\ pump' = "done"
    /\ UNCHANGED <<outgoing, readVars, failure, channelVars, streamVars, cancelled>>

NoticeCancel ==
    /\ Reading
    /\ ~Closed
    /\ cancelled
    /\ Fail("cancelled")
    /\ UNCHANGED <<readVars, channelVars, streamVars, cancelled>>

\* The response is polled only when neither of the others is ready.
Polls == Reading /\ ~Closed /\ ~cancelled

ReadDelta ==
    /\ Polls
    /\ deltas < MaxDeltas
    /\ deltas' = deltas + 1
    /\ outgoing' = <<Event("delta", deltas + 1)>>
    /\ UNCHANGED <<pump, calls, finish, assembled, failure, channelVars, streamVars, cancelled>>

\* A fragment that begins a call; one that continues a call adds text to it.
ReadToolFragment ==
    /\ Polls
    /\ calls < MaxToolCalls
    /\ calls' = calls + 1
    /\ outgoing' = <<Event("tool_delta", calls + 1)>>
    /\ UNCHANGED <<pump, deltas, finish, assembled, failure, channelVars, streamVars, cancelled>>

ReadFinishReason ==
    /\ Polls
    /\ ~finish
    /\ finish' = TRUE
    /\ UNCHANGED <<pump, outgoing, deltas, calls, assembled, failure, channelVars, streamVars,
                   cancelled>>

\* The events of a whole response: the proposals, then Completed.
Closing == [i \in 1..calls + 1 |-> IF i <= calls THEN Event("tool_call", i)
                                              ELSE Event("completed", deltas)]

\* assembler.finish: every call is validated before any is exposed.
Assemble ==
    \/ /\ assembled' = TRUE
       /\ outgoing' = Closing
       /\ UNCHANGED <<pump, failure>>
    \/ /\ calls > 0
       /\ Fail("protocol") \/ Fail("invalid_output")
       /\ UNCHANGED assembled

ReadDone ==
    /\ Polls
    /\ Assemble
    /\ UNCHANGED <<deltas, calls, finish, channelVars, streamVars, cancelled>>

\* The end of the response, which is a completion after a finish_reason only.
ReadEof ==
    /\ Polls
    /\ \/ finish /\ Assemble
       \/ ~finish /\ Fail("protocol") /\ UNCHANGED assembled
    /\ UNCHANGED <<deltas, calls, finish, channelVars, streamVars, cancelled>>

\* Fault: silence after a finish_reason is waited out for ever.
IdleTimeoutUnlessFinished ==
    /\ Polls
    /\ ~finish
    /\ Fail("timeout")
    /\ UNCHANGED <<readVars, channelVars, streamVars, cancelled>>

\* stream_idle_timeout: an error, or the end of a response that had finished.
IdleTimeout ==
    /\ Polls
    /\ \/ finish /\ Assemble
       \/ ~finish /\ Fail("timeout") /\ UNCHANGED assembled
    /\ UNCHANGED <<deltas, calls, finish, channelVars, streamVars, cancelled>>

\* A transport error, an error event of the provider, a limit on the response
\* ("failed"), or an event that does not parse ("protocol").
ReadFails ==
    /\ Polls
    /\ Fail("failed") \/ Fail("protocol")
    /\ UNCHANGED <<readVars, channelVars, streamVars, cancelled>>

\* emit's select! is biased too: the token before the channel.
EmitAborts ==
    /\ pump = "running"
    /\ outgoing # <<>>
    /\ cancelled \/ Closed
    /\ Fail("cancelled")
    /\ UNCHANGED <<readVars, channelVars, streamVars, cancelled>>

Emit ==
    /\ pump = "running"
    /\ outgoing # <<>>
    /\ ~cancelled /\ ~Closed
    /\ HasRoom
    /\ sent' = Append(sent, Head(outgoing))
    /\ outgoing' = Tail(outgoing)
    /\ pump' = IF Head(outgoing).kind = "completed" THEN "done" ELSE pump
    /\ UNCHANGED <<readVars, failure, taken, streamVars, cancelled>>

-------------------------------------------------------------------------------
\* pump_stream after read_stream failed: try_send, then a look at the capacity,
\* then, if the channel is full, a send that waits.  The consumer may take an
\* event between any two of them.
TrySendError ==
    /\ pump = "failed"
    /\ pump' = "tried"
    /\ sent' = IF HasRoom /\ ~Closed THEN Append(sent, Error(failure)) ELSE sent
    /\ UNCHANGED <<outgoing, readVars, failure, taken, streamVars, cancelled>>

CheckCapacity ==
    /\ pump = "tried"
    /\ pump' = IF ~HasRoom /\ ~Closed THEN "full" ELSE "done"
    /\ UNCHANGED <<outgoing, readVars, failure, channelVars, streamVars, cancelled>>

\* Fault: the wait for room is not raced against the token.
SendErrorUncancellable ==
    /\ pump = "full"
    /\ \/ HasRoom /\ ~Closed /\ sent' = Append(sent, Error(failure))
       \/ Closed /\ UNCHANGED sent
    /\ pump' = "done"
    /\ UNCHANGED <<outgoing, readVars, failure, taken, streamVars, cancelled>>

SendError ==
    /\ pump = "full"
    /\ \/ HasRoom /\ ~Closed /\ sent' = Append(sent, Error(failure))
       \/ (cancelled \/ Closed) /\ UNCHANGED sent
    /\ pump' = "done"
    /\ UNCHANGED <<outgoing, readVars, failure, taken, streamVars, cancelled>>

-------------------------------------------------------------------------------
\* The consumer's next(): an event that is ready comes first.
Yield(event) ==
    /\ seen' = Append(seen, event)
    /\ reply' = IF IsReply(event) THEN Append(reply, AsContract(event)) ELSE reply

TakeReady ==
    /\ stream # "closed"
    /\ outbox # <<>>
    /\ Yield(Head(outbox))
    /\ outbox' = Tail(outbox)
    /\ UNCHANGED <<pump, outgoing, readVars, failure, channelVars, held, stream, cancelled>>

\* The stream waits on the channel.
Waits == stream = "open" /\ outbox = <<>>

Calls(n) == [i \in 1..n |-> Event("tool_call", i)]

\* Fault: a proposal is passed on when it arrives.
HoldCallNot ==
    /\ Yield(Event("tool_call", held + 1))
    /\ UNCHANGED <<held, outbox, stream>>

\* ToolCallCompleted: held, and next() goes on to the next item.
HoldCall ==
    /\ held' = held + 1
    /\ UNCHANGED <<outbox, stream, got>>

\* Fault: an error is passed on and the stream stays open.
PassErrorAndGoOn(event) ==
    /\ Yield(event)
    /\ UNCHANGED <<held, outbox, stream>>

PassError(event) ==
    /\ Yield(event)
    /\ stream' = "finished"
    /\ UNCHANGED <<held, outbox>>

\* Completed: the proposals are checked against the tools that were offered,
\* then all of them and Completed are ready at once.
Complete(event) ==
    \/ /\ held > 0
       /\ PassError(Error("invalid_output"))
    \/ /\ outbox' = Append(Calls(held), event)
       /\ held' = 0
       /\ stream' = "finished"
       /\ UNCHANGED got

\* A text delta that would overflow the validation buffer ends the stream.
PassDelta(event) ==
    \/ Yield(event) /\ UNCHANGED <<held, outbox, stream>>
    \/ PassError(Error("failed"))

TakeItem ==
    /\ Waits
    /\ taken < Len(sent)
    /\ taken' = taken + 1
    /\ LET item == sent[taken + 1] IN
       \/ item.kind = "delta" /\ PassDelta(item)
       \/ item.kind = "tool_call" /\ HoldCall
       \/ item.kind = "completed" /\ Complete(item)
       \/ item.kind \in ErrorKind /\ PassError(item)
       \/ /\ item.kind \in {"started", "tool_delta"}
          /\ Yield(item)
          /\ UNCHANGED <<held, outbox, stream>>
    /\ UNCHANGED <<pump, outgoing, readVars, failure, sent, cancelled>>

\* The channel is closed and empty: the stream ended without Completed.
TakeNone ==
    /\ Waits
    /\ pump = "done"
    /\ taken = Len(sent)
    /\ PassError(Error(IF cancelled THEN "cancelled" ELSE "protocol"))
    /\ UNCHANGED <<pump, outgoing, readVars, failure, channelVars, cancelled>>

\* next() returns None and drops the state, the receiver and the permit in it.
TakeEnd ==
    /\ stream = "finished"
    /\ outbox = <<>>
    /\ Close
    /\ UNCHANGED <<pump, outgoing, readVars, failure, channelVars, got, cancelled>>

DropStream ==
    /\ stream # "closed"
    /\ Close
    /\ UNCHANGED <<pump, outgoing, readVars, failure, channelVars, got, cancelled>>

Cancel ==
    /\ ~cancelled
    /\ cancelled' = TRUE
    /\ UNCHANGED <<pump, outgoing, readVars, failure, channelVars, streamVars>>

Finished ==
    /\ pump = "done"
    /\ stream = "closed"
    /\ cancelled
    /\ UNCHANGED vars

-------------------------------------------------------------------------------
Init ==
    /\ pump = "running"
    /\ outgoing = <<Event("started", 0)>>
    /\ deltas = 0
    /\ calls = 0
    /\ finish = FALSE
    /\ assembled = FALSE
    /\ failure = "none"
    /\ sent = <<>>
    /\ taken = 0
    /\ held = 0
    /\ outbox = <<>>
    /\ stream = "open"
    /\ seen = <<>> /\ reply = <<>>
    /\ cancelled = FALSE

\* What the provider's server does; it may also fall silent.
Upstream == ReadDelta \/ ReadToolFragment \/ ReadFinishReason \/ ReadDone \/ ReadEof \/ ReadFails

Pump ==
    \/ NoticeClosed
    \/ NoticeCancel
    \/ IdleTimeout
    \/ EmitAborts
    \/ Emit
    \/ TrySendError
    \/ CheckCapacity
    \/ SendError

Consumer == TakeReady \/ TakeItem \/ TakeNone \/ TakeEnd

Next == Upstream \/ Pump \/ Consumer \/ DropStream \/ Cancel \/ Finished

Spec == Init /\ [][Next]_vars

\* The reading task is polled when it can go on and its idle timer fires.  The
\* upstream server may stay silent and the consumer may stop reading.
FairSpec == Spec /\ WF_vars(Pump)

-------------------------------------------------------------------------------
IsProposal(event) == event.kind = "tool_call"

\* generation.rs of the provider: ToolCallCompleted is emitted only after the
\* whole response was received, immediately before Completed, in call order.
\* A consumer that got one gets all of them and Completed, if it reads on.
ProposalsWhole ==
    (\E i \in DOMAIN seen : IsProposal(seen[i])) =>
        /\ assembled
        /\ stream # "closed" =>
              LET whole == seen \o outbox
                  others == Len(whole) - (calls + 1)
              IN  /\ Len(whole) > calls
                  /\ \A i \in 1..others : ~IsProposal(whole[i])
                  /\ \A i \in 1..calls : whole[others + i] = Event("tool_call", i)
                  /\ whole[Len(whole)].kind = "completed"

\* The chat stream without its tool events, as an InferenceStream.
Contract == INSTANCE StreamContract WITH FailsUnopened <- TRUE,
                                        produced <- deltas,
                                        finished <- assembled,
                                        events <- reply

\* chat_stream yields Started, the deltas in order, then Completed exactly once
\* on success, or one error and nothing after it (the first event already may
\* be the error of a request cancelled at once), however the error, the
\* cancellation and the consumer's reads interleave.
KeepsContract == Contract!Spec

\* Cancelling or dropping the stream ends the reading task, and so closes the
\* connection, even when the channel is full and the consumer has stopped
\* reading.
AbandonedFreesConnection == (cancelled \/ Closed) ~> pump = "done"

\* A silent server does not hold the consumer for ever: the idle timeout ends
\* the response and, for a consumer that reads until it drops it, the stream.
StreamTerminates == WF_vars(Consumer) => <>(stream = "closed")

\* docs/generation.md: a stream idle timeout is reported as Timeout.
TimeoutReported ==
    failure = "timeout" /\ ~cancelled =>
        \A i \in DOMAIN seen : seen[i].kind \in ErrorKind => seen[i].kind # "protocol"

===============================================================================
