---------------------------- MODULE InferenceStream ----------------------------
(***************************************************************************)
(* normalize_stream (crates/runtime/src/lib.rs): a spawned producer task   *)
(* pulls chunks from the stream of a backend or a provider and sends       *)
(* normalized events through a bounded channel to the consumer, which may  *)
(* cancel the request or drop the stream at any time.                      *)
(***************************************************************************)
EXTENDS Naturals, Sequences

CONSTANTS Buffer,     \* RuntimeConfig::max_stream_buffer
          MaxOutputs  \* bound: chunks the source yields

\* infer_stream refuses a zero max_stream_buffer before it makes the channel.
ASSUME BufferAssumption == Buffer \in Nat \ {0} /\ MaxOutputs \in Nat

VARIABLES yielded,   \* chunks pulled from the source (output_count)
          source_finished,  \* the source yielded chunk.done or ended
          outgoing,  \* events the producer is about to send, in order
          producer,  \* "running", or "done" once the task has returned
          sent,      \* everything that went into the channel
          received,  \* how many of these events the consumer has taken
          dropped,   \* the consumer dropped the stream
          cancelled, \* the request's CancellationToken
          cancelled_streams  \* RuntimeMetrics::cancelled_streams

sourceVars == <<yielded, source_finished>>
vars == <<yielded, source_finished, outgoing, producer, sent, received, dropped, cancelled,
          cancelled_streams>>

Started == [kind |-> "started", number |-> 0]
Output(n) == [kind |-> "output", number |-> n]
Completed(n) == [kind |-> "completed", number |-> n]
Cancelled == [kind |-> "cancelled", number |-> 0]
Failed == [kind |-> "failed", number |-> 0]

Terminal(e) == e.kind \in {"completed", "cancelled", "failed"}

-------------------------------------------------------------------------------
\* The producer is in the select! over source.next() and the token.
Polling == producer = "running" /\ outgoing = <<>>

\* Some(Ok(chunk)): the output, and Completed after it when chunk.done.
SourceYields(output, done) ==
    /\ Polling
    /\ yielded' = yielded + 1
    /\ outgoing' = IF done THEN <<output, Completed(yielded + 1)>> ELSE <<output>>
    /\ source_finished' = done
    /\ UNCHANGED <<producer, sent, received, dropped, cancelled, cancelled_streams>>

\* Some(Err(error)): the error, which may be the backend's own Cancelled.
SourceFails(error) ==
    /\ Polling
    /\ outgoing' = <<error>>
    /\ UNCHANGED <<sourceVars, producer, sent, received, dropped, cancelled, cancelled_streams>>

\* None: a source that ends without chunk.done has succeeded too.
SourceEnds ==
    /\ Polling
    /\ outgoing' = <<Completed(yielded)>>
    /\ source_finished' = TRUE
    /\ UNCHANGED <<yielded, producer, sent, received, dropped, cancelled, cancelled_streams>>

\* The source panics: the task ends, its sender is dropped and nobody joins it.
SourcePanics ==
    /\ Polling
    /\ producer' = "done"
    /\ UNCHANGED <<sourceVars, outgoing, sent, received, dropped, cancelled, cancelled_streams>>

\* Fault: the token is only looked at before the first chunk.
ObserveCancelAtStart ==
    /\ Polling
    /\ cancelled
    /\ yielded = 0
    /\ cancelled_streams' = cancelled_streams + 1
    /\ outgoing' = <<Cancelled>>
    /\ UNCHANGED <<sourceVars, producer, sent, received, dropped, cancelled>>

\* The select! is unbiased: this branch and the source's may both be ready.
ObserveCancel ==
    /\ Polling
    /\ cancelled
    /\ cancelled_streams' = cancelled_streams + 1
    /\ outgoing' = <<Cancelled>>
    /\ UNCHANGED <<sourceVars, producer, sent, received, dropped, cancelled>>

\* Fault: an unbounded channel.
HasRoomUnbounded == TRUE

HasRoom == Len(sent) - received < Buffer

\* Fault: no return after an error.
SendAndGoOn ==
    /\ outgoing # <<>>
    /\ ~dropped /\ HasRoom
    /\ sent' = Append(sent, Head(outgoing))
    /\ outgoing' = Tail(outgoing)
    /\ producer' = IF Head(outgoing).kind = "completed" THEN "done" ELSE producer
    /\ UNCHANGED <<sourceVars, received, dropped, cancelled, cancelled_streams>>

\* sender.send(..).await with room in the channel; the task returns after a
\* terminal event.
Send ==
    /\ outgoing # <<>>
    /\ ~dropped /\ HasRoom
    /\ sent' = Append(sent, Head(outgoing))
    /\ outgoing' = Tail(outgoing)
    /\ producer' = IF Terminal(Head(outgoing)) THEN "done" ELSE producer
    /\ UNCHANGED <<sourceVars, received, dropped, cancelled, cancelled_streams>>

\* sender.send fails at once when the receiver is gone, full or not.
SendFails ==
    /\ outgoing # <<>>
    /\ dropped
    /\ outgoing' = <<>>
    /\ producer' = "done"
    /\ UNCHANGED <<sourceVars, sent, received, dropped, cancelled, cancelled_streams>>

\* The consumer's stream.next().
Receive ==
    /\ ~dropped
    /\ received < Len(sent)
    /\ received' = received + 1
    /\ UNCHANGED <<sourceVars, outgoing, producer, sent, dropped, cancelled, cancelled_streams>>

\* The consumer's stream.next() returns None.
Exhausted == producer = "done" /\ received = Len(sent)

DropStream ==
    /\ ~dropped
    /\ ~Exhausted
    /\ dropped' = TRUE
    /\ UNCHANGED <<sourceVars, outgoing, producer, sent, received, cancelled, cancelled_streams>>

Cancel ==
    /\ ~cancelled
    /\ ~Exhausted
    /\ cancelled' = TRUE
    /\ UNCHANGED <<sourceVars, outgoing, producer, sent, received, dropped, cancelled_streams>>

\* The task has returned and the consumer is at the end or gone.
Finished ==
    /\ producer = "done"
    /\ dropped \/ Exhausted
    /\ UNCHANGED vars

-------------------------------------------------------------------------------
Init ==
    /\ yielded = 0
    /\ source_finished = FALSE
    /\ outgoing = <<Started>>
    /\ producer = "running"
    /\ sent = <<>>
    /\ received = 0
    /\ dropped = FALSE
    /\ cancelled = FALSE
    /\ cancelled_streams = 0

\* What the backend's or the provider's stream does when it is polled.
Source ==
    \/ \E done \in BOOLEAN : yielded < MaxOutputs /\ SourceYields(Output(yielded + 1), done)
    \/ SourceFails(Failed)
    \/ cancelled /\ SourceFails(Cancelled)
    \/ SourceEnds

Transmit == Send \/ SendFails

Next ==
    \/ Source \/ SourcePanics \/ ObserveCancel \/ Transmit
    \/ Receive \/ DropStream \/ Cancel \/ Finished

Spec == Init /\ [][Next]_vars

\* The producer task is polled when it is woken, a select! that picks a ready
\* branch at random does not pass over the token for ever, and the consumer
\* drains the stream until it drops it.  The source may hang.
FairSpec ==
    /\ Spec
    /\ WF_vars(Transmit)
    /\ SF_vars(ObserveCancel)
    /\ WF_vars(Receive)

-------------------------------------------------------------------------------
Event == [kind : {"started", "output", "completed", "cancelled", "failed"}, number : Nat]

\* The consumer is never past the end of what was sent.
TypeOK ==
    /\ yielded \in Nat
    /\ source_finished \in BOOLEAN
    /\ outgoing \in Seq(Event)
    /\ producer \in {"running", "done"}
    /\ sent \in Seq(Event)
    /\ received \in 0..Len(sent)
    /\ dropped \in BOOLEAN
    /\ cancelled \in BOOLEAN
    /\ cancelled_streams \in Nat

\* docs/architecture.md: a slow consumer applies backpressure.  The source is
\* never more than the buffer and one chunk in hand ahead of the consumer.
Backpressure == yielded <= received + Buffer

\* A stream counted in cancelled_streams is counted once and never ends with
\* Completed: the count and the error are made by the same branch.
CountedOnce ==
    /\ cancelled_streams <= 1
    /\ cancelled_streams = 1 => \A i \in 1..Len(sent) : sent[i].kind # "completed"

Contract == INSTANCE StreamContract WITH FailsUnopened <- FALSE,
                                        produced <- yielded,
                                        finished <- source_finished,
                                        events <- SubSeq(sent, 1, received)

\* The events the consumer takes keep the contract of an InferenceStream,
\* wherever the cancellation, the drop and the source's error fall.
KeepsContract == Contract!Spec

\* A cancelled request ends although its source hangs: the producer returns,
\* and the consumer gets to the end of the stream or has dropped it.
CancelEndsStream == cancelled ~> producer = "done" /\ (dropped \/ Exhausted)

\* docs/api.md: successful completion is not emitted after a cancellation, so
\* a producer that polls its source with the token cancelled ends otherwise.
NoCompletionAfterCancel ==
    [][cancelled /\ Polling
           => \A i \in DOMAIN outgoing' : outgoing'[i].kind # "completed"]_vars

===============================================================================
