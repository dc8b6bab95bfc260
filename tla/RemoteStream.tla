----------------------------- MODULE RemoteStream -----------------------------
(***************************************************************************)
(* Streaming inference through a remote runtime: the server's normalized   *)
(* stream is written line by line to the response of /v1/infer/stream      *)
(* (providers/server/src/lib.rs), a spawned task of the HTTP provider      *)
(* turns the lines back into chunks (providers/http/src/lib.rs), and the   *)
(* client's runtime normalizes the chunks again.  Two InferenceStreams and *)
(* two queues between them.                                                *)
(***************************************************************************)
EXTENDS Naturals, Sequences

CONSTANTS Buffer,       \* max_stream_buffer, of both runtimes
          ChunkBuffer,  \* the HTTP provider's mpsc::channel(32)
          Wire,         \* lines in flight on the connection
          MaxOutputs,   \* bound: chunks the server's backend yields
          MayPanic,     \* the server's backend may panic
          MayCut        \* the network may cut the response inside a character

ASSUME RemoteAssumption ==
    /\ {Buffer, ChunkBuffer, Wire} \subseteq Nat \ {0}
    /\ MaxOutputs \in Nat
    /\ {MayPanic, MayCut} \subseteq BOOLEAN

VARIABLES
    s_yielded, s_source_finished, s_outgoing, s_producer, s_sent, s_received,
    s_dropped, s_cancelled,
    s_cancelled_streams,  \* the server's InferenceStream
    connection,   \* "open", "lost", or "closed" by the provider
    lines_read,   \* lines of the response the provider has read
    last_output,  \* the output it holds back until it knows what follows
    reader,       \* the provider's task: "running" or "done"
    chunk,        \* the chunk or error it is about to send: <<>> or one item
    chunks,       \* what it sent to the client's runtime
    c_yielded, c_source_finished, c_outgoing, c_producer, c_sent, c_received,
    c_dropped, c_cancelled, c_cancelled_streams  \* the client's InferenceStream

serverVars == <<s_yielded, s_source_finished, s_outgoing, s_producer, s_sent,
                s_received, s_dropped, s_cancelled, s_cancelled_streams>>
readerVars == <<lines_read, last_output, reader, chunk, chunks>>
clientVars == <<c_yielded, c_source_finished, c_outgoing, c_producer, c_sent,
                c_received, c_dropped, c_cancelled, c_cancelled_streams>>
vars == <<serverVars, connection, readerVars, clientVars>>

\* Its token is the CancellationToken::new() of infer_stream: no step of this
\* module cancels it, because nobody holds it.
Server == INSTANCE InferenceStream
    WITH yielded <- s_yielded, source_finished <- s_source_finished,
         outgoing <- s_outgoing, producer <- s_producer, sent <- s_sent,
         received <- s_received, dropped <- s_dropped, cancelled <- s_cancelled,
         cancelled_streams <- s_cancelled_streams

Client == INSTANCE InferenceStream
    WITH yielded <- c_yielded, source_finished <- c_source_finished,
         outgoing <- c_outgoing, producer <- c_producer, sent <- c_sent,
         received <- c_received, dropped <- c_dropped, cancelled <- c_cancelled,
         cancelled_streams <- c_cancelled_streams

Chunk(number, done) == [kind |-> "chunk", number |-> number, done |-> done]
Error(kind) == [kind |-> kind, number |-> 0, done |-> FALSE]

-------------------------------------------------------------------------------
\* The server's producer task, and the backend it polls.
ServerProduces ==
    /\ Server!Source \/ Server!Transmit \/ (MayPanic /\ Server!SourcePanics)
    /\ UNCHANGED <<connection, readerVars, clientVars>>

\* The response body polls the server's stream and writes the line.
WriteLine ==
    /\ connection = "open"
    /\ s_received - lines_read < Wire
    /\ Server!Receive
    /\ UNCHANGED <<connection, readerVars, clientVars>>

\* The server drops the body, and with it the stream, of a connection that is
\* gone.
DropBody ==
    /\ connection # "open"
    /\ Server!DropStream
    /\ UNCHANGED <<connection, readerVars, clientVars>>

LoseConnection ==
    /\ connection = "open"
    /\ connection' = "lost"
    /\ UNCHANGED <<serverVars, readerVars, clientVars>>

-------------------------------------------------------------------------------
\* The provider's task awaits the next bytes of the response.
Reading == reader = "running" /\ chunk = <<>>

\* last_output.replace(output): the previous one goes out, not the last.
HoldBack(output) ==
    /\ last_output' = {output}
    /\ chunk' = IF last_output = {} THEN <<>>
                ELSE <<Chunk(CHOOSE o \in last_output : TRUE, FALSE)>>

\* Completed makes the output that was held back the last one.
Release ==
    /\ last_output' = {}
    /\ chunk' = IF last_output = {} THEN <<>>
                ELSE <<Chunk(CHOOSE o \in last_output : TRUE, TRUE)>>

\* from_utf8_lossy of each piece of the body: where the pieces meet within a
\* character, its two parts become replacement characters, which no output that
\* is numbered from 1 has.
Garbled == 0
Decoded(output) == IF MayCut THEN {output, Garbled} ELSE {output}

\* One line of the response.
ReadLine ==
    /\ Reading
    /\ lines_read < s_received
    /\ lines_read' = lines_read + 1
    /\ LET line == s_sent[lines_read + 1] IN
       \/ /\ line.kind = "started"
          /\ UNCHANGED <<last_output, chunk>>
       \/ line.kind = "output" /\ \E output \in Decoded(line.number) : HoldBack(output)
       \/ line.kind = "completed" /\ Release
       \/ /\ line.kind \in {"failed", "cancelled"}
          /\ chunk' = <<Error(line.kind)>>
          /\ UNCHANGED last_output
    /\ UNCHANGED <<serverVars, connection, reader, chunks, clientVars>>

\* The body ends where the server's stream does, complete or not.
ReadEnd ==
    /\ Reading
    /\ connection = "open"
    /\ Server!Exhausted
    /\ lines_read = s_received
    /\ reader' = "done"
    /\ connection' = "closed"
    /\ UNCHANGED <<serverVars, lines_read, last_output, chunk, chunks, clientVars>>

\* Fault: the error is taken for the end of the response.
ReadErrorAsEnd ==
    /\ Reading
    /\ connection = "lost"
    /\ reader' = "done"
    /\ UNCHANGED <<serverVars, connection, lines_read, last_output, chunk, chunks, clientVars>>

\* bytes.next() is an error: a lost connection, with or without the lines
\* that were on their way.
ReadError ==
    /\ Reading
    /\ connection = "lost"
    /\ chunk' = <<Error("failed")>>
    /\ UNCHANGED <<serverVars, connection, lines_read, last_output, reader, chunks, clientVars>>

\* Fault: the token is looked at when a line arrives, not while waiting for it.
ReaderObservesCancelBetweenLines ==
    /\ Reading
    /\ c_cancelled
    /\ lines_read < s_received
    /\ chunk' = <<Error("cancelled")>>
    /\ UNCHANGED <<serverVars, connection, lines_read, last_output, reader, chunks, clientVars>>

\* The other branch of the select! over the bytes and the token.
ReaderObservesCancel ==
    /\ Reading
    /\ c_cancelled
    /\ chunk' = <<Error("cancelled")>>
    /\ UNCHANGED <<serverVars, connection, lines_read, last_output, reader, chunks, clientVars>>

\* Returning from the task drops the response and closes the connection.
ReaderReturns ==
    /\ reader' = "done"
    /\ connection' = IF connection = "open" THEN "closed" ELSE connection

HasRoom == Len(chunks) - c_yielded < ChunkBuffer

\* sender.send(..).await: the task returns after an error.
SendChunk ==
    /\ chunk # <<>>
    /\ c_producer = "running"
    /\ HasRoom
    /\ chunks' = Append(chunks, Head(chunk))
    /\ chunk' = <<>>
    /\ IF Head(chunk).kind = "chunk" THEN UNCHANGED <<reader, connection>> ELSE ReaderReturns
    /\ UNCHANGED <<serverVars, lines_read, last_output, clientVars>>

\* The client's producer task returned and dropped its source.
SendChunkFails ==
    /\ chunk # <<>>
    /\ c_producer = "done"
    /\ chunk' = <<>>
    /\ ReaderReturns
    /\ UNCHANGED <<serverVars, lines_read, last_output, chunks, clientVars>>

-------------------------------------------------------------------------------
\* The client's producer pulls the provider's next chunk, error or end.
PullChunk ==
    /\ \/ /\ c_yielded < Len(chunks)
          /\ LET item == chunks[c_yielded + 1] IN
             \/ item.kind = "chunk" /\ Client!SourceYields(Client!Output(item.number), item.done)
             \/ item.kind = "failed" /\ Client!SourceFails(Client!Failed)
             \/ item.kind = "cancelled" /\ Client!SourceFails(Client!Cancelled)
       \/ reader = "done" /\ c_yielded = Len(chunks) /\ Client!SourceEnds
    /\ UNCHANGED <<serverVars, connection, readerVars>>

ClientProduces ==
    /\ Client!ObserveCancel \/ Client!Transmit
    /\ UNCHANGED <<serverVars, connection, readerVars>>

Consume ==
    /\ Client!Receive
    /\ UNCHANGED <<serverVars, connection, readerVars>>

\* The application cancels the request or drops the stream.
GiveUp ==
    /\ Client!DropStream \/ Client!Cancel
    /\ UNCHANGED <<serverVars, connection, readerVars>>

\* Every task has returned and the consumer is at the end or gone.
Finished ==
    /\ reader = "done"
    /\ s_producer = "done"
    /\ c_producer = "done"
    /\ c_dropped \/ Client!Exhausted
    /\ UNCHANGED vars

-------------------------------------------------------------------------------
Init ==
    /\ Server!Init
    /\ connection = "open"
    /\ lines_read = 0
    /\ last_output = {}
    /\ reader = "running"
    /\ chunk = <<>>
    /\ chunks = <<>>
    /\ Client!Init

Reader ==
    \/ ReadLine
    \/ ReadEnd
    \/ ReadError
    \/ SendChunk
    \/ SendChunkFails

Next ==
    \/ ServerProduces
    \/ WriteLine
    \/ DropBody
    \/ LoseConnection
    \/ Reader
    \/ ReaderObservesCancel
    \/ PullChunk
    \/ ClientProduces
    \/ Consume
    \/ GiveUp
    \/ Finished

Spec == Init /\ [][Next]_vars

\* Every task is polled when it can go on, a select! does not pass over the
\* token for ever, and the consumer drains the stream until it drops it.
\* Nothing is assumed of the server's backend, which may hang.
FairSpec ==
    /\ Spec
    /\ WF_vars(Server!Transmit /\ UNCHANGED <<connection, readerVars, clientVars>>)
    /\ WF_vars(WriteLine)
    /\ WF_vars(DropBody)
    /\ WF_vars(Reader)
    /\ SF_vars(ReaderObservesCancel)
    /\ WF_vars(PullChunk)
    /\ SF_vars(Client!ObserveCancel /\ UNCHANGED <<serverVars, connection, readerVars>>)
    /\ WF_vars(Client!Transmit /\ UNCHANGED <<serverVars, connection, readerVars>>)
    /\ WF_vars(Consume)

-------------------------------------------------------------------------------
Contract == INSTANCE StreamContract WITH FailsUnopened <- FALSE,
                                        produced <- s_yielded,
                                        finished <- s_source_finished,
                                        events <- SubSeq(c_sent, 1, c_received)

\* What the application takes from the remote stream keeps the contract
\* of the server's own stream: every output of the remote backend, once and in
\* order, and Completed only when the backend finished and all were delivered.
KeepsContract == Contract!Spec

\* Nobody is left reading the response.
Released == reader = "done" /\ connection # "open"

\* The server's task has returned, or awaits a backend that hangs; it is not
\* stuck with an output that nobody will take.
ServerFree == s_producer = "done" \/ Server!Polling

\* A stream that nobody wants any longer holds nothing on either side.  The
\* provider's task and the connection end with a cancellation even if the remote
\* backend hangs and the server is never told; with a dropped stream as soon as
\* the remote backend yields, since the tasks notice it when they send.
AbandonedIsReleased ==
    /\ c_cancelled ~> Released
    /\ c_dropped ~> [](Released \/ Server!Polling)
    /\ (c_cancelled \/ c_dropped) ~> []ServerFree

\* docs/architecture.md: remote streaming preserves the same runtime-owned
\* events.  The text of an output arrives as the server's runtime sent it.
TextArrives ==
    \A i \in 1 .. c_received : c_sent[i].kind = "output" => c_sent[i].number # Garbled

\* docs/api.md: Completed exactly once on success.  A client that sees it has
\* a request that succeeded on the server.
CompletedMeansSuccess ==
    (\E i \in DOMAIN c_sent : c_sent[i].kind = "completed") => s_source_finished

===============================================================================
