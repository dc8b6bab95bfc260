-------------------------- MODULE RemoteStreamProofs --------------------------
(***************************************************************************)
(* RemoteStream for every size of its queues and every number of chunks:   *)
(* what the client's application takes keeps the contract of the server's  *)
(* stream.  Both ends are instances of InferenceStream, whose invariant is *)
(* proved in InferenceStreamProofs and used here for each of them; what is *)
(* left is what the provider's task makes of the lines in between.         *)
(***************************************************************************)
EXTENDS RemoteStream, SequenceTheorems, TLAPS

S == INSTANCE InferenceStreamProofs
    WITH yielded <- s_yielded, source_finished <- s_source_finished,
         outgoing <- s_outgoing, producer <- s_producer, sent <- s_sent,
         received <- s_received, dropped <- s_dropped, cancelled <- s_cancelled,
         cancelled_streams <- s_cancelled_streams

C == INSTANCE InferenceStreamProofs
    WITH yielded <- c_yielded, source_finished <- c_source_finished,
         outgoing <- c_outgoing, producer <- c_producer, sent <- c_sent,
         received <- c_received, dropped <- c_dropped, cancelled <- c_cancelled,
         cancelled_streams <- c_cancelled_streams

\* They are the streams of RemoteStream.
LEMMA SameServer ==
    /\ Server!Init <=> S!Init
    /\ Server!Source <=> S!Source
    /\ Server!Transmit <=> S!Transmit
    /\ Server!Receive <=> S!Receive
    /\ Server!DropStream <=> S!DropStream
    /\ Server!Exhausted <=> S!Exhausted
BY DEF Server!Init, S!Init, Server!Started, S!Started, Server!Source, S!Source,
       Server!SourceYields, S!SourceYields, Server!SourceFails, S!SourceFails,
       Server!SourceEnds, S!SourceEnds, Server!Transmit, S!Transmit, Server!Send, S!Send,
       Server!SendFails, S!SendFails, Server!Receive, S!Receive, Server!DropStream,
       S!DropStream, Server!Exhausted, S!Exhausted, Server!Polling, S!Polling,
       Server!HasRoom, S!HasRoom, Server!Terminal, S!Terminal, Server!sourceVars,
       S!sourceVars, Server!Completed, S!Completed, Server!Output, S!Output, Server!Failed,
       S!Failed, Server!Cancelled, S!Cancelled

LEMMA SameClient ==
    /\ Client!Init <=> C!Init
    /\ \A output, done : Client!SourceYields(output, done) <=> C!SourceYields(output, done)
    /\ \A error : Client!SourceFails(error) <=> C!SourceFails(error)
    /\ Client!SourceEnds <=> C!SourceEnds
    /\ Client!ObserveCancel <=> C!ObserveCancel
    /\ Client!Transmit <=> C!Transmit
    /\ Client!Receive <=> C!Receive
    /\ Client!DropStream <=> C!DropStream
    /\ Client!Cancel <=> C!Cancel
    /\ Client!Failed = C!Failed /\ Client!Cancelled = C!Cancelled
    /\ \A n : Client!Output(n) = C!Output(n)
BY DEF Client!Init, C!Init, Client!Started, C!Started, Client!SourceYields, C!SourceYields,
       Client!SourceFails, C!SourceFails, Client!SourceEnds, C!SourceEnds,
       Client!ObserveCancel, C!ObserveCancel, Client!Transmit, C!Transmit, Client!Send,
       C!Send, Client!SendFails, C!SendFails, Client!Receive, C!Receive, Client!DropStream,
       C!DropStream, Client!Cancel, C!Cancel, Client!Exhausted, C!Exhausted,
       Client!Polling, C!Polling, Client!HasRoom, C!HasRoom, Client!Terminal, C!Terminal,
       Client!sourceVars, C!sourceVars, Client!Completed, C!Completed, Client!Output,
       C!Output, Client!Failed, C!Failed, Client!Cancelled, C!Cancelled

\* The assumption of InferenceStream, which holds of both.
LEMMA BufferSizes == Buffer \in Nat \ {0} /\ MaxOutputs \in Nat
BY RemoteAssumption

-------------------------------------------------------------------------------
\* The server: its bound, who ends its producer, and that nobody cancels it.
ServerFacts ==
    /\ s_yielded <= MaxOutputs
    /\ s_dropped => connection # "open"
    /\ s_producer = "done" =>
          s_dropped \/ (Len(s_sent) > 0 /\ S!Terminal(s_sent[Len(s_sent)]))
    /\ ~s_cancelled
    /\ s_outgoing # <<>> => Head(s_outgoing).kind # "cancelled"
    /\ \A i \in 1 .. Len(s_sent) : s_sent[i].kind # "cancelled"

\* The i-th item the provider sends is the i-th output of the server, and the
\* last one if it says so; or an error.
ChunkAt(item, i) ==
    /\ i <= s_yielded
    /\ \/ item = Chunk(i, FALSE)
       \/ item = Chunk(i, TRUE) /\ s_source_finished /\ i = s_yielded

ErrorItem(item) == item = Error("failed") \/ (item = Error("cancelled") /\ c_cancelled)

Chunked ==
    \A i \in 1 .. Len(chunks) :
       \/ ChunkAt(chunks[i], i)
       \/ ErrorItem(chunks[i]) /\ i = Len(chunks) /\ reader = "done"

Pending ==
    \/ chunk = <<>>
    \/ /\ reader = "running"
       /\ \E item : chunk = <<item>> /\ (ChunkAt(item, Len(chunks) + 1) \/ ErrorItem(item))

\* How far a reader is that has met neither an error nor the end: before
\* Started, after it or an output, after Completed.
Healthy == reader = "running" /\ (chunk = <<>> \/ ChunkAt(Head(chunk), Len(chunks) + 1))

Forwarded == Len(chunks) + Len(chunk)

Progress ==
    \/ lines_read = 0 /\ last_output = {} /\ Forwarded = 0
    \/ /\ lines_read > 0 /\ ~S!Terminal(s_sent[lines_read])
       /\ \/ lines_read = 1 /\ last_output = {} /\ Forwarded = 0
          \/ lines_read > 1 /\ last_output = {lines_read - 1} /\ Forwarded = lines_read - 2
    \/ /\ lines_read = s_yielded + 2 /\ s_source_finished
       /\ last_output = {} /\ Forwarded = s_yielded

\* Why the provider's task has returned.
Returned ==
    \/ c_producer = "done"
    \/ chunks # <<>> /\ chunks[Len(chunks)].kind # "chunk"
    \/ s_source_finished /\ Len(chunks) = s_yielded

ReaderFacts ==
    /\ reader \in {"running", "done"}
    /\ lines_read \in 0 .. s_received
    /\ Chunked
    /\ Pending
    /\ Healthy => Progress
    /\ reader = "done" => Returned

\* What the client pulled are chunks, and it is finished only if the server is.
ClientFacts ==
    /\ c_yielded <= Len(chunks)
    /\ \A i \in 1 .. c_yielded : chunks[i].kind = "chunk"
    /\ c_source_finished => s_source_finished /\ c_yielded = s_yielded

Link == ServerFacts /\ ReaderFacts /\ ClientFacts
Item == [kind : {"chunk", "failed", "cancelled"}, number : Nat, done : BOOLEAN]

Linked == chunks \in Seq(Item) /\ S!Inv /\ C!Inv /\ Link

\* What an item says, read off its shape.
LEMMA Items ==
    /\ \A item : \A i \in Nat \ {0} : ChunkAt(item, i) =>
          /\ item \in Item /\ item.kind = "chunk" /\ item.number = i /\ i <= s_yielded
          /\ \/ item.done = FALSE
             \/ item.done = TRUE /\ s_source_finished /\ i = s_yielded
    /\ \A item : ErrorItem(item) =>
          /\ item \in Item
          /\ item.kind = "failed" \/ (item.kind = "cancelled" /\ c_cancelled)
<1>1. ASSUME NEW i \in Nat \ {0}, NEW d \in BOOLEAN
      PROVE  /\ Chunk(i, d) \in Item /\ Chunk(i, d).kind = "chunk"
             /\ Chunk(i, d).number = i /\ Chunk(i, d).done = d
  BY DEF Chunk, Item
<1>2. ASSUME NEW k \in {"failed", "cancelled"}
      PROVE  Error(k) \in Item /\ Error(k).kind = k
  BY DEF Error, Item
<1> QED
  BY <1>1, <1>2, Zenon DEF ChunkAt, ErrorItem

-------------------------------------------------------------------------------
\* A stream only goes on: what it sent stays, it yields nothing once finished,
\* and its producer does not come back.
Onward ==
    /\ s_yielded' \in Nat /\ s_yielded' >= s_yielded
    /\ s_source_finished => s_source_finished' /\ s_yielded' = s_yielded
    /\ Len(s_sent') >= Len(s_sent)
    /\ \A i \in 1 .. Len(s_sent) : s_sent'[i] = s_sent[i]
    /\ s_received' \in Nat /\ s_received' >= s_received

LEMMA ServerGoesOn ==
    ASSUME S!Inv, \/ S!Source \/ S!Transmit \/ S!Receive \/ S!DropStream
                  \/ UNCHANGED serverVars
    PROVE  Onward
<1>1. /\ s_yielded \in Nat /\ s_received \in Nat /\ s_sent \in Seq(S!Event)
      /\ Len(s_sent) \in Nat
  BY DEF S!Inv, S!TypeOK
<1>2. CASE S!Source
  <2>1. s_outgoing = <<>> /\ s_producer = "running"
    BY <1>2 DEF S!Source, S!SourceYields, S!SourceFails, S!SourceEnds, S!Polling
  <2>2. ~s_source_finished
    BY <2>1, S!Singleton, BufferSizes, Zenon DEF S!Inv, S!InHand
  <2>3. UNCHANGED <<s_sent, s_received>> /\ (s_yielded' = s_yielded \/ s_yielded' = s_yielded + 1)
    BY <1>2 DEF S!Source, S!SourceYields, S!SourceFails, S!SourceEnds, S!sourceVars
  <2> QED
    BY <1>1, <2>2, <2>3 DEF Onward
<1>3. CASE S!Send
  <2>1. UNCHANGED <<s_yielded, s_source_finished, s_received>>
    BY <1>3 DEF S!Send, S!sourceVars
  <2>2. s_sent' = Append(s_sent, Head(s_outgoing)) /\ Head(s_outgoing) \in S!Event
    BY <1>3, S!NextInHand, BufferSizes, Zenon DEF S!Send
  <2>3. /\ Len(s_sent') = Len(s_sent) + 1
        /\ \A i \in 1 .. Len(s_sent) : s_sent'[i] = s_sent[i]
    <3>1. /\ Len(Append(s_sent, Head(s_outgoing))) = Len(s_sent) + 1
          /\ \A i \in 1 .. Len(s_sent) : Append(s_sent, Head(s_outgoing))[i] = s_sent[i]
      BY <1>1, <2>2, S!Appended, BufferSizes
    <3> QED BY <2>2, <3>1, Zenon
  <2> QED
    BY <1>1, <2>1, <2>3 DEF Onward
<1>4. CASE S!SendFails \/ S!Receive \/ S!DropStream \/ UNCHANGED serverVars
  <2>1. /\ UNCHANGED <<s_yielded, s_source_finished, s_sent>>
        /\ s_received' = s_received \/ s_received' = s_received + 1
    BY <1>4 DEF S!SendFails, S!Receive, S!DropStream, S!sourceVars, serverVars
  <2> QED
    BY <1>1, <2>1 DEF Onward
<1> QED
  BY <1>2, <1>3, <1>4 DEF S!Transmit

LEMMA Numbers ==
    ASSUME Linked
    PROVE  /\ s_yielded \in Nat /\ s_sent \in Seq(S!Event) /\ Len(s_sent) \in Nat
           /\ s_received \in Nat /\ s_received <= Len(s_sent)
           /\ lines_read \in Nat /\ lines_read <= s_received
           /\ Len(chunks) \in Nat /\ c_yielded \in Nat /\ c_yielded <= Len(chunks)
BY DEF Linked, Link, ReaderFacts, ClientFacts, S!Inv, S!TypeOK, C!Inv, C!TypeOK

LEMMA ServerSends ==
    ASSUME Linked, S!Send, UNCHANGED connection
    PROVE  ServerFacts'
<1> DEFINE e == Head(s_outgoing)
<1>1. /\ s_sent' = Append(s_sent, e) /\ s_outgoing' = Tail(s_outgoing) /\ s_outgoing # <<>>
      /\ s_producer' = IF S!Terminal(e) THEN "done" ELSE s_producer
      /\ UNCHANGED <<s_yielded, s_dropped, s_cancelled>>
  BY DEF S!Send, S!sourceVars
<1>2. /\ e \in S!Event /\ s_producer = "running"
      /\ Tail(s_outgoing) = <<>> \/ Tail(s_outgoing) = <<S!Completed(s_yielded)>>
  BY <1>1, S!NextInHand, BufferSizes, Zenon DEF Linked
<1>3. /\ Len(Append(s_sent, e)) = Len(s_sent) + 1
      /\ \A i \in 1 .. Len(s_sent) : Append(s_sent, e)[i] = s_sent[i]
      /\ Append(s_sent, e)[Len(s_sent) + 1] = e
  BY <1>2, Numbers, S!Appended, BufferSizes
<1>4. s_outgoing' # <<>> => Head(s_outgoing').kind # "cancelled"
  <2>1. Head(<<S!Completed(s_yielded)>>).kind # "cancelled"
    BY DEF S!Completed
  <2> QED BY <1>1, <1>2, <2>1, Zenon
<1>5. e.kind # "cancelled"
  BY <1>1, Zenon DEF Linked, Link, ServerFacts
<1>6. \A i \in 1 .. Len(s_sent') : s_sent'[i].kind # "cancelled"
  <2> SUFFICES ASSUME NEW i \in 1 .. Len(s_sent') PROVE s_sent'[i].kind # "cancelled"
    OBVIOUS
  <2>1. i \in 1 .. Len(s_sent) \/ i = Len(s_sent) + 1
    BY <1>1, <1>3, Numbers
  <2> QED BY <1>1, <1>3, <1>5, <2>1, Zenon DEF Linked, Link, ServerFacts
<1>7. s_producer' = "done" => Len(s_sent') > 0 /\ S!Terminal(s_sent'[Len(s_sent')])
  <2>1. Len(s_sent') > 0 /\ s_sent'[Len(s_sent')] = e
    <3>1. Len(s_sent') = Len(s_sent) + 1
      BY <1>1, <1>3, Zenon
    <3>2. Len(s_sent') > 0
      BY <3>1, Numbers
    <3> QED BY <1>1, <1>3, <3>1, <3>2, Zenon
  <2> QED BY <1>1, <1>2, <2>1, Zenon
<1> QED
  BY <1>1, <1>4, <1>6, <1>7 DEF Linked, Link, ServerFacts

LEMMA ServerYields ==
    ASSUME Linked, S!Source, UNCHANGED connection
    PROVE  ServerFacts'
<1>1. UNCHANGED <<s_producer, s_sent, s_dropped, s_cancelled>> /\ ~s_cancelled
  BY DEF S!Source, S!SourceYields, S!SourceFails, S!SourceEnds, Linked, Link, ServerFacts
<1>2. s_yielded' <= MaxOutputs
  BY Numbers, BufferSizes
     DEF S!Source, S!SourceYields, S!SourceFails, S!SourceEnds, S!sourceVars, Linked, Link,
         ServerFacts
<1>3. Head(s_outgoing').kind # "cancelled"
  <2>1. CASE \E done \in BOOLEAN : S!SourceYields(S!Output(s_yielded + 1), done)
    <3>1. \/ s_outgoing' = <<S!Output(s_yielded + 1), S!Completed(s_yielded + 1)>>
          \/ s_outgoing' = <<S!Output(s_yielded + 1)>>
      BY <2>1, Zenon DEF S!SourceYields
    <3>2. \A e, f : Head(<<e>>) = e /\ Head(<<e, f>>) = e
      OBVIOUS
    <3>3. Head(s_outgoing') = S!Output(s_yielded + 1)
      BY <3>1, <3>2, Zenon
    <3> QED BY <3>3 DEF S!Output
  <2>2. CASE S!SourceFails(S!Failed)
    <3>1. Head(s_outgoing') = S!Failed
      BY <2>2, S!Singleton, BufferSizes, Zenon DEF S!SourceFails
    <3> QED BY <3>1 DEF S!Failed
  <2>3. CASE S!SourceEnds
    <3>1. Head(s_outgoing') = S!Completed(s_yielded)
      BY <2>3, S!Singleton, BufferSizes, Zenon DEF S!SourceEnds
    <3> QED BY <3>1 DEF S!Completed
  <2> QED
    BY <1>1, <2>1, <2>2, <2>3 DEF S!Source
<1> QED
  BY <1>1, <1>2, <1>3 DEF Linked, Link, ServerFacts

LEMMA ServerRests ==
    ASSUME Linked,
           UNCHANGED <<s_yielded, s_sent, s_cancelled>>,
           \/ UNCHANGED s_producer
           \/ s_producer' = "done" /\ s_dropped,
           \/ UNCHANGED s_dropped /\ (connection' = connection \/ connection' # "open")
           \/ s_dropped' /\ connection' # "open",
           s_outgoing' = s_outgoing \/ s_outgoing' = <<>>
    PROVE  ServerFacts'
BY DEF Linked, Link, ServerFacts

\* What a step of another task leaves of the facts about the reader.
LEMMA ReaderRests ==
    ASSUME Linked, Onward, UNCHANGED readerVars,
           c_cancelled => c_cancelled',
           c_producer = "done" => c_producer' = "done"
    PROVE  ReaderFacts'
<1>1. UNCHANGED <<lines_read, last_output, reader, chunk, chunks>>
  BY DEF readerVars
<1>2. \A item, i : i \in Nat /\ ChunkAt(item, i) => ChunkAt(item, i)'
  BY Numbers DEF ChunkAt, Onward, Chunk
<1>3. \A item : ErrorItem(item) => ErrorItem(item)'
  BY DEF ErrorItem, Error
<1>4. Chunked'
  <2>1. Chunked
    BY DEF Linked, Link, ReaderFacts
  <2>2. \A i \in 1 .. Len(chunks) : i \in Nat
    OBVIOUS
  <2> QED BY <1>1, <1>2, <1>3, <2>1, <2>2, Zenon DEF Chunked
<1>5. Pending'
  <2>1. Pending
    BY DEF Linked, Link, ReaderFacts
  <2>2. Len(chunks) + 1 \in Nat
    BY Numbers
  <2> QED BY <1>1, <1>2, <1>3, <2>1, <2>2, Zenon DEF Pending
<1>6. Healthy' => Healthy
  <2> SUFFICES ASSUME Healthy' PROVE Healthy
    OBVIOUS
  <2>1. CASE chunk = <<>>
    BY <1>1, <2>1 DEF Healthy
  <2>2. CASE chunk # <<>>
    <3>1. PICK item : /\ chunk = <<item>>
                      /\ ChunkAt(item, Len(chunks) + 1) \/ ErrorItem(item)
      BY <2>2 DEF Linked, Link, ReaderFacts, Pending
    <3>2. Head(chunk) = item
      BY <3>1
    <3>3. ~ErrorItem(item)
      <4>1. ChunkAt(Head(chunk), Len(chunks) + 1)'
        BY <1>1, <2>2 DEF Healthy
      <4> QED BY <1>1, <3>2, <4>1 DEF ChunkAt, ErrorItem, Chunk, Error
    <3> QED BY <1>1, <3>1, <3>2, <3>3, Zenon DEF Healthy
  <2> QED BY <2>1, <2>2
<1>7. Progress => Progress'
  <2> SUFFICES ASSUME Progress PROVE Progress'
    OBVIOUS
  <2>1. Forwarded' = Forwarded
    BY <1>1 DEF Forwarded
  <2>2. lines_read > 0 => s_sent'[lines_read] = s_sent[lines_read]
    BY Numbers DEF Onward
  <2>3. \A e : S!Terminal(e)' <=> S!Terminal(e)
    BY DEF S!Terminal
  <2>4. s_source_finished => s_source_finished' /\ s_yielded' = s_yielded
    BY DEF Onward
  <2> QED BY <1>1, <2>1, <2>2, <2>4 DEF Progress, S!Terminal
<1>8. Returned => Returned'
  BY <1>1 DEF Returned, Onward
<1>9. reader' \in {"running", "done"} /\ lines_read' \in 0 .. s_received'
  BY <1>1, Numbers DEF Linked, Link, ReaderFacts, Onward
<1> QED
  BY <1>1, <1>4, <1>5, <1>6, <1>7, <1>8, <1>9 DEF Linked, Link, ReaderFacts

-------------------------------------------------------------------------------
\* What the next line of the response may be, from where the reader is.
LEMMA NextLine ==
    ASSUME Linked, Progress, lines_read < s_received
    PROVE  LET line == s_sent[lines_read + 1] IN
           \/ lines_read = 0 /\ line = S!Started
           \/ /\ lines_read > 0 /\ ~S!Terminal(s_sent[lines_read])
              /\ \/ lines_read <= s_yielded /\ line = S!Output(lines_read)
                 \/ line \in {S!Failed, S!Cancelled}
                 \/ /\ lines_read = s_yielded + 1 /\ s_source_finished
                    /\ line = S!Completed(s_yielded)
<1> DEFINE r == lines_read + 1
<1>1. /\ lines_read \in Nat /\ s_yielded \in Nat /\ Len(s_sent) \in Nat
      /\ r \in 1 .. Len(s_sent) /\ r - 1 = lines_read /\ lines_read < Len(s_sent)
  BY Numbers
<1>2. \A i \in 1 .. Len(s_sent) :
         \/ i = 1 /\ s_sent[i] = S!Started
         \/ i > 1 /\ i <= s_yielded + 1 /\ s_sent[i] = S!Output(i - 1)
         \/ /\ i > 1 /\ i = Len(s_sent) /\ s_producer = "done"
            /\ \/ s_sent[i] \in {S!Cancelled, S!Failed}
               \/ /\ s_source_finished /\ i = s_yielded + 2
                  /\ s_sent[i] = S!Completed(s_yielded)
  BY DEF Linked, S!Inv, S!Ordered
<1>3. CASE lines_read = 0
  BY <1>1, <1>2, <1>3
<1>4. CASE lines_read > 0 /\ ~S!Terminal(s_sent[lines_read])
  <2>1. \/ r <= s_yielded + 1 /\ s_sent[r] = S!Output(r - 1)
        \/ s_sent[r] \in {S!Cancelled, S!Failed}
        \/ s_source_finished /\ r = s_yielded + 2 /\ s_sent[r] = S!Completed(s_yielded)
    <3>1. r # 1
      BY <1>1, <1>4
    <3> QED BY <1>1, <1>2, <3>1, Zenon
  <2>2. (r <= s_yielded + 1 => lines_read <= s_yielded)
        /\ (r = s_yielded + 2 => lines_read = s_yielded + 1)
    BY <1>1
  <2>3. s_sent[r] = s_sent[lines_read + 1]
    OBVIOUS
  <2> HIDE DEF r
  <2> QED BY <1>1, <1>4, <2>1, <2>2, <2>3, Zenon
<1>5. CASE lines_read = s_yielded + 2
  <2>1. lines_read \in 1 .. Len(s_sent) /\ lines_read # Len(s_sent)
    BY <1>1, <1>5
  <2>2. lines_read # 1 /\ ~(lines_read <= s_yielded + 1)
    BY <1>1, <1>5
  <2> QED BY <1>2, <2>1, <2>2, Zenon
<1> QED
  BY <1>3, <1>4, <1>5 DEF Progress

\* The reader takes up something to send: the next output, the last one, or an
\* error.
LEMMA TakesUp ==
    ASSUME Linked, Reading, chunk' = <<>> \/ \E item : chunk' = <<item>>,
           UNCHANGED <<s_yielded, s_source_finished, s_sent, s_received, chunks, reader,
                       c_cancelled, c_producer>>,
           lines_read' \in 0 .. s_received,
           \/ /\ chunk' # <<>> /\ ErrorItem(Head(chunk'))
           \/ Progress' /\ (chunk' # <<>> => ChunkAt(Head(chunk'), Len(chunks) + 1))
    PROVE  ReaderFacts'
<1>1. reader = "running" /\ reader' = "running"
  BY DEF Reading
<1>2. Chunked'
  <2>1. \A item, i : ChunkAt(item, i)' <=> ChunkAt(item, i)
    BY DEF ChunkAt, Chunk
  <2>2. \A item : ErrorItem(item)' <=> ErrorItem(item)
    BY DEF ErrorItem, Error
  <2> QED BY <2>1, <2>2, Zenon DEF Linked, Link, ReaderFacts, Chunked
<1>3. \A item : Head(<<item>>) = item
  OBVIOUS
<1>4. Pending'
  <2>1. \A item : ChunkAt(item, Len(chunks) + 1)' <=> ChunkAt(item, Len(chunks) + 1)
    BY DEF ChunkAt, Chunk
  <2>2. \A item : ErrorItem(item)' <=> ErrorItem(item)
    BY DEF ErrorItem, Error
  <2>3. CASE chunk' = <<>>
    BY <2>3 DEF Pending
  <2>4. CASE chunk' # <<>>
    <3>1. PICK item : chunk' = <<item>>
      BY <2>4
    <3>2. Head(chunk') = item
      BY <3>1, <1>3, Zenon
    <3>3. ChunkAt(item, Len(chunks) + 1) \/ ErrorItem(item)
      BY <2>4, <3>2, Zenon
    <3> QED BY <1>1, <2>1, <2>2, <3>1, <3>3, Zenon DEF Pending
  <2> QED BY <2>3, <2>4
<1>5. Healthy' => Progress'
  <2> SUFFICES ASSUME Healthy', chunk' # <<>>, ErrorItem(Head(chunk')) PROVE FALSE
    BY DEF Healthy
  <2>1. ChunkAt(Head(chunk'), Len(chunks) + 1)
    BY DEF Healthy, ChunkAt, Chunk
  <2> QED BY <2>1 DEF ChunkAt, ErrorItem, Chunk, Error
<1> QED
  BY <1>1, <1>2, <1>4, <1>5 DEF Linked, Link, ReaderFacts

LEMMA LineRead ==
    ASSUME Linked, ~MayCut, ReadLine
    PROVE  ReaderFacts'
<1> DEFINE line == s_sent[lines_read + 1]
<1>1. /\ Reading /\ chunk = <<>> /\ lines_read < s_received /\ lines_read' = lines_read + 1
      /\ UNCHANGED <<s_yielded, s_source_finished, s_sent, s_received, chunks, reader,
                     c_cancelled, c_producer>>
  BY DEF ReadLine, Reading, serverVars, clientVars
<1>2. Progress
  BY <1>1 DEF Linked, Link, ReaderFacts, Healthy, Reading
<1>3. \/ lines_read = 0 /\ line = S!Started
      \/ /\ lines_read > 0 /\ ~S!Terminal(s_sent[lines_read])
         /\ \/ lines_read <= s_yielded /\ line = S!Output(lines_read)
            \/ line \in {S!Failed, S!Cancelled}
            \/ lines_read = s_yielded + 1 /\ s_source_finished /\ line = S!Completed(s_yielded)
  BY <1>1, <1>2, NextLine
<1>4. lines_read' \in 0 .. s_received /\ lines_read \in Nat /\ lines_read' > 0
  BY <1>1, Numbers
<1>5. Forwarded = Len(chunks) /\ Len(chunks) \in Nat /\ s_yielded \in Nat
  BY <1>1, Numbers DEF Forwarded
<1>6. \A x : (CHOOSE o \in {x} : TRUE) = x
  OBVIOUS
<1>7. \/ line.kind = "started" /\ UNCHANGED <<last_output, chunk>>
      \/ line.kind = "output" /\ HoldBack(line.number)
      \/ line.kind = "completed" /\ Release
      \/ line.kind \in {"failed", "cancelled"} /\ chunk' = <<Error(line.kind)>>
  BY DEF ReadLine, Decoded
<1>8. \A item : Head(<<item>>) = item /\ <<item>> # <<>> /\ Len(<<item>>) = 1
  OBVIOUS
<1>9. CASE lines_read = 0 /\ line = S!Started
  <2>1. chunk' = <<>> /\ last_output' = {} /\ Forwarded' = 0 /\ lines_read' = 1
    <3>1. UNCHANGED <<last_output, chunk>>
      BY <1>7, <1>9 DEF S!Started
    <3>2. last_output = {} /\ Forwarded = 0
      BY <1>2, <1>4, <1>5, <1>9 DEF Progress
    <3> QED BY <1>1, <1>9, <3>1, <3>2 DEF Forwarded
  <2>2. ~S!Terminal(s_sent'[lines_read'])
    BY <1>1, <1>9, <2>1 DEF S!Terminal, S!Started
  <2>3. Progress'
    BY <1>4, <2>1, <2>2 DEF Progress, S!Terminal
  <2> QED BY <1>1, <1>4, <2>1, <2>3, TakesUp, Zenon
<1>10. CASE lines_read > 0 /\ lines_read <= s_yielded /\ line = S!Output(lines_read)
  <2>1. HoldBack(lines_read)
    BY <1>7, <1>10 DEF S!Output
  <2>2. ~S!Terminal(s_sent'[lines_read'])
    BY <1>1, <1>10 DEF S!Terminal, S!Output
  <2>3. \/ lines_read = 1 /\ last_output = {} /\ Forwarded = 0
        \/ lines_read > 1 /\ last_output = {lines_read - 1} /\ Forwarded = lines_read - 2
    BY <1>2, <1>4, <1>5, <1>10 DEF Progress
  <2>4. last_output' = {lines_read' - 1} /\ lines_read' > 1
    BY <1>1, <1>4, <1>10, <2>1 DEF HoldBack
  <2>5. CASE lines_read = 1 /\ last_output = {} /\ Forwarded = 0
    <3>1. chunk' = <<>>
      BY <2>1, <2>5 DEF HoldBack
    <3>2. Forwarded' = lines_read' - 2
      BY <1>1, <1>5, <2>5, <3>1 DEF Forwarded
    <3>3. Progress'
      BY <2>2, <2>4, <3>2, <1>4 DEF Progress, S!Terminal
    <3> QED BY <1>1, <1>4, <3>1, <3>3, TakesUp, Zenon
  <2>6. CASE lines_read > 1 /\ last_output = {lines_read - 1} /\ Forwarded = lines_read - 2
    <3>1. chunk' = <<Chunk(lines_read - 1, FALSE)>>
      <4>1. (CHOOSE o \in last_output : TRUE) = lines_read - 1 /\ last_output # {}
        BY <1>6, <2>6
      <4> QED BY <2>1, <4>1, Zenon DEF HoldBack
    <3>2. Forwarded' = lines_read' - 2
      BY <1>1, <1>4, <1>5, <1>8, <2>6, <3>1 DEF Forwarded
    <3>3. Progress'
      BY <2>2, <2>4, <3>2, <1>4 DEF Progress, S!Terminal
    <3>4. lines_read - 1 = Len(chunks) + 1 /\ lines_read - 1 <= s_yielded
      BY <1>4, <1>5, <1>10, <2>6
    <3>5. ChunkAt(Head(chunk'), Len(chunks) + 1)
      BY <1>8, <3>1, <3>4, Zenon DEF ChunkAt
    <3> QED BY <1>1, <1>4, <3>1, <3>3, <3>5, TakesUp, Zenon
  <2> QED BY <2>3, <2>5, <2>6
<1>11. CASE line \in {S!Failed, S!Cancelled}
  <2>1. line = S!Failed
    <3>1. lines_read + 1 \in 1 .. Len(s_sent)
      BY <1>1, Numbers
    <3>2. line.kind # "cancelled"
      BY <3>1 DEF Linked, Link, ServerFacts
    <3> QED BY <1>11, <3>2 DEF S!Cancelled
  <2>2. chunk' = <<Error("failed")>>
    BY <1>7, <2>1 DEF S!Failed
  <2>3. chunk' # <<>> /\ ErrorItem(Head(chunk'))
    BY <1>8, <2>2, Zenon DEF ErrorItem
  <2> QED BY <1>1, <1>4, <2>2, <2>3, TakesUp, Zenon
<1>12. CASE /\ lines_read > 0 /\ ~S!Terminal(s_sent[lines_read])
            /\ lines_read = s_yielded + 1 /\ s_source_finished /\ line = S!Completed(s_yielded)
  <2>1. Release
    BY <1>7, <1>12 DEF S!Completed
  <2>2. \/ lines_read = 1 /\ last_output = {} /\ Forwarded = 0
        \/ lines_read > 1 /\ last_output = {lines_read - 1} /\ Forwarded = lines_read - 2
    BY <1>2, <1>4, <1>5, <1>12 DEF Progress
  <2>3. last_output' = {} /\ lines_read' = s_yielded + 2
    BY <1>1, <1>5, <1>12, <2>1 DEF Release
  <2>4. CASE lines_read = 1 /\ last_output = {} /\ Forwarded = 0
    <3>1. chunk' = <<>>
      BY <2>1, <2>4 DEF Release
    <3>2. Forwarded' = s_yielded
      BY <1>1, <1>5, <1>12, <2>4, <3>1 DEF Forwarded
    <3>3. Progress'
      BY <1>1, <1>12, <2>3, <3>2 DEF Progress
    <3> QED BY <1>1, <1>4, <3>1, <3>3, TakesUp, Zenon
  <2>5. CASE lines_read > 1 /\ last_output = {lines_read - 1} /\ Forwarded = lines_read - 2
    <3>1. chunk' = <<Chunk(lines_read - 1, TRUE)>>
      <4>1. (CHOOSE o \in last_output : TRUE) = lines_read - 1 /\ last_output # {}
        BY <1>6, <2>5
      <4> QED BY <2>1, <4>1, Zenon DEF Release
    <3>2. Forwarded' = s_yielded
      BY <1>1, <1>5, <1>8, <1>12, <2>5, <3>1 DEF Forwarded
    <3>3. Progress'
      BY <1>1, <1>12, <2>3, <3>2 DEF Progress
    <3>4. lines_read - 1 = Len(chunks) + 1 /\ lines_read - 1 <= s_yielded
          /\ lines_read - 1 = s_yielded
      BY <1>4, <1>5, <1>12, <2>5
    <3>5. ChunkAt(Head(chunk'), Len(chunks) + 1)
      BY <1>8, <1>12, <3>1, <3>4, Zenon DEF ChunkAt
    <3> QED BY <1>1, <1>4, <3>1, <3>3, <3>5, TakesUp, Zenon
  <2> QED BY <2>2, <2>4, <2>5
<1> HIDE DEF line
<1> QED
  BY <1>3, <1>9, <1>10, <1>11, <1>12, Zenon

LEMMA ErrorMet ==
    ASSUME Linked, ReadError \/ ReaderObservesCancel
    PROVE  ReaderFacts'
<1>1. /\ Reading /\ chunk' # <<>> /\ ErrorItem(Head(chunk')) /\ \E item : chunk' = <<item>>
      /\ UNCHANGED <<s_yielded, s_source_finished, s_sent, s_received, chunks, reader,
                     c_cancelled, c_producer, lines_read>>
  <2>1. \A item : Head(<<item>>) = item /\ <<item>> # <<>>
    OBVIOUS
  <2> QED
    BY <2>1 DEF ReadError, ReaderObservesCancel, Reading, serverVars, clientVars, ErrorItem
<1>2. lines_read' \in 0 .. s_received
  BY <1>1, Numbers
<1> QED
  BY <1>1, <1>2, TakesUp, Zenon

\* The end of a response is that of a stream which has completed: the server's
\* producer has returned, its body is not dropped, and no error was read.
LEMMA EndRead ==
    ASSUME Linked, ReadEnd
    PROVE  ReaderFacts'
<1>1. /\ reader = "running" /\ chunk = <<>> /\ connection = "open" /\ lines_read = s_received
      /\ S!Exhausted /\ reader' = "done"
      /\ UNCHANGED <<s_yielded, s_source_finished, s_sent, s_received, chunks, chunk,
                     lines_read, c_cancelled, c_producer>>
  BY SameServer DEF ReadEnd, Reading, serverVars, clientVars
<1>2. Progress
  BY <1>1 DEF Linked, Link, ReaderFacts, Healthy
<1>3. Len(s_sent) > 0 /\ S!Terminal(s_sent[Len(s_sent)]) /\ lines_read = Len(s_sent)
  BY <1>1 DEF Linked, Link, ServerFacts, S!Exhausted
<1>4. s_source_finished /\ Forwarded = s_yielded
  BY <1>2, <1>3, Numbers DEF Progress
<1>5. Returned'
  BY <1>1, <1>4, Numbers DEF Returned, Forwarded
<1>6. Chunked'
  <2>1. \A item, i : ChunkAt(item, i)' <=> ChunkAt(item, i)
    BY <1>1 DEF ChunkAt, Chunk
  <2>2. \A item : ErrorItem(item)' <=> ErrorItem(item)
    BY <1>1 DEF ErrorItem, Error
  <2> QED BY <1>1, <2>1, <2>2, Zenon DEF Linked, Link, ReaderFacts, Chunked
<1>7. lines_read' \in 0 .. s_received' /\ Pending' /\ ~Healthy'
  BY <1>1, Numbers DEF Pending, Healthy
<1> QED
  BY <1>1, <1>5, <1>6, <1>7 DEF ReaderFacts

LEMMA ChunkSent ==
    ASSUME Linked, SendChunk
    PROVE  /\ ReaderFacts'
           /\ chunks' \in Seq(Item) /\ Len(chunks') = Len(chunks) + 1
           /\ \A i \in 1 .. Len(chunks) : chunks'[i] = chunks[i]
<1>1. /\ chunk # <<>> /\ chunks' = Append(chunks, Head(chunk)) /\ chunk' = <<>>
      /\ IF Head(chunk).kind = "chunk" THEN UNCHANGED reader ELSE reader' = "done"
      /\ UNCHANGED <<s_yielded, s_source_finished, s_sent, s_received, last_output,
                     lines_read, c_cancelled, c_producer>>
  BY DEF SendChunk, ReaderReturns, serverVars, clientVars
<1>2. PICK item : chunk = <<item>> /\ (ChunkAt(item, Len(chunks) + 1) \/ ErrorItem(item))
  BY <1>1 DEF Linked, Link, ReaderFacts, Pending
<1>3. reader = "running" /\ Head(chunk) = item /\ Len(chunk) = 1
  BY <1>1, <1>2 DEF Linked, Link, ReaderFacts, Pending
<1>4. Len(chunks) \in Nat /\ s_yielded \in Nat /\ chunks \in Seq(Item)
  BY Numbers DEF Linked
<1>5. item \in Item
  <2>1. Len(chunks) + 1 \in Nat \ {0}
    BY <1>4
  <2> QED BY <1>2, <2>1, Items, Zenon
<1>6. /\ chunks' \in Seq(Item) /\ Len(chunks') = Len(chunks) + 1
      /\ \A i \in 1 .. Len(chunks) : chunks'[i] = chunks[i]
      /\ chunks'[Len(chunks) + 1] = item
  <2>1. chunks' = Append(chunks, item)
    BY <1>1, <1>3, Zenon
  <2>2. \A T : \A s \in Seq(T) : \A e \in T :
           /\ Append(s, e) \in Seq(T) /\ Len(Append(s, e)) = Len(s) + 1
           /\ \A i \in 1 .. Len(s) : Append(s, e)[i] = s[i]
           /\ Append(s, e)[Len(s) + 1] = e
    OBVIOUS
  <2> HIDE DEF Item
  <2> QED BY <1>4, <1>5, <2>1, <2>2, Zenon
<1>7. \A i \in 1 .. Len(chunks') : i \in 1 .. Len(chunks) \/ i = Len(chunks) + 1
  BY <1>4, <1>6
<1>8. \A x, i : ChunkAt(x, i)' <=> ChunkAt(x, i)
  BY <1>1 DEF ChunkAt, Chunk
<1>9. \A x : ErrorItem(x)' <=> ErrorItem(x)
  BY <1>1 DEF ErrorItem, Error
<1>10. \A i \in 1 .. Len(chunks) : ChunkAt(chunks[i], i)
  BY <1>3 DEF Linked, Link, ReaderFacts, Chunked
<1>11. CASE ChunkAt(item, Len(chunks) + 1)
  <2>1. item.kind = "chunk" /\ reader' = "running"
    BY <1>1, <1>3, <1>11 DEF ChunkAt, Chunk
  <2>2. Chunked'
    BY <1>6, <1>7, <1>8, <1>10, <1>11, Zenon DEF Chunked
  <2>3. Progress
    BY <1>2, <1>3, <1>11 DEF Linked, Link, ReaderFacts, Healthy
  <2>4. Forwarded' = Forwarded
    BY <1>1, <1>3, <1>4, <1>6 DEF Forwarded
  <2>5. Progress'
    BY <1>1, <2>3, <2>4 DEF Progress, S!Terminal
  <2>6. lines_read' \in 0 .. s_received' /\ Pending'
    BY <1>1, Numbers DEF Pending
  <2> QED
    BY <1>6, <2>1, <2>2, <2>5, <2>6 DEF ReaderFacts
<1>12. CASE ErrorItem(item)
  <2>1. item.kind # "chunk" /\ reader' = "done"
    BY <1>1, <1>3, <1>12 DEF ErrorItem, Error
  <2>2. Chunked'
    BY <1>6, <1>7, <1>8, <1>9, <1>10, <1>12, <2>1, Zenon DEF Chunked
  <2>3. Returned'
    <3>1. chunks' # <<>>
      BY <1>4, <1>6
    <3> QED BY <1>6, <2>1, <3>1, Zenon DEF Returned
  <2>4. lines_read' \in 0 .. s_received' /\ Pending' /\ ~Healthy'
    BY <1>1, <2>1, Numbers DEF Pending, Healthy
  <2> QED
    BY <1>6, <2>1, <2>2, <2>3, <2>4 DEF ReaderFacts
<1> QED
  BY <1>2, <1>11, <1>12

LEMMA ChunkRefused ==
    ASSUME Linked, SendChunkFails
    PROVE  ReaderFacts'
<1>1. /\ c_producer = "done" /\ chunk' = <<>> /\ reader' = "done" /\ chunk # <<>>
      /\ UNCHANGED <<s_yielded, s_source_finished, s_sent, s_received, chunks, lines_read,
                     c_cancelled, c_producer>>
  BY DEF SendChunkFails, ReaderReturns, serverVars, clientVars
<1>2. Chunked'
  <2>1. \A item, i : ChunkAt(item, i)' <=> ChunkAt(item, i)
    BY <1>1 DEF ChunkAt, Chunk
  <2>2. \A item : ErrorItem(item)' <=> ErrorItem(item)
    BY <1>1 DEF ErrorItem, Error
  <2> QED BY <1>1, <2>1, <2>2, Zenon DEF Linked, Link, ReaderFacts, Chunked
<1>3. lines_read' \in 0 .. s_received' /\ Pending' /\ ~Healthy' /\ Returned'
  BY <1>1, Numbers DEF Pending, Healthy, Returned
<1> QED
  BY <1>1, <1>2, <1>3 DEF ReaderFacts

-------------------------------------------------------------------------------
\* Whatever leaves the client's source alone keeps what it knows.
LEMMA ClientRests ==
    ASSUME Linked, Onward, UNCHANGED <<c_yielded, c_source_finished>>,
           Len(chunks') \in Nat, Len(chunks') >= Len(chunks),
           \A i \in 1 .. Len(chunks) : chunks'[i] = chunks[i]
    PROVE  ClientFacts'
<1>1. c_yielded \in Nat /\ c_yielded <= Len(chunks) /\ Len(chunks) \in Nat
  BY Numbers
<1>2. \A i \in 1 .. c_yielded : i \in 1 .. Len(chunks)
  BY <1>1
<1>3. \A i \in 1 .. c_yielded' : chunks'[i].kind = "chunk"
  BY <1>2, Zenon DEF Linked, Link, ClientFacts
<1> QED
  BY <1>1, <1>3 DEF Linked, Link, ClientFacts, Onward

\* The provider's stream is a source that InferenceStream allows, and that is
\* finished only when the server's is.
LEMMA Pulled ==
    ASSUME Linked, PullChunk
    PROVE  C!Source /\ ClientFacts'
<1>1. /\ UNCHANGED <<s_yielded, s_source_finished, chunks, chunk, reader>>
      /\ c_yielded \in Nat /\ s_yielded \in Nat /\ Len(chunks) \in Nat
      /\ c_yielded <= Len(chunks)
  BY Numbers DEF PullChunk, serverVars, readerVars
<1>2. CASE /\ c_yielded < Len(chunks)
           /\ LET item == chunks[c_yielded + 1] IN
              \/ item.kind = "chunk" /\ Client!SourceYields(Client!Output(item.number), item.done)
              \/ item.kind = "failed" /\ Client!SourceFails(Client!Failed)
              \/ item.kind = "cancelled" /\ Client!SourceFails(Client!Cancelled)
  <2> DEFINE n == c_yielded + 1
             item == chunks[n]
  <2>1. n \in 1 .. Len(chunks)
    BY <1>1, <1>2
  <2>2. ChunkAt(item, n) \/ ErrorItem(item)
    BY <2>1, Zenon DEF Linked, Link, ReaderFacts, Chunked
  <2>3. CASE ChunkAt(item, n)
    <3>1. /\ item.kind = "chunk" /\ item.number = n /\ n <= s_yielded
          /\ \/ item.done = FALSE
             \/ item.done = TRUE /\ s_source_finished /\ n = s_yielded
      <4>1. n \in Nat \ {0}
        BY <1>1
      <4> HIDE DEF n, item
      <4> QED BY <2>3, <4>1, Items, Zenon
    <3>2. C!SourceYields(C!Output(n), item.done)
      BY <1>2, <3>1, SameClient
    <3>3. c_yielded < MaxOutputs
      BY <1>1, <3>1, BufferSizes DEF Linked, Link, ServerFacts
    <3>4. c_yielded' = n /\ c_source_finished' = item.done
      BY <3>2 DEF C!SourceYields
    <3>5. \A i \in 1 .. n : i \in 1 .. c_yielded \/ i = n
      BY <1>1
    <3>6. \A i \in 1 .. c_yielded' : chunks'[i].kind = "chunk"
      BY <1>1, <3>1, <3>4, <3>5, Zenon DEF Linked, Link, ClientFacts
    <3>7. C!Source
      BY <3>1, <3>2, <3>3 DEF C!Source
    <3> QED
      BY <1>1, <2>1, <3>1, <3>4, <3>6, <3>7 DEF ClientFacts
  <2>4. CASE ErrorItem(item)
    <3>1. \/ item.kind = "failed" /\ C!SourceFails(C!Failed)
          \/ item.kind = "cancelled" /\ c_cancelled /\ C!SourceFails(C!Cancelled)
      BY <1>2, <2>4, SameClient DEF ErrorItem, Error
    <3>2. UNCHANGED <<c_yielded, c_source_finished>>
      BY <3>1 DEF C!SourceFails, C!sourceVars
    <3>3. C!Source
      BY <3>1, Zenon DEF C!Source
    <3> QED
      BY <1>1, <3>2, <3>3 DEF Linked, Link, ClientFacts
  <2> QED BY <2>2, <2>3, <2>4
<1>3. CASE reader = "done" /\ c_yielded = Len(chunks) /\ Client!SourceEnds
  <2>1. C!SourceEnds
    BY <1>3, SameClient
  <2>2. c_producer = "running" /\ c_source_finished' = TRUE /\ c_yielded' = c_yielded
    BY <2>1 DEF C!SourceEnds, C!Polling
  <2>3. s_source_finished /\ Len(chunks) = s_yielded
    <3>1. Returned
      BY <1>3 DEF Linked, Link, ReaderFacts
    <3>2. chunks # <<>> => chunks[Len(chunks)].kind = "chunk"
      <4> SUFFICES ASSUME chunks # <<>> PROVE chunks[Len(chunks)].kind = "chunk"
        OBVIOUS
      <4>1. Len(chunks) \in 1 .. c_yielded
        BY <1>1, <1>3 DEF Linked
      <4> QED BY <4>1, Zenon DEF Linked, Link, ClientFacts
    <3> QED BY <2>2, <3>1, <3>2, Zenon DEF Returned
  <2> QED
    BY <1>1, <1>3, <2>1, <2>2, <2>3 DEF C!Source, Linked, Link, ClientFacts
<1> QED
  BY <1>2, <1>3 DEF PullChunk

LEMMA ClientGoesOn ==
    ASSUME C!Inv,
           \/ C!Source \/ C!ObserveCancel \/ C!Transmit \/ C!Receive \/ C!DropStream
           \/ C!Cancel \/ UNCHANGED clientVars
    PROVE  /\ c_cancelled => c_cancelled'
           /\ c_producer = "done" => c_producer' = "done"
<1>1. c_producer = "done" => c_outgoing = <<>>
  BY DEF C!Inv, C!InHand
<1> QED
  BY <1>1 DEF C!Source, C!SourceYields, C!SourceFails, C!SourceEnds, C!ObserveCancel,
     C!Transmit, C!Send, C!SendFails, C!Receive, C!DropStream, C!Cancel, C!Polling, clientVars

-------------------------------------------------------------------------------
LEMMA LinkedInit == Init => Linked
<1> SUFFICES ASSUME Init PROVE Linked
  OBVIOUS
<1>1. S!Inv /\ C!Inv
  BY S!InitInv, C!InitInv, SameServer, SameClient, BufferSizes, Zenon DEF Init
<1>2. /\ s_yielded = 0 /\ s_producer = "running" /\ s_sent = <<>> /\ s_received = 0
      /\ s_dropped = FALSE /\ s_cancelled = FALSE /\ s_outgoing = <<S!Started>>
      /\ lines_read = 0 /\ last_output = {} /\ reader = "running" /\ chunk = <<>>
      /\ chunks = <<>> /\ c_yielded = 0 /\ c_source_finished = FALSE
  BY SameServer, SameClient DEF Init, S!Init, C!Init
<1>3. ServerFacts
  <2>1. Head(s_outgoing).kind # "cancelled"
    BY <1>2 DEF S!Started
  <2> QED BY <1>2, <2>1, BufferSizes DEF ServerFacts
<1>4. ReaderFacts /\ ClientFacts /\ chunks \in Seq(Item)
  BY <1>2 DEF ReaderFacts, ClientFacts, Chunked, Pending, Progress, Forwarded
<1> QED
  BY <1>1, <1>3, <1>4 DEF Linked, Link

\* What a step is to the stream at either end.
ServerMoves ==
    S!Source \/ S!Transmit \/ S!Receive \/ S!DropStream \/ UNCHANGED serverVars

ClientMoves ==
    \/ C!Source \/ C!ObserveCancel \/ C!Transmit \/ C!Receive \/ C!DropStream
    \/ C!Cancel \/ UNCHANGED clientVars

LEMMA BothMove ==
    ASSUME Linked, ~MayPanic, [Next]_vars
    PROVE  /\ ServerMoves /\ ClientMoves
           /\ UNCHANGED serverVars \/ UNCHANGED clientVars
<1>1. CASE ServerProduces \/ WriteLine \/ DropBody
  BY <1>1, SameServer
     DEF ServerProduces, WriteLine, DropBody, ServerMoves, ClientMoves
<1>2. CASE LoseConnection \/ Reader \/ ReaderObservesCancel \/ Finished \/ UNCHANGED vars
  BY <1>2 DEF LoseConnection, Reader, ReadLine, ReadEnd, ReadError, ReaderObservesCancel,
     SendChunk, SendChunkFails, Finished, vars, ServerMoves, ClientMoves
<1>3. CASE PullChunk
  BY <1>3, Pulled DEF PullChunk, ServerMoves, ClientMoves
<1>4. CASE ClientProduces \/ Consume \/ GiveUp
  BY <1>4, SameClient DEF ClientProduces, Consume, GiveUp, ServerMoves, ClientMoves
<1> QED
  BY <1>1, <1>2, <1>3, <1>4 DEF Next

LEMMA StreamsKeep ==
    ASSUME Linked, ServerMoves, ClientMoves
    PROVE  S!Inv' /\ C!Inv' /\ Onward
<1>1. [S!Next]_S!vars
  BY DEF ServerMoves, S!Next, S!vars, serverVars
<1>2. [C!Next]_C!vars
  BY DEF ClientMoves, C!Next, C!vars, clientVars
<1>3. Onward
  BY ServerGoesOn DEF Linked, ServerMoves
<1> QED
  BY <1>1, <1>2, <1>3, S!NextInv, C!NextInv, BufferSizes, Zenon DEF Linked

LEMMA LinkedNext == ASSUME ~MayPanic, ~MayCut PROVE Linked /\ [Next]_vars => Linked'
<1> SUFFICES ASSUME Linked, [Next]_vars PROVE Linked'
  OBVIOUS
<1>1. ServerMoves /\ ClientMoves
  BY BothMove
<1>2. S!Inv' /\ C!Inv' /\ Onward
  BY <1>1, StreamsKeep
<1>3. /\ c_cancelled => c_cancelled'
      /\ c_producer = "done" => c_producer' = "done"
  BY <1>1, ClientGoesOn DEF Linked, ClientMoves
<1>4. SUFFICES ServerFacts' /\ ReaderFacts' /\ ClientFacts' /\ chunks' \in Seq(Item)
  BY <1>2 DEF Linked, Link
<1>5. chunks \in Seq(Item) /\ Len(chunks) \in Nat /\ Len(chunks) >= Len(chunks)
  BY Numbers DEF Linked
<1>6. UNCHANGED readerVars => ReaderFacts' /\ chunks' = chunks
  BY <1>2, <1>3, ReaderRests DEF readerVars
<1>7. UNCHANGED <<c_yielded, c_source_finished, chunks>> => ClientFacts'
  BY <1>2, <1>5, ClientRests
<1>8. ASSUME UNCHANGED serverVars, connection' = connection \/ connection' # "open"
      PROVE  ServerFacts'
  BY <1>8, ServerRests DEF serverVars
<1>9. CASE ServerProduces
  <2>1. UNCHANGED <<connection, readerVars, clientVars>> /\ (S!Source \/ S!Transmit)
    BY <1>9, SameServer DEF ServerProduces
  <2>2. ReaderFacts' /\ ClientFacts' /\ chunks' \in Seq(Item)
    BY <1>5, <1>6, <1>7, <2>1 DEF clientVars
  <2>3. CASE S!SendFails
    BY <2>1, <2>2, <2>3, ServerRests DEF S!SendFails, S!sourceVars
  <2> QED
    BY <2>1, <2>2, <2>3, ServerYields, ServerSends DEF S!Transmit
<1>10. CASE WriteLine \/ DropBody
  <2>1. /\ UNCHANGED <<connection, readerVars, clientVars>>
        /\ S!Receive \/ (connection # "open" /\ S!DropStream)
    BY <1>10, SameServer DEF WriteLine, DropBody
  <2>2. ReaderFacts' /\ ClientFacts' /\ chunks' \in Seq(Item)
    BY <1>5, <1>6, <1>7, <2>1 DEF clientVars
  <2>3. ServerFacts'
    BY <2>1, ServerRests DEF S!Receive, S!DropStream, S!sourceVars
  <2> QED BY <2>2, <2>3
<1>11. CASE LoseConnection
  BY <1>5, <1>6, <1>7, <1>8, <1>11 DEF LoseConnection, clientVars
<1>12. CASE ReadLine \/ ReadEnd \/ ReadError \/ ReaderObservesCancel \/ SendChunkFails
  <2>1. /\ UNCHANGED serverVars /\ (connection' = connection \/ connection' # "open")
        /\ UNCHANGED <<c_yielded, c_source_finished, chunks>>
    BY <1>12 DEF ReadLine, ReadEnd, ReadError, ReaderObservesCancel, SendChunkFails,
       ReaderReturns, clientVars
  <2>2. ReaderFacts'
    BY <1>12, LineRead, EndRead, ErrorMet, ChunkRefused
  <2> QED BY <1>5, <1>7, <1>8, <2>1, <2>2
<1>13. CASE SendChunk
  <2>1. /\ UNCHANGED serverVars /\ (connection' = connection \/ connection' # "open")
        /\ UNCHANGED <<c_yielded, c_source_finished>>
    BY <1>13 DEF SendChunk, ReaderReturns, clientVars
  <2>2. /\ ReaderFacts' /\ chunks' \in Seq(Item)
        /\ Len(chunks') = Len(chunks) + 1
        /\ \A i \in 1 .. Len(chunks) : chunks'[i] = chunks[i]
    BY <1>13, ChunkSent
  <2>3. Len(chunks') \in Nat /\ Len(chunks') >= Len(chunks)
    BY <1>5, <2>2
  <2>4. ClientFacts'
    BY <1>2, <2>1, <2>2, <2>3, ClientRests
  <2> QED BY <1>8, <2>1, <2>2, <2>4
<1>14. CASE PullChunk
  <2>1. UNCHANGED <<serverVars, connection, readerVars>>
    BY <1>14 DEF PullChunk
  <2> QED BY <1>5, <1>6, <1>8, <1>14, <2>1, Pulled
<1>15. CASE ClientProduces \/ Consume \/ GiveUp
  <2>1. UNCHANGED <<serverVars, connection, readerVars, c_yielded, c_source_finished>>
    BY <1>15, SameClient
       DEF ClientProduces, Consume, GiveUp, C!ObserveCancel, C!Transmit, C!Send, C!SendFails,
           C!Receive, C!DropStream, C!Cancel, C!sourceVars
  <2> QED BY <1>5, <1>6, <1>7, <1>8, <2>1 DEF readerVars
<1>16. CASE Finished \/ UNCHANGED vars
  BY <1>5, <1>6, <1>7, <1>8, <1>16 DEF Finished, vars, clientVars
<1> QED
  BY <1>9, <1>10, <1>11, <1>12, <1>13, <1>14, <1>15, <1>16 DEF Next, Reader

-------------------------------------------------------------------------------
\* The remote stream's contract speaks of the server's outputs and of the
\* client's events.
LEMMA SameEvents ==
    /\ Contract!Started = C!Started /\ Contract!Cancelled = C!Cancelled
    /\ Contract!Failed = C!Failed
    /\ \A n : Contract!Output(n) = C!Output(n) /\ Contract!Completed(n) = C!Completed(n)
    /\ \A e : Contract!Terminal(e) <=> C!Terminal(e)
BY DEF Contract!Started, C!Started, Contract!Cancelled, C!Cancelled, Contract!Failed, C!Failed,
       Contract!Output, C!Output, Contract!Completed, C!Completed, Contract!Terminal, C!Terminal

\* What the client pulled, the server produced.
LEMMA PulledIsProduced ==
    ASSUME Linked
    PROVE  c_yielded <= s_yielded
<1>1. c_yielded \in Nat /\ Len(chunks) \in Nat /\ c_yielded <= Len(chunks) /\ s_yielded \in Nat
  BY Numbers
<1>2. CASE c_yielded > 0
  <2>1. c_yielded \in 1 .. Len(chunks) /\ c_yielded \in 1 .. c_yielded /\ c_yielded \in Nat \ {0}
    BY <1>1, <1>2
  <2>2. chunks[c_yielded].kind = "chunk"
    BY <2>1, Zenon DEF Linked, Link, ClientFacts
  <2>3. ChunkAt(chunks[c_yielded], c_yielded) \/ ErrorItem(chunks[c_yielded])
    BY <2>1, Zenon DEF Linked, Link, ReaderFacts, Chunked
  <2>4. "chunk" # "failed" /\ "chunk" # "cancelled"
    OBVIOUS
  <2> QED BY <2>1, <2>2, <2>3, <2>4, Items, Zenon
<1> QED
  BY <1>1, <1>2

\* The client numbers its events by what it pulled, which is never more than
\* the server produced, and all of it once the client's source is finished.
LEMMA ReceiveDelivers ==
    ASSUME Linked, C!Receive, UNCHANGED serverVars
    PROVE  Contract!Next
<1> DEFINE n == c_received
           taken == SubSeq(c_sent, 1, n)
<1>1. /\ c_sent \in Seq(C!Event) /\ n \in 0..Len(c_sent) /\ n < Len(c_sent)
      /\ n \in Nat /\ Len(c_sent) \in Nat /\ c_yielded \in Nat /\ s_yielded \in Nat
  BY Numbers DEF Linked, C!Inv, C!TypeOK, C!Receive
<1>2. /\ Len(taken) = n
      /\ n > 0 => taken[n] = c_sent[n]
      /\ SubSeq(c_sent, 1, n + 1) = Append(taken, c_sent[n + 1])
  BY <1>1, C!Taking, BufferSizes
<1>3. UNCHANGED <<s_yielded, s_source_finished, c_sent>> /\ c_received' = n + 1
  BY DEF C!Receive, C!sourceVars, serverVars
<1>4. SubSeq(c_sent, 1, c_received)' = Append(taken, c_sent[n + 1])
  BY <1>2, <1>3, Zenon
<1>5. Contract!Deliver(c_sent[n + 1])
  BY <1>3, <1>4, Zenon DEF Contract!Deliver
<1>6. n + 1 \in 1..Len(c_sent)
  BY <1>1
<1>7. \A i \in 1..Len(c_sent) :
         \/ i = 1 /\ c_sent[i] = C!Started
         \/ i > 1 /\ i <= c_yielded + 1 /\ c_sent[i] = C!Output(i - 1)
         \/ /\ i > 1 /\ i = Len(c_sent)
            /\ \/ c_sent[i] \in {C!Cancelled, C!Failed}
               \/ c_source_finished /\ i = c_yielded + 2 /\ c_sent[i] = C!Completed(c_yielded)
  BY DEF Linked, C!Inv, C!Ordered
<1>8. CASE n = 0
  <2>1. taken = <<>>
    BY <1>2, <1>8, SubSeqEmpty
  <2>2. c_sent[n + 1] = C!Started
    BY <1>1, <1>7, <1>8
  <2> QED
    BY <1>5, <2>1, <2>2, SameEvents, Zenon DEF Contract!Begin, Contract!Next
<1>9. CASE n > 0
  <2>1. n \in 1..Len(c_sent) /\ n # Len(c_sent)
    BY <1>1, <1>9
  <2>2. (n = 1 /\ c_sent[n] = C!Started) \/ c_sent[n] = C!Output(n - 1)
    BY <1>7, <2>1, Zenon
  <2>3. ~C!Terminal(c_sent[n])
    BY <2>2, C!Events, BufferSizes, Zenon
  <2>4. taken # <<>>
    <3>1. Len(<<>>) = 0 /\ n # 0
      BY <1>1, <1>9
    <3> QED
      BY <1>2, <3>1, Zenon
  <2>5. Contract!Open
    BY <1>2, <1>9, <2>3, <2>4, SameEvents, Zenon DEF Contract!Open
  <2>6. n + 1 # 1 /\ (n + 1) - 1 = n
    BY <1>1, <1>9
  <2>7. \/ n + 1 <= c_yielded + 1 /\ c_sent[n + 1] = C!Output(n)
        \/ c_sent[n + 1] \in {C!Cancelled, C!Failed}
        \/ /\ c_source_finished /\ n + 1 = c_yielded + 2
           /\ c_sent[n + 1] = C!Completed(c_yielded)
    BY <1>6, <1>7, <2>6, Zenon
  <2>8. CASE n + 1 <= c_yielded + 1 /\ c_sent[n + 1] = C!Output(n)
    <3>1. n <= s_yielded
      <4>1. c_yielded <= s_yielded
        BY PulledIsProduced
      <4> QED BY <1>1, <2>8, <4>1
    <3> QED
      BY <1>2, <1>5, <2>5, <2>8, <3>1, SameEvents, Zenon DEF Contract!DeliverOutput, Contract!Next
  <2>9. CASE c_sent[n + 1] \in {C!Cancelled, C!Failed}
    BY <1>5, <2>5, <2>9, SameEvents, Zenon DEF Contract!Abort, Contract!Next
  <2>10. CASE /\ c_source_finished /\ n + 1 = c_yielded + 2
              /\ c_sent[n + 1] = C!Completed(c_yielded)
    <3>1. s_source_finished /\ c_yielded = s_yielded
      BY <2>10 DEF Linked, Link, ClientFacts
    <3>2. n = s_yielded + 1
      BY <1>1, <2>10, <3>1
    <3> QED
      BY <1>2, <1>5, <2>5, <2>10, <3>1, <3>2, SameEvents, Zenon
         DEF Contract!Complete, Contract!Next
  <2> QED
    BY <2>7, <2>8, <2>9, <2>10
<1> QED
  BY <1>1, <1>8, <1>9

\* A step of the server is one of its source, or the contract does not see it.
LEMMA ServerProduced ==
    ASSUME Linked, ServerMoves, UNCHANGED clientVars
    PROVE  [Contract!Next]_Contract!vars
<1>1. UNCHANGED SubSeq(c_sent, 1, c_received)
  BY DEF clientVars
<1>2. CASE S!Source
  <2>1. ~s_source_finished
    <3>1. s_outgoing = <<>> /\ s_producer = "running"
      BY <1>2 DEF S!Source, S!SourceYields, S!SourceFails, S!SourceEnds, S!Polling
    <3> QED BY <3>1, S!Singleton, BufferSizes, Zenon DEF Linked, S!Inv, S!InHand
  <2>2. \/ UNCHANGED <<s_yielded, s_source_finished>>
        \/ s_yielded' = s_yielded + 1 /\ s_source_finished' \in BOOLEAN
        \/ s_yielded' = s_yielded /\ s_source_finished' = TRUE
    BY <1>2 DEF S!Source, S!SourceYields, S!SourceFails, S!SourceEnds, S!sourceVars
  <2> QED
    BY <1>1, <2>1, <2>2, Zenon DEF Contract!Next, Contract!Produce, Contract!Finish, Contract!vars
<1>3. CASE S!Transmit \/ S!Receive \/ S!DropStream \/ UNCHANGED serverVars
  <2>1. UNCHANGED <<s_yielded, s_source_finished>>
    BY <1>3 DEF S!Transmit, S!Send, S!SendFails, S!Receive, S!DropStream, S!sourceVars, serverVars
  <2> QED BY <1>1, <2>1, Zenon DEF Contract!vars
<1> QED
  BY <1>2, <1>3 DEF ServerMoves

\* A step of the client is an event its consumer takes, or it does not see it.
LEMMA ClientTakes ==
    ASSUME Linked, ClientMoves, UNCHANGED serverVars
    PROVE  [Contract!Next]_Contract!vars
<1>1. UNCHANGED <<s_yielded, s_source_finished>>
  BY DEF serverVars
<1>2. CASE C!Receive
  BY <1>2, ReceiveDelivers
<1>3. CASE C!Send
  <2>1. c_sent' = Append(c_sent, Head(c_outgoing)) /\ Head(c_outgoing) \in C!Event
        /\ c_received' = c_received
    BY <1>3, C!NextInHand, BufferSizes, Zenon DEF C!Send, Linked
  <2>2. SubSeq(Append(c_sent, Head(c_outgoing)), 1, c_received) = SubSeq(c_sent, 1, c_received)
    BY <2>1, C!Taking, BufferSizes DEF Linked, C!Inv, C!TypeOK
  <2> QED BY <1>1, <2>1, <2>2, Zenon DEF Contract!vars
<1>4. CASE \/ C!Source \/ C!ObserveCancel \/ C!SendFails \/ C!DropStream \/ C!Cancel
           \/ UNCHANGED clientVars
  <2>1. UNCHANGED <<c_sent, c_received>>
    BY <1>4 DEF C!Source, C!SourceYields, C!SourceFails, C!SourceEnds, C!ObserveCancel,
       C!SendFails, C!DropStream, C!Cancel, clientVars
  <2> QED BY <1>1, <2>1, Zenon DEF Contract!vars
<1> QED
  BY <1>2, <1>3, <1>4 DEF ClientMoves, C!Transmit

\* Everywhere on its way, from the server's backend to the client's consumer, a
\* stream is at the position and in the state that Linked says.
THEOREM RemoteInvariant == ASSUME ~MayPanic, ~MayCut PROVE Spec => []Linked
<1>1. Linked /\ [Next]_vars => Linked'
  BY LinkedNext
<1> QED
  BY <1>1, LinkedInit, PTL DEF Spec

\* The stream over HTTP keeps the contract of the stream it carries, whatever
\* becomes of the connection and whoever gives up, for every size of the
\* buffers of both runtimes, of the provider's channel and of the connection.  A
\* backend of the server that panics ends its stream like one that is done, and a
\* character cut by the network arrives as another, so the theorem is about
\* backends and networks that do neither.
THEOREM RemoteKeepsContract == ASSUME ~MayPanic, ~MayCut PROVE Spec => KeepsContract
<1>1. Init => Contract!Init
  <2> SUFFICES ASSUME Init PROVE Contract!Init
    OBVIOUS
  <2>1. SubSeq(c_sent, 1, c_received) = <<>>
    BY SubSeqEmpty, SameClient DEF Init, C!Init
  <2> QED
    BY <2>1, SameServer DEF Init, S!Init, Contract!Init
<1>2. Linked /\ [Next]_vars => [Contract!Next]_Contract!vars
  <2> SUFFICES ASSUME Linked, [Next]_vars PROVE [Contract!Next]_Contract!vars
    OBVIOUS
  <2> QED
    BY BothMove, ServerProduced, ClientTakes
<1> QED
  BY <1>1, <1>2, RemoteInvariant, PTL DEF Spec, KeepsContract, Contract!Spec

===============================================================================
