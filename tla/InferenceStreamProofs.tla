------------------------- MODULE InferenceStreamProofs -------------------------
(***************************************************************************)
(* Proofs about InferenceStream for every buffer size and every number of  *)
(* chunks: the type invariant, the bound a slow consumer puts on the       *)
(* source, the count of cancelled streams, and the contract of the stream. *)
(***************************************************************************)
EXTENDS InferenceStream, SequenceTheorems, TLAPS

\* What is in the channel: Started, the outputs in the order of the source,
\* and a terminal event only at the end, with the producer gone.
Ordered ==
    \A i \in 1..Len(sent) :
        \/ i = 1 /\ sent[i] = Started
        \/ i > 1 /\ i <= yielded + 1 /\ sent[i] = Output(i - 1)
        \/ /\ i > 1 /\ i = Len(sent) /\ producer = "done"
           /\ \/ sent[i] \in {Cancelled, Failed}
              \/ source_finished /\ i = yielded + 2 /\ sent[i] = Completed(yielded)

\* Where the producer is: what it holds, and how much of it was sent before.
InHand ==
    \/ outgoing = <<>> /\ producer = "done"
    \/ /\ producer = "running"
       /\ \/ /\ outgoing \in {<<>>, <<Cancelled>>, <<Failed>>}
             /\ Len(sent) = yielded + 1 /\ ~source_finished
          \/ outgoing = <<Started>> /\ Len(sent) = 0 /\ yielded = 0 /\ ~source_finished
          \/ outgoing = <<Output(yielded)>> /\ Len(sent) = yielded /\ yielded > 0 /\ ~source_finished
          \/ /\ outgoing = <<Output(yielded), Completed(yielded)>>
             /\ Len(sent) = yielded /\ yielded > 0 /\ source_finished
          \/ outgoing = <<Completed(yielded)>> /\ Len(sent) = yielded + 1 /\ source_finished

Room == yielded <= Len(sent) /\ Len(sent) - received <= Buffer

\* The one stream that counted a cancellation holds the error or has sent it.
Counting ==
    \/ cancelled_streams = 0
    \/ /\ cancelled_streams = 1
       /\ producer = "done" \/ outgoing = <<Cancelled>>
       /\ \A i \in 1..Len(sent) : sent[i].kind # "completed"

Inv == TypeOK /\ Ordered /\ InHand /\ Room /\ Counting

LEMMA Singleton ==
    ASSUME NEW e
    PROVE  /\ <<e>> # <<>> /\ Head(<<e>>) = e /\ Tail(<<e>>) = <<>>
           /\ \A f : /\ <<e, f>> # <<>> /\ Head(<<e, f>>) = e /\ Tail(<<e, f>>) = <<f>>
                     /\ <<e, f>> # <<e>>
OBVIOUS

\* The initial state satisfies the invariant.
LEMMA InitInv == Init => Inv
<1> SUFFICES ASSUME Init PROVE Inv
  OBVIOUS
<1>1. Started \in Event
  BY DEF Started, Event
<1>2. /\ <<Started>> \in Seq(Event)
      /\ <<>> \in Seq(Event)
      /\ Len(<<>>) = 0
  BY <1>1
<1>3. TypeOK
  <2>1. outgoing \in Seq(Event) /\ sent \in Seq(Event)
    BY <1>2, Zenon DEF Init
  <2>2. received \in 0..Len(sent)
    BY <1>2 DEF Init
  <2> QED
    BY <2>1, <2>2 DEF Init, TypeOK
<1>4. Ordered
  BY <1>2 DEF Init, Ordered
<1>5. InHand
  BY <1>2 DEF Init, InHand
<1>6. Room
  BY <1>2, BufferAssumption DEF Init, Room
<1>7. Counting
  BY <1>2 DEF Init, Counting
<1> QED
  BY <1>3, <1>4, <1>5, <1>6, <1>7 DEF Inv

-------------------------------------------------------------------------------
LEMMA Appended ==
    ASSUME NEW S, NEW s \in Seq(S), NEW e \in S
    PROVE  /\ Append(s, e) \in Seq(S)
           /\ Len(Append(s, e)) = Len(s) + 1
           /\ \A i \in 1..Len(s) : Append(s, e)[i] = s[i]
           /\ Append(s, e)[Len(s) + 1] = e
OBVIOUS

LEMMA Events ==
    /\ {Started, Cancelled, Failed} \subseteq Event
    /\ \A n \in Nat : Output(n) \in Event /\ Completed(n) \in Event
    /\ \A n : ~Terminal(Output(n)) /\ Terminal(Completed(n))
    /\ \A n : Output(n).kind # "completed"
    /\ ~Terminal(Started) /\ Terminal(Cancelled) /\ Terminal(Failed)
    /\ Started.kind # "completed" /\ Cancelled.kind # "completed"
BY DEF Event, Started, Cancelled, Failed, Output, Completed, Terminal

LEMMA Handful ==
    ASSUME NEW e \in Event, NEW f \in Event
    PROVE  <<>> \in Seq(Event) /\ <<e>> \in Seq(Event) /\ <<e, f>> \in Seq(Event)
OBVIOUS

\* What a step of the producer that fills its hand leaves alone.
LEMMA PollStep ==
    ASSUME Inv, Polling, Source \/ ObserveCancel
    PROVE  Inv'
<1>1. /\ Len(sent) = yielded + 1 /\ ~source_finished /\ producer = "running"
      /\ outgoing = <<>>
  BY Singleton DEF Inv, InHand, Polling
<1>2. /\ UNCHANGED <<producer, sent, received, dropped, cancelled>>
      /\ yielded \in Nat /\ (yielded' = yielded \/ yielded' = yielded + 1)
      /\ source_finished' \in BOOLEAN
  BY DEF Source, SourceYields, SourceFails, SourceEnds, ObserveCancel, Inv, TypeOK, sourceVars
<1>3. outgoing' \in Seq(Event)
  <2>1. CASE \E done \in BOOLEAN : SourceYields(Output(yielded + 1), done)
    <3>1. Output(yielded + 1) \in Event /\ Completed(yielded + 1) \in Event
      BY <1>2, Events
    <3>2. PICK done \in BOOLEAN : SourceYields(Output(yielded + 1), done)
      BY <2>1
    <3>3. \/ outgoing' = <<Output(yielded + 1), Completed(yielded + 1)>>
          \/ outgoing' = <<Output(yielded + 1)>>
      BY <3>2, Zenon DEF SourceYields
    <3> QED
      BY <3>1, <3>3, Handful, Zenon
  <2>2. CASE SourceFails(Failed) \/ SourceFails(Cancelled) \/ ObserveCancel
    BY <2>2, Events, Handful, Zenon DEF SourceFails, ObserveCancel
  <2>3. CASE SourceEnds
    BY <1>2, <2>3, Events, Handful, Zenon DEF SourceEnds
  <2> QED
    BY <2>1, <2>2, <2>3 DEF Source
<1>4. cancelled_streams' \in Nat
  BY DEF Source, SourceYields, SourceFails, SourceEnds, ObserveCancel, Inv, TypeOK
<1>5. TypeOK'
  BY <1>2, <1>3, <1>4 DEF Inv, TypeOK
<1>6. Ordered'
  <2>1. \A i \in 1..Len(sent) :
           \/ i = 1 /\ sent[i] = Started
           \/ i > 1 /\ i <= yielded + 1 /\ sent[i] = Output(i - 1)
    BY <1>1 DEF Inv, Ordered
  <2>2. \A i \in Int : i <= yielded + 1 => i <= yielded' + 1
    <3>1. yielded \in Nat /\ (yielded' = yielded \/ yielded' = yielded + 1)
      BY <1>2
    <3> QED
      BY <3>1
  <2> QED
    <3>1. \A i \in 1..Len(sent) : i \in Int
      OBVIOUS
    <3> QED
      BY <1>2, <2>1, <2>2, <3>1, Zenon DEF Ordered
<1>7. InHand'
  <2>1. CASE \E done \in BOOLEAN : SourceYields(Output(yielded + 1), done)
    <3>1. PICK done \in BOOLEAN : SourceYields(Output(yielded + 1), done)
      BY <2>1
    <3>2. yielded' = yielded + 1 /\ Len(sent') = yielded' /\ yielded' > 0
      BY <1>1, <1>2, <3>1 DEF SourceYields
    <3>3. \/ outgoing' = <<Output(yielded'), Completed(yielded')>> /\ source_finished'
          \/ outgoing' = <<Output(yielded')>> /\ ~source_finished'
      BY <3>1, <3>2, Zenon DEF SourceYields
    <3> QED
      BY <1>1, <1>2, <3>2, <3>3, Zenon DEF InHand
  <2>2. CASE SourceFails(Failed) \/ SourceFails(Cancelled) \/ ObserveCancel
    BY <1>1, <1>2, <2>2, Zenon DEF SourceFails, ObserveCancel, InHand, sourceVars
  <2>3. CASE SourceEnds
    BY <1>1, <1>2, <2>3, Zenon DEF SourceEnds, InHand
  <2> QED
    BY <2>1, <2>2, <2>3 DEF Source
<1>8. Room'
  BY <1>1, <1>2 DEF Inv, Room, TypeOK
<1>9. Counting'
  <2>1. \A i \in 1..Len(sent) : sent[i].kind # "completed"
    BY <1>1, Events DEF Inv, Ordered, TypeOK
  <2>2. cancelled_streams = 0
    BY <1>1, Singleton DEF Inv, Counting
  <2>3. CASE ObserveCancel
    <3>1. cancelled_streams' = 1
      BY <2>2, <2>3 DEF ObserveCancel
    <3> QED
      BY <1>2, <2>1, <2>3, <3>1, Zenon DEF ObserveCancel, Counting
  <2>4. CASE Source
    BY <2>2, <2>4 DEF Source, SourceYields, SourceFails, SourceEnds, Counting
  <2> QED
    BY <2>3, <2>4
<1> QED
  BY <1>5, <1>6, <1>7, <1>8, <1>9 DEF Inv

\* What the producer may be about to send, and where it goes in the channel.
LEMMA NextInHand ==
    ASSUME Inv, outgoing # <<>>
    PROVE  /\ producer = "running" /\ Head(outgoing) \in Event
           /\ \/ /\ outgoing = <<Started>> /\ Head(outgoing) = Started /\ Tail(outgoing) = <<>>
                 /\ Len(sent) = 0 /\ yielded = 0 /\ ~source_finished
              \/ /\ Head(outgoing) = Output(yielded) /\ Len(sent) = yielded /\ yielded > 0
                 /\ \/ Tail(outgoing) = <<>> /\ ~source_finished
                    \/ Tail(outgoing) = <<Completed(yielded)>> /\ source_finished
              \/ /\ Head(outgoing) \in {Cancelled, Failed} /\ Tail(outgoing) = <<>>
                 /\ Len(sent) = yielded + 1 /\ ~source_finished
              \/ /\ Head(outgoing) = Completed(yielded) /\ Tail(outgoing) = <<>>
                 /\ Len(sent) = yielded + 1 /\ source_finished
<1>1. yielded \in Nat /\ Len(sent) \in Nat
  BY DEF Inv, TypeOK
<1>2. Output(yielded) \in Event /\ Completed(yielded) \in Event
  BY <1>1, Events
<1>3. \/ outgoing \in {<<Cancelled>>, <<Failed>>} /\ Len(sent) = yielded + 1 /\ ~source_finished
      \/ outgoing = <<Started>> /\ Len(sent) = 0 /\ yielded = 0 /\ ~source_finished
      \/ outgoing = <<Output(yielded)>> /\ Len(sent) = yielded /\ yielded > 0 /\ ~source_finished
      \/ /\ outgoing = <<Output(yielded), Completed(yielded)>>
         /\ Len(sent) = yielded /\ yielded > 0 /\ source_finished
      \/ outgoing = <<Completed(yielded)>> /\ Len(sent) = yielded + 1 /\ source_finished
  BY Zenon DEF Inv, InHand
<1>4. producer = "running"
  BY Zenon DEF Inv, InHand
<1>5. CASE outgoing \in {<<Cancelled>>, <<Failed>>} /\ Len(sent) = yielded + 1 /\ ~source_finished
  <2>1. Head(outgoing) \in {Cancelled, Failed} /\ Tail(outgoing) = <<>>
    BY <1>5, Singleton, Zenon
  <2> QED
    BY <1>4, <1>5, <2>1, Events, Zenon
<1>6. CASE outgoing = <<Started>> /\ Len(sent) = 0 /\ yielded = 0 /\ ~source_finished
  BY <1>4, <1>6, Singleton, Events, Zenon
<1>7. CASE outgoing = <<Output(yielded)>> /\ Len(sent) = yielded /\ yielded > 0 /\ ~source_finished
  BY <1>2, <1>4, <1>7, Singleton, Zenon
<1>8. CASE /\ outgoing = <<Output(yielded), Completed(yielded)>>
           /\ Len(sent) = yielded /\ yielded > 0 /\ source_finished
  BY <1>2, <1>4, <1>8, Singleton, Zenon
<1>9. CASE outgoing = <<Completed(yielded)>> /\ Len(sent) = yielded + 1 /\ source_finished
  BY <1>2, <1>4, <1>9, Singleton, Zenon
<1> QED
  BY <1>3, <1>5, <1>6, <1>7, <1>8, <1>9, Zenon

LEMMA SendStep ==
    ASSUME Inv, Send
    PROVE  Inv'
<1> DEFINE e == Head(outgoing)
<1>1. outgoing # <<>> /\ sent \in Seq(Event) /\ e \in Event
  BY NextInHand DEF Send, Inv, TypeOK
<1>2. /\ sent' \in Seq(Event) /\ Len(sent') = Len(sent) + 1
      /\ \A i \in 1..Len(sent) : sent'[i] = sent[i]
      /\ sent'[Len(sent')] = e
  <2>1. sent' = Append(sent, e)
    BY DEF Send
  <2>2. /\ Append(sent, e) \in Seq(Event) /\ Len(Append(sent, e)) = Len(sent) + 1
        /\ \A i \in 1..Len(sent) : Append(sent, e)[i] = sent[i]
        /\ Append(sent, e)[Len(sent) + 1] = e
    BY <1>1, Appended
  <2> QED
    BY <2>1, <2>2, Zenon
<1>3. /\ UNCHANGED <<yielded, source_finished, received, dropped, cancelled, cancelled_streams>>
      /\ outgoing' = Tail(outgoing)
      /\ producer' = IF Terminal(e) THEN "done" ELSE producer
      /\ producer = "running"
      /\ Len(sent) - received < Buffer
  BY <1>1, NextInHand DEF Send, sourceVars, HasRoom
<1>4. /\ yielded \in Nat /\ Len(sent) \in Nat /\ received \in Nat
      /\ received <= Len(sent) /\ cancelled_streams \in Nat
  BY DEF Inv, TypeOK
<1>5. TypeOK'
  <2>1. outgoing' \in Seq(Event)
    <3>1. Completed(yielded) \in Event
      BY <1>4, Events
    <3>2. outgoing' = <<>> \/ outgoing' = <<Completed(yielded)>>
      BY <1>1, <1>3, NextInHand, Zenon
    <3> QED
      BY <3>1, <3>2, Handful, Zenon
  <2>2. received' \in 0..Len(sent')
    BY <1>2, <1>3, <1>4
  <2>3. producer' \in {"running", "done"}
    BY <1>3, Zenon
  <2> QED
    BY <1>2, <1>3, <2>1, <2>2, <2>3 DEF Inv, TypeOK
<1>6. \A i \in 1..Len(sent) :
         \/ i = 1 /\ sent[i] = Started
         \/ i > 1 /\ i <= yielded + 1 /\ sent[i] = Output(i - 1)
  BY <1>3 DEF Inv, Ordered
<1>7. \/ Len(sent') = 1 /\ e = Started
      \/ /\ Len(sent') > 1 /\ Len(sent') = yielded + 1
         /\ e = Output(Len(sent') - 1)
      \/ /\ Len(sent') = yielded + 2 /\ Len(sent') > 1 /\ producer' = "done"
         /\ e \in {Cancelled, Failed} \/ (source_finished /\ e = Completed(yielded))
  <2>1. \/ e = Started /\ Len(sent) = 0
        \/ e = Output(yielded) /\ Len(sent) = yielded /\ yielded > 0
        \/ /\ Len(sent) = yielded + 1
           /\ e \in {Cancelled, Failed} \/ (source_finished /\ e = Completed(yielded))
    BY <1>1, NextInHand, Zenon
  <2>2. CASE e = Started /\ Len(sent) = 0
    BY <1>2, <2>2
  <2>3. CASE e = Output(yielded) /\ Len(sent) = yielded /\ yielded > 0
    <3>1. Len(sent') = yielded + 1 /\ Len(sent') > 1 /\ Len(sent') - 1 = yielded
      BY <1>2, <1>4, <2>3
    <3> QED
      BY <2>3, <3>1, Zenon
  <2>4. CASE /\ Len(sent) = yielded + 1
             /\ e \in {Cancelled, Failed} \/ (source_finished /\ e = Completed(yielded))
    <3>1. Len(sent') = yielded + 2 /\ Len(sent') > 1
      BY <1>2, <1>4, <2>4
    <3>2. producer' = "done"
      BY <1>3, <2>4, Events, Zenon
    <3> QED
      BY <2>4, <3>1, <3>2, Zenon
  <2> QED
    BY <2>1, <2>2, <2>3, <2>4, Zenon
<1>8. Ordered'
  <2> SUFFICES ASSUME NEW i \in 1..Len(sent')
               PROVE  \/ i = 1 /\ sent'[i] = Started
                      \/ i > 1 /\ i <= yielded + 1 /\ sent'[i] = Output(i - 1)
                      \/ /\ i > 1 /\ i = Len(sent') /\ producer' = "done"
                         /\ \/ sent'[i] \in {Cancelled, Failed}
                            \/ /\ source_finished /\ i = yielded + 2
                               /\ sent'[i] = Completed(yielded)
    BY <1>3, Zenon DEF Ordered
  <2>1. CASE i \in 1..Len(sent)
    BY <1>2, <1>6, <2>1
  <2>2. CASE i = Len(sent')
    <3>1. CASE Len(sent') = 1 /\ e = Started
      BY <1>2, <2>2, <3>1, Zenon
    <3>2. CASE /\ Len(sent') > 1 /\ Len(sent') = yielded + 1
               /\ e = Output(Len(sent') - 1)
      <4>1. i <= yielded + 1
        BY <1>4, <2>2, <3>2
      <4> QED
        BY <1>2, <2>2, <3>2, <4>1, Zenon
    <3>3. CASE /\ Len(sent') = yielded + 2 /\ Len(sent') > 1 /\ producer' = "done"
               /\ e \in {Cancelled, Failed} \/ (source_finished /\ e = Completed(yielded))
      BY <1>2, <2>2, <3>3, Zenon
    <3> QED
      BY <1>7, <3>1, <3>2, <3>3, Zenon
  <2> QED
    BY <1>2, <1>4, <2>1, <2>2
<1>9. InHand'
  <2>1. CASE /\ outgoing = <<Started>> /\ e = Started /\ Tail(outgoing) = <<>>
             /\ Len(sent) = 0 /\ yielded = 0 /\ ~source_finished
    <3>1. Len(sent') = yielded' + 1 /\ producer' = "running" /\ ~source_finished'
      BY <1>2, <1>3, <2>1, Events
    <3> QED
      BY <1>3, <2>1, <3>1, Zenon DEF InHand
  <2>2. CASE e = Output(yielded) /\ Len(sent) = yielded /\ yielded > 0
             /\ (\/ Tail(outgoing) = <<>> /\ ~source_finished
                 \/ Tail(outgoing) = <<Completed(yielded)>> /\ source_finished)
    <3>1. Len(sent') = yielded' + 1
      BY <1>2, <1>3, <2>2
    <3>2. producer' = "running"
      BY <1>3, <2>2, Events, Zenon
    <3> QED
      BY <1>3, <2>2, <3>1, <3>2, Zenon DEF InHand
  <2>3. CASE /\ Tail(outgoing) = <<>>
             /\ e \in {Cancelled, Failed} \/ e = Completed(yielded)
    <3>1. producer' = "done"
      BY <1>3, <2>3, Events, Zenon
    <3> QED
      BY <1>3, <2>3, <3>1, Zenon DEF InHand
  <2> QED
    BY <1>1, <2>1, <2>2, <2>3, NextInHand, Zenon
<1>10. Room'
  <2>1. yielded <= Len(sent)
    BY DEF Inv, Room
  <2> QED
    BY <1>2, <1>3, <1>4, <2>1, BufferAssumption DEF Room
<1>11. Counting'
  <2>1. CASE cancelled_streams = 0
    BY <1>3, <2>1 DEF Counting
  <2>2. CASE cancelled_streams # 0
    <3>1. /\ cancelled_streams = 1 /\ outgoing = <<Cancelled>>
          /\ \A i \in 1..Len(sent) : sent[i].kind # "completed"
      BY <1>3, <2>2, Zenon DEF Inv, Counting
    <3>2. e = Cancelled /\ producer' = "done" /\ e.kind # "completed"
      BY <1>3, <3>1, Singleton, Events, Zenon
    <3>3. \A i \in 1..Len(sent') : sent'[i].kind # "completed"
      <4> SUFFICES ASSUME NEW i \in 1..Len(sent') PROVE sent'[i].kind # "completed"
        OBVIOUS
      <4>1. i \in 1..Len(sent) \/ i = Len(sent')
        BY <1>2, <1>4
      <4> QED
        BY <1>2, <3>1, <3>2, <4>1, Zenon
    <3> QED
      BY <1>3, <3>1, <3>2, <3>3, Zenon DEF Counting
  <2> QED
    BY <2>1, <2>2
<1> QED
  BY <1>5, <1>8, <1>9, <1>10, <1>11 DEF Inv

LEMMA NextInv == Inv /\ [Next]_vars => Inv'
<1> SUFFICES ASSUME Inv, [Next]_vars PROVE Inv'
  OBVIOUS
<1>1. CASE Source \/ ObserveCancel
  <2>1. Polling
    BY <1>1 DEF Source, SourceYields, SourceFails, SourceEnds, ObserveCancel
  <2> QED
    BY <1>1, <2>1, PollStep
<1>2. CASE Send
  BY <1>2, SendStep
<1>3. CASE SendFails \/ SourcePanics
  <2>1. producer' = "done" /\ outgoing' = <<>>
    BY <1>3 DEF SendFails, SourcePanics, Polling
  <2>2. UNCHANGED <<yielded, source_finished, sent, received, dropped, cancelled, cancelled_streams>>
    BY <1>3 DEF SendFails, SourcePanics, sourceVars
  <2>3. <<>> \in Seq(Event)
    OBVIOUS
  <2>4. TypeOK'
    BY <2>1, <2>2, <2>3, Zenon DEF Inv, TypeOK
  <2>5. Ordered'
    BY <2>1, <2>2, Zenon DEF Inv, Ordered
  <2>6. InHand' /\ Room' /\ Counting'
    BY <2>1, <2>2, Zenon DEF Inv, InHand, Room, Counting
  <2> QED
    BY <2>4, <2>5, <2>6 DEF Inv
<1>4. CASE Receive \/ DropStream \/ Cancel \/ Finished \/ UNCHANGED vars
  <2>1. UNCHANGED <<yielded, source_finished, outgoing, producer, sent, cancelled_streams>>
    BY <1>4 DEF Receive, DropStream, Cancel, Finished, vars, sourceVars
  <2>2. /\ dropped' \in BOOLEAN /\ cancelled' \in BOOLEAN
        /\ received' \in 0..Len(sent) /\ received' >= received
    <3>1. /\ dropped \in BOOLEAN /\ cancelled \in BOOLEAN /\ received \in Nat
          /\ Len(sent) \in Nat /\ received <= Len(sent)
      BY DEF Inv, TypeOK
    <3>2. \/ received' = received
          \/ received' = received + 1 /\ received < Len(sent)
      BY <1>4 DEF Receive, DropStream, Cancel, Finished, vars
    <3>3. dropped' \in {dropped, TRUE} /\ cancelled' \in {cancelled, TRUE}
      BY <1>4 DEF Receive, DropStream, Cancel, Finished, vars
    <3>4. dropped' \in BOOLEAN /\ cancelled' \in BOOLEAN
      BY <3>1, <3>3
    <3>5. received' \in 0..Len(sent) /\ received' >= received
      BY <3>1, <3>2
    <3> QED
      BY <3>4, <3>5
  <2>3. TypeOK'
    BY <2>1, <2>2, Zenon DEF Inv, TypeOK
  <2>4. Ordered' /\ InHand' /\ Counting'
    BY <2>1, Zenon DEF Inv, Ordered, InHand, Counting
  <2>5. Room'
    <3>1. /\ yielded <= Len(sent) /\ Len(sent) - received <= Buffer
          /\ received \in Nat /\ Len(sent) \in Nat
      BY DEF Inv, Room, TypeOK
    <3>2. Len(sent') = Len(sent) /\ yielded' = yielded
      BY <2>1
    <3> QED
      BY <2>2, <3>1, <3>2, BufferAssumption DEF Room
  <2> QED
    BY <2>3, <2>4, <2>5 DEF Inv
<1> QED
  BY <1>1, <1>2, <1>3, <1>4 DEF Next, Transmit

\* The inductive invariant holds in every reachable state.
THEOREM StreamInvariant == Spec => []Inv
<1> QED
  BY InitInv, NextInv, PTL DEF Spec

\* The variables keep their types, and the consumer is never past the end of
\* what the producer sent.
THEOREM StreamTypeOK == Spec => []TypeOK
<1>1. Inv => TypeOK
  BY DEF Inv
<1> QED
  BY <1>1, StreamInvariant, PTL

\* However slow the consumer is, the source is never more than the buffer and
\* the chunk in the producer's hand ahead of it.
THEOREM SlowConsumersHoldTheSource == Spec => []Backpressure
<1>1. Inv => Backpressure
  <2> SUFFICES ASSUME Inv PROVE Backpressure
    OBVIOUS
  <2>1. /\ yielded <= Len(sent) /\ Len(sent) - received <= Buffer
        /\ received \in Nat /\ Len(sent) \in Nat /\ yielded \in Nat
    BY DEF Inv, Room, TypeOK
  <2> QED
    BY <2>1, BufferAssumption DEF Backpressure
<1> QED
  BY <1>1, StreamInvariant, PTL

\* A stream is counted as cancelled once, and then it does not complete.
THEOREM CancelledStreamsAreCountedOnce == Spec => []CountedOnce
<1>1. Inv => CountedOnce
  BY DEF Inv, Counting, CountedOnce
<1> QED
  BY <1>1, StreamInvariant, PTL

-------------------------------------------------------------------------------
LEMMA Taking ==
    ASSUME NEW S, NEW s \in Seq(S), NEW n \in 0..Len(s)
    PROVE  /\ Len(SubSeq(s, 1, n)) = n
           /\ n > 0 => SubSeq(s, 1, n)[n] = s[n]
           /\ n < Len(s) => SubSeq(s, 1, n + 1) = Append(SubSeq(s, 1, n), s[n + 1])
           /\ \A e \in S : SubSeq(Append(s, e), 1, n) = SubSeq(s, 1, n)
OBVIOUS

\* The abstract specification names the same events.
LEMMA SameEvents ==
    /\ Contract!Started = Started /\ Contract!Cancelled = Cancelled
    /\ Contract!Failed = Failed
    /\ \A n : Contract!Output(n) = Output(n) /\ Contract!Completed(n) = Completed(n)
    /\ \A e : Contract!Terminal(e) <=> Terminal(e)
BY DEF Contract!Started, Started, Contract!Cancelled, Cancelled, Contract!Failed, Failed,
       Contract!Output, Output, Contract!Completed, Completed, Contract!Terminal, Terminal

\* Only Receive changes what the consumer has, and it takes the next event.
LEMMA ReceiveDelivers ==
    ASSUME Inv, Receive
    PROVE  Contract!Next
<1> DEFINE n == received
           taken == SubSeq(sent, 1, n)
<1>1. /\ sent \in Seq(Event) /\ n \in 0..Len(sent) /\ n < Len(sent)
      /\ n \in Nat /\ Len(sent) \in Nat /\ yielded \in Nat
  BY DEF Inv, TypeOK, Receive
<1>2. /\ Len(taken) = n
      /\ n > 0 => taken[n] = sent[n]
      /\ SubSeq(sent, 1, n + 1) = Append(taken, sent[n + 1])
  BY <1>1, Taking
<1>3. UNCHANGED <<yielded, source_finished, sent>> /\ received' = n + 1
  BY DEF Receive, sourceVars
<1>4. SubSeq(sent, 1, received)' = Append(taken, sent[n + 1])
  BY <1>2, <1>3, Zenon
<1>5. Contract!Deliver(sent[n + 1])
  BY <1>3, <1>4, Zenon DEF Contract!Deliver
<1>6. n + 1 \in 1..Len(sent)
  BY <1>1
<1>7. CASE n = 0
  <2>1. taken = <<>>
    BY <1>2, <1>7, SubSeqEmpty
  <2>2. sent[n + 1] = Started
    BY <1>1, <1>7 DEF Inv, Ordered
  <2> QED
    BY <1>5, <2>1, <2>2, SameEvents, Zenon DEF Contract!Begin, Contract!Next
<1>8. CASE n > 0
  <2>1. n \in 1..Len(sent) /\ n # Len(sent)
    BY <1>1, <1>8
  <2>2. (n = 1 /\ sent[n] = Started) \/ sent[n] = Output(n - 1)
    BY <2>1, Zenon DEF Inv, Ordered
  <2>3. ~Terminal(sent[n])
    BY <2>2, Events, Zenon
  <2>4. taken # <<>>
    <3>1. Len(<<>>) = 0 /\ n # 0
      BY <1>1, <1>8
    <3> QED
      BY <1>2, <3>1, Zenon
  <2>5. Contract!Open
    BY <1>2, <1>8, <2>3, <2>4, SameEvents, Zenon DEF Contract!Open
  <2>6. n + 1 # 1 /\ (n + 1) - 1 = n
    BY <1>1, <1>8
  <2>7. \/ n + 1 <= yielded + 1 /\ sent[n + 1] = Output(n)
        \/ sent[n + 1] \in {Cancelled, Failed}
        \/ source_finished /\ n + 1 = yielded + 2 /\ sent[n + 1] = Completed(yielded)
    BY <1>6, <2>6, Zenon DEF Inv, Ordered
  <2>8. CASE n + 1 <= yielded + 1 /\ sent[n + 1] = Output(n)
    <3>1. n <= yielded
      BY <1>1, <2>8
    <3> QED
      BY <1>2, <1>5, <2>5, <2>8, <3>1, SameEvents, Zenon DEF Contract!DeliverOutput, Contract!Next
  <2>9. CASE sent[n + 1] \in {Cancelled, Failed}
    BY <1>5, <2>5, <2>9, SameEvents, Zenon DEF Contract!Abort, Contract!Next
  <2>10. CASE source_finished /\ n + 1 = yielded + 2 /\ sent[n + 1] = Completed(yielded)
    <3>1. n = yielded + 1
      BY <1>1, <2>10
    <3> QED
      BY <1>2, <1>5, <2>5, <2>10, <3>1, SameEvents, Zenon DEF Contract!Complete, Contract!Next
  <2> QED
    BY <2>7, <2>8, <2>9, <2>10
<1> QED
  BY <1>1, <1>7, <1>8

\* The stream keeps its contract: every event that the consumer takes is one
\* the abstract stream allows, whatever the source does, whenever the request
\* is cancelled and wherever the producer is suspended.
THEOREM StreamKeepsContract == Spec => KeepsContract
<1>1. Init => Contract!Init
  <2> SUFFICES ASSUME Init PROVE Contract!Init
    OBVIOUS
  <2>1. SubSeq(sent, 1, received) = <<>>
    BY SubSeqEmpty DEF Init
  <2> QED
    BY <2>1 DEF Init, Contract!Init
<1>2. Inv /\ [Next]_vars => [Contract!Next]_Contract!vars
  <2> SUFFICES ASSUME Inv, [Next]_vars PROVE [Contract!Next]_Contract!vars
    OBVIOUS
  <2> DEFINE taken == SubSeq(sent, 1, received)
  <2>1. CASE Source \/ ObserveCancel
    <3>1. UNCHANGED taken
      BY <2>1 DEF Source, SourceYields, SourceFails, SourceEnds, ObserveCancel
    <3>2. ~source_finished \/ UNCHANGED <<yielded, source_finished>>
      BY <2>1, Singleton DEF Source, SourceYields, SourceFails, SourceEnds, ObserveCancel,
         Polling, Inv, InHand
    <3>3. \/ UNCHANGED <<yielded, source_finished>>
          \/ yielded' = yielded + 1 /\ source_finished' \in BOOLEAN
          \/ yielded' = yielded /\ source_finished' = TRUE
      BY <2>1 DEF Source, SourceYields, SourceFails, SourceEnds, ObserveCancel, sourceVars
    <3> QED
      BY <3>1, <3>2, <3>3, Zenon DEF Contract!Next, Contract!Produce, Contract!Finish, Contract!vars
  <2>2. CASE Send
    <3>1. UNCHANGED <<yielded, source_finished, received>>
      BY <2>2 DEF Send, sourceVars
    <3>2. sent' = Append(sent, Head(outgoing)) /\ Head(outgoing) \in Event
      BY <2>2, NextInHand DEF Send
    <3>3. SubSeq(Append(sent, Head(outgoing)), 1, received) = taken
      BY <3>2, Taking DEF Inv, TypeOK
    <3> QED
      BY <3>1, <3>2, <3>3, Zenon DEF Contract!vars
  <2>3. CASE Receive
    BY <2>3, ReceiveDelivers
  <2>4. CASE SendFails \/ SourcePanics \/ DropStream \/ Cancel \/ Finished \/ UNCHANGED vars
    BY <2>4 DEF SendFails, SourcePanics, DropStream, Cancel, Finished, vars, sourceVars, Contract!vars
  <2> QED
    BY <2>1, <2>2, <2>3, <2>4 DEF Next, Transmit
<1> QED
  BY <1>1, <1>2, StreamInvariant, PTL DEF Spec, KeepsContract, Contract!Spec

===============================================================================
