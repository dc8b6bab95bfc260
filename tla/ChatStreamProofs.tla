--------------------------- MODULE ChatStreamProofs ---------------------------
(***************************************************************************)
(* What ChatStream promises to its consumer, for any buffer, any number of *)
(* deltas and tool calls: whole proposals, and the contract of a stream;   *)
(* and what ToolConversation promises to its caller, for any history,      *)
(* options, fragments and limits: proposals that are what was sent and     *)
(* offered, and replies that can be replayed.                              *)
(***************************************************************************)
EXTENDS ChatStream, ChatCompletions, SequenceTheorems, WellFoundedInduction, TLAPS

Kind == ErrorKind \cup {"started", "delta", "tool_delta", "tool_call", "completed"}

Item == [kind : Kind, number : Nat]

Told == [kind : {"started", "output", "completed", "cancelled", "failed"}, number : Nat]

IsError(event) == event.kind \in ErrorKind

TypeOK ==
    /\ pump \in {"running", "failed", "tried", "full", "done"}
    /\ outgoing \in Seq(Item) /\ sent \in Seq(Item) /\ outbox \in Seq(Item) /\ seen \in Seq(Item)
    /\ deltas \in Nat /\ calls \in Nat /\ taken \in Nat /\ held \in Nat
    /\ assembled \in BOOLEAN /\ cancelled \in BOOLEAN /\ finish \in BOOLEAN
    /\ failure \in ErrorKind \cup {"none"}
    /\ pump \in {"failed", "tried", "full"} => failure \in ErrorKind
    /\ taken <= Len(sent)
    /\ stream \in {"open", "finished", "closed"}
    /\ reply \in Seq(Told)

\* Started comes first and nothing comes after an error but another one; a call
\* or the end of the response, only when it is whole.
Ordered ==
    /\ sent = <<>> /\ pump = "running" =>
          outgoing = <<Event("started", 0)>> /\ deltas = 0 /\ ~assembled
    /\ sent = <<>> => ~assembled /\ deltas = 0
    /\ sent = <<>> /\ pump # "running" => outgoing = <<>>
    /\ sent # <<>> => \A j \in 1..Len(outgoing) : outgoing[j].kind # "started"
    /\ \A j \in 1..Len(outgoing) : ~IsError(outgoing[j])
    /\ \A i \in 1..Len(sent) :
          /\ i = 1 => sent[i] = Event("started", 0) \/ IsError(sent[i])
          /\ i > 1 => sent[i].kind # "started"
          /\ IsError(sent[i]) => /\ sent[i].number = 0
                                 /\ pump \in {"tried", "full", "done"}
                                 /\ \A j \in i..Len(sent) : IsError(sent[j])
    /\ ~assembled => /\ Len(outgoing) <= 1
                     /\ \A i \in 1..Len(sent) : sent[i].kind \notin {"tool_call", "completed"}
                     /\ \A j \in 1..Len(outgoing) :
                           outgoing[j].kind \notin {"tool_call", "completed"}

\* The deltas are numbered as they come, and every one is in the channel but the
\* last, which may wait or be lost when reading is over.
Numbered ==
    /\ \A i \in 1..Len(sent) : sent[i].kind = "delta" =>
          /\ sent[i].number \in 1..deltas
          /\ \A j \in 1..i - 1 : sent[j].kind = "delta" => sent[j].number < sent[i].number
    /\ \A j \in 1..Len(outgoing) : outgoing[j].kind = "delta" =>
          /\ outgoing[j].number = deltas /\ deltas > 0
          /\ \A i \in 1..Len(sent) : sent[i].kind = "delta" => sent[i].number < deltas
    /\ \A n \in 1..deltas :
          \/ \E i \in 1..Len(sent) : sent[i] = Event("delta", n)
          \/ /\ n = deltas /\ ~assembled
             /\ pump = "running" => outgoing = <<Event("delta", n)>>

\* The k-th event of a whole response.
ClosingEvent(k) == IF k <= calls THEN Event("tool_call", k) ELSE Event("completed", deltas)

\* A whole response: after b events of it, the channel has its proposals and
\* Completed, or the first of them and errors.
ClosedAfter(b) ==
    /\ b \in 1..Len(sent)
    /\ \A i \in 1..b : sent[i].kind \notin {"tool_call", "completed"} \cup ErrorKind
    /\ \A i \in b + 1 .. Len(sent) :
          \/ i - b <= calls + 1 /\ sent[i] = ClosingEvent(i - b)
          \/ IsError(sent[i])
    /\ pump = "running" =>
          /\ outgoing # <<>>
          /\ (Len(sent) - b) + Len(outgoing) = calls + 1
          /\ \A j \in 1..Len(outgoing) : outgoing[j] = ClosingEvent((Len(sent) - b) + j)

\* The proposals held back are those taken so far.
HeldAfter(b) == stream = "open" => held = IF taken <= b THEN 0 ELSE taken - b

NoCalls(events) == \A i \in 1..Len(events) : events[i].kind # "tool_call"

\* All proposals of the response, right before its end.
Whole(events) ==
    /\ Len(events) > calls
    /\ \A i \in 1..Len(events) - (calls + 1) : events[i].kind # "tool_call"
    /\ \A k \in 1..calls : events[Len(events) - (calls + 1) + k] = Event("tool_call", k)
    /\ events[Len(events)].kind = "completed"

\* The consumer has been told no end yet.
Unended == reply # <<>> /\ ~Contract!Terminal(reply[Len(reply)])

\* What the consumer got, and is about to get, of what was in the channel.
Passed ==
    /\ stream = "open" =>
          /\ outbox = <<>> /\ NoCalls(seen)
          /\ \A i \in 1..taken : sent[i].kind \notin {"completed"} \cup ErrorKind
          /\ ~assembled => held = 0
          /\ taken = 0 => reply = <<>>
          /\ taken > 0 => Unended
          /\ \A i \in 1..Len(sent) : sent[i].kind = "delta" =>
                (i <= taken <=> sent[i].number < Len(reply))
          /\ Len(reply) > 1 => \E i \in 1..taken : sent[i] = Event("delta", Len(reply) - 1)
    /\ stream = "finished" =>
          \/ outbox = <<>> /\ NoCalls(seen)
          \/ assembled /\ Whole(seen \o outbox)
    /\ outbox # <<>> =>
          /\ stream = "finished" /\ assembled
          /\ Unended /\ Len(reply) = deltas + 1
          /\ \A j \in 1..Len(outbox) - 1 : outbox[j].kind = "tool_call"
          /\ outbox[Len(outbox)] = Event("completed", deltas)
    /\ NoCalls(seen) \/ assembled

Inv ==
    /\ TypeOK /\ Ordered /\ Numbered /\ Passed
    /\ assembled => \E b \in Nat : ClosedAfter(b) /\ HeldAfter(b)

-------------------------------------------------------------------------------
LEMMA Appended ==
    ASSUME NEW S, NEW s \in Seq(S), NEW e \in S
    PROVE  /\ Append(s, e) \in Seq(S)
           /\ Len(Append(s, e)) = Len(s) + 1 /\ Len(s) \in Nat
           /\ Append(s, e)[Len(s) + 1] = e
           /\ \A i \in 1..Len(s) : Append(s, e)[i] = s[i]
OBVIOUS

LEMMA Shifted ==
    ASSUME NEW S, NEW s \in Seq(S), s # <<>>
    PROVE  /\ Head(s) = s[1] /\ s[1] \in S /\ Len(s) \in Nat \ {0}
           /\ Tail(s) \in Seq(S) /\ Len(Tail(s)) = Len(s) - 1
           /\ \A i \in 1..Len(s) - 1 : Tail(s)[i] = s[i + 1]
OBVIOUS

LEMMA Joined ==
    ASSUME NEW S, NEW s \in Seq(S), NEW t \in Seq(S)
    PROVE  /\ Len(s \o t) = Len(s) + Len(t) /\ Len(s) \in Nat
           /\ \A i \in 1..Len(s) : (s \o t)[i] = s[i]
           /\ \A k \in 1..Len(t) : (s \o t)[Len(s) + k] = t[k]
OBVIOUS

LEMMA Moved ==
    ASSUME NEW S, NEW s \in Seq(S), NEW t \in Seq(S), t # <<>>
    PROVE  Append(s, Head(t)) \o Tail(t) = s \o t
OBVIOUS

LEMMA Singleton ==
    ASSUME NEW S, NEW e \in S
    PROVE  <<e>> \in Seq(S) /\ Len(<<e>>) = 1 /\ <<e>>[1] = e /\ <<e>> # <<>>
OBVIOUS

LEMMA Events ==
    ASSUME NEW kind \in Kind, NEW number \in Nat
    PROVE  /\ Event(kind, number) \in Item
           /\ Event(kind, number).kind = kind /\ Event(kind, number).number = number
BY DEF Event, Item

LEMMA ItemIsEvent ==
    ASSUME NEW e \in Item PROVE e = Event(e.kind, e.number) /\ e.kind \in Kind /\ e.number \in Nat
BY DEF Event, Item

\* What an event is to the contract.
LEMMA Tells ==
    ASSUME NEW e \in Item, IsReply(e)
    PROVE  /\ AsContract(e) \in Told
           /\ Contract!Terminal(AsContract(e)) <=> IsError(e) \/ e.kind = "completed"
           /\ e.kind = "started" => AsContract(e).kind = "started"
           /\ e.kind = "delta" => AsContract(e).kind = "output"
BY DEF Item, Kind, ErrorKind, IsReply, AsContract, Told, Contract!Terminal, IsError

\* The consumer gets an event.
LEMMA Yields ==
    ASSUME TypeOK, NEW e \in Item, Yield(e)
    PROVE  /\ seen' = Append(seen, e) /\ seen' \in Seq(Item) /\ reply' \in Seq(Told)
           /\ ~IsReply(e) => reply' = reply
           /\ IsReply(e) => /\ reply' = Append(reply, AsContract(e))
                            /\ reply' # <<>> /\ Len(reply') = Len(reply) + 1
                            /\ reply'[Len(reply')] = AsContract(e)
<1>1. seen' = Append(seen, e) /\ seen' \in Seq(Item)
  BY Appended DEF Yield, TypeOK
<1>2. CASE ~IsReply(e)
  BY <1>1, <1>2 DEF Yield, TypeOK
<1>3. CASE IsReply(e)
  <2>1. reply' = Append(reply, AsContract(e)) /\ AsContract(e) \in Told /\ reply \in Seq(Told)
    BY <1>3, Tells DEF Yield, TypeOK
  <2>2. QED BY <1>1, <1>3, <2>1, Appended
<1>4. QED BY <1>2, <1>3

LEMMA NoCallsAppended ==
    ASSUME NEW s \in Seq(Item), NEW e \in Item, NoCalls(s), e.kind # "tool_call"
    PROVE  NoCalls(Append(s, e))
BY Appended DEF NoCalls

-------------------------------------------------------------------------------
\* What the reading task does not touch.
ConsumerIdle == UNCHANGED <<taken, held, outbox, stream, seen, reply>>

\* What the consumer does not touch.
ReaderIdle == UNCHANGED <<pump, outgoing, deltas, calls, finish, assembled, failure, sent>>

\* At its select the task has given everything it read to the channel.
LEMMA PollingFacts ==
    ASSUME Inv, Polls
    PROVE  /\ pump = "running" /\ outgoing = <<>> /\ sent # <<>> /\ ~assembled
           /\ \A n \in 1..deltas : \E i \in 1..Len(sent) : sent[i] = Event("delta", n)
           /\ stream # "closed"
<1>1. pump = "running" /\ outgoing = <<>> /\ stream # "closed"
  BY DEF Polls, Reading, Closed
<1>2. ~assembled
  BY <1>1 DEF Inv, ClosedAfter
<1>3. sent # <<>>
  BY <1>1, Singleton DEF Inv, Ordered
<1>4. \A n \in 1..deltas : outgoing # <<Event("delta", n)>>
  BY <1>1
<1>5. QED BY <1>1, <1>2, <1>3, <1>4 DEF Inv, Numbered

\* The task gives up, or is done.
LEMMA StopInv ==
    ASSUME Inv, UNCHANGED <<deltas, calls, finish, assembled, sent>>, ConsumerIdle,
           cancelled' \in BOOLEAN, failure' \in ErrorKind \cup {"none"},
           pump' \in {"failed", "tried", "full", "done"},
           pump' \in {"failed", "tried", "full"} => failure' \in ErrorKind,
           pump' = "failed" => pump = "running",
           outgoing' \in {outgoing, <<>>}, pump = "running" => outgoing' = <<>>
    PROVE  Inv'
<1>0. outgoing' \in Seq(Item)
  <2>1. <<>> \in Seq(Item)
    OBVIOUS
  <2>2. outgoing \in Seq(Item)
    BY DEF Inv, TypeOK
  <2>3. QED BY <2>1, <2>2
<1>1. TypeOK'
  BY <1>0 DEF Inv, TypeOK, ConsumerIdle
<1>2. Len(outgoing') = 0 \/ outgoing' = outgoing
  OBVIOUS
<1>3. Ordered'
  BY <1>2 DEF Inv, TypeOK, Ordered
<1>4. Numbered'
  BY <1>2 DEF Inv, TypeOK, Numbered
<1>5. Passed'
  BY DEF Inv, Passed, ConsumerIdle, NoCalls, Whole, Unended, Contract!Terminal
<1>6. ASSUME NEW b \in Nat, ClosedAfter(b), HeldAfter(b) PROVE ClosedAfter(b)' /\ HeldAfter(b)'
  BY <1>6 DEF ClosedAfter, HeldAfter, ClosingEvent, ConsumerIdle
<1>7. QED BY <1>1, <1>3, <1>4, <1>5, <1>6 DEF Inv

-------------------------------------------------------------------------------
\* The task puts an event, of whatever kind, into the channel of a stream that
\* is not closed.
LEMMA PutPassed ==
    ASSUME TypeOK, Ordered, Numbered, Passed, NEW e \in Item, sent' = Append(sent, e),
           UNCHANGED <<deltas, calls, assembled>>, ConsumerIdle,
           e.kind = "delta" => /\ e.number = deltas /\ deltas > 0
                               /\ \A i \in 1..Len(sent) :
                                     sent[i].kind = "delta" => sent[i].number < deltas
    PROVE  Passed'
<1>1. /\ Len(sent') = Len(sent) + 1 /\ Len(sent) \in Nat /\ sent'[Len(sent) + 1] = e
      /\ \A i \in 1..Len(sent) : sent'[i] = sent[i]
  BY Appended DEF TypeOK
<1>2. /\ deltas \in Nat /\ taken \in Nat /\ taken <= Len(sent) /\ Len(reply) \in Nat
  BY DEF TypeOK
<1>3. ASSUME stream = "open"
      PROVE  /\ \A i \in 1..taken : sent'[i].kind \notin {"completed"} \cup ErrorKind
             /\ \A i \in 1..Len(sent') : sent'[i].kind = "delta" =>
                   (i <= taken <=> sent'[i].number < Len(reply))
             /\ Len(reply) > 1 => \E i \in 1..taken : sent'[i] = Event("delta", Len(reply) - 1)
  <2>1. \A i \in 1..taken : sent'[i] = sent[i] /\ i \in 1..Len(sent)
    BY <1>1, <1>2
  <2>2. Len(reply) > 1 => \E i \in 1..taken : sent'[i] = Event("delta", Len(reply) - 1)
    BY <1>3, <2>1 DEF Passed
  <2>3. \A i \in 1..taken : sent'[i].kind \notin {"completed"} \cup ErrorKind
    BY <1>3, <2>1 DEF Passed
  <2>4. ASSUME NEW i \in 1..Len(sent'), sent'[i].kind = "delta"
        PROVE  i <= taken <=> sent'[i].number < Len(reply)
    <3>1. CASE i \in 1..Len(sent)
      BY <1>1, <1>3, <2>4, <3>1 DEF Passed
    <3>2. CASE i = Len(sent) + 1
      <4>1. sent'[i].number = deltas /\ ~(i <= taken)
        BY <1>1, <1>2, <2>4, <3>2
      <4>2. ASSUME Len(reply) > 1 PROVE Len(reply) - 1 < deltas
        <5>1. PICK k \in 1..taken : sent[k] = Event("delta", Len(reply) - 1)
          BY <1>3, <4>2 DEF Passed
        <5>2. sent[k].kind = "delta" /\ sent[k].number = Len(reply) - 1
          BY <5>1 DEF Event
        <5>3. k \in 1..Len(sent) /\ e.kind = "delta"
          BY <1>1, <1>2, <2>4, <3>2
        <5>4. QED BY <5>2, <5>3
      <4>3. deltas > 0
        BY <1>1, <2>4, <3>2
      <4>4. QED BY <1>2, <4>1, <4>2, <4>3
    <3>3. QED BY <1>1, <3>1, <3>2
  <2>5. QED BY <2>2, <2>3, <2>4
<1>4. QED
  BY <1>3 DEF Passed, ConsumerIdle, NoCalls, Whole, Unended, Contract!Terminal

\* The error of a response that failed.
LEMMA ErrorInv ==
    ASSUME Inv, UNCHANGED <<outgoing, deltas, calls, finish, assembled, failure, cancelled>>,
           ConsumerIdle, sent' = Append(sent, Error(failure)),
           \/ pump = "failed" /\ pump' = "tried"
           \/ pump = "full" /\ pump' = "done"
    PROVE  Inv'
<1> DEFINE e == Error(failure)
<1>1. e \in Item /\ IsError(e) /\ e.number = 0
      /\ e.kind \notin {"delta", "started", "tool_call", "completed"}
  BY Events DEF Inv, TypeOK, Error, IsError, Kind, ErrorKind
<1> HIDE DEF e
<1>2. /\ sent' \in Seq(Item) /\ Len(sent') = Len(sent) + 1 /\ Len(sent) \in Nat
      /\ sent'[Len(sent) + 1] = e /\ \A i \in 1..Len(sent) : sent'[i] = sent[i]
  BY <1>1, Appended DEF Inv, TypeOK, e
<1>3. TypeOK'
  BY <1>2 DEF Inv, TypeOK, ConsumerIdle
<1>4. Ordered'
  <2>1. \A i \in 1..Len(sent') :
          /\ i = 1 => sent'[i] = Event("started", 0) \/ IsError(sent'[i])
          /\ i > 1 => sent'[i].kind # "started"
          /\ IsError(sent'[i]) => /\ sent'[i].number = 0
                                  /\ \A j \in i..Len(sent') : IsError(sent'[j])
    <3>1. ASSUME NEW i \in 1..Len(sent)
          PROVE  /\ i = 1 => sent[i] = Event("started", 0) \/ IsError(sent[i])
                 /\ i > 1 => sent[i].kind # "started"
                 /\ IsError(sent[i]) => /\ sent[i].number = 0
                                        /\ \A j \in i..Len(sent) : IsError(sent[j])
      BY DEF Inv, Ordered
    <3>2. ASSUME NEW i \in 1..Len(sent'), IsError(sent'[i]), NEW j \in i..Len(sent')
          PROVE  IsError(sent'[j])
      <4>1. CASE j = Len(sent) + 1
        BY <1>1, <1>2, <4>1
      <4>2. CASE j \in i..Len(sent)
        BY <1>2, <3>1, <3>2, <4>2
      <4>3. QED BY <1>2, <4>1, <4>2
    <3>3. QED BY <1>1, <1>2, <3>1, <3>2
  <2>2. sent' # <<>>
    BY <1>2
  <2>3. \A j \in 1..Len(outgoing) : outgoing[j].kind # "started"
    BY DEF Inv, Ordered
  <2>4. QED
    BY <1>1, <1>2, <2>1, <2>2, <2>3 DEF Inv, Ordered
<1>5. Numbered'
  <2>1. \A i \in 1..Len(sent') : sent'[i].kind = "delta" => i \in 1..Len(sent)
    BY <1>1, <1>2
  <2>2. \A i \in 1..Len(sent') : sent'[i].kind = "delta" =>
          /\ sent'[i].number \in 1..deltas
          /\ \A j \in 1..i - 1 : sent'[j].kind = "delta" => sent'[j].number < sent'[i].number
    BY <1>2, <2>1 DEF Inv, Numbered
  <2>3. \A j \in 1..Len(outgoing) : outgoing[j].kind = "delta" =>
          /\ outgoing[j].number = deltas /\ deltas > 0
          /\ \A i \in 1..Len(sent') : sent'[i].kind = "delta" => sent'[i].number < deltas
    BY <1>2, <2>1 DEF Inv, Numbered
  <2>4. \A n \in 1..deltas :
          \/ \E i \in 1..Len(sent') : sent'[i] = Event("delta", n)
          \/ n = deltas /\ ~assembled
    BY <1>2 DEF Inv, Numbered
  <2>5. QED BY <2>2, <2>3, <2>4 DEF Numbered
<1>6. Passed'
  BY <1>1, PutPassed DEF Inv, e
<1>7. ASSUME NEW b \in Nat, ClosedAfter(b), HeldAfter(b) PROVE ClosedAfter(b)' /\ HeldAfter(b)'
  BY <1>1, <1>2, <1>7 DEF ClosedAfter, HeldAfter, ClosingEvent, ConsumerIdle
<1>8. QED BY <1>3, <1>4, <1>5, <1>6, <1>7 DEF Inv

-------------------------------------------------------------------------------
LEMMA ReadDeltaInv == ASSUME Inv, ReadDelta PROVE Inv'
<1> DEFINE e == Event("delta", deltas + 1)
<1>1. /\ pump = "running" /\ sent # <<>> /\ ~assembled
      /\ \A n \in 1..deltas : \E i \in 1..Len(sent) : sent[i] = Event("delta", n)
  BY PollingFacts DEF ReadDelta
<1>2. /\ deltas' = deltas + 1 /\ outgoing' = <<e>>
      /\ UNCHANGED <<pump, calls, finish, assembled, failure, sent, cancelled>> /\ ConsumerIdle
  BY DEF ReadDelta, channelVars, streamVars, got, ConsumerIdle
<1>3. deltas \in Nat /\ e \in Item /\ e.kind = "delta" /\ e.number = deltas + 1
  BY DEF Inv, TypeOK, Kind, Event, Item
<1> HIDE DEF e
<1>4. outgoing' \in Seq(Item) /\ Len(outgoing') = 1 /\ outgoing'[1] = e
  BY <1>2, <1>3, Singleton
<1>5. TypeOK'
  BY <1>2, <1>3, <1>4 DEF Inv, TypeOK, ConsumerIdle
<1>6. Ordered'
  BY <1>1, <1>2, <1>3, <1>4 DEF Inv, Ordered, IsError, ErrorKind
<1>7. Numbered'
  <2>1. \A i \in 1..Len(sent) : sent[i].kind = "delta" =>
          /\ sent[i].number \in 1..deltas
          /\ \A j \in 1..i - 1 : sent[j].kind = "delta" => sent[j].number < sent[i].number
    BY DEF Inv, Numbered
  <2>2. \A i \in 1..Len(sent) : sent[i].kind = "delta" =>
          sent[i].number \in 1..deltas' /\ sent[i].number < deltas'
    BY <1>2, <1>3, <2>1
  <2>3. \A n \in 1..deltas' :
          \/ \E i \in 1..Len(sent) : sent[i] = Event("delta", n)
          \/ n = deltas' /\ outgoing' = <<Event("delta", n)>>
    BY <1>1, <1>2, <1>3 DEF e
  <2>4. deltas' > 0 /\ \A j \in 1..Len(outgoing') : outgoing'[j].number = deltas'
    BY <1>2, <1>3, <1>4
  <2>5. QED
    BY <1>1, <1>2, <2>1, <2>2, <2>3, <2>4 DEF Numbered
<1>8. Passed'
  BY <1>1, <1>2 DEF Inv, Passed, ConsumerIdle, NoCalls, Whole, Unended, Contract!Terminal
<1>9. QED BY <1>1, <1>2, <1>5, <1>6, <1>7, <1>8 DEF Inv

LEMMA ReadToolFragmentInv == ASSUME Inv, ReadToolFragment PROVE Inv'
<1> DEFINE e == Event("tool_delta", calls + 1)
<1>1. /\ pump = "running" /\ sent # <<>> /\ ~assembled
      /\ \A n \in 1..deltas : \E i \in 1..Len(sent) : sent[i] = Event("delta", n)
      /\ stream # "closed"
  BY PollingFacts DEF ReadToolFragment
<1>2. /\ calls' = calls + 1 /\ outgoing' = <<e>>
      /\ UNCHANGED <<pump, deltas, finish, assembled, failure, sent, cancelled>> /\ ConsumerIdle
  BY DEF ReadToolFragment, channelVars, streamVars, got, ConsumerIdle
<1>3. calls \in Nat /\ e \in Item /\ e.kind = "tool_delta"
  BY DEF Inv, TypeOK, Kind, Event, Item
<1> HIDE DEF e
<1>4. outgoing' \in Seq(Item) /\ Len(outgoing') = 1 /\ outgoing'[1] = e
  BY <1>2, <1>3, Singleton
<1>5. TypeOK'
  BY <1>2, <1>3, <1>4 DEF Inv, TypeOK, ConsumerIdle
<1>6. Ordered'
  BY <1>1, <1>2, <1>3, <1>4 DEF Inv, Ordered, IsError, ErrorKind
<1>7. Numbered'
  BY <1>1, <1>2, <1>3, <1>4 DEF Inv, Numbered
<1>8. Passed'
  BY <1>1, <1>2 DEF Inv, Passed, ConsumerIdle, NoCalls, Whole, Unended, Contract!Terminal
<1>9. QED BY <1>1, <1>2, <1>5, <1>6, <1>7, <1>8 DEF Inv

\* The response is whole: its proposals and its end are about to be sent.
LEMMA AssembledInv ==
    ASSUME Inv, Polls, assembled' = TRUE, outgoing' = Closing,
           UNCHANGED <<pump, deltas, calls, finish, failure, sent, cancelled>>, ConsumerIdle
    PROVE  Inv'
<1>1. /\ pump = "running" /\ outgoing = <<>> /\ sent # <<>> /\ ~assembled /\ stream # "closed"
      /\ \A n \in 1..deltas : \E i \in 1..Len(sent) : sent[i] = Event("delta", n)
  BY PollingFacts
<1>2. calls \in Nat /\ deltas \in Nat /\ Len(sent) \in Nat \ {0} /\ taken \in Nat
  BY <1>1 DEF Inv, TypeOK
<1>3. /\ Closing \in Seq(Item) /\ Len(Closing) = calls + 1
      /\ \A k \in 1..calls + 1 : Closing[k] = ClosingEvent(k)
  <2>1. \A k \in 1..calls + 1 : ClosingEvent(k) \in Item
    BY <1>2 DEF ClosingEvent, Kind, Event, Item
  <2>2. Closing = [k \in 1..calls + 1 |-> ClosingEvent(k)]
    BY DEF Closing, ClosingEvent
  <2>3. QED BY <1>2, <2>1, <2>2
<1>4. \A k \in 1..calls + 1 : ClosingEvent(k).kind \in {"tool_call", "completed"}
  BY DEF ClosingEvent, Event
<1>5. TypeOK'
  BY <1>3 DEF Inv, TypeOK, ConsumerIdle
<1>6. Ordered'
  BY <1>1, <1>3, <1>4 DEF Inv, Ordered, IsError, ErrorKind
<1>7. Numbered'
  BY <1>1, <1>3, <1>4 DEF Inv, Numbered
<1>8. Passed'
  BY <1>1 DEF Inv, Passed, ConsumerIdle, NoCalls, Whole, Unended, Contract!Terminal
<1> DEFINE b == Len(sent)
<1>9. \A i \in 1..b : sent[i].kind \notin {"tool_call", "completed"} \cup ErrorKind
  BY <1>1 DEF Inv, Ordered, IsError
<1>10. ClosedAfter(b)'
  <2>1. outgoing' # <<>>
    BY <1>2, <1>3
  <2>2. \A k \in 1..calls + 1 : ClosingEvent(k)' = ClosingEvent(k)
    BY DEF ClosingEvent
  <2>3. QED
    BY <1>2, <1>3, <1>9, <2>1, <2>2 DEF ClosedAfter
<1>11. HeldAfter(b)'
  BY <1>1 DEF Inv, TypeOK, Passed, HeldAfter, ConsumerIdle
<1>12. b \in Nat /\ sent' = sent
  BY <1>2
<1>13. QED BY <1>5, <1>6, <1>7, <1>8, <1>10, <1>11, <1>12 DEF Inv

LEMMA ReadFinishReasonInv == ASSUME Inv, ReadFinishReason PROVE Inv'
<1>1. /\ UNCHANGED <<pump, outgoing, deltas, calls, assembled, failure, sent, cancelled>>
      /\ ConsumerIdle /\ finish' \in BOOLEAN
  BY DEF ReadFinishReason, channelVars, streamVars, got, ConsumerIdle
<1>2. TypeOK' /\ Ordered' /\ Numbered'
  BY <1>1 DEF Inv, TypeOK, Ordered, Numbered, ConsumerIdle
<1>3. Passed'
  BY <1>1 DEF Inv, Passed, ConsumerIdle, NoCalls, Whole, Unended, Contract!Terminal
<1>4. ASSUME NEW b \in Nat, ClosedAfter(b), HeldAfter(b) PROVE ClosedAfter(b)' /\ HeldAfter(b)'
  BY <1>1, <1>4 DEF ClosedAfter, HeldAfter, ClosingEvent, ConsumerIdle
<1>5. QED BY <1>1, <1>2, <1>3, <1>4 DEF Inv

\* The task gives the channel the next event it emits.
LEMMA EmitInv == ASSUME Inv, Emit PROVE Inv'
<1> DEFINE e == outgoing[1]
<1>1. /\ pump = "running" /\ outgoing # <<>> /\ ConsumerIdle
      /\ sent' = Append(sent, Head(outgoing)) /\ outgoing' = Tail(outgoing)
      /\ pump' = IF Head(outgoing).kind = "completed" THEN "done" ELSE pump
      /\ UNCHANGED <<deltas, calls, finish, assembled, failure, cancelled>>
  BY DEF Emit, readVars, streamVars, got, ConsumerIdle
<1>2. /\ outgoing \in Seq(Item) /\ sent \in Seq(Item)
  BY DEF Inv, TypeOK
<1>3. /\ e \in Item /\ Head(outgoing) = e /\ Len(outgoing) \in Nat \ {0}
      /\ outgoing' \in Seq(Item) /\ Len(outgoing') = Len(outgoing) - 1
      /\ \A j \in 1..Len(outgoing') : outgoing'[j] = outgoing[j + 1] /\ j + 1 \in 1..Len(outgoing)
  BY <1>1, <1>2, Shifted
<1>4. 1 \in 1..Len(outgoing)
  BY <1>3
<1> HIDE DEF e
<1>5. /\ sent' \in Seq(Item) /\ Len(sent') = Len(sent) + 1 /\ Len(sent) \in Nat
      /\ sent'[Len(sent) + 1] = e /\ \A i \in 1..Len(sent) : sent'[i] = sent[i]
  BY <1>1, <1>2, <1>3, Appended
<1>6. TypeOK'
  BY <1>1, <1>3, <1>5 DEF Inv, TypeOK, ConsumerIdle
<1>7. Ordered'
  <2>1. \A i \in 1..Len(sent) : ~IsError(sent[i])
    BY <1>1 DEF Inv, Ordered
  <2>2. ~IsError(e)
    BY <1>4 DEF Inv, Ordered, e
  <2>3. sent' # <<>>
    BY <1>5
  <2>4. sent = <<>> => Len(outgoing) = 1 /\ e = Event("started", 0)
    BY <1>1, <1>2 DEF Inv, Ordered, e
  <2>5. sent # <<>> => e.kind # "started"
    BY <1>4 DEF Inv, Ordered, e
  <2>6. \A j \in 1..Len(outgoing') : outgoing'[j].kind # "started" /\ ~IsError(outgoing'[j])
    <3>1. CASE sent = <<>>
      <4>1. Len(outgoing') = Len(outgoing) - 1
        BY <1>3
      <4>2. Len(outgoing) = 1
        BY <2>4, <3>1
      <4>3. QED BY <4>1, <4>2
    <3>2. CASE sent # <<>>
      BY <1>3, <3>2 DEF Inv, Ordered
    <3>3. QED BY <3>1, <3>2
  <2>7. \A i \in 1..Len(sent') :
          /\ i = 1 => sent'[i] = Event("started", 0) \/ IsError(sent'[i])
          /\ i > 1 => sent'[i].kind # "started"
          /\ ~IsError(sent'[i])
    <3>1. \A i \in 1..Len(sent) :
            /\ i = 1 => sent[i] = Event("started", 0) \/ IsError(sent[i])
            /\ i > 1 => sent[i].kind # "started"
      BY DEF Inv, Ordered
    <3>2. Len(sent) = 0 => sent = <<>>
      BY <1>2
    <3>3. Len(sent) > 0 => sent # <<>>
      BY <1>2
    <3>4. QED BY <1>5, <2>1, <2>2, <2>4, <2>5, <3>1, <3>2, <3>3
  <2>8. ASSUME ~assembled'
        PROVE  /\ Len(outgoing') <= 1
               /\ \A i \in 1..Len(sent') : sent'[i].kind \notin {"tool_call", "completed"}
               /\ \A j \in 1..Len(outgoing') :
                     outgoing'[j].kind \notin {"tool_call", "completed"}
    <3>1. /\ Len(outgoing) <= 1
          /\ \A i \in 1..Len(sent) : sent[i].kind \notin {"tool_call", "completed"}
          /\ \A j \in 1..Len(outgoing) : outgoing[j].kind \notin {"tool_call", "completed"}
      BY <1>1, <2>8 DEF Inv, Ordered
    <3>2. e.kind \notin {"tool_call", "completed"}
      BY <1>4, <3>1 DEF e
    <3>3. QED BY <1>3, <1>5, <3>1, <3>2
  <2>9. QED BY <2>3, <2>6, <2>7, <2>8 DEF Ordered
<1>8. e.kind = "delta" => /\ e.number = deltas /\ deltas > 0
                          /\ \A i \in 1..Len(sent) :
                                sent[i].kind = "delta" => sent[i].number < deltas
  BY <1>4 DEF Inv, Numbered, e
<1>9. \A j \in 1..Len(outgoing') : outgoing'[j].kind # "delta"
  <2>1. CASE assembled
    <3>1. PICK b \in Nat : ClosedAfter(b)
      BY <2>1 DEF Inv
    <3>2. \A j \in 1..Len(outgoing) : outgoing[j] = ClosingEvent((Len(sent) - b) + j)
      BY <1>1, <3>1 DEF ClosedAfter
    <3>3. \A k : ClosingEvent(k).kind # "delta"
      BY DEF ClosingEvent, Event
    <3>4. QED BY <1>3, <3>2, <3>3
  <2>2. CASE ~assembled
    BY <1>3, <2>2 DEF Inv, Ordered
  <2>3. QED BY <2>1, <2>2
<1>10. Numbered'
  <2>1. deltas \in Nat /\ deltas' = deltas
    BY <1>1 DEF Inv, TypeOK
  <2>2. \A i \in 1..Len(sent) : sent[i].kind = "delta" =>
          /\ sent[i].number \in 1..deltas
          /\ \A j \in 1..i - 1 : sent[j].kind = "delta" => sent[j].number < sent[i].number
    BY DEF Inv, Numbered
  <2>3. \A i \in 1..Len(sent') : sent'[i].kind = "delta" =>
          /\ sent'[i].number \in 1..deltas
          /\ \A j \in 1..i - 1 : sent'[j].kind = "delta" => sent'[j].number < sent'[i].number
    <3>1. ASSUME NEW i \in 1..Len(sent), sent'[i].kind = "delta"
          PROVE  /\ sent'[i].number \in 1..deltas
                 /\ \A j \in 1..i - 1 : sent'[j].kind = "delta" => sent'[j].number < sent'[i].number
      <4>1. sent'[i] = sent[i] /\ \A j \in 1..i - 1 : sent'[j] = sent[j]
        BY <1>5
      <4>2. QED BY <2>2, <3>1, <4>1
    <3>2. ASSUME e.kind = "delta"
          PROVE  /\ e.number \in 1..deltas
                 /\ \A j \in 1..Len(sent) : sent'[j].kind = "delta" => sent'[j].number < e.number
      BY <1>5, <1>8, <2>1, <3>2
    <3>3. QED BY <1>5, <3>1, <3>2
  <2>4. \A n \in 1..deltas : \/ \E i \in 1..Len(sent') : sent'[i] = Event("delta", n)
                             \/ n = deltas /\ ~assembled' /\ e = Event("delta", n)
    <3>1. \A n \in 1..deltas : \/ \E i \in 1..Len(sent) : sent[i] = Event("delta", n)
                               \/ /\ n = deltas /\ ~assembled
                                  /\ outgoing = <<Event("delta", n)>>
      BY <1>1 DEF Inv, Numbered
    <3>2. \A n : outgoing = <<Event("delta", n)>> => e = Event("delta", n)
      BY DEF e
    <3>3. QED BY <1>1, <1>5, <3>1, <3>2
  <2>5. Len(sent) + 1 \in 1..Len(sent')
    BY <1>5
  <2>6. \A n \in 1..deltas : \E i \in 1..Len(sent') : sent'[i] = Event("delta", n)
    BY <1>5, <2>4, <2>5
  <2>7. QED BY <1>9, <2>1, <2>3, <2>6 DEF Numbered
<1>11. Passed'
  BY <1>1, <1>3, <1>8, PutPassed DEF Inv
<1>12. ASSUME NEW b \in Nat, ClosedAfter(b), HeldAfter(b) PROVE ClosedAfter(b)' /\ HeldAfter(b)'
  <2> DEFINE n == Len(sent) - b
  <2>1. /\ n \in Nat /\ calls \in Nat /\ n + Len(outgoing) = calls + 1 /\ b \in 1..Len(sent)
        /\ \A i \in 1..b : sent[i].kind \notin {"tool_call", "completed"} \cup ErrorKind
        /\ \A i \in b + 1 .. Len(sent) : \/ i - b <= calls + 1 /\ sent[i] = ClosingEvent(i - b)
                                         \/ IsError(sent[i])
        /\ \A j \in 1..Len(outgoing) : outgoing[j] = ClosingEvent(n + j)
    BY <1>1, <1>5, <1>12 DEF ClosedAfter, Inv, TypeOK
  <2>2. e = ClosingEvent(n + 1) /\ n + 1 <= calls + 1
    BY <1>3, <1>4, <2>1 DEF e
  <2>3. n + 1 = (Len(sent) + 1) - b /\ Len(sent') - b = n + 1
    BY <1>5
  <2> HIDE DEF n
  <2>5. b \in 1..Len(sent')
    BY <1>5, <2>1
  <2>6. \A i \in 1..b : sent'[i].kind \notin {"tool_call", "completed"} \cup ErrorKind
    BY <1>5, <2>1
  <2>7. \A i \in b + 1 .. Len(sent') :
          \/ i - b <= calls + 1 /\ sent'[i] = ClosingEvent(i - b)
          \/ IsError(sent'[i])
    <3>1. ASSUME NEW i \in b + 1 .. Len(sent'), i = Len(sent) + 1
          PROVE  i - b <= calls + 1 /\ sent'[i] = ClosingEvent(i - b)
      BY <1>5, <2>2, <2>3, <3>1
    <3>2. ASSUME NEW i \in b + 1 .. Len(sent)
          PROVE  \/ i - b <= calls + 1 /\ sent'[i] = ClosingEvent(i - b)
                 \/ IsError(sent'[i])
      BY <1>5, <2>1
    <3>3. QED BY <1>5, <3>1, <3>2
  <2>8. ASSUME pump' = "running"
        PROVE  /\ outgoing' # <<>>
               /\ (Len(sent') - b) + Len(outgoing') = calls + 1
               /\ \A j \in 1..Len(outgoing') :
                     outgoing'[j] = ClosingEvent((Len(sent') - b) + j)
    <3>1. e.kind # "completed"
      BY <1>1, <1>3, <2>8
    <3>2. n + 1 <= calls
      BY <2>1, <2>2, <3>1 DEF ClosingEvent, Event
    <3>3. Len(outgoing') > 0 /\ (n + 1) + Len(outgoing') = calls + 1
      <4>1. Len(outgoing) \in Nat /\ Len(outgoing') = Len(outgoing) - 1
        BY <1>3
      <4>2. n \in Nat /\ calls \in Nat /\ n + Len(outgoing) = calls + 1
        BY <2>1
      <4>3. QED BY <3>2, <4>1, <4>2
    <3>4. \A j \in 1..Len(outgoing') : outgoing'[j] = ClosingEvent((n + 1) + j)
      <4>1. \A j \in 1..Len(outgoing') : (n + 1) + j = n + (j + 1)
        BY <1>3, <2>1
      <4>2. QED BY <1>3, <2>1, <4>1
    <3>5. outgoing' # <<>>
      BY <3>3
    <3>6. QED BY <2>3, <3>3, <3>4, <3>5
  <2>9. ClosedAfter(b)'
    BY <1>1, <2>5, <2>6, <2>7, <2>8 DEF ClosedAfter, ClosingEvent
  <2>10. QED BY <1>1, <1>12, <2>9 DEF HeldAfter, ConsumerIdle
<1>13. QED BY <1>1, <1>6, <1>7, <1>10, <1>11, <1>12 DEF Inv

-------------------------------------------------------------------------------
\* A step of the consumer leaves what it says of the channel alone.
LEMMA ConsumerInv ==
    ASSUME Inv, ReaderIdle, TypeOK', Passed',
           assembled => \A b \in Nat : ClosedAfter(b) /\ HeldAfter(b) => HeldAfter(b)'
    PROVE  Inv'
<1>1. Ordered' /\ Numbered'
  BY DEF Inv, ReaderIdle, Ordered, Numbered
<1>2. ASSUME NEW b \in Nat, ClosedAfter(b) PROVE ClosedAfter(b)'
  BY <1>2 DEF ReaderIdle, ClosedAfter, ClosingEvent
<1>3. assembled' = assembled
  BY DEF ReaderIdle
<1>4. QED BY <1>1, <1>2, <1>3 DEF Inv

LEMMA TakeReadyInv == ASSUME Inv, TakeReady PROVE Inv'
<1> DEFINE e == outbox[1]
<1>1. /\ ReaderIdle /\ outbox # <<>> /\ stream # "closed" /\ Yield(Head(outbox))
      /\ outbox' = Tail(outbox) /\ UNCHANGED <<taken, held, stream, cancelled>>
  BY DEF TakeReady, ReaderIdle, readVars, channelVars
<1>2. outbox \in Seq(Item) /\ seen \in Seq(Item)
  BY DEF Inv, TypeOK
<1>3. /\ e \in Item /\ Head(outbox) = e /\ Len(outbox) \in Nat \ {0}
      /\ outbox' \in Seq(Item) /\ Len(outbox') = Len(outbox) - 1
      /\ \A j \in 1..Len(outbox') : outbox'[j] = outbox[j + 1]
  BY <1>1, <1>2, Shifted
<1> HIDE DEF e
<1>4. /\ stream = "finished" /\ assembled /\ Unended /\ Len(reply) = deltas + 1
      /\ \A j \in 1..Len(outbox) - 1 : outbox[j].kind = "tool_call"
      /\ outbox[Len(outbox)] = Event("completed", deltas)
      /\ Whole(seen \o outbox)
  BY <1>1 DEF Inv, Passed
<1>5. /\ seen' = Append(seen, e) /\ seen' \in Seq(Item) /\ reply' \in Seq(Told)
      /\ ~IsReply(e) => reply' = reply
  BY <1>1, <1>3, Yields DEF Inv
<1>6. TypeOK'
  BY <1>1, <1>3, <1>5 DEF Inv, TypeOK, ReaderIdle
<1>7. seen' \o outbox' = seen \o outbox
  BY <1>1, <1>2, <1>3, <1>5, Moved
<1>8. Whole(seen \o outbox)'
  BY <1>1, <1>4, <1>7 DEF Whole, ReaderIdle
<1>9. ASSUME outbox' # <<>>
      PROVE  /\ Unended' /\ Len(reply') = deltas + 1
             /\ \A j \in 1..Len(outbox') - 1 : outbox'[j].kind = "tool_call"
             /\ outbox'[Len(outbox')] = Event("completed", deltas)
  <2>1. Len(outbox') \in Nat \ {0}
    BY <1>3, <1>9
  <2>2. Len(outbox) > 1
    BY <1>3, <2>1
  <2>3. 1 \in 1..Len(outbox) - 1
    BY <1>3, <2>2
  <2>4. e.kind = "tool_call"
    BY <1>4, <2>3 DEF e
  <2>5. reply' = reply
    BY <1>5, <2>4 DEF IsReply
  <2>6. \A j \in 1..Len(outbox') - 1 : j + 1 \in 1..Len(outbox) - 1 /\ outbox'[j] = outbox[j + 1]
    BY <1>3
  <2>7. outbox'[Len(outbox')] = outbox[Len(outbox)]
    <3>1. Len(outbox') \in 1..Len(outbox') /\ Len(outbox') + 1 = Len(outbox)
      BY <1>3, <2>1
    <3>2. QED BY <1>3, <3>1
  <2>8. Unended'
    BY <1>4, <2>5 DEF Unended, Contract!Terminal
  <2>9. QED BY <1>4, <2>5, <2>6, <2>7, <2>8
<1>10. Passed'
  BY <1>1, <1>4, <1>8, <1>9 DEF Passed, ReaderIdle
<1>11. \A b \in Nat : HeldAfter(b)'
  BY <1>1, <1>4 DEF HeldAfter
<1>12. QED BY <1>1, <1>6, <1>10, <1>11, ConsumerInv

\* The stream ends, or is dropped, with what it holds.
LEMMA CloseInv == ASSUME Inv, TakeEnd \/ DropStream PROVE Inv'
<1>1. /\ ReaderIdle /\ stream' = "closed" /\ held' = 0 /\ outbox' = <<>>
      /\ UNCHANGED <<taken, seen, reply, cancelled>>
  BY DEF TakeEnd, DropStream, Close, ReaderIdle, readVars, channelVars, got
<1>2. <<>> \in Seq(Item)
  OBVIOUS
<1>3. TypeOK'
  BY <1>1, <1>2 DEF Inv, TypeOK, ReaderIdle
<1>4. Passed'
  BY <1>1 DEF Inv, Passed, ReaderIdle, NoCalls
<1>5. \A b \in Nat : HeldAfter(b)'
  BY <1>1 DEF HeldAfter
<1>6. QED BY <1>1, <1>3, <1>4, <1>5, ConsumerInv

LEMMA IdleInv ==
    ASSUME Inv, Cancel \/ Finished \/ UNCHANGED vars
    PROVE  Inv'
<1>1. /\ ReaderIdle /\ cancelled' \in BOOLEAN
      /\ UNCHANGED <<taken, held, outbox, stream, seen, reply>>
  BY DEF Cancel, Finished, vars, ReaderIdle, readVars, channelVars, streamVars, got, Inv, TypeOK
<1>2. TypeOK'
  BY <1>1 DEF Inv, TypeOK, ReaderIdle
<1>3. Passed'
  BY <1>1 DEF Inv, Passed, ReaderIdle, NoCalls, Whole, Unended, Contract!Terminal
<1>4. \A b \in Nat : HeldAfter(b) => HeldAfter(b)'
  BY <1>1 DEF HeldAfter
<1>5. QED BY <1>1, <1>2, <1>3, <1>4, ConsumerInv

-------------------------------------------------------------------------------
\* The stream ends with an error, its own or that of the channel.
LEMMA PassErrorInv ==
    ASSUME Inv, ReaderIdle, Waits, NEW e \in Item, IsError(e), PassError(e),
           taken' \in {taken, taken + 1}, taken' <= Len(sent), UNCHANGED cancelled
    PROVE  Inv'
<1>1. /\ stream' = "finished" /\ UNCHANGED <<held, outbox>> /\ Yield(e)
      /\ stream = "open" /\ outbox = <<>>
  BY DEF PassError, Waits
<1>2. seen' = Append(seen, e) /\ seen' \in Seq(Item) /\ reply' \in Seq(Told)
  BY <1>1, Yields DEF Inv
<1>3. taken' \in Nat
  BY DEF Inv, TypeOK
<1>4. TypeOK'
  BY <1>1, <1>2, <1>3 DEF Inv, TypeOK, ReaderIdle
<1>5. NoCalls(seen) /\ e.kind # "tool_call" /\ seen \in Seq(Item)
  BY <1>1 DEF Inv, TypeOK, Passed, IsError, ErrorKind
<1>6. NoCalls(seen')
  BY <1>2, <1>5, NoCallsAppended
<1>7. Passed'
  BY <1>1, <1>6 DEF Passed, NoCalls
<1>8. \A b \in Nat : HeldAfter(b)'
  BY <1>1 DEF HeldAfter
<1>9. QED BY <1>4, <1>7, <1>8, ConsumerInv

LEMMA ErrorsAreItems ==
    ASSUME NEW kind \in ErrorKind
    PROVE  Error(kind) \in Item /\ IsError(Error(kind))
BY DEF Error, Event, Item, Kind, IsError

LEMMA TakeNoneInv == ASSUME Inv, TakeNone PROVE Inv'
<1>1. /\ ReaderIdle /\ Waits /\ UNCHANGED <<taken, cancelled>>
      /\ PassError(Error(IF cancelled THEN "cancelled" ELSE "protocol"))
  BY DEF TakeNone, ReaderIdle, readVars, channelVars
<1>2. (IF cancelled THEN "cancelled" ELSE "protocol") \in ErrorKind
  BY DEF ErrorKind
<1>3. taken' <= Len(sent)
  BY <1>1 DEF Inv, TypeOK
<1>4. QED BY <1>1, <1>2, <1>3, ErrorsAreItems, PassErrorInv

-------------------------------------------------------------------------------
\* The item that the stream is about to take from the channel.
Taking == Waits /\ taken < Len(sent) /\ taken' = taken + 1 /\ ReaderIdle /\ UNCHANGED cancelled

LEMMA ItemFacts ==
    ASSUME Inv, Taking
    PROVE  /\ taken \in Nat /\ Len(sent) \in Nat /\ taken + 1 \in 1..Len(sent)
           /\ stream = "open" /\ outbox = <<>> /\ sent[taken + 1] \in Item
           /\ taken = 0 => sent[1] = Event("started", 0) \/ IsError(sent[1])
           /\ taken > 0 => sent[taken + 1].kind # "started"
           /\ ~assembled => sent[taken + 1].kind \notin {"tool_call", "completed"}
<1>1. /\ taken \in Nat /\ Len(sent) \in Nat /\ taken + 1 \in 1..Len(sent)
      /\ stream = "open" /\ outbox = <<>> /\ sent \in Seq(Item)
  BY DEF Inv, TypeOK, Taking, Waits
<1>2. sent[taken + 1] \in Item
  BY <1>1
<1>3. QED BY <1>1, <1>2 DEF Inv, Ordered

\* An item that is no part of the end of the response comes before it.
LEMMA BeforeTheEnd ==
    ASSUME Inv, Taking, sent[taken + 1].kind \notin {"tool_call", "completed"} \cup ErrorKind,
           NEW b \in Nat, ClosedAfter(b)
    PROVE  taken + 1 <= b
<1>1. \A k : ClosingEvent(k).kind \in {"tool_call", "completed"}
  BY DEF ClosingEvent, Event
<1>2. \A i \in b + 1 .. Len(sent) : sent[i] = ClosingEvent(i - b) \/ IsError(sent[i])
  BY DEF ClosedAfter
<1>3. \A i \in b + 1 .. Len(sent) :
        sent[i].kind \in {"tool_call", "completed"} \cup ErrorKind
  BY <1>1, <1>2 DEF IsError
<1>4. QED BY <1>3, ItemFacts

\* The deltas are passed on without a gap.
LEMMA NextDelta ==
    ASSUME Inv, Taking, sent[taken + 1].kind = "delta"
    PROVE  /\ taken > 0 /\ Len(reply) \in Nat \ {0} /\ sent[taken + 1].number = Len(reply)
           /\ Len(reply) \in 1..deltas
           /\ \A i \in taken + 2 .. Len(sent) :
                 sent[i].kind = "delta" => sent[i].number > Len(reply)
<1> DEFINE p == taken + 1
           d == sent[p].number
           r == Len(reply)
<1>1. taken \in Nat /\ Len(sent) \in Nat /\ p \in 1..Len(sent) /\ stream = "open"
  BY ItemFacts
<1>2. taken > 0
  <2>1. taken = 0 => sent[taken + 1].kind = "started" \/ IsError(sent[taken + 1])
    BY ItemFacts DEF Event
  <2>2. QED BY <1>1, <2>1 DEF IsError, ErrorKind
<1>3. r \in Nat \ {0}
  BY <1>1, <1>2 DEF Inv, TypeOK, Passed, Unended
<1>4. d \in 1..deltas /\ deltas \in Nat
  BY <1>1 DEF Inv, TypeOK, Numbered
<1>5. \A i \in 1..Len(sent) : sent[i].kind = "delta" => (i <= taken <=> sent[i].number < r)
  BY <1>1 DEF Inv, Passed
<1>6. \A i \in taken + 2 .. Len(sent) : sent[i].kind = "delta" => sent[i].number > d
  <2>1. \A i \in 1..Len(sent) : sent[i].kind = "delta" =>
          /\ sent[i].number \in 1..deltas
          /\ \A j \in 1..i - 1 : sent[j].kind = "delta" => sent[j].number < sent[i].number
    BY DEF Inv, Numbered
  <2>2. \A i \in taken + 2 .. Len(sent) : i \in 1..Len(sent) /\ p \in 1..i - 1
    BY <1>1
  <2>3. QED BY <1>4, <2>1, <2>2
<1>7. d >= r
  BY <1>1, <1>3, <1>4, <1>5
<1>8. ASSUME d > r PROVE FALSE
  <2>1. r \in 1..deltas /\ r # deltas
    BY <1>3, <1>4, <1>8
  <2>2. PICK i \in 1..Len(sent) : sent[i] = Event("delta", r)
    BY <2>1 DEF Inv, Numbered
  <2>3. sent[i].kind = "delta" /\ sent[i].number = r
    BY <2>2 DEF Event
  <2>4. ~(i <= taken)
    BY <1>3, <1>5, <2>3
  <2>5. i # p
    BY <1>8, <1>3, <2>3
  <2>6. i \in taken + 2 .. Len(sent)
    BY <1>1, <2>4, <2>5
  <2>7. r > d
    BY <1>6, <2>3, <2>6
  <2>8. QED BY <1>3, <1>4, <1>8, <2>7
<1>9. d = r
  BY <1>3, <1>4, <1>7, <1>8
<1>10. QED BY <1>1, <1>2, <1>3, <1>4, <1>6, <1>9

LEMMA TakeDeltaInv ==
    ASSUME Inv, Taking, sent[taken + 1].kind = "delta", Yield(sent[taken + 1]),
           UNCHANGED <<held, outbox, stream>>
    PROVE  Inv'
<1> DEFINE e == sent[taken + 1]
           r == Len(reply)
<1>1. /\ taken \in Nat /\ Len(sent) \in Nat /\ taken + 1 \in 1..Len(sent)
      /\ stream = "open" /\ outbox = <<>> /\ e \in Item
  BY ItemFacts
<1>2. /\ taken > 0 /\ r \in Nat \ {0} /\ e.number = r
      /\ \A i \in taken + 2 .. Len(sent) : sent[i].kind = "delta" => sent[i].number > r
  BY NextDelta
<1>3. ReaderIdle /\ taken' = taken + 1 /\ UNCHANGED cancelled
  BY DEF Taking
<1>4. IsReply(e) /\ AsContract(e).kind = "output"
  BY <1>1, Tells DEF IsReply
<1>5. /\ seen' = Append(seen, e) /\ seen' \in Seq(Item) /\ reply' \in Seq(Told)
      /\ Len(reply') = r + 1 /\ reply' # <<>> /\ reply'[Len(reply')] = AsContract(e)
  BY <1>1, <1>4, Yields DEF Inv
<1>6. TypeOK'
  BY <1>1, <1>3, <1>5 DEF Inv, TypeOK, ReaderIdle
<1>7. Unended'
  BY <1>4, <1>5 DEF Unended, Contract!Terminal
<1>8. NoCalls(seen')
  BY <1>1, <1>5, NoCallsAppended DEF Inv, TypeOK, Passed
<1>9. \A i \in 1..Len(sent) : sent[i].kind = "delta" =>
        /\ i <= taken <=> sent[i].number < r
        /\ sent[i].number \in Nat
  <2>1. \A i \in 1..Len(sent) : sent[i].kind = "delta" => (i <= taken <=> sent[i].number < r)
    BY <1>1 DEF Inv, Passed
  <2>2. \A i \in 1..Len(sent) : sent[i].kind = "delta" => sent[i].number \in Nat
    BY DEF Inv, TypeOK, Numbered
  <2>3. QED BY <2>1, <2>2
<1>10. \A i \in 1..Len(sent) : sent[i].kind = "delta" =>
         (i <= taken + 1 <=> sent[i].number < r + 1)
  <2>1. ASSUME NEW i \in 1..Len(sent), sent[i].kind = "delta"
        PROVE  i <= taken + 1 <=> sent[i].number < r + 1
    <3>1. CASE i <= taken
      <4>1. sent[i].number < r /\ sent[i].number \in Nat /\ i \in Nat
        BY <1>9, <2>1, <3>1
      <4>2. QED BY <1>1, <1>2, <3>1, <4>1
    <3>2. CASE i = taken + 1
      BY <1>1, <1>2, <3>2
    <3>3. CASE i \in taken + 2 .. Len(sent)
      <4>1. sent[i].number > r /\ sent[i].number \in Nat
        BY <1>2, <1>9, <2>1, <3>3
      <4>2. QED BY <1>1, <1>2, <3>3, <4>1
    <3>4. QED BY <1>1, <3>1, <3>2, <3>3
  <2>2. QED BY <2>1
<1>11. \E i \in 1..taken + 1 : sent[i] = Event("delta", (r + 1) - 1)
  <2>1. e = Event("delta", r)
    BY <1>1, <1>2, ItemIsEvent
  <2>2. taken + 1 \in 1..taken + 1 /\ (r + 1) - 1 = r
    BY <1>1, <1>2
  <2>3. QED BY <2>1, <2>2
<1>12. \A i \in 1..taken + 1 : sent[i].kind \notin {"completed"} \cup ErrorKind
  <2>1. \A i \in 1..taken : sent[i].kind \notin {"completed"} \cup ErrorKind
    BY <1>1 DEF Inv, Passed
  <2>2. e.kind \notin {"completed"} \cup ErrorKind
    BY DEF ErrorKind
  <2>3. QED BY <1>1, <2>1, <2>2
<1> HIDE DEF e, r
<1>13. Passed'
  <2>1. outbox' = <<>> /\ stream' = "open" /\ taken' > 0 /\ assembled' = assembled
    BY <1>1, <1>2, <1>3 DEF ReaderIdle
  <2>2. ~assembled => held' = 0
    BY <1>1 DEF Inv, Passed
  <2>3. \A i \in 1..Len(sent') : sent'[i].kind = "delta" =>
           (i <= taken' <=> sent'[i].number < Len(reply'))
    BY <1>3, <1>5, <1>10 DEF ReaderIdle
  <2>4. \E i \in 1..taken' : sent'[i] = Event("delta", Len(reply') - 1)
    BY <1>3, <1>5, <1>11 DEF ReaderIdle
  <2>5. \A i \in 1..taken' : sent'[i].kind \notin {"completed"} \cup ErrorKind
    BY <1>3, <1>12 DEF ReaderIdle
  <2>6. NoCalls(seen)'
    BY <1>8 DEF NoCalls
  <2>7. QED BY <1>7, <2>1, <2>2, <2>3, <2>4, <2>5, <2>6 DEF Passed
<1>14. ASSUME NEW b \in Nat, ClosedAfter(b), HeldAfter(b) PROVE HeldAfter(b)'
  <2>1. taken + 1 <= b
    BY <1>14, BeforeTheEnd DEF ErrorKind
  <2>2. QED BY <1>1, <1>3, <1>14, <2>1 DEF HeldAfter
<1>15. QED BY <1>3, <1>6, <1>13, <1>14, ConsumerInv

\* The stream has begun, or passes on a fragment of a tool call.
LEMMA TakeOtherInv ==
    ASSUME Inv, Taking, sent[taken + 1].kind \in {"started", "tool_delta"},
           Yield(sent[taken + 1]), UNCHANGED <<held, outbox, stream>>
    PROVE  Inv'
<1> DEFINE e == sent[taken + 1]
<1>1. /\ taken \in Nat /\ Len(sent) \in Nat /\ taken + 1 \in 1..Len(sent)
      /\ stream = "open" /\ outbox = <<>> /\ e \in Item
  BY ItemFacts
<1>2. e.kind = "started" <=> taken = 0
  <2>1. taken = 0 => sent[taken + 1].kind = "started" \/ IsError(sent[taken + 1])
    BY ItemFacts DEF Event
  <2>2. ~IsError(sent[taken + 1])
    BY DEF IsError, ErrorKind
  <2>3. taken > 0 => e.kind # "started"
    BY ItemFacts
  <2>4. QED BY <1>1, <2>1, <2>2, <2>3
<1>3. ReaderIdle /\ taken' = taken + 1 /\ UNCHANGED cancelled
  BY DEF Taking
<1>4. /\ seen' = Append(seen, e) /\ seen' \in Seq(Item) /\ reply' \in Seq(Told)
  BY <1>1, Yields DEF Inv
<1>5. TypeOK'
  BY <1>1, <1>3, <1>4 DEF Inv, TypeOK, ReaderIdle
<1>6. NoCalls(seen')
  BY <1>1, <1>4, NoCallsAppended DEF Inv, TypeOK, Passed
<1>7. \/ taken > 0 /\ reply' = reply
      \/ taken = 0 /\ Len(reply') = 1 /\ reply' # <<>> /\ reply'[1].kind = "started"
  <2>1. CASE taken > 0
    <3>1. ~IsReply(e)
      BY <1>2, <2>1 DEF IsReply
    <3>2. QED BY <1>1, <2>1, <3>1, Yields DEF Inv
  <2>2. CASE taken = 0
    <3>1. IsReply(e) /\ AsContract(e).kind = "started"
      BY <1>1, <1>2, <2>2, Tells DEF IsReply
    <3>2. reply = <<>>
      BY <1>1, <2>2 DEF Inv, Passed
    <3>3. QED BY <1>1, <2>2, <3>1, <3>2, Yields DEF Inv
  <2>3. QED BY <1>1, <2>1, <2>2
<1>8. Unended'
  <2>1. taken > 0 => Unended
    BY <1>1 DEF Inv, Passed
  <2>2. CASE taken > 0 /\ reply' = reply
    BY <2>1, <2>2 DEF Unended, Contract!Terminal
  <2>3. CASE taken = 0 /\ Len(reply') = 1 /\ reply' # <<>> /\ reply'[1].kind = "started"
    BY <2>3 DEF Unended, Contract!Terminal
  <2>4. QED BY <1>7, <2>2, <2>3
<1>9. \A i \in 1..Len(sent) : sent[i].kind = "delta" =>
        (i <= taken + 1 <=> sent[i].number < Len(reply'))
  <2>1. \A i \in 1..Len(sent) : sent[i].kind = "delta" =>
          (i <= taken <=> sent[i].number < Len(reply))
    BY <1>1 DEF Inv, Passed
  <2>2. \A i \in 1..Len(sent) : sent[i].kind = "delta" =>
          i # taken + 1 /\ sent[i].number \in Nat \ {0}
    BY DEF Inv, TypeOK, Numbered
  <2>3. CASE taken > 0 /\ reply' = reply
    BY <1>1, <2>1, <2>2, <2>3
  <2>4. CASE taken = 0 /\ Len(reply') = 1
    BY <1>1, <2>2, <2>4
  <2>5. QED BY <1>7, <2>3, <2>4
<1>10. Len(reply') > 1 => \E i \in 1..taken + 1 : sent[i] = Event("delta", Len(reply') - 1)
  <2>1. Len(reply) > 1 => \E i \in 1..taken : sent[i] = Event("delta", Len(reply) - 1)
    BY <1>1 DEF Inv, Passed
  <2>2. \A i \in 1..taken : i \in 1..taken + 1
    BY <1>1
  <2>3. CASE reply' = reply
    BY <2>1, <2>2, <2>3
  <2>4. CASE Len(reply') = 1
    BY <2>4
  <2>5. QED BY <1>7, <2>3, <2>4
<1>11. \A i \in 1..taken + 1 : sent[i].kind \notin {"completed"} \cup ErrorKind
  <2>1. \A i \in 1..taken : sent[i].kind \notin {"completed"} \cup ErrorKind
    BY <1>1 DEF Inv, Passed
  <2>2. e.kind \notin {"completed"} \cup ErrorKind
    BY DEF ErrorKind
  <2>3. QED BY <1>1, <2>1, <2>2
<1> HIDE DEF e
<1>12. Passed'
  <2>1. outbox' = <<>> /\ stream' = "open" /\ taken' > 0 /\ assembled' = assembled
    BY <1>1, <1>3 DEF ReaderIdle
  <2>2. ~assembled => held' = 0
    BY <1>1 DEF Inv, Passed
  <2>3. \A i \in 1..Len(sent') : sent'[i].kind = "delta" =>
           (i <= taken' <=> sent'[i].number < Len(reply'))
    BY <1>3, <1>9 DEF ReaderIdle
  <2>4. Len(reply') > 1 => \E i \in 1..taken' : sent'[i] = Event("delta", Len(reply') - 1)
    BY <1>3, <1>10 DEF ReaderIdle
  <2>5. \A i \in 1..taken' : sent'[i].kind \notin {"completed"} \cup ErrorKind
    BY <1>3, <1>11 DEF ReaderIdle
  <2>6. NoCalls(seen)'
    BY <1>6 DEF NoCalls
  <2>7. QED BY <1>8, <2>1, <2>2, <2>3, <2>4, <2>5, <2>6 DEF Passed
<1>13. ASSUME NEW b \in Nat, ClosedAfter(b), HeldAfter(b) PROVE HeldAfter(b)'
  <2>1. taken + 1 <= b
    BY <1>13, BeforeTheEnd DEF ErrorKind
  <2>2. QED BY <1>1, <1>3, <1>13, <2>1 DEF HeldAfter
<1>14. QED BY <1>3, <1>5, <1>12, <1>13, ConsumerInv

\* A proposal is held back.
LEMMA HoldCallInv ==
    ASSUME Inv, Taking, sent[taken + 1].kind = "tool_call", HoldCall
    PROVE  Inv'
<1>1. /\ taken \in Nat /\ Len(sent) \in Nat /\ taken + 1 \in 1..Len(sent)
      /\ stream = "open" /\ outbox = <<>> /\ assembled
  BY ItemFacts
<1>2. taken > 0
  <2>1. taken = 0 => sent[taken + 1].kind = "started" \/ IsError(sent[taken + 1])
    BY ItemFacts DEF Event
  <2>2. QED BY <1>1, <2>1 DEF IsError, ErrorKind
<1>3. /\ ReaderIdle /\ taken' = taken + 1 /\ held' = held + 1
      /\ UNCHANGED <<outbox, stream, seen, reply, cancelled>>
  BY DEF Taking, HoldCall, got
<1>4. TypeOK'
  BY <1>1, <1>3 DEF Inv, TypeOK, ReaderIdle
<1>5. Passed'
  <2>1. \A i \in 1..taken + 1 : sent[i].kind \notin {"completed"} \cup ErrorKind
    <3>1. \A i \in 1..taken : sent[i].kind \notin {"completed"} \cup ErrorKind
      BY <1>1 DEF Inv, Passed
    <3>2. sent[taken + 1].kind \notin {"completed"} \cup ErrorKind
      BY DEF ErrorKind
    <3>3. QED BY <1>1, <3>1, <3>2
  <2>2. \A i \in 1..Len(sent) : sent[i].kind = "delta" =>
           (i <= taken + 1 <=> sent[i].number < Len(reply))
    <3>1. \A i \in 1..Len(sent) : sent[i].kind = "delta" =>
             (i <= taken <=> sent[i].number < Len(reply))
      BY <1>1 DEF Inv, Passed
    <3>2. \A i \in 1..Len(sent) : sent[i].kind = "delta" => i # taken + 1
      OBVIOUS
    <3>3. QED BY <1>1, <3>1, <3>2
  <2>3. Len(reply) > 1 => \E i \in 1..taken + 1 : sent[i] = Event("delta", Len(reply) - 1)
    <3>1. Len(reply) > 1 => \E i \in 1..taken : sent[i] = Event("delta", Len(reply) - 1)
      BY <1>1 DEF Inv, Passed
    <3>2. \A i \in 1..taken : i \in 1..taken + 1
      BY <1>1
    <3>3. QED BY <3>1, <3>2
  <2>4. Unended' /\ NoCalls(seen)' /\ taken' > 0
    BY <1>1, <1>2, <1>3 DEF Inv, Passed, Unended, NoCalls, Contract!Terminal
  <2>5. QED BY <1>1, <1>3, <2>1, <2>2, <2>3, <2>4 DEF Passed, ReaderIdle
<1>6. ASSUME NEW b \in Nat, ClosedAfter(b), HeldAfter(b) PROVE HeldAfter(b)'
  <2>1. taken + 1 > b
    BY <1>1, <1>6 DEF ClosedAfter
  <2>2. held = IF taken <= b THEN 0 ELSE taken - b
    BY <1>1, <1>6 DEF HeldAfter
  <2>3. held' = (taken + 1) - b
    BY <1>1, <1>3, <2>1, <2>2
  <2>4. QED BY <1>1, <1>3, <2>1, <2>3 DEF HeldAfter
<1>7. QED BY <1>3, <1>4, <1>5, <1>6, ConsumerInv

\* At the end of the response the stream holds every proposal of it, and has
\* told every delta.
LEMMA EndFacts ==
    ASSUME Inv, Taking, sent[taken + 1].kind = "completed"
    PROVE  /\ assembled /\ held = calls /\ sent[taken + 1] = Event("completed", deltas)
           /\ taken > 0 /\ Len(reply) = deltas + 1
<1>1. /\ taken \in Nat /\ Len(sent) \in Nat /\ taken + 1 \in 1..Len(sent)
      /\ stream = "open" /\ outbox = <<>> /\ assembled /\ calls \in Nat /\ deltas \in Nat
  BY ItemFacts DEF Inv, TypeOK
<1>2. PICK b \in Nat : ClosedAfter(b) /\ HeldAfter(b)
  BY <1>1 DEF Inv
<1>3. b \in 1..Len(sent) /\ b < taken + 1
  BY <1>1, <1>2 DEF ClosedAfter
<1>4. ~IsError(sent[taken + 1])
  BY DEF IsError, ErrorKind
<1>5. \A i \in b + 1 .. Len(sent) :
        \/ i - b <= calls + 1 /\ sent[i] = ClosingEvent(i - b)
        \/ IsError(sent[i])
  BY <1>2 DEF ClosedAfter
<1>6. taken + 1 \in b + 1 .. Len(sent)
  BY <1>1, <1>3
<1>7. (taken + 1) - b <= calls + 1 /\ sent[taken + 1] = ClosingEvent((taken + 1) - b)
  BY <1>4, <1>5, <1>6
<1>8. ~((taken + 1) - b <= calls) /\ sent[taken + 1] = Event("completed", deltas)
  BY <1>7 DEF ClosingEvent, Event
<1>9. (taken + 1) - b = calls + 1 /\ taken > 0
  BY <1>1, <1>3, <1>7, <1>8
<1>10. held = calls
  <2>1. held = IF taken <= b THEN 0 ELSE taken - b
    BY <1>1, <1>2 DEF HeldAfter
  <2>2. QED BY <1>1, <1>3, <1>9, <2>1
<1> DEFINE r == Len(reply)
<1>11. r \in Nat \ {0}
  BY <1>1, <1>9 DEF Inv, TypeOK, Passed, Unended
<1>12. r <= deltas + 1
  <2>1. CASE r > 1
    <3>1. PICK i \in 1..taken : sent[i] = Event("delta", r - 1)
      BY <1>1, <2>1 DEF Inv, Passed
    <3>2. i \in 1..Len(sent) /\ sent[i].kind = "delta" /\ sent[i].number = r - 1
      BY <1>1, <3>1 DEF Event
    <3>3. sent[i].number \in 1..deltas
      BY <3>2 DEF Inv, Numbered
    <3>4. QED BY <1>1, <1>11, <3>2, <3>3
  <2>2. QED BY <1>1, <1>11, <2>1
<1>13. deltas > 0 => deltas < r
  <2>1. SUFFICES ASSUME deltas > 0 PROVE deltas < r
    OBVIOUS
  <2>2. deltas \in 1..deltas
    BY <1>1, <2>1
  <2>3. PICK i \in 1..Len(sent) : sent[i] = Event("delta", deltas)
    BY <1>1, <2>2 DEF Inv, Numbered
  <2>4. sent[i].kind = "delta" /\ sent[i].number = deltas
    BY <2>3 DEF Event
  <2>5. i <= b
    <3>1. \A k : ClosingEvent(k).kind # "delta"
      BY DEF ClosingEvent, Event
    <3>2. ~IsError(sent[i])
      BY <2>4 DEF IsError, ErrorKind
    <3>3. i \notin b + 1 .. Len(sent)
      BY <1>5, <2>4, <3>1, <3>2
    <3>4. QED BY <1>1, <1>3, <3>3
  <2>6. i <= taken
    BY <1>1, <1>3, <2>5
  <2>7. QED BY <1>1, <2>4, <2>6 DEF Inv, Passed
<1>14. r = deltas + 1
  BY <1>1, <1>11, <1>12, <1>13
<1>15. QED BY <1>1, <1>8, <1>9, <1>10, <1>14

LEMMA WholeJoined ==
    ASSUME calls \in Nat, NEW s \in Seq(Item), NoCalls(s), NEW t \in Seq(Item),
           Len(t) = calls + 1, t[calls + 1].kind = "completed",
           \A k \in 1..calls : t[k] = Event("tool_call", k)
    PROVE  Whole(s \o t)
<1> DEFINE w == s \o t
<1>1. /\ Len(w) = Len(s) + (calls + 1) /\ Len(s) \in Nat
      /\ \A i \in 1..Len(s) : w[i] = s[i]
      /\ \A k \in 1..calls + 1 : w[Len(s) + k] = t[k]
  <2>1. /\ Len(w) = Len(s) + Len(t) /\ Len(s) \in Nat
        /\ \A i \in 1..Len(s) : w[i] = s[i]
        /\ \A k \in 1..Len(t) : w[Len(s) + k] = t[k]
    BY ONLY Joined, s \in Seq(Item), t \in Seq(Item)
  <2> HIDE DEF w
  <2>2. QED BY <2>1
<1> HIDE DEF w
<1>2. Len(w) > calls /\ Len(w) - (calls + 1) = Len(s)
  BY <1>1
<1>3. \A i \in 1..Len(s) : w[i].kind # "tool_call"
  BY <1>1 DEF NoCalls
<1>4. \A k \in 1..calls : w[Len(s) + k] = Event("tool_call", k)
  BY <1>1
<1>5. w[Len(w)].kind = "completed"
  <2>1. calls + 1 \in 1..calls + 1
    OBVIOUS
  <2>2. QED BY <1>1, <2>1
<1>6. Whole(w)
  BY <1>2, <1>3, <1>4, <1>5 DEF Whole
<1>7. QED BY <1>6 DEF w

LEMMA TakeCompletedInv ==
    ASSUME Inv, Taking, sent[taken + 1].kind = "completed", held' = 0, stream' = "finished",
           outbox' = Append(Calls(held), sent[taken + 1]), UNCHANGED got
    PROVE  Inv'
<1> DEFINE e == Event("completed", deltas)
<1>1. /\ assembled /\ held = calls /\ sent[taken + 1] = e /\ taken > 0 /\ Len(reply) = deltas + 1
  BY EndFacts
<1>2. /\ taken + 1 \in 1..Len(sent) /\ taken \in Nat /\ stream = "open" /\ e \in Item
      /\ ReaderIdle /\ taken' = taken + 1 /\ UNCHANGED <<seen, reply, cancelled>>
      /\ calls \in Nat /\ seen \in Seq(Item)
  BY <1>1, ItemFacts DEF Taking, got, Inv, TypeOK
<1>3. /\ Calls(calls) \in Seq(Item) /\ Len(Calls(calls)) = calls
      /\ \A k \in 1..calls : Calls(calls)[k] = Event("tool_call", k)
  <2>1. \A k \in 1..calls : Event("tool_call", k) \in Item
    BY <1>2 DEF Event, Item, Kind
  <2>2. QED BY <1>2, <2>1 DEF Calls
<1> DEFINE c == Calls(calls)
<1>4. e.kind = "completed"
  BY DEF Event
<1> HIDE DEF c, e
<1>5. outbox' = Append(c, e)
  BY <1>1 DEF c
<1>6. /\ outbox' \in Seq(Item) /\ Len(outbox') = calls + 1
      /\ \A k \in 1..calls : outbox'[k] = Event("tool_call", k)
      /\ outbox'[calls + 1] = e
  BY <1>2, <1>3, <1>5, Appended DEF c
<1>7. TypeOK'
  BY <1>2, <1>6 DEF Inv, TypeOK, ReaderIdle
<1>8. NoCalls(seen) /\ Unended
  BY <1>1, <1>2 DEF Inv, Passed
<1>9. Whole(seen \o outbox)'
  <2>1. calls \in Nat /\ seen \in Seq(Item) /\ outbox'[calls + 1].kind = "completed"
    BY <1>2, <1>4, <1>6
  <2>2. Whole(seen \o outbox')
    BY <1>6, <1>8, <2>1, WholeJoined
  <2>3. QED BY <1>2, <2>2 DEF Whole, ReaderIdle
<1>10. \A j \in 1..Len(outbox') - 1 : outbox'[j].kind = "tool_call"
  <2>1. calls \in Nat /\ Len(outbox') - 1 = calls
    BY <1>2, <1>6
  <2>2. \A k : Event("tool_call", k).kind = "tool_call"
    BY DEF Event
  <2>3. QED BY <1>6, <2>1, <2>2
<1>11. outbox'[Len(outbox')] = Event("completed", deltas)
  BY <1>6 DEF e
<1>12. Unended'
  BY <1>2, <1>8 DEF Unended, Contract!Terminal
<1>13. Passed'
  BY <1>1, <1>2, <1>9, <1>10, <1>11, <1>12 DEF Passed, ReaderIdle
<1>14. \A b \in Nat : HeldAfter(b)'
  BY DEF HeldAfter
<1>15. QED BY <1>2, <1>7, <1>13, <1>14, ConsumerInv

LEMMA TakeItemInv == ASSUME Inv, TakeItem PROVE Inv'
<1> DEFINE e == sent[taken + 1]
<1>1. Taking
  BY DEF TakeItem, Taking, ReaderIdle, readVars
<1>2. e \in Item /\ taken' \in {taken, taken + 1} /\ taken' <= Len(sent)
  BY <1>1, ItemFacts DEF Taking
<1>3. Waits /\ ReaderIdle /\ UNCHANGED cancelled
  BY <1>1 DEF Taking
<1>4. \A kind \in ErrorKind : PassError(Error(kind)) => Inv'
  BY <1>2, <1>3, ErrorsAreItems, PassErrorInv
<1>5. "invalid_output" \in ErrorKind /\ "failed" \in ErrorKind
  BY DEF ErrorKind
<1>6. CASE e.kind = "delta" /\ PassDelta(e)
  <2>1. CASE Yield(e) /\ UNCHANGED <<held, outbox, stream>>
    BY <1>1, <1>6, <2>1, TakeDeltaInv
  <2>2. CASE PassError(Error("failed"))
    BY <1>4, <1>5, <2>2
  <2>3. QED BY <1>6, <2>1, <2>2 DEF PassDelta
<1>7. CASE e.kind = "tool_call" /\ HoldCall
  BY <1>1, <1>7, HoldCallInv
<1>8. CASE e.kind = "completed" /\ Complete(e)
  <2>1. CASE PassError(Error("invalid_output"))
    BY <1>4, <1>5, <2>1
  <2>2. CASE /\ outbox' = Append(Calls(held), e) /\ held' = 0 /\ stream' = "finished"
             /\ UNCHANGED got
    BY <1>1, <1>8, <2>2, TakeCompletedInv
  <2>3. QED BY <1>8, <2>1, <2>2 DEF Complete
<1>9. CASE e.kind \in ErrorKind /\ PassError(e)
  BY <1>2, <1>3, <1>9, PassErrorInv DEF IsError
<1>10. CASE /\ e.kind \in {"started", "tool_delta"} /\ Yield(e)
            /\ UNCHANGED <<held, outbox, stream>>
  BY <1>1, <1>10, TakeOtherInv
<1>11. QED BY <1>6, <1>7, <1>8, <1>9, <1>10 DEF TakeItem

-------------------------------------------------------------------------------
\* Reading fails, or an event it emits is given up.
LEMMA FailInv ==
    ASSUME Inv, pump = "running", NEW error \in ErrorKind, Fail(error),
           UNCHANGED <<deltas, calls, finish, assembled, sent, cancelled>>, ConsumerIdle
    PROVE  Inv'
<1>1. /\ failure' \in ErrorKind /\ pump' = "failed" /\ outgoing' = <<>>
      /\ cancelled' \in BOOLEAN
  BY DEF Fail, Inv, TypeOK
<1>2. QED BY <1>1, StopInv

\* The step of a task that fails.
Fails == /\ pump = "running" /\ \E error \in ErrorKind : Fail(error)
         /\ UNCHANGED <<deltas, calls, finish, assembled, sent, cancelled>> /\ ConsumerIdle

\* The step of a task that has the whole response.
Ends == /\ Polls /\ assembled' = TRUE /\ outgoing' = Closing /\ ConsumerIdle
        /\ UNCHANGED <<pump, deltas, calls, finish, failure, sent, cancelled>>

LEMMA Endings ==
    ASSUME NoticeCancel \/ ReadDone \/ ReadEof \/ IdleTimeout \/ ReadFails \/ EmitAborts
    PROVE  Fails \/ Ends
<1> USE DEF ConsumerIdle, readVars, channelVars, streamVars, got
<1>1. {"cancelled", "protocol", "invalid_output", "timeout", "failed"} \subseteq ErrorKind
  BY DEF ErrorKind
<1>2. CASE NoticeCancel
  BY <1>1, <1>2 DEF NoticeCancel, Reading, Fails
<1>3. CASE ReadFails
  BY <1>1, <1>3 DEF ReadFails, Polls, Reading, Fails
<1>4. CASE EmitAborts
  BY <1>1, <1>4 DEF EmitAborts, Fails
<1>5. ASSUME Polls, UNCHANGED <<deltas, calls, finish, channelVars, streamVars, cancelled>>,
             \/ Assemble
             \/ (Fail("protocol") \/ Fail("timeout")) /\ UNCHANGED assembled
      PROVE  Fails \/ Ends
  <2>1. CASE assembled' = TRUE /\ outgoing' = Closing /\ UNCHANGED <<pump, failure>>
    BY <1>5, <2>1 DEF Ends
  <2>2. CASE (Fail("protocol") \/ Fail("invalid_output") \/ Fail("timeout")) /\ UNCHANGED assembled
    BY <1>1, <1>5, <2>2 DEF Polls, Reading, Fails
  <2>3. QED BY <1>5, <2>1, <2>2 DEF Assemble
<1>6. CASE ReadDone \/ ReadEof \/ IdleTimeout
  <2>1. /\ Polls /\ UNCHANGED <<deltas, calls, finish, channelVars, streamVars, cancelled>>
        /\ \/ Assemble
           \/ (Fail("protocol") \/ Fail("timeout")) /\ UNCHANGED assembled
    BY <1>6, Zenon DEF ReadDone, ReadEof, IdleTimeout
  <2>2. QED BY <1>5, <2>1, Zenon
<1>7. QED BY <1>2, <1>3, <1>4, <1>6

LEMMA PumpInv == ASSUME Inv, Pump PROVE Inv'
<1> USE DEF readVars, channelVars, streamVars, got
<1>1. CASE NoticeCancel \/ IdleTimeout \/ EmitAborts
  BY <1>1, Endings, FailInv, AssembledInv DEF Fails, Ends
<1>2. CASE Emit
  BY <1>2, EmitInv
<1>3. CASE \/ NoticeClosed \/ CheckCapacity
           \/ (TrySendError \/ SendError) /\ UNCHANGED sent
  <2>1. /\ UNCHANGED <<deltas, calls, finish, assembled, sent, cancelled, failure, outgoing>>
        /\ ConsumerIdle
    BY <1>3 DEF NoticeClosed, CheckCapacity, TrySendError, SendError, ConsumerIdle
  <2>2. \/ pump = "running" /\ outgoing = <<>> /\ pump' = "done"
        \/ pump = "tried" /\ pump' \in {"full", "done"}
        \/ pump = "failed" /\ pump' = "tried"
        \/ pump = "full" /\ pump' = "done"
    BY <1>3 DEF NoticeClosed, Reading, CheckCapacity, TrySendError, SendError
  <2>3. cancelled \in BOOLEAN /\ failure \in ErrorKind \cup {"none"}
        /\ (pump \in {"failed", "tried", "full"} => failure \in ErrorKind)
    BY DEF Inv, TypeOK
  <2>4. QED BY <2>1, <2>2, <2>3, StopInv
<1>4. CASE (TrySendError \/ SendError) /\ sent' = Append(sent, Error(failure))
  BY <1>4, ErrorInv DEF TrySendError, SendError, ConsumerIdle
<1>5. TrySendError \/ SendError => sent' = Append(sent, Error(failure)) \/ UNCHANGED sent
  BY DEF TrySendError, SendError
<1>6. QED BY <1>1, <1>2, <1>3, <1>4, <1>5 DEF Pump

LEMMA UpstreamInv == ASSUME Inv, Upstream PROVE Inv'
<1>1. CASE ReadDone \/ ReadEof \/ ReadFails
  BY <1>1, Endings, FailInv, AssembledInv DEF Fails, Ends
<1>2. QED BY <1>1, ReadDeltaInv, ReadToolFragmentInv, ReadFinishReasonInv DEF Upstream

LEMMA InitInv == ASSUME Init PROVE Inv
<1>1. Event("started", 0) \in Item /\ Event("started", 0).kind = "started"
  BY DEF Event, Item, Kind
<1>2. /\ <<>> \in Seq(Item) /\ <<>> \in Seq(Told)
  OBVIOUS
<1>3. outgoing \in Seq(Item) /\ Len(outgoing) = 1 /\ outgoing[1] = Event("started", 0)
  BY <1>1, Singleton DEF Init
<1>4. TypeOK
  <2>1. /\ outgoing \in Seq(Item) /\ sent \in Seq(Item) /\ outbox \in Seq(Item)
        /\ seen \in Seq(Item) /\ reply \in Seq(Told)
    BY <1>2, <1>3, Zenon DEF Init
  <2>2. taken <= Len(sent)
    BY DEF Init
  <2>3. QED BY <2>1, <2>2 DEF Init, TypeOK
<1>5. Ordered
  BY <1>1, <1>3 DEF Init, Ordered, IsError, ErrorKind
<1>6. Numbered
  BY <1>1, <1>3 DEF Init, Numbered
<1>7. Passed
  BY DEF Init, Passed, NoCalls
<1>8. QED BY <1>4, <1>5, <1>6, <1>7 DEF Init, Inv

LEMMA NextInv == Inv /\ [Next]_vars => Inv'
BY PumpInv, UpstreamInv, TakeReadyInv, TakeItemInv, TakeNoneInv, CloseInv, IdleInv
   DEF Next, Consumer

\* What the task has read, what is in the channel, what is held back and what
\* the consumer has got agree, whoever gives up and whenever.
THEOREM ChatInvariant == Spec => []Inv
BY InitInv, NextInv, PTL DEF Spec

\* A consumer that gets a tool call gets all of the response's, in order and
\* right before its end, and only of a response that was received as a whole.
THEOREM ProposalsComeWhole == Spec => []ProposalsWhole
<1>1. Inv => ProposalsWhole
  <2>1. SUFFICES ASSUME Inv, NEW i \in DOMAIN seen, IsProposal(seen[i])
                 PROVE  assembled /\ (stream # "closed" => Whole(seen \o outbox))
    BY DEF ProposalsWhole, Whole, IsProposal
  <2>2. ~NoCalls(seen)
    <3>1. DOMAIN seen = 1..Len(seen)
      BY <2>1 DEF Inv, TypeOK
    <3> QED BY <2>1, <3>1 DEF NoCalls, IsProposal
  <2>3. QED BY <2>1, <2>2 DEF Inv, TypeOK, Passed
<1>2. QED BY <1>1, ChatInvariant, PTL

-------------------------------------------------------------------------------
\* An event of the stream without the events of tools is one of the contract.
LEMMA ReplyEvents ==
    ASSUME NEW n
    PROVE  /\ AsContract(Event("started", n)).number = n
           /\ AsContract(Event("started", 0)) = Contract!Started
           /\ AsContract(Event("delta", n)) = Contract!Output(n)
           /\ AsContract(Event("completed", n)) = Contract!Completed(n)
BY DEF AsContract, Event, ErrorKind, Contract!Started, Contract!Output, Contract!Completed

LEMMA ErrorReplies ==
    ASSUME NEW e \in Item, IsError(e), e.number = 0
    PROVE  IsReply(e) /\ AsContract(e) \in {Contract!Cancelled, Contract!Failed}
BY DEF Item, IsError, ErrorKind, IsReply, AsContract, Contract!Cancelled, Contract!Failed

\* Nothing that the contract knows of changes.
Stutters == UNCHANGED <<deltas, assembled, reply>>

\* The stream may end with an error as long as it has not ended.
LEMMA PassErrorAborts ==
    ASSUME Inv, ReaderIdle, Waits, NEW e \in Item, IsError(e), e.number = 0, PassError(e)
    PROVE  Contract!Abort
<1>1. AsContract(e) \in {Contract!Cancelled, Contract!Failed} /\ IsReply(e)
  BY ErrorReplies
<1>2. reply' = Append(reply, AsContract(e)) /\ UNCHANGED <<deltas, assembled>>
  BY <1>1 DEF PassError, Yield, ReaderIdle
<1>3. reply = <<>> \/ Unended
  <2>1. stream = "open" /\ (taken = 0 \/ taken > 0)
    BY DEF Inv, TypeOK, Waits
  <2>2. QED BY <2>1 DEF Inv, Passed
<1>4. QED
  BY <1>1, <1>2, <1>3
  DEF Contract!Abort, Contract!Open, Contract!Deliver, Contract!Terminal, Unended

LEMMA TakeReadyCompletes == ASSUME Inv, TakeReady PROVE Stutters \/ Contract!Complete
<1> DEFINE e == outbox[1]
<1>1. /\ outbox # <<>> /\ Yield(Head(outbox)) /\ UNCHANGED <<deltas, assembled>>
  BY DEF TakeReady, readVars
<1>2. /\ assembled /\ Unended /\ Len(reply) = deltas + 1
      /\ \A j \in 1..Len(outbox) - 1 : outbox[j].kind = "tool_call"
      /\ outbox[Len(outbox)] = Event("completed", deltas)
  BY <1>1 DEF Inv, Passed
<1>3. /\ e \in Item /\ Head(outbox) = e /\ Len(outbox) \in Nat \ {0}
  BY <1>1, Shifted DEF Inv, TypeOK
<1>4. CASE Len(outbox) = 1
  <2>1. e = Event("completed", deltas)
    BY <1>2, <1>4
  <2>2. e.kind = "completed"
    BY <2>1 DEF Event
  <2>3. AsContract(e) = Contract!Completed(deltas)
    BY <2>1, ReplyEvents
  <2> HIDE DEF e
  <2>4. reply' = Append(reply, Contract!Completed(deltas))
    BY <1>1, <1>3, <2>2, <2>3 DEF Yield, IsReply
  <2>5. QED
    BY <1>1, <1>2, <2>4
    DEF Contract!Complete, Contract!Open, Contract!Deliver, Contract!Terminal, Unended
<1>5. CASE Len(outbox) > 1
  <2>1. e.kind = "tool_call"
    BY <1>2, <1>3, <1>5
  <2>2. QED BY <1>1, <1>3, <2>1 DEF Yield, IsReply, Stutters
<1>6. Len(outbox) = 1 \/ Len(outbox) > 1
  <2>1. \A n \in Nat \ {0} : n = 1 \/ n > 1
    OBVIOUS
  <2>2. QED BY <1>3, <2>1, Zenon
<1>7. QED BY <1>4, <1>5, <1>6

\* What the stream passes on is what the contract delivers next.
LEMMA TakeItemDelivers == ASSUME Inv, TakeItem PROVE Stutters \/ Contract!Next
<1> DEFINE e == sent[taken + 1]
<1>1. Taking
  BY DEF TakeItem, Taking, ReaderIdle, readVars
<1>2. Waits /\ ReaderIdle /\ UNCHANGED <<deltas, assembled>>
  BY <1>1 DEF Taking, ReaderIdle
<1>3. /\ taken \in Nat /\ taken + 1 \in 1..Len(sent) /\ e \in Item /\ stream = "open"
      /\ e = Event(e.kind, e.number)
  BY <1>1, ItemFacts, ItemIsEvent
<1>4. \A kind \in ErrorKind : PassError(Error(kind)) => Contract!Next
  <2>1. \A kind : Error(kind).number = 0
    BY DEF Error, Event
  <2>2. QED BY <1>2, <2>1, ErrorsAreItems, PassErrorAborts DEF Contract!Next
<1>5. "invalid_output" \in ErrorKind /\ "failed" \in ErrorKind
  BY DEF ErrorKind
<1>6. CASE e.kind = "delta" /\ PassDelta(e)
  <2>1. CASE Yield(e)
    <3>1. taken > 0 /\ Len(reply) \in Nat \ {0} /\ e.number = Len(reply) /\ Len(reply) \in 1..deltas
      BY <1>1, <1>6, NextDelta
    <3>2. AsContract(e) = Contract!Output(Len(reply))
      BY <1>3, <1>6, <3>1, ReplyEvents
    <3>3. Unended
      BY <1>3, <3>1 DEF Inv, Passed
    <3>4. reply' = Append(reply, Contract!Output(Len(reply)))
      BY <1>6, <2>1, <3>2 DEF Yield, IsReply
    <3>5. Len(reply) <= deltas
      BY <3>1
    <3>6. QED
      BY <1>2, <3>3, <3>4, <3>5
      DEF Contract!Next, Contract!DeliverOutput, Contract!Open, Contract!Deliver,
          Contract!Terminal, Unended
  <2>2. CASE PassError(Error("failed"))
    BY <1>4, <1>5, <2>2
  <2>3. QED BY <1>6, <2>1, <2>2 DEF PassDelta
<1>7. CASE e.kind = "tool_call" /\ HoldCall
  BY <1>2, <1>7 DEF HoldCall, got, Stutters
<1>8. CASE e.kind = "completed" /\ Complete(e)
  BY <1>2, <1>4, <1>5, <1>8 DEF Complete, got, Stutters
<1>9. CASE e.kind \in ErrorKind /\ PassError(e)
  <2>1. e.number = 0
    BY <1>3, <1>9 DEF Inv, Ordered, IsError
  <2>2. QED BY <1>2, <1>3, <1>9, <2>1, PassErrorAborts DEF IsError, Contract!Next
<1>10. CASE e.kind = "tool_delta" /\ Yield(e)
  BY <1>2, <1>10 DEF Yield, IsReply, Stutters
<1>11. CASE e.kind = "started" /\ Yield(e)
  <2>1. taken = 0
    BY <1>1, <1>3, <1>11, ItemFacts
  <2>2. e = Event("started", 0)
    BY <1>1, <1>11, <2>1, ItemFacts DEF IsError, ErrorKind
  <2>3. reply = <<>>
    BY <1>3, <2>1 DEF Inv, Passed
  <2>4. AsContract(e) = Contract!Started
    BY <2>2, ReplyEvents
  <2>5. reply' = Append(reply, Contract!Started)
    BY <1>11, <2>4 DEF Yield, IsReply
  <2>6. QED BY <1>2, <2>3, <2>5 DEF Contract!Next, Contract!Begin, Contract!Deliver
<1>12. QED BY <1>6, <1>7, <1>8, <1>9, <1>10, <1>11 DEF TakeItem

LEMMA TakeNoneAborts == ASSUME Inv, TakeNone PROVE Contract!Abort
<1> DEFINE kind == IF cancelled THEN "cancelled" ELSE "protocol"
<1>1. ReaderIdle /\ Waits /\ PassError(Error(kind))
  BY DEF TakeNone, ReaderIdle, readVars, channelVars
<1>2. kind \in ErrorKind
  BY DEF ErrorKind
<1> HIDE DEF kind
<1>3. Error(kind).number = 0
  BY DEF Error, Event
<1>4. QED BY <1>1, <1>2, <1>3, ErrorsAreItems, PassErrorAborts

\* The chat stream without its tool events is a stream like any other: every
\* event the consumer gets is one the abstract stream allows next.
THEOREM ChatKeepsContract == Spec => KeepsContract
<1>1. Init => Contract!Init
  BY DEF Init, Contract!Init
<1>2. Inv /\ [Next]_vars => [Contract!Next]_Contract!vars
  <2> SUFFICES ASSUME Inv, [Next]_vars PROVE Stutters \/ Contract!Next
    BY DEF Stutters, Contract!vars
  <2>1. CASE ReadDelta
    <3>1. ~assembled /\ deltas' = deltas + 1 /\ assembled' = assembled /\ reply' = reply
      BY <2>1, PollingFacts DEF ReadDelta, streamVars, got
    <3>2. assembled \in BOOLEAN
      BY DEF Inv, TypeOK
    <3>3. QED BY <3>1, <3>2 DEF Contract!Next, Contract!Produce
  <2>2. ASSUME Ends PROVE Contract!Next
    <3>1. ~assembled /\ deltas' = deltas /\ assembled' = TRUE /\ reply' = reply
      BY <2>2, PollingFacts DEF Ends, ConsumerIdle
    <3>2. QED BY <3>1 DEF Contract!Next, Contract!Finish
  <2>3. Fails => Stutters
    BY DEF Fails, ConsumerIdle, Stutters
  <2>4. CASE ReadDone \/ ReadEof \/ IdleTimeout \/ ReadFails \/ EmitAborts \/ NoticeCancel
    BY <2>2, <2>3, <2>4, Endings
  <2>5. CASE \/ ReadToolFragment \/ ReadFinishReason \/ NoticeClosed \/ Emit
             \/ TrySendError \/ CheckCapacity \/ SendError
    BY <2>5 DEF ReadToolFragment, ReadFinishReason, NoticeClosed, Emit, TrySendError,
       CheckCapacity, SendError, readVars, streamVars, got, Stutters
  <2>6. CASE TakeEnd \/ DropStream \/ Cancel \/ Finished \/ UNCHANGED vars
    BY <2>6 DEF TakeEnd, DropStream, Cancel, Finished, vars, readVars, streamVars, got, Stutters
  <2>7. CASE TakeReady \/ TakeItem \/ TakeNone
    BY <2>7, TakeReadyCompletes, TakeItemDelivers, TakeNoneAborts DEF Contract!Next
  <2>8. QED BY <2>1, <2>4, <2>5, <2>6, <2>7 DEF Next, Upstream, Pump, Consumer
<1>3. QED BY <1>1, <1>2, ChatInvariant, PTL DEF Spec, KeepsContract, Contract!Spec

-------------------------------------------------------------------------------
\* Sets of numbers have a least member, and induction is that.
LEMMA LeastExists ==
    ASSUME NEW T \in SUBSET Nat, T # {}
    PROVE  \E m \in T : \A k \in T : m <= k
<1> DEFINE less == OpToRel(<, Nat)
<1>1. IsWellFoundedOn(less, Nat)
  BY NatLessThanWellFounded, Zenon
<1>2. ASSUME NEW i \in Nat, NEW j \in Nat, i < j PROVE <<i, j>> \in less
  BY <1>2, SMT DEF OpToRel
<1> HIDE DEF less
<1>3. PICK x \in T : \A y \in T : <<y, x>> \notin less
  BY <1>1, WFMin
<1>4. \A y \in T : ~(y < x)
  BY <1>2, <1>3, Zenon
<1> QED BY <1>4

LEMMA SetInduction ==
    ASSUME NEW T \in SUBSET Nat, 0 \in T, \A n \in T : n + 1 \in T
    PROVE  T = Nat
<1> SUFFICES ASSUME Nat \ T # {} PROVE FALSE
  OBVIOUS
<1>1. PICK m \in Nat \ T : \A k \in Nat \ T : m <= k
  BY LeastExists
<1>2. m # 0 /\ m - 1 \in Nat /\ ~(m <= m - 1)
  OBVIOUS
<1>3. m - 1 \in T
  BY <1>1, <1>2
<1> QED BY <1>2, <1>3

\* What is joined of the sequences, one after the other.
JoinsTo(g, S, seqs, n) ==
    g \in [0..n -> Seq(S)] /\ g[0] = <<>> /\ \A i \in 1..n : g[i] = g[i - 1] \o seqs[i]

\* FlattenSeq is a recursive function: its values are those of any sequence of
\* partial results, so that it need not be unfolded.
LEMMA JoinsExist ==
    ASSUME NEW S, NEW seqs \in Seq(Seq(S))
    PROVE  \E g : JoinsTo(g, S, seqs, Len(seqs))
<1> DEFINE T == {n \in Nat : n <= Len(seqs) => \E g : JoinsTo(g, S, seqs, n)}
<1>1. 0 \in T
  <2> DEFINE g == [i \in 0..0 |-> <<>>]
  <2>1. g \in [0..0 -> Seq(S)] /\ g[0] = <<>>
    OBVIOUS
  <2> HIDE DEF g
  <2>2. JoinsTo(g, S, seqs, 0)
    BY <2>1 DEF JoinsTo
  <2> QED BY <2>2
<1>2. ASSUME NEW n \in T PROVE n + 1 \in T
  <2> SUFFICES ASSUME n + 1 <= Len(seqs) PROVE \E g : JoinsTo(g, S, seqs, n + 1)
    OBVIOUS
  <2>1. PICK g : JoinsTo(g, S, seqs, n)
    OBVIOUS
  <2>2. n + 1 \in 1..Len(seqs) /\ n \in Nat
    OBVIOUS
  <2>3. seqs[n + 1] \in Seq(S) /\ g[n] \in Seq(S)
    BY <2>1, <2>2 DEF JoinsTo
  <2> DEFINE next == g[n] \o seqs[n + 1]
  <2>4. next \in Seq(S)
    BY <2>3
  <2> HIDE DEF next, T
  <2> DEFINE h == [i \in 0..n + 1 |-> IF i = n + 1 THEN next ELSE g[i]]
  <2>5. h \in [0..n + 1 -> Seq(S)] /\ h[0] = <<>>
    BY <2>1, <2>2, <2>4 DEF JoinsTo
  <2>6. ASSUME NEW i \in 1..n + 1 PROVE h[i] = h[i - 1] \o seqs[i]
    <3>1. CASE i = n + 1
      <4>1. h[i] = next /\ i - 1 \in 0..n + 1 /\ i - 1 # n + 1 /\ i - 1 = n
        BY <3>1, <2>2
      <4>2. h[i - 1] = g[n]
        BY <4>1, Zenon
      <4> HIDE DEF h
      <4> QED BY <3>1, <4>1, <4>2, Zenon DEF next
    <3>2. CASE i # n + 1
      <4>1. i \in 1..n /\ i \in 0..n + 1 /\ i - 1 \in 0..n + 1 /\ i - 1 # n + 1
        BY <3>2, <2>2
      <4>2. h[i] = g[i] /\ h[i - 1] = g[i - 1]
        BY <4>1, <3>2, Zenon
      <4> HIDE DEF h
      <4> QED BY <4>1, <4>2, <2>1, Zenon DEF JoinsTo
    <3> QED BY <3>1, <3>2
  <2> HIDE DEF h
  <2>7. JoinsTo(h, S, seqs, n + 1)
    BY <2>5, <2>6 DEF JoinsTo
  <2> QED BY <2>7
<1>3. T = Nat
  <2>1. T \in SUBSET Nat
    OBVIOUS
  <2> HIDE DEF T
  <2> QED BY <1>1, <1>2, <2>1, SetInduction
<1>4. Len(seqs) \in T /\ Len(seqs) <= Len(seqs)
  <2>1. Len(seqs) \in Nat /\ Len(seqs) <= Len(seqs)
    OBVIOUS
  <2> HIDE DEF T
  <2> QED BY <1>3, <2>1
<1> QED BY <1>4

LEMMA FlattenIs ==
    ASSUME NEW S, NEW seqs \in Seq(Seq(S)), NEW g, JoinsTo(g, S, seqs, Len(seqs))
    PROVE  Talk!FlattenSeq(seqs) = g[Len(seqs)]
<1> DEFINE n == Len(seqs)
<1> DEFINE IsFlatten(f) == f = [i \in 1..n |-> IF i = 1 THEN seqs[i] ELSE f[i - 1] \o seqs[i]]
<1>1. n \in Nat /\ \A i \in 1..n : seqs[i] \in Seq(S)
  OBVIOUS
<1>2. CASE n = 0
  <2>1. seqs = <<>>
    BY <1>2
  <2> QED BY <2>1, <1>2 DEF Talk!FlattenSeq, JoinsTo
<1>3. CASE n # 0
  <2> DEFINE f == [i \in 1..n |-> g[i]]
  <2>1. \A i \in 1..n : g[i] = IF i = 1 THEN seqs[i] ELSE g[i - 1] \o seqs[i]
    <3> SUFFICES ASSUME NEW i \in 1..n
                 PROVE  g[i] = IF i = 1 THEN seqs[i] ELSE g[i - 1] \o seqs[i]
      OBVIOUS
    <3>1. g[i] = g[i - 1] \o seqs[i]
      BY DEF JoinsTo
    <3>2. CASE i = 1
      <4>1. i - 1 = 0
        BY <3>2
      <4>2. g[i] = <<>> \o seqs[i]
        BY <3>1, <4>1, Zenon DEF JoinsTo
      <4>3. <<>> \o seqs[i] = seqs[i]
        BY <1>1, ConcatEmptySeq
      <4> QED BY <4>2, <4>3, <3>2
    <3> QED BY <3>1, <3>2
  <2>2. IsFlatten(f)
    <3>1. \A i \in 1..n : i # 1 => i - 1 \in 1..n
      BY <1>1
    <3> QED BY <2>1, <3>1
  <2>3. Talk!FlattenSeq(seqs) = (CHOOSE h : IsFlatten(h))[n]
    BY <1>3 DEF Talk!FlattenSeq
  <2> DEFINE h == CHOOSE h : IsFlatten(h)
  <2>4. IsFlatten(h)
    <3> HIDE DEF IsFlatten, f
    <3> QED BY <2>2
  <2> HIDE DEF h
  <2> DEFINE T == {i \in Nat : i + 1 <= n => h[i + 1] = g[i + 1]}
  <2>5. 0 \in T
    BY <2>1, <2>4, <1>1
  <2>6. ASSUME NEW i \in T PROVE i + 1 \in T
    <3> SUFFICES ASSUME (i + 1) + 1 <= n PROVE h[(i + 1) + 1] = g[(i + 1) + 1]
      OBVIOUS
    <3>1. i \in Nat /\ i + 1 <= n /\ (i + 1) + 1 \in 1..n /\ (i + 1) + 1 # 1
          /\ ((i + 1) + 1) - 1 = i + 1
      BY <1>1
    <3>2. h[i + 1] = g[i + 1]
      BY <3>1
    <3>3. h[(i + 1) + 1] = h[((i + 1) + 1) - 1] \o seqs[(i + 1) + 1]
      BY <2>4, <3>1
    <3>4. g[(i + 1) + 1] = g[((i + 1) + 1) - 1] \o seqs[(i + 1) + 1]
      BY <2>1, <3>1
    <3> QED BY <3>1, <3>2, <3>3, <3>4
  <2>7. T = Nat
    <3>1. T \in SUBSET Nat
      OBVIOUS
    <3> HIDE DEF T
    <3> QED BY <2>5, <2>6, <3>1, SetInduction
  <2>8. h[n] = g[n]
    <3>1. n - 1 \in Nat /\ (n - 1) + 1 = n /\ n <= n
      BY <1>1, <1>3
    <3>2. n - 1 \in T
      BY <2>7, <3>1, Zenon
    <3>3. (n - 1) + 1 <= n => h[(n - 1) + 1] = g[(n - 1) + 1]
      BY <3>2, Zenon
    <3> QED BY <3>1, <3>3, Zenon
  <2> QED BY <2>3, <2>8 DEF h
<1> QED BY <1>2, <1>3

\* What joining the sequences gives, with one more behind them.
LEMMA FlattenGrows ==
    ASSUME NEW S, NEW s \in Seq(Seq(S)), NEW x \in Seq(S)
    PROVE  /\ Talk!FlattenSeq(s) \in Seq(S)
           /\ Talk!FlattenSeq(Append(s, x)) = Talk!FlattenSeq(s) \o x
<1> DEFINE t == Append(s, x)
<1> DEFINE n == Len(s)
<1>1. /\ t \in Seq(Seq(S)) /\ Len(t) = n + 1 /\ n \in Nat
      /\ \A i \in 1..n : t[i] = s[i] /\ t[n + 1] = x
  OBVIOUS
<1> HIDE DEF t
<1>2. PICK g : JoinsTo(g, S, t, n + 1)
  BY <1>1, JoinsExist
<1>3. t[n + 1] = x
  BY DEF t
<1> DEFINE h == [i \in 0..n |-> g[i]]
<1>4. JoinsTo(h, S, s, n)
  <2>1. h \in [0..n -> Seq(S)] /\ h[0] = <<>>
    BY <1>1, <1>2 DEF JoinsTo
  <2>2. ASSUME NEW i \in 1..n PROVE h[i] = h[i - 1] \o s[i]
    <3>1. i \in 1..n + 1 /\ i - 1 \in 0..n /\ i \in 0..n
      BY <1>1
    <3> QED BY <3>1, <1>1, <1>2 DEF JoinsTo
  <2> HIDE DEF h
  <2> QED BY <2>1, <2>2 DEF JoinsTo
<1>5. Talk!FlattenSeq(s) = g[n] /\ g[n] \in Seq(S)
  <2>1. n \in 0..n /\ n \in 0..n + 1
    BY <1>1
  <2>2. h[n] = g[n] /\ g[n] \in Seq(S)
    BY <2>1, <1>2 DEF JoinsTo
  <2> HIDE DEF h
  <2>3. Talk!FlattenSeq(s) = h[n]
    BY <1>4, FlattenIs
  <2> QED BY <2>2, <2>3
<1>6. Talk!FlattenSeq(t) = g[n + 1]
  BY <1>1, <1>2, FlattenIs
<1>7. g[n + 1] = g[n] \o x
  <2>1. n + 1 \in 1..n + 1 /\ (n + 1) - 1 = n
    BY <1>1
  <2> QED BY <2>1, <1>2, <1>3, Zenon DEF JoinsTo
<1> QED BY <1>5, <1>6, <1>7 DEF t

\* Nothing is joined of nothing.
LEMMA FlattenOfNothing ==
    ASSUME NEW S, NEW n \in Nat
    PROVE  LET none == [i \in 1..n |-> <<>>]
           IN  none \in Seq(Seq(S)) /\ Talk!FlattenSeq(none) = <<>>
<1> DEFINE none(k) == [i \in 1..k |-> <<>>]
<1>1. \A k \in Nat : none(k) \in Seq(Seq(S)) /\ Len(none(k)) = k
  <2>1. <<>> \in Seq(S)
    OBVIOUS
  <2> QED BY <2>1
<1> DEFINE T == {k \in Nat : Talk!FlattenSeq(none(k)) = <<>>}
<1>2. 0 \in T
  <2>1. none(0) = <<>>
    OBVIOUS
  <2>2. Talk!FlattenSeq(<<>>) = <<>>
    BY DEF Talk!FlattenSeq
  <2> HIDE DEF none
  <2> QED BY <2>1, <2>2
<1>3. ASSUME NEW k \in T PROVE k + 1 \in T
  <2>1. k \in Nat /\ k + 1 \in Nat /\ Talk!FlattenSeq(none(k)) = <<>>
    OBVIOUS
  <2>2. none(k + 1) = Append(none(k), <<>>)
    BY <2>1
  <2>3. <<>> \in Seq(S) /\ <<>> \o <<>> = <<>>
    OBVIOUS
  <2> HIDE DEF none
  <2>4. Talk!FlattenSeq(Append(none(k), <<>>)) = Talk!FlattenSeq(none(k)) \o <<>>
    BY <1>1, <2>1, <2>3, FlattenGrows, Zenon
  <2>5. Talk!FlattenSeq(none(k + 1)) = <<>>
    BY <2>1, <2>2, <2>3, <2>4, Zenon
  <2> QED BY <2>1, <2>5, Zenon
<1>4. T = Nat
  <2>1. T \in SUBSET Nat
    OBVIOUS
  <2> HIDE DEF T
  <2> QED BY <1>2, <1>3, <2>1, SetInduction
<1>5. Talk!FlattenSeq(none(n)) = <<>>
  BY <1>4
<1> QED BY <1>1, <1>5

-------------------------------------------------------------------------------
\* A call of the assembler, which has numbered it if the server has not.
AssembledCall == [index : Nat, id : Text, name : Text, arguments : Text]

\* SelectInSeq and SchemaOf take the smallest index that will do.
LEMMA SmallestIsOne ==
    ASSUME NEW n \in Nat, NEW I \in SUBSET (1..n), I # {}
    PROVE  Talk!Min(I) \in I
<1>1. I \in SUBSET Nat
  OBVIOUS
<1>2. PICK m \in I : \A k \in I : m <= k
  BY <1>1, LeastExists
<1>3. \E x \in I : \A y \in I : x =< y
  BY <1>2
<1> QED BY <1>3 DEF Talk!Min

\* The call to which a fragment is added.
LEMMA SlotIsFirst ==
    ASSUME NEW made \in Seq(AssembledCall), NEW fragment \in WireToolCallOut
    PROVE  LET slot == Talk!SlotOf(made, fragment)
           IN  /\ slot \in 0..Len(made)
               /\ (\E i \in DOMAIN made : made[i].index = fragment.index)
                    => slot # 0 /\ made[slot].index = fragment.index
               /\ (\A i \in DOMAIN made : made[i].index # fragment.index)
                    => slot = IF fragment.index = -1 /\ ~fragment.hasId /\ made # <<>>
                              THEN Len(made) ELSE 0
<1> DEFINE I == {i \in 1..Len(made) : made[i].index = fragment.index}
<1>1. DOMAIN made = 1..Len(made) /\ Len(made) \in Nat
  OBVIOUS
<1>2. CASE \E i \in DOMAIN made : made[i].index = fragment.index
  <2>1. I # {} /\ I \in SUBSET (1..Len(made))
    BY <1>1, <1>2
  <2>2. Talk!SlotOf(made, fragment) = Talk!Min(I)
    BY <1>1, <1>2, <2>1 DEF Talk!SlotOf, Talk!SelectInSeq
  <2>3. Talk!Min(I) \in I
    <3> HIDE DEF I
    <3> QED BY <2>1, <1>1, SmallestIsOne
  <2>4. Talk!SlotOf(made, fragment) \in I
    BY <2>2, <2>3
  <2> QED BY <2>4, <1>1, <1>2
<1>3. CASE \A i \in DOMAIN made : made[i].index # fragment.index
  <2>1. Talk!SlotOf(made, fragment)
          = IF fragment.index = -1 /\ ~fragment.hasId /\ made # <<>> THEN Len(made) ELSE 0
    BY <1>3 DEF Talk!SlotOf, Talk!NoIndex
  <2> QED BY <2>1, <1>1, <1>3
<1> QED BY <1>2, <1>3

\* No error of finish means that no call has one.
LEMMA FinishedCalls ==
    ASSUME NEW made \in Seq(AssembledCall), Talk!FinishError(made) = "none"
    PROVE  \A i \in DOMAIN made :
              /\ made[i].id # <<>> /\ Talk!IsValidToolName(made[i].name)
              /\ Talk!IsObject(made[i].arguments)
              /\ \A j \in 1..i - 1 : made[j].id # made[i].id
<1> DEFINE errors == [i \in DOMAIN made |-> Talk!CallError(made, i)]
<1> DEFINE I == {i \in 1..Len(errors) : errors[i] # "none"}
<1>1. /\ DOMAIN made = 1..Len(made) /\ Len(made) \in Nat /\ Len(errors) = Len(made)
      /\ \A i \in DOMAIN made : errors[i] = Talk!CallError(made, i)
  OBVIOUS
<1> HIDE DEF errors
<1>2. I = {}
  <2> SUFFICES ASSUME I # {} PROVE FALSE
    OBVIOUS
  <2>1. Talk!Min(I) \in I
    <3>1. I \in SUBSET (1..Len(made))
      BY <1>1
    <3> HIDE DEF I
    <3> QED BY <3>1, <1>1, SmallestIsOne
  <2>2. Talk!SelectInSeq(errors, LAMBDA e : e # "none") = Talk!Min(I)
    BY DEF Talk!SelectInSeq
  <2>3. Talk!FinishError(made)
          = LET bad == Talk!SelectInSeq(errors, LAMBDA e : e # "none")
            IN  IF bad = 0 THEN "none" ELSE Talk!CallError(made, bad)
    BY DEF Talk!FinishError, errors
  <2>4. Talk!Min(I) # 0 /\ Talk!Min(I) \in DOMAIN made /\ errors[Talk!Min(I)] # "none"
    BY <2>1, <1>1
  <2>5. Talk!FinishError(made) = Talk!CallError(made, Talk!Min(I))
    BY <2>2, <2>3, <2>4, Zenon
  <2> QED BY <2>4, <2>5, <1>1
<1> SUFFICES ASSUME NEW i \in DOMAIN made
             PROVE  /\ made[i].id # <<>> /\ Talk!IsValidToolName(made[i].name)
                    /\ Talk!IsObject(made[i].arguments)
                    /\ \A j \in 1..i - 1 : made[j].id # made[i].id
  OBVIOUS
<1>3. Talk!CallError(made, i) = "none"
  BY <1>1, <1>2
<1> QED BY <1>3 DEF Talk!CallError

-------------------------------------------------------------------------------
\* What a caller adds when it replays a turn: the calls, and a result for each.
Replayed(messages, made) ==
    messages \o <<Talk!Assistant(made)>> \o [k \in DOMAIN made |-> Talk!ToolResult(made[k].id)]

\* Where the messages of the replay are.
LEMMA ReplayedMessages ==
    ASSUME NEW messages \in Seq(ChatMessage), NEW made \in Seq(ToolCall)
    PROVE  LET both == Replayed(messages, made)
               n == Len(messages)
           IN  /\ DOMAIN both = 1..n + 1 + Len(made)
               /\ \A i \in 1..n : both[i] = messages[i]
               /\ both[n + 1] = Talk!Assistant(made)
               /\ \A k \in 1..Len(made) : both[n + 1 + k] = Talk!ToolResult(made[k].id)
<1> DEFINE results == [k \in DOMAIN made |-> Talk!ToolResult(made[k].id)]
<1> DEFINE S == ChatMessage \cup {Talk!Assistant(made)} \cup {results[k] : k \in DOMAIN made}
<1>1. /\ results \in Seq(S) /\ Len(results) = Len(made)
      /\ \A k \in 1..Len(made) : results[k] = Talk!ToolResult(made[k].id)
  OBVIOUS
<1>2. messages \in Seq(S) /\ <<Talk!Assistant(made)>> \in Seq(S)
  OBVIOUS
<1>3. Replayed(messages, made) = (messages \o <<Talk!Assistant(made)>>) \o results
  BY DEF Replayed
<1> DEFINE first == messages \o <<Talk!Assistant(made)>>
<1> HIDE DEF results, S
<1>4. /\ first \in Seq(S) /\ Len(first) = Len(messages) + 1 /\ Len(messages) \in Nat
      /\ \A i \in 1..Len(messages) : first[i] = messages[i]
      /\ first[Len(messages) + 1] = Talk!Assistant(made)
  BY <1>2
<1> HIDE DEF first
<1> DEFINE both == first \o results
<1>5. /\ DOMAIN both = 1..Len(first) + Len(results) /\ Len(made) \in Nat
      /\ \A i \in 1..Len(first) : both[i] = first[i]
      /\ \A k \in 1..Len(results) : both[Len(first) + k] = results[k]
  <2>1. results \in Seq(S) /\ first \in Seq(S)
    BY <1>1, <1>4
  <2>2. Len(made) \in Nat
    OBVIOUS
  <2>3. DOMAIN both = 1..Len(first) + Len(results)
    BY <2>1
  <2>4. \A i \in 1..Len(first) : both[i] = first[i]
    BY <2>1
  <2>5. \A k \in 1..Len(results) : both[Len(first) + k] = results[k]
    BY <2>1
  <2> QED BY <2>2, <2>3, <2>4, <2>5
<1>6. both = Replayed(messages, made)
  BY <1>3 DEF first
<1> HIDE DEF both
<1>7. /\ DOMAIN both = 1..Len(messages) + 1 + Len(made)
      /\ \A i \in 1..Len(messages) : both[i] = messages[i]
      /\ both[Len(messages) + 1] = Talk!Assistant(made)
      /\ \A k \in 1..Len(made) : both[Len(messages) + 1 + k] = Talk!ToolResult(made[k].id)
  BY <1>1, <1>4, <1>5
<1> QED BY <1>6, <1>7, Zenon

\* In a valid history only what was proposed is answered.
LEMMA AnswersWereProposed ==
    ASSUME NEW messages \in Seq(ChatMessage), Talk!ValidMessages(messages)
    PROVE  \A m \in DOMAIN messages :
              messages[m].answers \subseteq Talk!ProposedBefore(messages, Len(messages) + 1)
<1> SUFFICES ASSUME NEW m \in DOMAIN messages, NEW id \in messages[m].answers
             PROVE  id \in Talk!ProposedBefore(messages, Len(messages) + 1)
  OBVIOUS
<1>1. Talk!ValidMessage(messages, m)
  BY DEF Talk!ValidMessages
<1>2. id \in Talk!ProposedBefore(messages, m)
  BY <1>1 DEF Talk!ValidMessage, Talk!OpenBefore
<1>3. 1..m - 1 \subseteq 1..(Len(messages) + 1) - 1
  OBVIOUS
<1> QED BY <1>2, <1>3 DEF Talk!ProposedBefore

\* A replay of usable calls whose identifiers are new is valid: each result
\* finds its call open, because the ones before it answer others.
LEMMA ReplayIsValid ==
    ASSUME NEW messages \in Seq(ChatMessage), NEW made \in Seq(ToolCall),
           Talk!ValidMessages(messages),
           \A k \in DOMAIN made :
              Talk!ValidProposal(made[k]) /\ \A j \in 1..k - 1 : made[j].id # made[k].id,
           Talk!ProposedBefore(messages, Len(messages) + 1) \cap Talk!Ids(made) = {}
    PROVE  Talk!ValidMessages(Replayed(messages, made))
<1> DEFINE both == Replayed(messages, made)
<1> DEFINE n == Len(messages)
<1> DEFINE c == Len(made)
<1>1. /\ DOMAIN both = 1..n + 1 + c
      /\ \A i \in 1..n : both[i] = messages[i]
      /\ both[n + 1] = Talk!Assistant(made)
      /\ \A k \in 1..c : both[n + 1 + k] = Talk!ToolResult(made[k].id)
  BY ReplayedMessages, Zenon
<1>2. n \in Nat /\ c \in Nat /\ DOMAIN messages = 1..n /\ DOMAIN made = 1..c
  OBVIOUS
<1>3. ASSUME NEW i \in 1..n + 1
      PROVE  Talk!ProposedBefore(both, i) = Talk!ProposedBefore(messages, i)
  <2>1. \A m \in 1..i - 1 : both[m] = messages[m]
    BY <1>1, <1>2
  <2> HIDE DEF both
  <2> QED BY <2>1 DEF Talk!ProposedBefore
<1>4. ASSUME NEW i \in 1..n PROVE Talk!ValidMessage(both, i)
  <2>1. Talk!ValidMessage(messages, i)
    BY <1>2 DEF Talk!ValidMessages
  <2>2. i \in 1..n + 1 /\ \A m \in 1..i - 1 : both[m] = messages[m]
    BY <1>1, <1>2
  <2>3. both[i] = messages[i]
    BY <1>1
  <2>4. Talk!ProposedBefore(both, i) = Talk!ProposedBefore(messages, i)
    BY <1>3, <2>2
  <2> HIDE DEF both
  <2>5. Talk!OpenBefore(both, i) = Talk!OpenBefore(messages, i)
    BY <2>2, <2>4 DEF Talk!OpenBefore
  <2> QED BY <2>1, <2>3, <2>4, <2>5, Zenon DEF Talk!ValidMessage
<1>5. Talk!ValidMessage(both, n + 1)
  <2>1. n + 1 \in 1..n + 1
    BY <1>2
  <2>2. Talk!ProposedBefore(both, n + 1) = Talk!ProposedBefore(messages, n + 1)
    BY <1>3, <2>1
  <2>3. /\ both[n + 1].role = "assistant" /\ both[n + 1].answers = {}
        /\ both[n + 1].calls = made
    BY <1>1 DEF Talk!Assistant, Talk!Message
  <2>4. \A k \in DOMAIN made : made[k].id \notin Talk!ProposedBefore(messages, n + 1)
    BY DEF Talk!Ids
  <2> HIDE DEF both
  <2> QED BY <2>2, <2>3, <2>4, Zenon DEF Talk!ValidMessage
<1>6. ASSUME NEW k \in 1..c PROVE Talk!ValidMessage(both, n + 1 + k)
  <2> DEFINE id == made[k].id
  <2>1. /\ both[n + 1 + k].role = "tool" /\ both[n + 1 + k].calls = <<>>
        /\ both[n + 1 + k].answers = {id}
    <3>1. both[n + 1 + k] = Talk!ToolResult(made[k].id)
      BY <1>1
    <3> HIDE DEF both
    <3> QED BY <3>1 DEF Talk!ToolResult, Talk!Message
  <2>2. id # <<>> /\ id \in Talk!Ids(made)
    BY <1>2 DEF Talk!Ids, Talk!ValidProposal
  <2>3. id \in Talk!ProposedBefore(both, n + 1 + k)
    <3>1. n + 1 \in 1..(n + 1 + k) - 1
      BY <1>2
    <3>2. both[n + 1].calls = made
      BY <1>1 DEF Talk!Assistant, Talk!Message
    <3> HIDE DEF both, id
    <3> QED BY <3>1, <3>2, <2>2 DEF Talk!ProposedBefore
  <2>4. ASSUME NEW m \in 1..(n + 1 + k) - 1 PROVE id \notin both[m].answers
    <3>1. CASE m \in 1..n
      <4>1. messages[m].answers \subseteq Talk!ProposedBefore(messages, n + 1)
        BY <3>1, <1>2, AnswersWereProposed
      <4>2. both[m] = messages[m]
        BY <3>1, <1>1
      <4> HIDE DEF both, id
      <4> QED BY <4>1, <4>2, <2>2
    <3>2. CASE m = n + 1
      BY <3>2, <1>1 DEF Talk!Assistant, Talk!Message
    <3>3. CASE m \in n + 2..n + k
      <4> DEFINE j == m - (n + 1)
      <4>1. j \in 1..k - 1 /\ j \in 1..c /\ n + 1 + j = m
        BY <3>3, <1>2
      <4>2. both[m].answers = {made[j].id}
        <5>1. both[n + 1 + j] = Talk!ToolResult(made[j].id)
          BY <4>1, <1>1
        <5> HIDE DEF both, j
        <5> QED BY <5>1, <4>1 DEF Talk!ToolResult, Talk!Message
      <4>3. made[j].id # made[k].id
        BY <4>1, <1>2
      <4> HIDE DEF both, j
      <4> QED BY <4>2, <4>3
    <3> QED BY <3>1, <3>2, <3>3, <1>2
  <2> HIDE DEF both, id
  <2>5. id \in Talk!OpenBefore(both, n + 1 + k)
    BY <2>3, <2>4 DEF Talk!OpenBefore
  <2> QED BY <2>1, <2>2, <2>5, Zenon DEF Talk!ValidMessage
<1>7. ASSUME NEW i \in DOMAIN both PROVE Talk!ValidMessage(both, i)
  <2>1. i \in 1..n + 1 + c
    BY <1>1
  <2>2. i \in 1..n \/ i = n + 1 \/ (i - (n + 1) \in 1..c /\ i = n + 1 + (i - (n + 1)))
    BY <2>1, <1>2
  <2> HIDE DEF both
  <2> QED BY <2>2, <1>4, <1>5, <1>6, Zenon
<1> HIDE DEF both
<1>8. Talk!ValidMessages(both)
  BY <1>7, Zenon DEF Talk!ValidMessages
<1> QED BY <1>8 DEF both

-------------------------------------------------------------------------------
\* Opens, Belongs and Joined for the fragments of any response, and a part of
\* each as a sequence.
OpensIn(response, i) ==
    IF response[i].index = -1 THEN i = 1 \/ response[i].hasId
    ELSE \A j \in 1..i - 1 : response[j].index # response[i].index

BelongsIn(response, i, first) ==
    IF response[i].index = -1
    THEN first <= i /\ \A j \in first + 1..i : ~OpensIn(response, j)
    ELSE response[i].index = response[first].index

Pieces(response, parts, first) ==
    [i \in 1..Len(response) |-> IF BelongsIn(response, i, first) THEN parts[i] ELSE <<>>]

IdsOf(response) == [i \in 1..Len(response) |-> response[i].id]
NamesOf(response) == [i \in 1..Len(response) |-> response[i].name]
ArgumentsOf(response) == [i \in 1..Len(response) |-> response[i].arguments]

\* The server numbers all fragments, or none.
Indexed(response) == \A i \in 1..Len(response) : response[i].index # -1
Unindexed(response) == \A i \in 1..Len(response) : response[i].index = -1

\* The openings o of the calls assembled.
OpensAt(response, made, o) ==
    /\ o \in [1..Len(made) -> 1..Len(response)]
    /\ \A k \in 1..Len(made) : \A j \in 1..k - 1 : o[j] < o[k]
    /\ \A i \in 1..Len(response) : OpensIn(response, i) <=> \E k \in 1..Len(made) : o[k] = i
    /\ Indexed(response) => \A k \in 1..Len(made) : made[k].index = response[o[k]].index

\* The call is what belongs to its opening, in order.
Joins(response, call, first) ==
    /\ call.id = Talk!FlattenSeq(Pieces(response, IdsOf(response), first))
    /\ call.name = Talk!FlattenSeq(Pieces(response, NamesOf(response), first))
    /\ call.arguments = Talk!FlattenSeq(Pieces(response, ArgumentsOf(response), first))

Assembles(response, made, o) ==
    /\ OpensAt(response, made, o)
    /\ \A k \in 1..Len(made) : Joins(response, made[k], o[k])

\* What comes later changes nothing for the fragments before it.
LEMMA AppendedOpens ==
    ASSUME NEW s \in Seq(WireToolCallOut), NEW f \in WireToolCallOut
    PROVE  LET t == Append(s, f)
               n == Len(s)
           IN  /\ t \in Seq(WireToolCallOut) /\ Len(t) = n + 1 /\ n \in Nat
               /\ t[n + 1] = f /\ \A i \in 1..n : t[i] = s[i]
               /\ \A i \in 1..n : OpensIn(t, i) <=> OpensIn(s, i)
               /\ \A i, p \in 1..n : BelongsIn(t, i, p) <=> BelongsIn(s, i, p)
<1> DEFINE t == Append(s, f)
<1> DEFINE n == Len(s)
<1>1. /\ t \in Seq(WireToolCallOut) /\ Len(t) = n + 1 /\ n \in Nat
      /\ t[n + 1] = f /\ \A i \in 1..n : t[i] = s[i]
  OBVIOUS
<1> HIDE DEF t
<1>2. ASSUME NEW i \in 1..n PROVE OpensIn(t, i) <=> OpensIn(s, i)
  <2>1. t[i] = s[i] /\ \A j \in 1..i - 1 : t[j] = s[j]
    BY <1>1
  <2> QED BY <2>1 DEF OpensIn
<1>3. ASSUME NEW i \in 1..n, NEW p \in 1..n PROVE BelongsIn(t, i, p) <=> BelongsIn(s, i, p)
  <2>1. t[i] = s[i] /\ t[p] = s[p] /\ \A j \in p + 1..i : j \in 1..n
    BY <1>1
  <2>2. \A j \in p + 1..i : OpensIn(t, j) <=> OpensIn(s, j)
    BY <2>1, <1>2
  <2> QED BY <2>1, <2>2, Zenon DEF BelongsIn
<1> QED BY <1>1, <1>2, <1>3 DEF t

\* "more" is "parts" with x behind it.
Prolongs(more, parts, n, x) ==
    (\A i \in 1..n : parts[i] \in Text /\ more[i] = parts[i]) /\ more[n + 1] = x

\* What the fragment f adds to the call that p opens.
Added(s, f, p, x) == IF BelongsIn(Append(s, f), Len(s) + 1, p) THEN x ELSE <<>>

\* What the pieces of an old opening give, with one more fragment.
LEMMA PiecesGrow ==
    ASSUME NEW s \in Seq(WireToolCallOut), NEW f \in WireToolCallOut,
           NEW parts, NEW more, NEW x \in Text, NEW p \in 1..Len(s),
           Prolongs(more, parts, Len(s), x)
    PROVE  /\ Talk!FlattenSeq(Pieces(s, parts, p)) \in Text
           /\ Talk!FlattenSeq(Pieces(Append(s, f), more, p))
                = Talk!FlattenSeq(Pieces(s, parts, p)) \o Added(s, f, p, x)
<1> DEFINE t == Append(s, f)
<1> DEFINE n == Len(s)
<1> DEFINE last == IF BelongsIn(t, n + 1, p) THEN x ELSE <<>>
<1>1. /\ Len(t) = n + 1 /\ n \in Nat
      /\ \A i \in 1..n : BelongsIn(t, i, p) <=> BelongsIn(s, i, p)
  BY AppendedOpens
<1>0. (\A i \in 1..n : parts[i] \in Text /\ more[i] = parts[i]) /\ more[n + 1] = x
  BY DEF Prolongs
<1> HIDE DEF t
<1>2. last \in Text /\ <<>> \in Text
  <2>1. <<>> \in Text
    BY DEF Text
  <2> QED BY <2>1, Zenon
<1>3. Pieces(s, parts, p) \in Seq(Text)
  BY <1>0, <1>1, <1>2 DEF Pieces
<1>4. Pieces(t, more, p) = Append(Pieces(s, parts, p), last)
  <2> DEFINE a == Pieces(s, parts, p)
  <2>1. Len(a) = n /\ \A i \in 1..n : a[i] = IF BelongsIn(s, i, p) THEN parts[i] ELSE <<>>
    BY <1>1 DEF Pieces
  <2>2. Append(a, last) = [i \in 1..n + 1 |-> IF i = n + 1 THEN last ELSE a[i]]
    <3>1. a \in Seq(Text) /\ Len(a) = n /\ last \in Text
      BY <1>2, <1>3, <2>1
    <3> HIDE DEF a, last
    <3> DEFINE b == Append(a, last)
    <3>2. /\ b \in Seq(Text) /\ Len(b) = n + 1 /\ b[n + 1] = last /\ n \in Nat
          /\ \A i \in 1..n : b[i] = a[i]
      BY <3>1
    <3> HIDE DEF b
    <3>3. b = [i \in 1..n + 1 |-> b[i]]
      BY <3>2
    <3>4. \A i \in 1..n + 1 : b[i] = IF i = n + 1 THEN last ELSE a[i]
      BY <3>2
    <3> QED BY <3>3, <3>4 DEF b
  <2>3. \A i \in 1..n + 1 : (IF BelongsIn(t, i, p) THEN more[i] ELSE <<>>)
                             = IF i = n + 1 THEN last ELSE a[i]
    <3> SUFFICES ASSUME NEW i \in 1..n + 1
                 PROVE  (IF BelongsIn(t, i, p) THEN more[i] ELSE <<>>)
                          = IF i = n + 1 THEN last ELSE a[i]
      OBVIOUS
    <3>1. CASE i = n + 1
      BY <3>1, <1>0
    <3>2. CASE i # n + 1
      <4>1. i \in 1..n
        BY <3>2, <1>1
      <4> HIDE DEF a
      <4> QED BY <4>1, <3>2, <2>1, <1>0, <1>1, Zenon
    <3> QED BY <3>1, <3>2
  <2> HIDE DEF a, last
  <2> QED BY <2>2, <2>3, <1>1, Zenon DEF Pieces, a
<1> HIDE DEF last
<1> DEFINE a == Pieces(s, parts, p)
<1>5. a \in Seq(Seq(STRING)) /\ last \in Seq(STRING)
  BY <1>2, <1>3 DEF Text
<1> HIDE DEF a
<1>6. /\ Talk!FlattenSeq(a) \in Seq(STRING)
      /\ Talk!FlattenSeq(Append(a, last)) = Talk!FlattenSeq(a) \o last
  BY <1>5, FlattenGrows, Zenon
<1> QED BY <1>4, <1>6, Zenon DEF a, last, t, Text, Added

\* What the pieces of an opening give that is new.
LEMMA PiecesOpen ==
    ASSUME NEW s \in Seq(WireToolCallOut), NEW f \in WireToolCallOut,
           NEW more, NEW x \in Text, more[Len(s) + 1] = x,
           OpensIn(Append(s, f), Len(s) + 1)
    PROVE  Talk!FlattenSeq(Pieces(Append(s, f), more, Len(s) + 1)) = x
<1> DEFINE t == Append(s, f)
<1> DEFINE n == Len(s)
<1> DEFINE none == [i \in 1..n |-> <<>>]
<1>1. /\ Len(t) = n + 1 /\ n \in Nat /\ t \in Seq(WireToolCallOut)
      /\ t[n + 1] = f /\ \A i \in 1..n : t[i] = s[i]
  BY AppendedOpens
<1>0. OpensIn(t, n + 1)
  OBVIOUS
<1> HIDE DEF t
<1>2. \A i \in 1..n : ~BelongsIn(t, i, n + 1) \/ (f.index = -1 /\ t[i].index # -1)
  <2> SUFFICES ASSUME NEW i \in 1..n
               PROVE  ~BelongsIn(t, i, n + 1) \/ (f.index = -1 /\ t[i].index # -1)
    OBVIOUS
  <2>1. CASE t[i].index = -1
    <3>1. ~(n + 1 <= i)
      BY <1>1
    <3> QED BY <2>1, <3>1 DEF BelongsIn
  <2>2. CASE t[i].index # -1 /\ f.index # -1
    <3>1. i \in 1..(n + 1) - 1
      BY <1>1
    <3>2. t[i].index # t[n + 1].index
      BY <1>0, <1>1, <2>2, <3>1 DEF OpensIn
    <3> QED BY <3>2, <2>2 DEF BelongsIn
  <2> QED BY <2>1, <2>2
<1>3. \A i \in 1..n : ~BelongsIn(t, i, n + 1)
  <2> SUFFICES ASSUME NEW i \in 1..n, BelongsIn(t, i, n + 1) PROVE FALSE
    OBVIOUS
  <2>1. f.index = -1 /\ t[i].index # -1
    BY <1>2
  <2> QED BY <2>1, <1>1 DEF BelongsIn
<1>4. BelongsIn(t, n + 1, n + 1)
  <2>1. n + 1 <= n + 1 /\ \A j \in (n + 1) + 1..n + 1 : FALSE
    BY <1>1
  <2> QED BY <2>1, Zenon DEF BelongsIn
<1>5. none \in Seq(Seq(STRING)) /\ Talk!FlattenSeq(none) = <<>>
  <2>1. n \in Nat
    BY <1>1
  <2> QED BY <2>1, FlattenOfNothing
<1>6. Pieces(t, more, n + 1) = Append(none, x)
  <2>1. Append(none, x) = [i \in 1..n + 1 |-> IF i = n + 1 THEN x ELSE <<>>]
    BY <1>1, <1>5
  <2>2. \A i \in 1..n + 1 : (IF BelongsIn(t, i, n + 1) THEN more[i] ELSE <<>>)
                             = IF i = n + 1 THEN x ELSE <<>>
    <3> SUFFICES ASSUME NEW i \in 1..n + 1
                 PROVE  (IF BelongsIn(t, i, n + 1) THEN more[i] ELSE <<>>)
                          = IF i = n + 1 THEN x ELSE <<>>
      OBVIOUS
    <3>1. i # n + 1 => i \in 1..n
      BY <1>1
    <3> QED BY <3>1, <1>3, <1>4, Zenon
  <2> HIDE DEF none
  <2> QED BY <2>1, <2>2, <1>1, Zenon DEF Pieces
<1> HIDE DEF none
<1>7. Talk!FlattenSeq(Append(none, x)) = Talk!FlattenSeq(none) \o x
  BY <1>5, FlattenGrows, Zenon DEF Text
<1>8. <<>> \o x = x
  BY DEF Text
<1> QED BY <1>5, <1>6, <1>7, <1>8, Zenon DEF t

\* The call a fragment is added to is the one whose opening it belongs to.
Finds(s, f, made, o) ==
    LET t == Append(s, f)
        slot == Talk!SlotOf(made, f)
    IN  /\ slot \in 0..Len(made)
        /\ slot = 0 <=> OpensIn(t, Len(s) + 1)
        /\ \A k \in 1..Len(made) : BelongsIn(t, Len(s) + 1, o[k]) <=> k = slot

\* With indexes: a fragment opens a call exactly if no call has its index, and
\* two calls never have the same.
LEMMA FindsByIndex ==
    ASSUME NEW s \in Seq(WireToolCallOut), NEW f \in WireToolCallOut,
           NEW c \in Seq(AssembledCall), NEW o, OpensAt(s, c, o), Indexed(Append(s, f))
    PROVE  Finds(s, f, c, o)
<1> DEFINE t == Append(s, f)
<1> DEFINE n == Len(s)
<1> DEFINE slot == Talk!SlotOf(c, f)
<1>1. /\ Len(t) = n + 1 /\ n \in Nat /\ t[n + 1] = f /\ \A i \in 1..n : t[i] = s[i]
      /\ \A i \in 1..n : OpensIn(t, i) <=> OpensIn(s, i)
  BY AppendedOpens, Zenon
<1>2. \A i \in 1..n + 1 : t[i].index # -1
  BY <1>1 DEF Indexed
<1> HIDE DEF t
<1>3. f.index # -1 /\ \A i \in 1..n : s[i].index # -1 /\ i \in 1..n + 1
  <2>1. n + 1 \in 1..n + 1 /\ \A i \in 1..n : i \in 1..n + 1
    BY <1>1
  <2> QED BY <1>1, <1>2, <2>1
<1>4. /\ DOMAIN c = 1..Len(c) /\ Len(c) \in Nat
      /\ \A k \in 1..Len(c) : o[k] \in 1..n /\ c[k].index = s[o[k]].index
      /\ \A i \in 1..n : OpensIn(s, i) <=> \E k \in 1..Len(c) : o[k] = i
  BY <1>3 DEF OpensAt, Indexed
<1>5. /\ slot \in 0..Len(c)
      /\ (\E k \in 1..Len(c) : c[k].index = f.index) => slot # 0 /\ c[slot].index = f.index
      /\ (\A k \in 1..Len(c) : c[k].index # f.index) => slot = 0
  BY <1>3, <1>4, SlotIsFirst
<1> HIDE DEF slot
<1>6. OpensIn(t, n + 1) <=> \A j \in 1..n : s[j].index # f.index
  <2>1. (n + 1) - 1 = n
    BY <1>1
  <2>2. t[n + 1].index # -1
    BY <1>1, <1>3
  <2>3. OpensIn(t, n + 1) <=> \A j \in 1..n : t[j].index # t[n + 1].index
    BY <2>1, <2>2, Zenon DEF OpensIn
  <2> QED BY <2>3, <1>1
<1>7. slot = 0 <=> OpensIn(t, n + 1)
  <2>1. ASSUME slot = 0, ~OpensIn(t, n + 1) PROVE FALSE
    <3> DEFINE J == {j \in 1..n : s[j].index = f.index}
    <3>1. J # {} /\ J \in SUBSET Nat
      BY <1>1, <1>6, <2>1
    <3>2. PICK m \in J : \A j \in J : m <= j
      <4> HIDE DEF J
      <4> QED BY <3>1, LeastExists
    <3>3. m \in 1..n /\ s[m].index = f.index /\ \A j \in 1..m - 1 : s[j].index # f.index
      BY <3>2, <1>1
    <3>4. OpensIn(s, m)
      BY <3>3, <1>3 DEF OpensIn
    <3>5. PICK k \in 1..Len(c) : o[k] = m
      BY <3>3, <3>4, <1>4
    <3> QED BY <3>3, <3>5, <1>4, <1>5, <2>1
  <2>2. ASSUME slot # 0 PROVE ~OpensIn(t, n + 1)
    <3>1. slot \in 1..Len(c) /\ c[slot].index = f.index
      BY <1>4, <1>5, <2>2
    <3> QED BY <3>1, <1>4, <1>6
  <2> QED BY <2>1, <2>2
<1>8. ASSUME NEW k \in 1..Len(c) PROVE BelongsIn(t, n + 1, o[k]) <=> k = slot
  <2>1. BelongsIn(t, n + 1, o[k]) <=> f.index = c[k].index
    <3>1. t[n + 1].index # -1 /\ t[o[k]] = s[o[k]]
      BY <1>1, <1>3, <1>4
    <3>2. BelongsIn(t, n + 1, o[k]) <=> t[n + 1].index = t[o[k]].index
      BY <3>1, Zenon DEF BelongsIn
    <3> QED BY <3>1, <3>2, <1>1, <1>4
  <2>2. ASSUME NEW a \in 1..Len(c), NEW b \in 1..Len(c), a < b
        PROVE  c[a].index # c[b].index
    <3>1. o[a] < o[b] /\ o[a] \in 1..n /\ o[b] \in 1..n
      <4>1. a \in 1..b - 1
        BY <2>2
      <4> QED BY <4>1, <1>4 DEF OpensAt
    <3>2. OpensIn(s, o[b]) /\ o[a] \in 1..o[b] - 1
      BY <3>1, <1>4
    <3>3. s[o[a]].index # s[o[b]].index
      BY <3>1, <3>2, <1>3 DEF OpensIn
    <3> QED BY <3>3, <1>4
  <2>3. k = slot => f.index = c[k].index
    BY <1>5
  <2>4. ASSUME f.index = c[k].index PROVE k = slot
    <3>1. slot \in 1..Len(c) /\ c[slot].index = f.index
      BY <1>4, <1>5, <2>4
    <3> QED BY <3>1, <2>2, <2>4
  <2> QED BY <2>1, <2>3, <2>4
<1> QED BY <1>5, <1>7, <1>8, Zenon DEF Finds, t, slot

\* Without: a fragment opens a call if it has an identifier, and else belongs to
\* the one that was opened last.
LEMMA FindsTheLast ==
    ASSUME NEW s \in Seq(WireToolCallOut), NEW f \in WireToolCallOut,
           NEW c \in Seq(AssembledCall), NEW o, OpensAt(s, c, o), Unindexed(Append(s, f))
    PROVE  Finds(s, f, c, o)
<1> DEFINE t == Append(s, f)
<1> DEFINE n == Len(s)
<1> DEFINE slot == Talk!SlotOf(c, f)
<1>1. /\ Len(t) = n + 1 /\ n \in Nat /\ t[n + 1] = f /\ \A i \in 1..n : t[i] = s[i]
      /\ \A i \in 1..n : OpensIn(t, i) <=> OpensIn(s, i)
  BY AppendedOpens, Zenon
<1>2. \A i \in 1..n + 1 : t[i].index = -1
  BY <1>1 DEF Unindexed
<1> HIDE DEF t
<1>3. f.index = -1 /\ \A i \in 1..n : s[i].index = -1 /\ i \in 1..n + 1
  <2>1. n + 1 \in 1..n + 1 /\ \A i \in 1..n : i \in 1..n + 1
    BY <1>1
  <2> QED BY <1>1, <1>2, <2>1
<1>4. /\ DOMAIN c = 1..Len(c) /\ Len(c) \in Nat /\ f.hasId \in BOOLEAN
      /\ \A k \in 1..Len(c) : o[k] \in 1..n /\ c[k].index \in Nat
      /\ \A k \in 1..Len(c) : \A j \in 1..k - 1 : o[j] < o[k]
      /\ \A i \in 1..n : OpensIn(s, i) <=> \E k \in 1..Len(c) : o[k] = i
  <2>1. f.hasId \in BOOLEAN
    BY DEF WireToolCallOut
  <2>2. DOMAIN c = 1..Len(c) /\ Len(c) \in Nat /\ \A k \in 1..Len(c) : c[k].index \in Nat
    <3>1. \A k \in 1..Len(c) : c[k] \in AssembledCall
      OBVIOUS
    <3> QED BY <3>1 DEF AssembledCall
  <2>3. /\ \A k \in 1..Len(c) : o[k] \in 1..n
        /\ \A k \in 1..Len(c) : \A j \in 1..k - 1 : o[j] < o[k]
        /\ \A i \in 1..n : OpensIn(s, i) <=> \E k \in 1..Len(c) : o[k] = i
    BY DEF OpensAt
  <2> QED BY <2>1, <2>2, <2>3
<1>5. /\ slot \in 0..Len(c)
      /\ slot = IF ~f.hasId /\ Len(c) # 0 THEN Len(c) ELSE 0
  <2>1. \A k \in 1..Len(c) : c[k].index # f.index
    BY <1>3, <1>4
  <2>2. c # <<>> <=> Len(c) # 0
    OBVIOUS
  <2> QED BY <2>1, <2>2, <1>3, <1>4, SlotIsFirst
<1> HIDE DEF slot
<1>6. Len(c) = 0 <=> n = 0
  <2>1. n # 0 => OpensIn(s, 1) /\ 1 \in 1..n
    BY <1>1, <1>3 DEF OpensIn
  <2>2. n # 0 => \E k \in 1..Len(c) : o[k] = 1
    BY <2>1, <1>4
  <2>3. Len(c) # 0 => o[Len(c)] \in 1..n
    BY <1>4
  <2> QED BY <2>2, <2>3, <1>1, <1>4
<1>7. OpensIn(t, n + 1) <=> (n = 0 \/ f.hasId)
  <2>1. t[n + 1].index = -1 /\ t[n + 1] = f /\ (n + 1 = 1 <=> n = 0)
    BY <1>1, <1>3
  <2>2. OpensIn(t, n + 1) <=> (n + 1 = 1 \/ t[n + 1].hasId)
    BY <2>1, Zenon DEF OpensIn
  <2> QED BY <2>1, <2>2
<1>8. slot = 0 <=> OpensIn(t, n + 1)
  BY <1>4, <1>5, <1>6, <1>7
<1>9. ASSUME NEW k \in 1..Len(c) PROVE BelongsIn(t, n + 1, o[k]) <=> k = slot
  <2>1. BelongsIn(t, n + 1, o[k])
          <=> (o[k] <= n + 1 /\ \A j \in o[k] + 1..n + 1 : ~OpensIn(t, j))
    <3>1. t[n + 1].index = -1
      BY <1>1, <1>3
    <3> QED BY <3>1, Zenon DEF BelongsIn
  <2>2. o[k] \in 1..n /\ o[k] <= n + 1 /\ n + 1 \in o[k] + 1..n + 1
    BY <1>1, <1>4
  <2>3. CASE OpensIn(t, n + 1)
    BY <2>1, <2>2, <2>3, <1>8
  <2>4. CASE ~OpensIn(t, n + 1)
    <3>1. slot = Len(c)
      BY <1>5, <1>8, <2>4
    <3>2. CASE k = Len(c)
      <4>1. ASSUME NEW j \in o[k] + 1..n + 1, OpensIn(t, j) PROVE FALSE
        <5>1. j # n + 1
          BY <4>1, <2>4
        <5>2. j \in 1..n /\ o[k] < j
          BY <5>1, <2>2, <1>1
        <5>3. PICK i \in 1..Len(c) : o[i] = j
          BY <5>2, <4>1, <1>1, <1>4
        <5>4. i = k \/ i \in 1..k - 1
          BY <3>2, <1>4
        <5> QED BY <5>2, <5>3, <5>4, <1>4
      <4> QED BY <2>1, <2>2, <4>1, <3>1, <3>2
    <3>3. CASE k # Len(c)
      <4>1. Len(c) \in 1..Len(c) /\ k \in 1..Len(c) - 1
        <5>1. Len(c) \in Nat
          OBVIOUS
        <5>2. k \in Nat /\ 1 <= k /\ k <= Len(c)
          BY <5>1
        <5> QED BY <5>1, <5>2, <3>3
      <4>2. o[Len(c)] \in 1..n /\ o[k] < o[Len(c)]
        BY <4>1, <1>4
      <4>3. o[Len(c)] \in o[k] + 1..n + 1
        BY <4>2, <2>2, <1>1
      <4>4. OpensIn(t, o[Len(c)])
        BY <4>1, <4>2, <1>1, <1>4
      <4> QED BY <2>1, <4>3, <4>4, <3>1, <3>3
    <3> QED BY <3>2, <3>3
  <2> QED BY <2>3, <2>4
<1> QED BY <1>5, <1>8, <1>9, Zenon DEF Finds, t, slot

\* They differ in nothing but their index.
SameCall(call, other) ==
    /\ call.id = other.id /\ call.name = other.name /\ call.arguments = other.arguments

\* What feed does to the calls, by the slot it finds.
LEMMA FeedGives ==
    ASSUME NEW c \in Seq(AssembledCall), NEW f \in WireToolCallOut
    PROVE  LET d == Talk!Feed(c, f)
               slot == Talk!SlotOf(c, f)
           IN  /\ d \in Seq(AssembledCall)
               /\ slot = 0 =>
                    /\ Len(d) = Len(c) + 1
                    /\ \A k \in 1..Len(c) : d[k] = c[k]
                    /\ SameCall(d[Len(c) + 1], f)
                    /\ f.index # -1 => d[Len(c) + 1].index = f.index
               /\ slot # 0 =>
                    /\ Len(d) = Len(c)
                    /\ \A k \in 1..Len(c) : k # slot => d[k] = c[k]
                    /\ d[slot] = Talk!Extend(c[slot], f)
<1> DEFINE d == Talk!Feed(c, f)
<1> DEFINE slot == Talk!SlotOf(c, f)
<1>1. /\ f.index \in Nat \cup {-1} /\ f.id \in Text /\ f.name \in Text /\ f.arguments \in Text
  BY DEF WireToolCallOut
<1>2. slot \in 0..Len(c) /\ Len(c) \in Nat
  BY SlotIsFirst
<1>3. \A a, b \in Text : a \o b \in Text
  BY DEF Text
<1>4. \A a \in Text : <<>> \o a = a
  BY DEF Text
<1>5. CASE slot = 0
  <2> DEFINE new == [index |-> IF f.index = -1 THEN Len(c) ELSE f.index,
                     id |-> f.id, name |-> f.name, arguments |-> f.arguments]
  <2>1. new \in AssembledCall
    BY <1>1, <1>2 DEF AssembledCall
  <2>2. d = Append(c, new)
    <3>1. d = Talk!Begin(c, f)
      BY <1>5 DEF Talk!Feed
    <3>2. /\ <<>> \o f.id = f.id /\ <<>> \o f.name = f.name
          /\ <<>> \o f.arguments = f.arguments
      BY <1>1, <1>4
    <3> HIDE DEF d
    <3> QED BY <3>1, <3>2, Zenon DEF Talk!Begin, Talk!Extend, Talk!NoIndex, new
  <2>3. SameCall(new, f) /\ (f.index # -1 => new.index = f.index)
    BY DEF SameCall
  <2> HIDE DEF d, new
  <2>4. /\ d \in Seq(AssembledCall) /\ Len(d) = Len(c) + 1
        /\ \A k \in 1..Len(c) : d[k] = c[k]
        /\ d[Len(c) + 1] = new
    BY <2>1, <2>2
  <2>5. SameCall(d[Len(c) + 1], f) /\ (f.index # -1 => d[Len(c) + 1].index = f.index)
    BY <2>3, <2>4, Zenon
  <2> QED BY <2>4, <2>5, <1>5 DEF d
<1>6. CASE slot # 0
  <2> HIDE DEF slot
  <2>1. slot \in DOMAIN c
    BY <1>2, <1>6
  <2>2. d = [c EXCEPT ![slot] = Talk!Extend(c[slot], f)]
    BY <1>6 DEF Talk!Feed, slot
  <2>3. Talk!Extend(c[slot], f) \in AssembledCall
    <3>1. c[slot] \in AssembledCall
      BY <2>1
    <3> QED BY <3>1, <1>1, <1>3 DEF Talk!Extend, AssembledCall
  <2> HIDE DEF d
  <2>4. /\ d \in Seq(AssembledCall) /\ Len(d) = Len(c)
        /\ \A k \in 1..Len(c) : k # slot => d[k] = c[k]
        /\ d[slot] = Talk!Extend(c[slot], f)
    BY <2>1, <2>2, <2>3
  <2> QED BY <2>4, <1>6 DEF d, slot
<1> QED BY <1>5, <1>6

\* A call stays what belongs to its opening when the fragment is added to it, or
\* when the fragment belongs to another.
LEMMA JoinsGrow ==
    ASSUME NEW s \in Seq(WireToolCallOut), NEW f \in WireToolCallOut, NEW p \in 1..Len(s),
           NEW call, Joins(s, call, p), NEW next,
           SameCall(next, IF BelongsIn(Append(s, f), Len(s) + 1, p) THEN Talk!Extend(call, f)
                          ELSE call),
           call \in AssembledCall
    PROVE  Joins(Append(s, f), next, p)
<1> DEFINE t == Append(s, f)
<1> DEFINE n == Len(s)
<1>1. /\ t \in Seq(WireToolCallOut) /\ Len(t) = n + 1 /\ n \in Nat
      /\ t[n + 1] = f /\ \A i \in 1..n : t[i] = s[i]
  BY AppendedOpens, Zenon
<1>0. SameCall(next, IF BelongsIn(t, n + 1, p) THEN Talk!Extend(call, f) ELSE call)
  OBVIOUS
<1> HIDE DEF t
<1>2. /\ f.id \in Text /\ f.name \in Text /\ f.arguments \in Text
      /\ \A i \in 1..n : s[i].id \in Text /\ s[i].name \in Text /\ s[i].arguments \in Text
  <2>1. \A i \in 1..n : s[i] \in WireToolCallOut
    OBVIOUS
  <2> QED BY <2>1 DEF WireToolCallOut
<1>3. /\ call.id \in Text /\ call.name \in Text /\ call.arguments \in Text
      /\ \A a \in Text : a \o <<>> = a
  <2>1. \A a \in Text : a \o <<>> = a
    BY DEF Text
  <2> QED BY <2>1 DEF AssembledCall
<1>4. Talk!FlattenSeq(Pieces(t, IdsOf(t), p)) = call.id \o Added(s, f, p, f.id)
  <2>1. Prolongs(IdsOf(t), IdsOf(s), n, f.id)
    BY <1>1, <1>2 DEF IdsOf, Prolongs
  <2>2. Talk!FlattenSeq(Pieces(s, IdsOf(s), p)) = call.id
    BY DEF Joins
  <2>3. f.id \in Text
    BY <1>2
  <2>4. Talk!FlattenSeq(Pieces(t, IdsOf(t), p))
          = Talk!FlattenSeq(Pieces(s, IdsOf(s), p)) \o Added(s, f, p, f.id)
    BY <2>1, <2>3, PiecesGrow, SMT DEF t
  <2> QED BY <2>2, <2>4, Zenon
<1>5. Talk!FlattenSeq(Pieces(t, NamesOf(t), p)) = call.name \o Added(s, f, p, f.name)
  <2>1. Prolongs(NamesOf(t), NamesOf(s), n, f.name)
    BY <1>1, <1>2 DEF NamesOf, Prolongs
  <2>2. Talk!FlattenSeq(Pieces(s, NamesOf(s), p)) = call.name
    BY DEF Joins
  <2>3. f.name \in Text
    BY <1>2
  <2>4. Talk!FlattenSeq(Pieces(t, NamesOf(t), p))
          = Talk!FlattenSeq(Pieces(s, NamesOf(s), p)) \o Added(s, f, p, f.name)
    BY <2>1, <2>3, PiecesGrow, SMT DEF t
  <2> QED BY <2>2, <2>4, Zenon
<1>6. Talk!FlattenSeq(Pieces(t, ArgumentsOf(t), p)) = call.arguments \o Added(s, f, p, f.arguments)
  <2>1. Prolongs(ArgumentsOf(t), ArgumentsOf(s), n, f.arguments)
    BY <1>1, <1>2 DEF ArgumentsOf, Prolongs
  <2>2. Talk!FlattenSeq(Pieces(s, ArgumentsOf(s), p)) = call.arguments
    BY DEF Joins
  <2>3. f.arguments \in Text
    BY <1>2
  <2>4. Talk!FlattenSeq(Pieces(t, ArgumentsOf(t), p))
          = Talk!FlattenSeq(Pieces(s, ArgumentsOf(s), p)) \o Added(s, f, p, f.arguments)
    BY <2>1, <2>3, PiecesGrow, SMT DEF t
  <2> QED BY <2>2, <2>4, Zenon
<1>7. Joins(t, next, p)
  <2>0. \A x : Added(s, f, p, x) = IF BelongsIn(t, n + 1, p) THEN x ELSE <<>>
    BY DEF Added, t
  <2>1. CASE BelongsIn(t, n + 1, p)
    <3>1. SameCall(next, Talk!Extend(call, f))
      BY <2>1, <1>0
    <3>2. /\ next.id = call.id \o f.id /\ next.name = call.name \o f.name
          /\ next.arguments = call.arguments \o f.arguments
      BY <3>1 DEF SameCall, Talk!Extend, AssembledCall
    <3>3. /\ Added(s, f, p, f.id) = f.id /\ Added(s, f, p, f.name) = f.name
          /\ Added(s, f, p, f.arguments) = f.arguments
      BY <2>0, <2>1
    <3> QED BY <3>2, <3>3, <1>4, <1>5, <1>6, Zenon DEF Joins
  <2>2. CASE ~BelongsIn(t, n + 1, p)
    <3>1. SameCall(next, call)
      BY <2>2, <1>0
    <3>2. /\ Added(s, f, p, f.id) = <<>> /\ Added(s, f, p, f.name) = <<>>
          /\ Added(s, f, p, f.arguments) = <<>>
      BY <2>0, <2>2
    <3> QED BY <3>1, <3>2, <1>3, <1>4, <1>5, <1>6, Zenon DEF Joins, SameCall
  <2> QED BY <2>1, <2>2
<1> QED BY <1>7 DEF t

\* The fragment that opens a call is all of it.
LEMMA JoinsOpen ==
    ASSUME NEW s \in Seq(WireToolCallOut), NEW f \in WireToolCallOut,
           OpensIn(Append(s, f), Len(s) + 1), NEW next, SameCall(next, f)
    PROVE  Joins(Append(s, f), next, Len(s) + 1)
<1> DEFINE t == Append(s, f)
<1> DEFINE n == Len(s)
<1>1. Len(t) = n + 1 /\ n \in Nat /\ t[n + 1] = f
  BY AppendedOpens, Zenon
<1> HIDE DEF t
<1>2. f.id \in Text /\ f.name \in Text /\ f.arguments \in Text
  BY DEF WireToolCallOut
<1>3. /\ IdsOf(t)[n + 1] = f.id /\ NamesOf(t)[n + 1] = f.name
      /\ ArgumentsOf(t)[n + 1] = f.arguments
  BY <1>1 DEF IdsOf, NamesOf, ArgumentsOf
<1>4. Talk!FlattenSeq(Pieces(t, IdsOf(t), n + 1)) = f.id
  BY <1>2, <1>3, PiecesOpen DEF t
<1>5. Talk!FlattenSeq(Pieces(t, NamesOf(t), n + 1)) = f.name
  BY <1>2, <1>3, PiecesOpen DEF t
<1>6. Talk!FlattenSeq(Pieces(t, ArgumentsOf(t), n + 1)) = f.arguments
  BY <1>2, <1>3, PiecesOpen DEF t
<1>7. Joins(t, next, n + 1)
  BY <1>4, <1>5, <1>6, Zenon DEF Joins, SameCall
<1> QED BY <1>7 DEF t

\* Uniform, for the fragments of any response.
UniformIn(s) == \A i, j \in DOMAIN s : (s[i].index = -1) = (s[j].index = -1)

LEMMA UniformModes ==
    ASSUME NEW s \in Seq(WireToolCallOut), UniformIn(s)
    PROVE  Indexed(s) \/ Unindexed(s)
<1>1. DOMAIN s = 1..Len(s)
  OBVIOUS
<1> QED BY <1>1, Zenon DEF UniformIn, Indexed, Unindexed

LEMMA UniformShrinks ==
    ASSUME NEW s \in Seq(WireToolCallOut), NEW f \in WireToolCallOut, UniformIn(Append(s, f))
    PROVE  UniformIn(s)
<1>1. \A i \in DOMAIN s : i \in DOMAIN Append(s, f) /\ Append(s, f)[i] = s[i]
  OBVIOUS
<1> QED BY <1>1 DEF UniformIn

LEMMA FeedFinds ==
    ASSUME NEW s \in Seq(WireToolCallOut), NEW f \in WireToolCallOut,
           NEW c \in Seq(AssembledCall), NEW o, Assembles(s, c, o), UniformIn(Append(s, f))
    PROVE  Finds(s, f, c, o)
<1>1. Append(s, f) \in Seq(WireToolCallOut)
  OBVIOUS
<1>2. Indexed(Append(s, f)) \/ Unindexed(Append(s, f))
  BY <1>1, UniformModes
<1>3. OpensAt(s, c, o)
  BY DEF Assembles
<1> QED BY <1>2, <1>3, FindsByIndex, FindsTheLast, Zenon

\* A fragment that continues a call opens nothing.
LEMMA FeedContinues ==
    ASSUME NEW s \in Seq(WireToolCallOut), NEW f \in WireToolCallOut,
           NEW c \in Seq(AssembledCall), NEW o, Assembles(s, c, o), Finds(s, f, c, o),
           Talk!SlotOf(c, f) # 0
    PROVE  Assembles(Append(s, f), Talk!Feed(c, f), o)
<1> DEFINE t == Append(s, f)
<1> DEFINE d == Talk!Feed(c, f)
<1> DEFINE n == Len(s)
<1> DEFINE slot == Talk!SlotOf(c, f)
<1>1. /\ Len(t) = n + 1 /\ n \in Nat /\ t[n + 1] = f /\ \A i \in 1..n : t[i] = s[i]
      /\ \A i \in 1..n : OpensIn(t, i) <=> OpensIn(s, i)
  BY AppendedOpens, Zenon
<1>2. /\ d \in Seq(AssembledCall) /\ Len(d) = Len(c)
      /\ \A k \in 1..Len(c) : k # slot => d[k] = c[k]
      /\ d[slot] = Talk!Extend(c[slot], f)
  BY FeedGives
<1>3. /\ slot \in 1..Len(c) /\ ~OpensIn(t, n + 1)
      /\ \A k \in 1..Len(c) : BelongsIn(t, n + 1, o[k]) <=> k = slot
  <2>1. Len(c) \in Nat
    OBVIOUS
  <2> QED BY <2>1 DEF Finds
<1>4. /\ o \in [1..Len(c) -> 1..n]
      /\ \A k \in 1..Len(c) : \A j \in 1..k - 1 : o[j] < o[k]
      /\ \A i \in 1..n : OpensIn(s, i) <=> \E k \in 1..Len(c) : o[k] = i
      /\ Indexed(s) => \A k \in 1..Len(c) : c[k].index = s[o[k]].index
      /\ \A k \in 1..Len(c) : Joins(s, c[k], o[k])
  BY DEF Assembles, OpensAt
<1>5. \A k \in 1..Len(c) : c[k] \in AssembledCall
  OBVIOUS
<1>6. ASSUME NEW k \in 1..Len(c) PROVE d[k].index = c[k].index
  BY <1>2, <1>5 DEF Talk!Extend
<1>7. ASSUME NEW k \in 1..Len(c) PROVE Joins(t, d[k], o[k])
  <2>1. SameCall(d[k], IF BelongsIn(t, n + 1, o[k]) THEN Talk!Extend(c[k], f) ELSE c[k])
    <3> HIDE DEF d, t, slot
    <3>1. CASE k = slot
      BY <3>1, <1>2, <1>3, Zenon DEF SameCall
    <3>2. CASE k # slot
      BY <3>2, <1>2, <1>3, Zenon DEF SameCall
    <3> QED BY <3>1, <3>2
  <2>2. o[k] \in 1..Len(s) /\ Joins(s, c[k], o[k])
    BY <1>4
  <2> HIDE DEF d
  <2> QED BY <2>1, <2>2, <1>5, JoinsGrow, Zenon
<1> HIDE DEF t, d
<1>8. OpensAt(t, d, o)
  <2>1. o \in [1..Len(d) -> 1..Len(t)]
    BY <1>1, <1>2, <1>4
  <2>2. \A i \in 1..Len(t) : OpensIn(t, i) <=> \E k \in 1..Len(d) : o[k] = i
    <3> SUFFICES ASSUME NEW i \in 1..n + 1
                 PROVE  OpensIn(t, i) <=> \E k \in 1..Len(c) : o[k] = i
      BY <1>1, <1>2
    <3>1. CASE i = n + 1
      <4>1. \A k \in 1..Len(c) : o[k] # i
        BY <3>1, <1>1, <1>4
      <4> QED BY <4>1, <3>1, <1>3
    <3>2. CASE i # n + 1
      <4>1. i \in 1..n
        BY <3>2, <1>1
      <4> QED BY <4>1, <1>1, <1>4
    <3> QED BY <3>1, <3>2
  <2>3. ASSUME Indexed(t), NEW k \in 1..Len(d) PROVE d[k].index = t[o[k]].index
    <3>1. \A i \in 1..n : s[i].index # -1
      <4>1. \A i \in 1..n : i \in 1..n + 1
        BY <1>1
      <4> QED BY <4>1, <2>3, <1>1 DEF Indexed
    <3>2. c[k].index = s[o[k]].index /\ o[k] \in 1..n
      BY <3>1, <1>2, <1>4 DEF Indexed
    <3> QED BY <3>2, <1>1, <1>2, <1>6
  <2> QED BY <2>1, <2>2, <2>3, <1>2, <1>4 DEF OpensAt
<1> QED BY <1>2, <1>7, <1>8 DEF Assembles, t, d

\* A fragment that begins a call is its opening, the last one.
LEMMA FeedBegins ==
    ASSUME NEW s \in Seq(WireToolCallOut), NEW f \in WireToolCallOut,
           NEW c \in Seq(AssembledCall), NEW o, Assembles(s, c, o), Finds(s, f, c, o),
           Talk!SlotOf(c, f) = 0
    PROVE  \E p : Assembles(Append(s, f), Talk!Feed(c, f), p)
<1> DEFINE t == Append(s, f)
<1> DEFINE d == Talk!Feed(c, f)
<1> DEFINE n == Len(s)
<1> DEFINE m == Len(c)
<1>1. /\ Len(t) = n + 1 /\ n \in Nat /\ t[n + 1] = f /\ \A i \in 1..n : t[i] = s[i]
      /\ \A i \in 1..n : OpensIn(t, i) <=> OpensIn(s, i)
  BY AppendedOpens, Zenon
<1>2. /\ Len(d) = m + 1 /\ m \in Nat
      /\ \A k \in 1..m : d[k] = c[k]
      /\ SameCall(d[m + 1], f)
      /\ f.index # -1 => d[m + 1].index = f.index
  <2>1. m \in Nat
    OBVIOUS
  <2> QED BY <2>1, FeedGives
<1>3. /\ OpensIn(t, n + 1)
      /\ \A k \in 1..m : ~BelongsIn(t, n + 1, o[k])
  <2>1. \A k \in 1..m : k # 0
    BY <1>2
  <2> QED BY <2>1 DEF Finds
<1>4. /\ o \in [1..m -> 1..n]
      /\ \A k \in 1..m : \A j \in 1..k - 1 : o[j] < o[k]
      /\ \A i \in 1..n : OpensIn(s, i) <=> \E k \in 1..m : o[k] = i
      /\ Indexed(s) => \A k \in 1..m : c[k].index = s[o[k]].index
      /\ \A k \in 1..m : Joins(s, c[k], o[k])
  BY DEF Assembles, OpensAt
<1>5. \A k \in 1..m : c[k] \in AssembledCall
  OBVIOUS
<1> DEFINE p == [k \in 1..m + 1 |-> IF k = m + 1 THEN n + 1 ELSE o[k]]
<1>6. /\ p \in [1..m + 1 -> 1..n + 1] /\ p[m + 1] = n + 1
      /\ \A k \in 1..m : p[k] = o[k] /\ p[k] \in 1..n
  <2>1. n \in Nat /\ m \in Nat
    OBVIOUS
  <2>2. \A k \in 1..m : o[k] \in 1..n
    BY <1>4
  <2> HIDE DEF n, m
  <2> QED BY <2>1, <2>2
<1> HIDE DEF p
<1>7. ASSUME NEW k \in 1..m + 1 PROVE Joins(t, d[k], p[k])
  <2>1. CASE k = m + 1
    <3>1. Joins(t, d[m + 1], n + 1)
      <4> HIDE DEF d
      <4> QED BY <1>2, <1>3, JoinsOpen
    <3> QED BY <2>1, <3>1, <1>6
  <2>2. CASE k # m + 1
    <3>1. k \in 1..m
      BY <2>2, <1>2
    <3>2. SameCall(d[k], IF BelongsIn(t, n + 1, o[k]) THEN Talk!Extend(c[k], f) ELSE c[k])
      <4> HIDE DEF d, t
      <4> QED BY <3>1, <1>2, <1>3, Zenon DEF SameCall
    <3>3. o[k] \in 1..Len(s) /\ Joins(s, c[k], o[k]) /\ p[k] = o[k] /\ c[k] \in AssembledCall
      BY <3>1, <1>4, <1>5, <1>6
    <3> HIDE DEF d
    <3>4. Joins(t, d[k], o[k])
      BY <3>2, <3>3, JoinsGrow, Zenon
    <3> QED BY <3>3, <3>4
  <2> QED BY <2>1, <2>2
<1> HIDE DEF t, d
<1>8. OpensAt(t, d, p)
  <2>1. p \in [1..Len(d) -> 1..Len(t)]
    BY <1>1, <1>2, <1>6
  <2>2. ASSUME NEW k \in 1..m + 1, NEW j \in 1..k - 1 PROVE p[j] < p[k]
    <3>1. j \in 1..m /\ p[j] = o[j] /\ o[j] \in 1..n
      BY <1>2, <1>4, <1>6
    <3>2. CASE k = m + 1
      BY <3>1, <3>2, <1>1, <1>6
    <3>3. CASE k # m + 1
      <4>1. k \in 1..m
        BY <3>3, <1>2
      <4> QED BY <4>1, <3>1, <1>4, <1>6
    <3> QED BY <3>2, <3>3
  <2>3. ASSUME NEW i \in 1..n + 1
        PROVE  OpensIn(t, i) <=> \E k \in 1..m + 1 : p[k] = i
    <3>0. m + 1 \in 1..m + 1 /\ \A k \in 1..m : k \in 1..m + 1
      BY <1>2
    <3>1. CASE i = n + 1
      BY <3>0, <3>1, <1>3, <1>6
    <3>2. CASE i # n + 1
      <4>1. i \in 1..n
        BY <3>2, <1>1
      <4>2. OpensIn(t, i) <=> \E k \in 1..m : o[k] = i
        BY <4>1, <1>1, <1>4
      <4>3. \A k \in 1..m + 1 : k # m + 1 => k \in 1..m
        BY <1>2
      <4> QED BY <4>2, <4>3, <3>0, <3>2, <1>6, Zenon
    <3> QED BY <3>1, <3>2
  <2>4. ASSUME Indexed(t), NEW k \in 1..m + 1 PROVE d[k].index = t[p[k]].index
    <3>1. \A i \in 1..n + 1 : t[i].index # -1
      BY <2>4, <1>1 DEF Indexed
    <3>2. n + 1 \in 1..n + 1 /\ \A i \in 1..n : i \in 1..n + 1
      BY <1>1
    <3>3. CASE k = m + 1
      BY <3>1, <3>2, <3>3, <1>1, <1>2, <1>6
    <3>4. CASE k # m + 1
      <4>1. k \in 1..m
        BY <3>4, <1>2
      <4>2. Indexed(s)
        BY <3>1, <3>2, <1>1 DEF Indexed
      <4>3. c[k].index = s[o[k]].index /\ o[k] \in 1..n
        BY <4>1, <4>2, <1>4
      <4> QED BY <4>1, <4>3, <1>1, <1>2, <1>6
    <3> QED BY <3>3, <3>4
  <2> QED BY <2>1, <2>2, <2>3, <2>4, <1>1, <1>2 DEF OpensAt
<1>9. Assembles(t, d, p)
  BY <1>2, <1>7, <1>8 DEF Assembles
<1> QED BY <1>9 DEF t, d

\* Feed keeps the calls what the server sent, from a server that numbers all of
\* its fragments or none.
LEMMA FeedAssembles ==
    ASSUME NEW s \in Seq(WireToolCallOut), NEW f \in WireToolCallOut,
           NEW c \in Seq(AssembledCall),
           UniformIn(s) => \E o : Assembles(s, c, o)
    PROVE  UniformIn(Append(s, f)) => \E o : Assembles(Append(s, f), Talk!Feed(c, f), o)
<1> SUFFICES ASSUME UniformIn(Append(s, f))
             PROVE  \E o : Assembles(Append(s, f), Talk!Feed(c, f), o)
  OBVIOUS
<1>1. PICK o : Assembles(s, c, o)
  BY UniformShrinks
<1>2. Finds(s, f, c, o)
  BY <1>1, FeedFinds
<1> QED BY <1>1, <1>2, FeedBegins, FeedContinues, Zenon

-------------------------------------------------------------------------------
TalkTypes ==
    /\ history \in Seq(ChatMessage)
    /\ fragments \in Seq(WireToolCallOut)
    /\ assembler \in Seq(AssembledCall)
    /\ proposals \in Seq(ToolCall)
    /\ request \in [messages : Seq(ChatMessage), options : GenerationOptions]

\* What is being answered is valid, and the assembler has what was sent so far.
TalkSent ==
    outcome \in {"sent", "answered"} =>
       /\ Talk!ValidMessages(history)
       /\ UniformIn(fragments) => \E o : Assembles(fragments, assembler, o)

\* What was accepted is what was assembled, and passed both checks.
TalkAnswered ==
    outcome = "answered" =>
       /\ proposals = Talk!ToolCalls(assembler)
       /\ Talk!FinishError(assembler) = "none"
       /\ Talk!ToolCheck(proposals, request.options)

TalkInv == TalkTypes /\ TalkSent /\ TalkAnswered

\* The conversation is not the one in use when a stream is parsed.
ConversationInv == outcome # "unused" => TalkInv

LEMMA ToolCallsType ==
    ASSUME NEW c \in Seq(AssembledCall)
    PROVE  /\ Talk!ToolCalls(c) \in Seq(ToolCall)
           /\ DOMAIN Talk!ToolCalls(c) = 1..Len(c)
           /\ \A k \in 1..Len(c) : Talk!ToolCalls(c)[k]
                = [id |-> c[k].id, name |-> c[k].name, arguments |-> c[k].arguments]
<1>1. DOMAIN c = 1..Len(c) /\ Len(c) \in Nat
  OBVIOUS
<1>2. ASSUME NEW k \in 1..Len(c)
      PROVE  [id |-> c[k].id, name |-> c[k].name, arguments |-> c[k].arguments] \in ToolCall
  <2>1. c[k] \in AssembledCall
    OBVIOUS
  <2> QED BY <2>1 DEF AssembledCall, ToolCall
<1> DEFINE e(k) == [id |-> c[k].id, name |-> c[k].name, arguments |-> c[k].arguments]
<1>3. Talk!ToolCalls(c) = [k \in 1..Len(c) |-> e(k)]
  BY <1>1 DEF Talk!ToolCalls
<1>4. \A k \in 1..Len(c) : e(k) \in ToolCall
  BY <1>2
<1> HIDE DEF e
<1>5. /\ Talk!ToolCalls(c) \in Seq(ToolCall)
      /\ DOMAIN Talk!ToolCalls(c) = 1..Len(c)
      /\ \A k \in 1..Len(c) : Talk!ToolCalls(c)[k] = e(k)
  BY <1>1, <1>3, <1>4
<1> QED BY <1>5 DEF e

LEMMA TalkStarts == Talk!Init => TalkInv
<1> SUFFICES ASSUME Talk!Init PROVE TalkInv
  OBVIOUS
<1>1. history \in Seq(ChatMessage)
  BY CompletionsAssumption DEF Talk!Init
<1>2. request \in [messages : Seq(ChatMessage), options : GenerationOptions]
  <2>1. <<>> \in Text
    BY DEF Text
  <2>2. [tools |-> <<>>, choice |-> "absent", named |-> <<>>] \in GenerationOptions
    BY <2>1 DEF GenerationOptions
  <2>3. request = [messages |-> <<>>,
                   options |-> [tools |-> <<>>, choice |-> "absent", named |-> <<>>]]
    BY DEF Talk!Init
  <2>4. <<>> \in Seq(ChatMessage)
    OBVIOUS
  <2> QED BY <2>2, <2>3, <2>4
<1>3. TalkTypes
  BY <1>1, <1>2 DEF TalkTypes, Talk!Init
<1>4. outcome = "composing"
  BY DEF Talk!Init
<1> QED BY <1>3, <1>4 DEF TalkInv, TalkSent, TalkAnswered

LEMMA TalkSend == TalkInv /\ Talk!Send => TalkInv'
<1> SUFFICES ASSUME TalkInv, Talk!Send PROVE TalkInv'
  OBVIOUS
<1>1. PICK options \in Options :
        /\ request' = [messages |-> history, options |-> options]
        /\ outcome' = CASE ~Talk!Valid(request') -> "invalid_request"
                        [] ~Talk!Compiles(options) -> "invalid_request"
                        [] ~Talk!Supported(request') -> "capability_mismatch"
                        [] OTHER -> "sent"
  BY DEF Talk!Send
<1>2. /\ fragments' = <<>> /\ assembler' = <<>> /\ proposals' = <<>> /\ history' = history
  BY DEF Talk!Send
<1>3. TalkTypes'
  <2>1. history \in Seq(ChatMessage) /\ options \in GenerationOptions
    BY CompletionsAssumption DEF TalkInv, TalkTypes
  <2>2. request' \in [messages : Seq(ChatMessage), options : GenerationOptions]
    BY <1>1, <2>1
  <2> QED BY <2>1, <2>2, <1>2 DEF TalkTypes
<1>4. outcome' # "answered" /\ (outcome' = "sent" => Talk!Valid(request'))
  BY <1>1, Zenon
<1>5. TalkSent'
  <2> SUFFICES ASSUME outcome' \in {"sent", "answered"}
               PROVE  /\ Talk!ValidMessages(history)'
                      /\ UniformIn(fragments)' => (\E o : Assembles(fragments, assembler, o))'
    BY DEF TalkSent
  <2>1. Talk!ValidMessages(request'.messages)
    BY <1>4 DEF Talk!Valid
  <2>2. Talk!ValidMessages(history')
    BY <2>1, <1>1, <1>2
  <2>3. Assembles(<<>>, <<>>, <<>>)
    <3>1. <<>> \in [1..0 -> 1..0]
      OBVIOUS
    <3>2. Len(<<>>) = 0 /\ 1..0 = {}
      OBVIOUS
    <3> QED BY <3>1, <3>2, Zenon DEF Assembles, OpensAt
  <2> QED BY <2>2, <2>3, <1>2
<1> QED BY <1>3, <1>4, <1>5 DEF TalkInv, TalkAnswered

LEMMA TalkReceive == TalkInv /\ Talk!Receive => TalkInv'
<1> SUFFICES ASSUME TalkInv, Talk!Receive PROVE TalkInv'
  OBVIOUS
<1>0. outcome = "sent" /\ UNCHANGED <<history, request, proposals>>
  BY DEF Talk!Receive
<1>1. PICK fragment \in Fragment :
        /\ fragments' = Append(fragments, fragment)
        /\ \/ outcome' \in {"protocol", "resource_limit"} /\ assembler' = assembler
           \/ assembler' = Talk!Feed(assembler, fragment) /\ outcome' = outcome
  BY DEF Talk!Receive
<1>2. /\ fragments \in Seq(WireToolCallOut) /\ fragment \in WireToolCallOut
      /\ assembler \in Seq(AssembledCall)
  BY CompletionsAssumption DEF TalkInv, TalkTypes
<1>3. Talk!Feed(assembler, fragment) \in Seq(AssembledCall)
  BY <1>2, FeedGives, Zenon
<1>4. TalkTypes'
  <2>1. Append(fragments, fragment) \in Seq(WireToolCallOut)
    BY <1>2
  <2> QED BY <2>1, <1>0, <1>1, <1>2, <1>3 DEF TalkInv, TalkTypes
<1>5. outcome' # "answered"
  BY <1>0, <1>1
<1>6. TalkSent'
  <2> SUFFICES ASSUME outcome' \in {"sent", "answered"}
               PROVE  /\ Talk!ValidMessages(history)'
                      /\ UniformIn(fragments)' => (\E o : Assembles(fragments, assembler, o))'
    BY DEF TalkSent
  <2>1. assembler' = Talk!Feed(assembler, fragment)
    BY <1>1
  <2>2. /\ Talk!ValidMessages(history)
        /\ UniformIn(fragments) => \E o : Assembles(fragments, assembler, o)
    BY <1>0 DEF TalkInv, TalkSent
  <2>3. UniformIn(Append(fragments, fragment))
          => \E o : Assembles(Append(fragments, fragment), Talk!Feed(assembler, fragment), o)
    BY <2>2, <1>2, FeedAssembles
  <2> QED BY <2>1, <2>2, <2>3, <1>0, <1>1
<1> QED BY <1>4, <1>5, <1>6 DEF TalkInv, TalkAnswered

LEMMA TalkAnswer == TalkInv /\ Talk!Answered => TalkInv'
<1> SUFFICES ASSUME TalkInv, Talk!Answered PROVE TalkInv'
  OBVIOUS
<1> DEFINE error == IF Talk!FinishError(assembler) # "none" THEN Talk!FinishError(assembler)
                    ELSE IF Talk!ToolCheck(Talk!ToolCalls(assembler), request.options) THEN "none"
                    ELSE "invalid_output"
<1>1. /\ outcome = "sent" /\ UNCHANGED <<history, request, fragments, assembler>>
      /\ \/ error # "none" /\ outcome' = error /\ UNCHANGED proposals
         \/ error = "none" /\ outcome' = "answered" /\ proposals' = Talk!ToolCalls(assembler)
  BY DEF Talk!Answered
<1>2. error \in {"none", "protocol", "invalid_output"}
  <2>1. \A c, i : Talk!CallError(c, i) \in {"none", "protocol", "invalid_output"}
    BY DEF Talk!CallError
  <2>2. \A c : Talk!FinishError(c) \in {"none", "protocol", "invalid_output"}
    BY <2>1, Zenon DEF Talk!FinishError
  <2> QED BY <2>2, Zenon
<1>3. error = "none" => /\ Talk!FinishError(assembler) = "none"
                        /\ Talk!ToolCheck(Talk!ToolCalls(assembler), request.options)
  BY Zenon
<1> HIDE DEF error
<1>4. TalkTypes'
  <2>1. assembler \in Seq(AssembledCall)
    BY DEF TalkInv, TalkTypes
  <2>2. Talk!ToolCalls(assembler) \in Seq(ToolCall)
    BY <2>1, ToolCallsType
  <2> QED BY <2>2, <1>1 DEF TalkInv, TalkTypes
<1>5. TalkSent'
  BY <1>1 DEF TalkInv, TalkSent
<1>6. TalkAnswered'
  <2>1. outcome' = "answered" =>
          error = "none" /\ proposals' = Talk!ToolCalls(assembler)
    BY <1>1, <1>2
  <2> QED BY <2>1, <1>1, <1>3 DEF TalkAnswered
<1> QED BY <1>4, <1>5, <1>6 DEF TalkInv

LEMMA TalkReplay == TalkInv /\ Talk!Replay => TalkInv'
<1> SUFFICES ASSUME TalkInv, Talk!Replay PROVE TalkInv'
  OBVIOUS
<1> DEFINE known == {proposals[i].id : i \in DOMAIN proposals}
                    \cup {call.id : call \in UNION {Talk!ToSet(m.calls) : m \in Talk!ToSet(history)}}
<1> DEFINE results(ids) == [i \in DOMAIN ids |-> Talk!ToolResult(ids[i])]
<1>1. /\ outcome' = "composing" /\ UNCHANGED <<request, fragments, assembler, proposals>>
      /\ \E ids \in Talk!SeqOf(known, 2) :
            history' = Append(history, Talk!Assistant(proposals)) \o results(ids)
                       \o (IF ids = <<>> THEN <<Talk!User>> ELSE <<>>)
  BY DEF Talk!Replay
<1>2. history \in Seq(ChatMessage) /\ proposals \in Seq(ToolCall)
  BY DEF TalkInv, TalkTypes
<1>3. known \subseteq Text
  <2>1. \A i \in DOMAIN proposals : proposals[i].id \in Text
    <3>1. \A i \in DOMAIN proposals : proposals[i] \in ToolCall
      BY <1>2
    <3> QED BY <3>1 DEF ToolCall
  <2>2. ASSUME NEW m \in Talk!ToSet(history), NEW call \in Talk!ToSet(m.calls)
        PROVE  call.id \in Text
    <3>1. m \in ChatMessage
      BY <1>2 DEF Talk!ToSet
    <3>2. m.calls \in Seq(ToolCall)
      BY <3>1 DEF ChatMessage
    <3>3. call \in ToolCall
      BY <3>2 DEF Talk!ToSet
    <3> QED BY <3>3 DEF ToolCall
  <2> QED BY <2>1, <2>2, Zenon
<1> HIDE DEF known
<1>4. PICK ids \in Talk!SeqOf(known, 2) :
            history' = Append(history, Talk!Assistant(proposals)) \o results(ids)
                       \o (IF ids = <<>> THEN <<Talk!User>> ELSE <<>>)
  BY <1>1
<1>5. ids \in Seq(Text)
  <2>1. PICK m \in 0..2 : ids \in [1..m -> known]
    BY DEF Talk!SeqOf
  <2> QED BY <2>1, <1>3
<1>6. /\ Talk!Assistant(proposals) \in ChatMessage /\ Talk!User \in ChatMessage
      /\ \A id \in Text : Talk!ToolResult(id) \in ChatMessage
  <2>1. <<>> \in Seq(ToolCall)
    OBVIOUS
  <2> QED BY <2>1, <1>2 DEF Talk!Assistant, Talk!User, Talk!ToolResult, Talk!Message, ChatMessage
<1>7. results(ids) \in Seq(ChatMessage)
  <2>1. DOMAIN ids = 1..Len(ids) /\ Len(ids) \in Nat /\ \A i \in DOMAIN ids : ids[i] \in Text
    BY <1>5
  <2>2. \A i \in DOMAIN ids : Talk!ToolResult(ids[i]) \in ChatMessage
    BY <2>1, <1>6
  <2> QED BY <2>1, <2>2
<1>8. history' \in Seq(ChatMessage)
  <2> DEFINE first == Append(history, Talk!Assistant(proposals))
  <2> DEFINE last == IF ids = <<>> THEN <<Talk!User>> ELSE <<>>
  <2>1. first \in Seq(ChatMessage)
    BY <1>2, <1>6
  <2>2. last \in Seq(ChatMessage)
    BY <1>6
  <2>3. history' = (first \o results(ids)) \o last
    BY <1>4
  <2> HIDE DEF first, last, results
  <2> QED BY <2>1, <2>2, <2>3, <1>7
<1>9. TalkTypes'
  BY <1>1, <1>8 DEF TalkInv, TalkTypes
<1> QED BY <1>1, <1>9 DEF TalkInv, TalkSent, TalkAnswered

LEMMA TalkKept == TalkInv /\ Talk!Next => TalkInv'
<1> SUFFICES ASSUME TalkInv, Talk!Next PROVE TalkInv'
  OBVIOUS
<1>1. CASE Talk!Unanswered
  <2>1. /\ outcome' = "failed" /\ UNCHANGED <<history, request, fragments, assembler, proposals>>
    BY <1>1 DEF Talk!Unanswered, Talk!Ends
  <2> QED BY <2>1 DEF TalkInv, TalkTypes, TalkSent, TalkAnswered
<1>2. CASE Talk!Retry
  <2>1. /\ outcome' = "composing" /\ UNCHANGED <<history, request, fragments, assembler, proposals>>
    BY <1>2 DEF Talk!Retry, Talk!Ends
  <2> QED BY <2>1 DEF TalkInv, TalkTypes, TalkSent, TalkAnswered
<1> QED BY <1>1, <1>2, TalkSend, TalkReceive, TalkAnswer, TalkReplay DEF Talk!Next

\* While a request is sent its history is valid, and the assembler has what the
\* server sent so far, piece by piece; an accepted reply passed every check.
THEOREM ConversationInvariant == EitherSpec => []ConversationInv
<1>1. EitherInit => ConversationInv
  BY TalkStarts DEF EitherInit, ParsingAlone, ConversationInv
<1>2. ConversationInv /\ [EitherNext]_<<talkVars, sseVars>> => ConversationInv'
  <2> SUFFICES ASSUME ConversationInv, [EitherNext]_<<talkVars, sseVars>>
               PROVE  ConversationInv'
    OBVIOUS
  <2>1. CASE outcome # "unused" /\ Talk!Next
    BY <2>1, TalkKept DEF ConversationInv
  <2>2. CASE UNCHANGED talkVars
    BY <2>2 DEF talkVars, ConversationInv, TalkInv, TalkTypes, TalkSent, TalkAnswered
  <2> QED BY <2>1, <2>2 DEF EitherNext
<1> QED BY <1>1, <1>2, PTL DEF EitherSpec

\* The proposals of an accepted reply are usable and distinct.
LEMMA AnsweredCalls ==
    ASSUME TalkInv, outcome = "answered"
    PROVE  \A k \in DOMAIN proposals :
              /\ Talk!ValidProposal(proposals[k])
              /\ \A j \in 1..k - 1 : proposals[j].id # proposals[k].id
<1>1. /\ assembler \in Seq(AssembledCall) /\ Talk!FinishError(assembler) = "none"
      /\ proposals = Talk!ToolCalls(assembler)
  BY DEF TalkInv, TalkTypes, TalkAnswered
<1>2. /\ DOMAIN assembler = 1..Len(assembler) /\ DOMAIN proposals = 1..Len(assembler)
      /\ \A k \in 1..Len(assembler) :
            /\ proposals[k].id = assembler[k].id /\ proposals[k].name = assembler[k].name
            /\ proposals[k].arguments = assembler[k].arguments
  <2>1. DOMAIN assembler = 1..Len(assembler)
    BY <1>1
  <2>2. /\ DOMAIN proposals = 1..Len(assembler)
        /\ \A k \in 1..Len(assembler) : proposals[k]
             = [id |-> assembler[k].id, name |-> assembler[k].name,
                arguments |-> assembler[k].arguments]
    BY <1>1, ToolCallsType
  <2> QED BY <2>1, <2>2
<1> SUFFICES ASSUME NEW k \in 1..Len(assembler)
             PROVE  /\ Talk!ValidProposal(proposals[k])
                    /\ \A j \in 1..k - 1 : proposals[j].id # proposals[k].id
  BY <1>2
<1>3. /\ assembler[k].id # <<>> /\ Talk!IsValidToolName(assembler[k].name)
      /\ Talk!IsObject(assembler[k].arguments)
      /\ \A j \in 1..k - 1 : assembler[j].id # assembler[k].id
  BY <1>1, <1>2, FinishedCalls
<1>4. Talk!ValidProposal(proposals[k])
  BY <1>2, <1>3, Zenon DEF Talk!ValidProposal
<1>5. \A j \in 1..k - 1 : proposals[j].id # proposals[k].id
  <2>1. \A j \in 1..k - 1 : j \in 1..Len(assembler)
    <3>1. Len(assembler) \in Nat
      BY <1>1
    <3> QED BY <3>1
  <2> QED BY <2>1, <1>2, <1>3, Zenon
<1> QED BY <1>4, <1>5

LEMMA ConversationReplays == ConversationInv => ReplayAccepted
<1> SUFFICES ASSUME TalkInv, outcome = "answered",
                    Talk!ProposedBefore(history, Len(history) + 1) \cap Talk!Ids(proposals) = {}
             PROVE  Talk!ValidMessages(Replayed(history, proposals))
  BY DEF ConversationInv, ReplayAccepted, Talk!ReplayAccepted, Replayed
<1>1. history \in Seq(ChatMessage) /\ proposals \in Seq(ToolCall) /\ Talk!ValidMessages(history)
  BY DEF TalkInv, TalkTypes, TalkSent
<1> QED BY <1>1, AnsweredCalls, ReplayIsValid

\* The fragments of the response in flight are such a response.
LEMMA OpeningsAreTalks ==
    ASSUME fragments \in Seq(WireToolCallOut)
    PROVE  /\ Talk!Uniform => UniformIn(fragments)
           /\ \A i \in DOMAIN fragments : Talk!Opens(i) <=> OpensIn(fragments, i)
           /\ \A first \in DOMAIN fragments :
                 /\ Talk!Joined(first, LAMBDA f : f.id)
                      = Talk!FlattenSeq(Pieces(fragments, IdsOf(fragments), first))
                 /\ Talk!Joined(first, LAMBDA f : f.name)
                      = Talk!FlattenSeq(Pieces(fragments, NamesOf(fragments), first))
                 /\ Talk!Joined(first, LAMBDA f : f.arguments)
                      = Talk!FlattenSeq(Pieces(fragments, ArgumentsOf(fragments), first))
<1>1. DOMAIN fragments = 1..Len(fragments)
  OBVIOUS
<1>2. Talk!Uniform => UniformIn(fragments)
  BY DEF Talk!Uniform, UniformIn, Talk!NoIndex
<1>3. \A i : Talk!Opens(i) <=> OpensIn(fragments, i)
  BY DEF Talk!Opens, OpensIn, Talk!NoIndex
<1>4. \A i, first : Talk!Belongs(i, first) <=> BelongsIn(fragments, i, first)
  BY <1>3 DEF Talk!Belongs, BelongsIn, Talk!NoIndex
<1>5. ASSUME NEW first \in DOMAIN fragments
      PROVE  /\ Talk!Joined(first, LAMBDA f : f.id)
                  = Talk!FlattenSeq(Pieces(fragments, IdsOf(fragments), first))
             /\ Talk!Joined(first, LAMBDA f : f.name)
                  = Talk!FlattenSeq(Pieces(fragments, NamesOf(fragments), first))
             /\ Talk!Joined(first, LAMBDA f : f.arguments)
                  = Talk!FlattenSeq(Pieces(fragments, ArgumentsOf(fragments), first))
  <2>1. Pieces(fragments, IdsOf(fragments), first)
          = [i \in DOMAIN fragments |-> IF Talk!Belongs(i, first) THEN fragments[i].id ELSE <<>>]
    BY <1>1, <1>4 DEF Pieces, IdsOf
  <2>2. Pieces(fragments, NamesOf(fragments), first)
          = [i \in DOMAIN fragments |-> IF Talk!Belongs(i, first) THEN fragments[i].name ELSE <<>>]
    BY <1>1, <1>4 DEF Pieces, NamesOf
  <2>3. Pieces(fragments, ArgumentsOf(fragments), first)
          = [i \in DOMAIN fragments |->
                IF Talk!Belongs(i, first) THEN fragments[i].arguments ELSE <<>>]
    BY <1>1, <1>4 DEF Pieces, ArgumentsOf
  <2> QED BY <2>1, <2>2, <2>3 DEF Talk!Joined
<1> QED BY <1>2, <1>3, <1>5

\* The first half of ProposalsUsable: they are what was sent.
LEMMA ProposalsAreJoined ==
    ASSUME TalkInv, outcome = "answered", Talk!Uniform
    PROVE  \E opening \in [DOMAIN proposals -> DOMAIN fragments] :
              /\ Talk!Ascending(opening)
              /\ \A i \in DOMAIN fragments :
                    Talk!Opens(i) <=> \E k \in DOMAIN opening : opening[k] = i
              /\ proposals = [k \in DOMAIN proposals |->
                    [id |-> Talk!Joined(opening[k], LAMBDA f : f.id),
                     name |-> Talk!Joined(opening[k], LAMBDA f : f.name),
                     arguments |-> Talk!Joined(opening[k], LAMBDA f : f.arguments)]]
<1>1. /\ fragments \in Seq(WireToolCallOut) /\ assembler \in Seq(AssembledCall)
      /\ proposals = Talk!ToolCalls(assembler)
  BY DEF TalkInv, TalkTypes, TalkAnswered
<1>2. PICK o : Assembles(fragments, assembler, o)
  BY <1>1, OpeningsAreTalks DEF TalkInv, TalkSent
<1>3. /\ DOMAIN fragments = 1..Len(fragments) /\ DOMAIN proposals = 1..Len(assembler)
      /\ \A k \in 1..Len(assembler) : proposals[k]
           = [id |-> assembler[k].id, name |-> assembler[k].name,
              arguments |-> assembler[k].arguments]
  BY <1>1, ToolCallsType
<1>4. /\ o \in [1..Len(assembler) -> 1..Len(fragments)]
      /\ \A k \in 1..Len(assembler) : \A j \in 1..k - 1 : o[j] < o[k]
      /\ \A i \in 1..Len(fragments) :
            OpensIn(fragments, i) <=> \E k \in 1..Len(assembler) : o[k] = i
  BY <1>2 DEF Assembles, OpensAt
<1>5. o \in [DOMAIN proposals -> DOMAIN fragments] /\ DOMAIN o = 1..Len(assembler)
  BY <1>3, <1>4
<1>6. Talk!Ascending(o)
  BY <1>4, <1>5 DEF Talk!Ascending
<1>7. \A i \in DOMAIN fragments : Talk!Opens(i) <=> \E k \in DOMAIN o : o[k] = i
  BY <1>1, <1>3, <1>4, <1>5, OpeningsAreTalks
<1>8. ASSUME NEW k \in DOMAIN proposals
      PROVE  proposals[k] = [id |-> Talk!Joined(o[k], LAMBDA f : f.id),
                             name |-> Talk!Joined(o[k], LAMBDA f : f.name),
                             arguments |-> Talk!Joined(o[k], LAMBDA f : f.arguments)]
  <2>1. Joins(fragments, assembler[k], o[k]) /\ o[k] \in DOMAIN fragments
    BY <1>2, <1>3, <1>5 DEF Assembles
  <2>2. /\ assembler[k].id = Talk!Joined(o[k], LAMBDA f : f.id)
        /\ assembler[k].name = Talk!Joined(o[k], LAMBDA f : f.name)
        /\ assembler[k].arguments = Talk!Joined(o[k], LAMBDA f : f.arguments)
    BY <2>1, <1>1, OpeningsAreTalks, Zenon DEF Joins
  <2> QED BY <2>2, <1>3, Zenon
<1>9. proposals = [k \in DOMAIN proposals |-> proposals[k]]
  <2>1. proposals \in Seq(ToolCall)
    BY DEF TalkInv, TalkTypes
  <2> QED BY <2>1
<1> QED BY <1>5, <1>6, <1>7, <1>8, <1>9, Zenon

\* The second half: they were offered, and satisfy the choice and the schema.
LEMMA ProposalsWereOffered ==
    ASSUME TalkInv, outcome = "answered", NEW i \in DOMAIN proposals
    PROVE  \E k \in DOMAIN request.options.tools :
              LET tool == request.options.tools[k]
              IN  /\ tool.name = proposals[i].name
                  /\ request.options.choice \in {"absent", "auto"}
                     \/ (request.options.choice = "tool" /\ request.options.named = tool.name)
                  /\ Talk!Satisfies(proposals[i].arguments, tool.schema)
<1> DEFINE tools == request.options.tools
<1> DEFINE name == proposals[i].name
<1> DEFINE I == {k \in 1..Len(tools) : tools[k].name = name}
<1>1. /\ request.options \in GenerationOptions /\ proposals # <<>>
      /\ Talk!ToolCheck(proposals, request.options)
  BY DEF TalkInv, TalkTypes, TalkAnswered
<1>2. /\ request.options.choice \in {"absent", "auto", "none", "tool"}
      /\ DOMAIN tools = 1..Len(tools) /\ Len(tools) \in Nat
  BY <1>1 DEF GenerationOptions
<1>3. /\ request.options.choice # "none" /\ name \in Talk!Names(tools)
      /\ request.options.choice = "tool" => name = request.options.named
      /\ Talk!Satisfies(proposals[i].arguments, Talk!SchemaOf(tools, name))
  BY <1>1 DEF Talk!ToolCheck
<1>4. I # {} /\ I \in SUBSET (1..Len(tools))
  BY <1>2, <1>3 DEF Talk!Names
<1>5. Talk!Min(I) \in I
  <2> HIDE DEF I
  <2> QED BY <1>2, <1>4, SmallestIsOne
<1>6. Talk!SchemaOf(tools, name) = tools[Talk!Min(I)].schema
  BY <1>4 DEF Talk!SchemaOf, Talk!SelectInSeq
<1>7. Talk!Min(I) \in DOMAIN tools /\ tools[Talk!Min(I)].name = name
  BY <1>2, <1>5
<1> QED BY <1>2, <1>3, <1>6, <1>7

LEMMA ConversationIsUsable == ConversationInv => ProposalsUsable
<1> SUFFICES ASSUME TalkInv, outcome = "answered" PROVE Talk!ProposalsUsable
  BY DEF ConversationInv, ProposalsUsable, Talk!ProposalsUsable
<1> QED BY ProposalsAreJoined, ProposalsWereOffered DEF Talk!ProposalsUsable

\* A reply that was accepted can be sent back with a result for each call, for
\* every history and server, unless an identifier of it was used before.
THEOREM RepliesCanBeReplayed == EitherSpec => []ReplayAccepted
  BY ConversationInvariant, ConversationReplays, PTL

\* Proposals are what the server sent, piece by piece and in order, and what the
\* request offered.
THEOREM ProposalsAreUsable == EitherSpec => []ProposalsUsable
  BY ConversationInvariant, ConversationIsUsable, PTL
===============================================================================
