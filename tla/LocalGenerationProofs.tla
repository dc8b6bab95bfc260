------------------------- MODULE LocalGenerationProofs -------------------------
(***************************************************************************)
(* What LocalGeneration promises of its workers, of the streams they write *)
(* and of the text they pass on, for any number of calls, any requests,    *)
(* stop sequences, configurations and files.  First the invariant of the   *)
(* steps of a call, then the stop filter on its own, then the invariant of *)
(* the text, which holds what the filter needs between two tokens.         *)
(***************************************************************************)
EXTENDS LocalGeneration, SequenceTheorems, WellFoundedInduction, TLAPS

Fields == {"pc", "request", "position", "produced", "pending", "held", "decoded", "text",
           "streamed", "finish", "item", "next", "late"}

IsState(s) == DOMAIN s = Fields /\ s = [f \in Fields |-> s[f]]

\* The steps of generate with a context of llama.cpp.
Generating == {"prompt", "chunk", "generate", "sample", "evaluate", "flush", "finish"}

PcStep == Generating \cup {"idle", "waiting", "prepare", "deliver", "ended"}

LastKind == Errors \cup {"completed"}

\* The step a worker is at, or goes on with when its event is in the channel.
StepOf(s) == IF s.pc = "deliver" THEN s.next ELSE s.pc

TypeOK ==
    /\ config \in LlamaConfig /\ file \in ModelFile
    /\ call = [c \in Calls |-> call[c]]
    /\ sent = [c \in Calls |-> sent[c]]
    /\ taken \in [Calls -> Nat]
    /\ cancelled \subseteq Calls /\ dropped \subseteq Calls

\* What a call holds: a request once there is a provider to take it, and an
\* event that fits where the worker goes on.
Typed(c, s) ==
    /\ IsState(s)
    /\ s.pc \in PcStep
    /\ s.position \in Nat /\ s.produced \in Nat /\ s.late \in Nat
    /\ s.pc # "idle" => s.request \in Asks[c] /\ LoadError = "none"
    /\ s.pc = "deliver" =>
          /\ s.request.stream
          /\ \/ s.next = "end" /\ s.item.kind \in LastKind
             \/ s.next = "prepare" /\ s.item.kind = "started"
             \/ s.next \in {"evaluate", "flush", "finish"} /\ s.item.kind = "delta"

\* A batch that was evaluated too late was the last one.
Late(c, s) ==
    s.late # 0 => /\ s.late = 1 /\ Stopping(c)
                  /\ StepOf(s) \in {"chunk", "generate", "end", "ended"}

\* How far the context is filled.
Filled(s) ==
    LET prompt == s.request.prompt
    IN  /\ s.position <= config.context
        /\ StepOf(s) \in {"idle", "waiting", "prepare"} => s.position = 0 /\ s.produced = 0
        /\ StepOf(s) \in Generating => prompt + MaxNew(s.request) <= config.context
        /\ StepOf(s) \in {"prompt", "chunk"} => s.position <= prompt /\ s.produced = 0
        /\ StepOf(s) \in {"generate", "sample"} => s.position = prompt + s.produced
        /\ StepOf(s) = "evaluate" => /\ s.position + 1 = prompt + s.produced
                                     /\ s.produced < MaxNew(s.request)

\* What a channel holds before and after its last event.
Open(events) ==
    /\ 1 <= Len(events)
    /\ events[1].kind = "started"
    /\ \A i \in 2 .. Len(events) : events[i].kind = "delta"

Closed(events) ==
    /\ 2 <= Len(events)
    /\ events[1].kind = "started"
    /\ \A i \in 2 .. Len(events) - 1 : events[i].kind = "delta"
    /\ events[Len(events)].kind \in LastKind

Unopened(s) == ~s.request.stream \/ StepOf(s) \in {"idle", "waiting"}
                  \/ (s.pc = "deliver" /\ s.next = "prepare")

Written(c, s, events) ==
    /\ events \in Seq(Range(events))
    /\ c \in dropped \/ Unopened(s) => events = <<>>
    /\ c \notin dropped /\ ~Unopened(s) /\ s.pc # "ended" => Open(events)
    /\ s.pc = "ended" => events = <<>> \/ Open(events) \/ Closed(events)
    /\ s.pc = "ended" /\ s.request.stream /\ ~Stopping(c) => Closed(events)

Fits(c, s, events) == Typed(c, s) /\ Late(c, s) /\ Filled(s) /\ Written(c, s, events)

Inv == TypeOK /\ \A c \in Calls : Fits(c, call[c], sent[c])

-------------------------------------------------------------------------------
\* What a step that samples nothing leaves of a call, and what every step does.
Keeps(s, t) ==
    /\ IsState(t)
    /\ t.request = s.request /\ t.position = s.position
    /\ t.produced = s.produced /\ t.late = s.late

\* The text of a call is not touched.
Same(s, t) ==
    /\ t.request = s.request /\ t.pending = s.pending
    /\ t.decoded = s.decoded /\ t.held = s.held
    /\ t.text = s.text /\ t.streamed = s.streamed

\* The worker is done, but for the last event of a stream.
Ends(t) ==
    IF t.request.stream THEN t.pc = "deliver" /\ t.next = "end" /\ t.item.kind \in LastKind
    ELSE t.pc = "ended"

\* The worker goes on at a step, once its event is in the channel.
GoesOn(t, step) ==
    \/ t.pc = step
    \/ /\ t.request.stream
       /\ t.pc = "deliver" /\ t.next = step /\ t.item.kind = "delta"

LEMMA StepFacts ==
    ASSUME NEW s, IsState(s), NEW step
    PROVE  LET t == [s EXCEPT !.pc = step]
           IN  Keeps(s, t) /\ Same(s, t) /\ t.item = s.item /\ t.pc = step
<1>1. [s EXCEPT !.pc = step] = [s EXCEPT !["pc"] = step]
  OBVIOUS
<1>2. QED
  BY <1>1 DEF IsState, Fields, Keeps, Same

LEMMA EndedFacts ==
    ASSUME NEW s, IsState(s), NEW event
    PROVE  LET t == [s EXCEPT !.pc = "ended", !.item = event]
           IN  Keeps(s, t) /\ Same(s, t) /\ t.pc = "ended" /\ t.item = event
<1>1. [s EXCEPT !.pc = "ended", !.item = event]
         = [s EXCEPT !["pc"] = "ended", !["item"] = event]
  OBVIOUS
<1>2. QED
  BY <1>1 DEF IsState, Fields, Keeps, Same

LEMMA DeliversFacts ==
    ASSUME NEW s, IsState(s), NEW item, NEW next
    PROVE  LET t == Delivers(s, item, next)
           IN  /\ Keeps(s, t) /\ Same(s, t)
               /\ t.pc = "deliver" /\ t.item = item /\ t.next = next
<1>1. Delivers(s, item, next)
         = [s EXCEPT !["pc"] = "deliver", !["item"] = item, !["next"] = next]
  BY DEF Delivers
<1>2. QED
  BY <1>1 DEF IsState, Fields, Keeps, Same

LEMMA FailsFacts ==
    ASSUME NEW s, IsState(s), NEW error \in Errors
    PROVE  LET t == Fails(s, error)
           IN  /\ Keeps(s, t) /\ Same(s, t) /\ Ends(t)
               /\ t.item.kind = error /\ t.item.text = <<>>
<1> DEFINE event == Event(error, <<>>)
<1>1. event.kind = error /\ event.text = <<>>
  BY DEF Event
<1>2. CASE s.request.stream
  <2>1. Fails(s, error) = Delivers(s, event, "end")
    BY <1>2 DEF Fails
  <2> DEFINE t == Delivers(s, event, "end")
  <2>2. /\ Keeps(s, t) /\ Same(s, t)
        /\ t.pc = "deliver" /\ t.item = event /\ t.next = "end"
    BY DeliversFacts
  <2> HIDE DEF t, event
  <2>3. QED
    BY <1>1, <1>2, <2>1, <2>2 DEF Keeps, Ends, LastKind, t
<1>3. CASE ~s.request.stream
  <2> DEFINE t == [s EXCEPT !.pc = "ended", !.item = event]
  <2>1. Fails(s, error) = t
    BY <1>3 DEF Fails
  <2>2. Keeps(s, t) /\ Same(s, t) /\ t.pc = "ended" /\ t.item = event
    BY EndedFacts
  <2> HIDE DEF t, event
  <2>3. QED
    BY <1>1, <1>3, <2>1, <2>2 DEF Keeps, Ends
<1>4. QED BY <1>2, <1>3

LEMMA SendsFacts ==
    ASSUME NEW s, IsState(s), NEW out, NEW step
    PROVE  LET t == Sends(s, out, step) IN Keeps(s, t) /\ (GoesOn(t, step) \/ Ends(t))
<1> DEFINE sending == [s EXCEPT !.text = @ \o out]
           event == Event("delta", out)
<1>1. event.kind = "delta"
  BY DEF Event
<1>2. sending = [s EXCEPT !["text"] = s.text \o out]
  OBVIOUS
<1>3. Keeps(s, sending)
  BY <1>2 DEF IsState, Fields, Keeps
<1>4. CASE out = <<>>
  <2>1. Sends(s, out, step) = [s EXCEPT !.pc = step]
    BY <1>4 DEF Sends
  <2>2. QED
    BY <2>1, StepFacts DEF GoesOn
<1>5. CASE out # <<>> /\ Len(s.text) + Len(out) > MaxOutput
  <2>1. Sends(s, out, step) = Fails(s, "failed")
    BY <1>5 DEF Sends
  <2>2. QED
    BY <2>1, FailsFacts DEF Errors
<1>6. CASE out # <<>> /\ ~(Len(s.text) + Len(out) > MaxOutput)
  <2>1. Sends(s, out, step) = IF s.request.stream THEN Delivers(sending, event, step)
                              ELSE [sending EXCEPT !.pc = step]
    BY <1>6 DEF Sends
  <2> HIDE DEF sending, event
  <2>2. IsState(sending) /\ sending.request = s.request
    BY <1>3 DEF Keeps
  <2>3. CASE s.request.stream
    <3>1. Sends(s, out, step) = Delivers(sending, event, step)
      BY <2>1, <2>3
    <3>2. QED
      BY <3>1, <1>1, <1>3, <2>2, <2>3, DeliversFacts DEF Keeps, GoesOn
  <2>4. CASE ~s.request.stream
    <3>1. Sends(s, out, step) = [sending EXCEPT !.pc = step]
      BY <2>1, <2>4
    <3>2. QED
      BY <3>1, <1>3, <2>2, StepFacts DEF Keeps, GoesOn
  <2>5. QED BY <2>3, <2>4
<1>7. QED BY <1>4, <1>5, <1>6

\* What the evaluation of a batch changes.
Batch(c, s, t, step, position) ==
    /\ IsState(t)
    /\ t.request = s.request /\ t.produced = s.produced
    /\ t.pc = step /\ t.position = position
    /\ t.late = s.late \/ (t.late = s.late + 1 /\ Stopping(c))

LEMMA EvaluatedFacts ==
    ASSUME NEW c, NEW s, IsState(s), NEW step, NEW position
    PROVE  LET t == Evaluated(c, [s EXCEPT !.pc = step, !.position = position])
           IN  Batch(c, s, t, step, position) /\ Same(s, t)
<1> DEFINE u == [s EXCEPT !.pc = step, !.position = position]
<1>1. u = [s EXCEPT !["pc"] = step, !["position"] = position]
  OBVIOUS
<1>2. /\ IsState(u) /\ u.request = s.request /\ u.produced = s.produced
      /\ u.pc = step /\ u.position = position /\ u.late = s.late /\ Same(s, u)
  BY <1>1 DEF IsState, Fields, Same
<1> HIDE DEF u
<1>3. Evaluated(c, u) = [u EXCEPT !["late"] = IF Stopping(c) THEN u.late + 1 ELSE u.late]
  BY DEF Evaluated
<1>4. QED
  BY <1>2, <1>3 DEF Batch, IsState, Fields, Same, u

-------------------------------------------------------------------------------
LEMMA MaxNewType ==
    ASSUME TypeOK, NEW c \in Calls, NEW request \in Asks[c]
    PROVE  MaxNew(request) \in Nat /\ request.prompt \in Nat /\ request.stream \in BOOLEAN
<1>1. config.maxOutput \in Nat
  BY GenerationAssumption DEF TypeOK
<1>2. request.maxTokens \subseteq Nat
  BY GenerationAssumption
<1>3. CASE request.maxTokens = {}
  BY <1>1, <1>3, GenerationAssumption DEF MaxNew
<1>4. CASE request.maxTokens # {}
  <2>1. (CHOOSE n \in request.maxTokens : TRUE) \in request.maxTokens
    BY <1>4
  <2>2. QED
    BY <1>2, <1>4, <2>1, GenerationAssumption DEF MaxNew
<1>5. QED BY <1>3, <1>4

\* A provider that was loaded has a context its model was trained for.
LEMMA LoadedContext ==
    ASSUME LoadError = "none"
    PROVE  ~(config.context > file.trained) /\ config.maxOutput # 0
BY DEF LoadError

LEMMA AppendFacts ==
    ASSUME NEW events, events \in Seq(Range(events)), NEW event
    PROVE  LET more == Append(events, event)
           IN  /\ more \in Seq(Range(more))
               /\ Len(more) = Len(events) + 1 /\ Len(events) \in Nat
               /\ more[Len(more)] = event
               /\ \A i \in 1 .. Len(events) : more[i] = events[i]
<1> DEFINE more == Append(events, event)
           all == Range(events) \cup {event}
<1>1. events \in Seq(all)
  <2>1. Range(events) \subseteq all
    OBVIOUS
  <2> HIDE DEF all
  <2>2. QED BY <2>1, SeqMonotonic
<1>2. event \in all
  OBVIOUS
<1> HIDE DEF all
<1>3. /\ more \in Seq(all) /\ Len(more) = Len(events) + 1 /\ Len(events) \in Nat
      /\ more[Len(more)] = event
      /\ \A i \in 1 .. Len(events) : more[i] = events[i]
  BY <1>1, <1>2
<1> HIDE DEF more
<1>4. more \in Seq(Range(more))
  BY <1>3 DEF Range
<1>5. QED BY <1>3, <1>4 DEF more

LEMMA OpenedFacts ==
    ASSUME NEW event
    PROVE  LET events == Append(<<>>, event)
           IN  events \in Seq(Range(events)) /\ Len(events) = 1 /\ events[1] = event
<1> DEFINE none == <<>>
           events == Append(none, event)
<1>1. none \in Seq(Range(none)) /\ Len(none) = 0
  OBVIOUS
<1> HIDE DEF none
<1>2. /\ events \in Seq(Range(events)) /\ Len(events) = Len(none) + 1
      /\ events[Len(events)] = event
  BY <1>1, AppendFacts
<1> HIDE DEF events
<1>3. events \in Seq(Range(events)) /\ Len(events) = 1 /\ events[1] = event
  BY <1>1, <1>2
<1>4. QED BY <1>3 DEF events, none

-------------------------------------------------------------------------------
\* A worker that ends leaves a channel that wants only the last event.
LEMMA EndsFits ==
    ASSUME NEW c \in Calls, NEW s, NEW t, NEW events,
           Fits(c, s, events),
           s.pc \in {"prepare"} \cup Generating \/ (s.pc = "deliver" /\ s.item.kind = "delta"),
           IsState(t), t.request = s.request, t.position = s.position,
           t.produced \in Nat, t.late = s.late, Ends(t)
    PROVE  Fits(c, t, events)
<1>1. /\ s.pc # "idle" /\ s.pc # "waiting" /\ s.pc # "ended"
      /\ s.pc = "deliver" => s.next # "prepare"
  BY DEF Generating, Fits, Typed, LastKind, Errors
<1>2. Typed(c, t)
  BY <1>1 DEF Fits, Typed, Ends, PcStep
<1>3. Late(c, t)
  BY <1>1 DEF Fits, Late, Ends, StepOf
<1>4. Filled(t)
  BY <1>1 DEF Fits, Filled, Ends, StepOf, Generating
<1>5. Written(c, t, events)
  <2>1. StepOf(s) # "idle" /\ StepOf(s) # "waiting"
    BY <1>1 DEF StepOf, Fits, Typed, Generating
  <2>2. CASE t.request.stream
    <3>1. ~Unopened(s) /\ ~Unopened(t) /\ t.pc # "ended"
      BY <1>1, <2>1, <2>2 DEF Unopened, Ends, StepOf
    <3>2. QED BY <1>1, <3>1 DEF Fits, Written
  <2>3. CASE ~t.request.stream
    <3>1. Unopened(s) /\ Unopened(t)
      BY <2>3 DEF Unopened
    <3>2. QED BY <2>3, <3>1 DEF Fits, Written
  <2>4. QED BY <2>2, <2>3
<1>6. QED BY <1>2, <1>3, <1>4, <1>5 DEF Fits

\* A worker goes on: to every step without an event, after a delta to some.
LEMMA GoesOnFits ==
    ASSUME NEW c \in Calls, NEW s, NEW t, NEW events, NEW step \in Generating,
           Fits(c, s, events),
           s.pc \in {"prepare"} \cup Generating,
           IsState(t), t.request = s.request,
           t.position \in Nat, t.produced \in Nat, t.late \in Nat,
           t.pc = step \/ (GoesOn(t, step) /\ step \in {"evaluate", "flush", "finish"}),
           Late(c, t), Filled(t)
    PROVE  Fits(c, t, events)
<1>1. s.pc # "idle" /\ s.pc # "waiting" /\ s.pc # "ended" /\ s.pc # "deliver"
  BY DEF Generating
<1>2. /\ t.pc = step \/ (t.pc = "deliver" /\ t.next = step /\ t.next # "prepare")
      /\ step # "idle" /\ step # "waiting" /\ step # "ended" /\ step # "deliver"
  BY DEF GoesOn, Generating
<1>3. Typed(c, t)
  BY <1>1, <1>2 DEF Fits, Typed, GoesOn, PcStep
<1>4. Unopened(s) <=> Unopened(t)
  BY <1>1, <1>2 DEF Unopened, StepOf
<1>5. Written(c, t, events)
  BY <1>1, <1>2, <1>4 DEF Fits, Written
<1>6. QED BY <1>3, <1>5 DEF Fits

\* A step of one call, with what it puts into its channel, leaves the others.
LEMMA StepInv ==
    ASSUME Inv, NEW c \in Calls, NEW t, NEW events,
           Set(c, t), sent' = [sent EXCEPT ![c] = events],
           taken' \in [Calls -> Nat], UNCHANGED <<config, file, Caller>>,
           Fits(c, t, events)
    PROVE  Inv'
<1>1. \A d \in Calls :
         /\ call'[d] = IF d = c THEN t ELSE call[d]
         /\ sent'[d] = IF d = c THEN events ELSE sent[d]
  BY DEF Inv, TypeOK, Set
<1>2. TypeOK'
  BY DEF Inv, TypeOK, Set, Caller
<1>3. ASSUME NEW d \in Calls PROVE Fits(d, call[d], sent[d])'
  <2> DEFINE u == call'[d]
             e == sent'[d]
  <2>1. Fits(d, u, e)
    BY <1>1 DEF Inv
  <2> HIDE DEF u, e
  <2>2. LoadError' = LoadError /\ Stopping(d)' = Stopping(d)
    BY DEF Caller, LoadError, Stopping
  <2>3. config' = config /\ dropped' = dropped
    BY DEF Caller
  <2>4. QED
    BY <2>1, <2>2, <2>3 DEF Fits, Typed, Late, Filled, Written, MaxNew, u, e
<1>4. QED BY <1>2, <1>3 DEF Inv

\* The steps that write nothing to a channel.
LEMMA SilentStepInv ==
    ASSUME Inv, NEW c \in Calls, NEW t, Set(c, t), UNCHANGEDRest, Fits(c, t, sent[c])
    PROVE  Inv'
<1>1. sent' = [sent EXCEPT ![c] = sent[c]] /\ taken' \in [Calls -> Nat]
  BY DEF Inv, TypeOK, UNCHANGEDRest, Channel
<1>2. UNCHANGED <<config, file, Caller>>
  BY DEF UNCHANGEDRest
<1>3. QED BY <1>1, <1>2, StepInv

-------------------------------------------------------------------------------
LEMMA BeginInv ==
    ASSUME Inv, NEW c \in Calls, Begin(c) PROVE Inv'
<1> DEFINE s == call[c]
<1>1. Fits(c, s, sent[c]) /\ s.pc = "idle" /\ LoadError = "none" /\ UNCHANGEDRest
  BY DEF Inv, Begin
<1>2. PICK request \in Asks[c] : Set(c, [s EXCEPT !.pc = "waiting", !.request = request])
  BY DEF Begin
<1> DEFINE t == [s EXCEPT !.pc = "waiting", !.request = request]
<1>3. t = [s EXCEPT !["pc"] = "waiting", !["request"] = request]
  OBVIOUS
<1> HIDE DEF s
<1>4. /\ IsState(t) /\ t.pc = "waiting" /\ t.request = request
      /\ t.position = s.position /\ t.produced = s.produced /\ t.late = s.late
  BY <1>1, <1>3 DEF Fits, Typed, IsState, Fields
<1>5. Set(c, t)
  BY <1>2
<1> HIDE DEF t
<1>6. Typed(c, t)
  BY <1>1, <1>4 DEF Fits, Typed, PcStep
<1>7. s.late = 0 /\ StepOf(s) = "idle" /\ StepOf(t) = "waiting"
  BY <1>1, <1>4 DEF Fits, Late, StepOf
<1>8. Late(c, t) /\ Filled(t)
  BY <1>1, <1>4, <1>7 DEF Fits, Late, Filled, Generating
<1>9. Written(c, t, sent[c])
  <2>1. Unopened(s) /\ Unopened(t)
    BY <1>7 DEF Unopened
  <2>2. QED BY <1>1, <1>4, <2>1 DEF Fits, Written
<1>10. QED
  BY <1>1, <1>5, <1>6, <1>8, <1>9, SilentStepInv DEF Fits, s

LEMMA AdmitCancelledInv ==
    ASSUME Inv, NEW c \in Calls, AdmitCancelled(c) PROVE Inv'
<1> DEFINE s == call[c]
           event == Event("cancelled", <<>>)
           t == [s EXCEPT !.pc = "ended", !.item = event]
<1>1. /\ Fits(c, s, sent[c]) /\ s.pc = "waiting" /\ Stopping(c) /\ UNCHANGEDRest
      /\ Set(c, t)
  BY DEF Inv, AdmitCancelled
<1> HIDE DEF s, event
<1>2. Keeps(s, t) /\ t.pc = "ended"
  BY <1>1, EndedFacts DEF Fits, Typed
<1> HIDE DEF t
<1>3. Typed(c, t)
  BY <1>1, <1>2 DEF Fits, Typed, PcStep, Keeps
<1>4. StepOf(s) = "waiting" /\ StepOf(t) = "ended" /\ Unopened(s)
  BY <1>1, <1>2 DEF StepOf, Unopened
<1>5. Late(c, t) /\ Filled(t)
  BY <1>1, <1>2, <1>4 DEF Fits, Late, Filled, Generating, Keeps
<1>6. Written(c, t, sent[c])
  BY <1>1, <1>2, <1>4 DEF Fits, Written
<1>7. QED
  BY <1>1, <1>3, <1>5, <1>6, SilentStepInv DEF Fits, s

LEMMA AdmitInv ==
    ASSUME Inv, NEW c \in Calls, Admit(c) PROVE Inv'
<1> DEFINE s == call[c]
           event == Event("started", <<>>)
           d == Delivers(s, event, "prepare")
           p == [s EXCEPT !.pc = "prepare"]
           t == IF s.request.stream THEN d ELSE p
<1>1. /\ Fits(c, s, sent[c]) /\ s.pc = "waiting" /\ UNCHANGEDRest
      /\ Set(c, t)
  BY DEF Inv, Admit
<1>2. event.kind = "started"
  BY DEF Event
<1> HIDE DEF s, event
<1>3. Keeps(s, d) /\ d.pc = "deliver" /\ d.item = event /\ d.next = "prepare"
  BY <1>1, DeliversFacts DEF Fits, Typed
<1>4. Keeps(s, p) /\ p.pc = "prepare"
  BY <1>1, StepFacts DEF Fits, Typed
<1> HIDE DEF d, p
<1>5. /\ Keeps(s, t)
      /\ IF s.request.stream THEN t.pc = "deliver" /\ t.item = event /\ t.next = "prepare"
         ELSE t.pc = "prepare"
  BY <1>3, <1>4
<1> HIDE DEF t
<1>6. Typed(c, t)
  BY <1>1, <1>2, <1>5 DEF Fits, Typed, PcStep, Keeps
<1>7. StepOf(s) = "waiting" /\ StepOf(t) = "prepare" /\ Unopened(s) /\ Unopened(t)
  BY <1>1, <1>5 DEF StepOf, Unopened, Keeps
<1>8. Late(c, t) /\ Filled(t)
  BY <1>1, <1>5, <1>7 DEF Fits, Late, Filled, Generating, Keeps
<1>9. Written(c, t, sent[c])
  BY <1>1, <1>5, <1>7 DEF Fits, Written
<1>10. QED
  BY <1>1, <1>6, <1>8, <1>9, SilentStepInv DEF Fits, s

\* A worker that fails, wherever it is.
LEMMA FailsInv ==
    ASSUME Inv, NEW c \in Calls, NEW error \in Errors,
           call[c].pc \in {"prepare"} \cup Generating
              \/ (call[c].pc = "deliver" /\ call[c].item.kind = "delta"),
           Set(c, Fails(call[c], error)), UNCHANGEDRest
    PROVE  Inv'
<1> DEFINE s == call[c]
           t == Fails(s, error)
<1>1. Fits(c, s, sent[c])
  BY DEF Inv
<1>2. Keeps(s, t) /\ Ends(t)
  BY <1>1, FailsFacts DEF Fits, Typed
<1>3. Fits(c, t, sent[c])
  BY <1>1, <1>2, EndsFits DEF Keeps, Fits, Typed
<1>4. QED BY <1>3, SilentStepInv

\* A worker that goes on to a step and leaves everything else as it is.
LEMMA StepOnInv ==
    ASSUME Inv, NEW c \in Calls, NEW step \in Generating,
           call[c].pc \in {"prepare"} \cup Generating,
           Set(c, [call[c] EXCEPT !.pc = step]), UNCHANGEDRest,
           call[c].late = 0 \/ step \in {"chunk", "generate"},
           \A t : Keeps(call[c], t) /\ t.pc = step => Filled(t)
    PROVE  Inv'
<1> DEFINE s == call[c]
           t == [s EXCEPT !.pc = step]
<1>1. Fits(c, s, sent[c])
  BY DEF Inv
<1>2. Keeps(s, t) /\ t.pc = step
  BY <1>1, StepFacts DEF Fits, Typed
<1>3. Set(c, t) /\ Filled(t)
  BY <1>2
<1> HIDE DEF s, t
<1>4. Late(c, t)
  BY <1>1, <1>2, StepFacts DEF Fits, Late, StepOf, Keeps, Generating, s
<1>5. Fits(c, t, sent[c])
  BY <1>1, <1>2, <1>3, <1>4, GoesOnFits DEF Fits, Typed, Keeps, s
<1>6. QED BY <1>3, <1>5, SilentStepInv

-------------------------------------------------------------------------------
LEMMA PrepareInv ==
    ASSUME Inv, NEW c \in Calls, Prepare(c) PROVE Inv'
<1> DEFINE s == call[c]
<1>1. Fits(c, s, sent[c]) /\ s.pc = "prepare" /\ UNCHANGEDRest
  BY DEF Inv, Prepare
<1>2. CASE ~TooLong(s.request) /\ Set(c, [s EXCEPT !.pc = "prompt"])
  <2>1. s.late = 0
    BY <1>1 DEF Fits, Late, StepOf
  <2>2. MaxNew(s.request) \in Nat /\ s.request.prompt \in Nat /\ config.context \in Nat
    BY <1>1, MaxNewType, GenerationAssumption DEF Inv, TypeOK, Fits, Typed
  <2>3. ASSUME NEW t, Keeps(s, t), t.pc = "prompt" PROVE Filled(t)
    <3>1. s.position = 0 /\ s.produced = 0 /\ StepOf(t) = "prompt"
      BY <1>1, <2>3 DEF Fits, Filled, StepOf
    <3>2. s.request.prompt + MaxNew(s.request) <= config.context
      BY <1>2, <2>2 DEF TooLong
    <3>3. QED
      BY <2>2, <2>3, <3>1, <3>2 DEF Filled, Keeps
  <2>4. QED
    BY <1>1, <1>2, <2>1, <2>3, StepOnInv DEF Generating
<1>3. CASE \E error \in Errors : Set(c, Fails(s, error))
  BY <1>1, <1>3, FailsInv
<1>4. QED BY <1>2, <1>3 DEF Prepare, Errors

\* A batch is evaluated and the worker goes on, unless it should have stopped,
\* which it then notices.
LEMMA EvaluatedInv ==
    ASSUME Inv, NEW c \in Calls, NEW step \in {"chunk", "generate"}, NEW position \in Nat,
           call[c].pc \in {"prompt", "evaluate"},
           Set(c, Evaluated(c, [call[c] EXCEPT !.pc = step, !.position = position])),
           UNCHANGEDRest,
           position <= config.context,
           call[c].request.prompt + MaxNew(call[c].request) <= config.context,
           step = "chunk" => position <= call[c].request.prompt /\ call[c].produced = 0,
           step = "generate" => position = call[c].request.prompt + call[c].produced
    PROVE  Inv'
<1>1. Fits(c, call[c], sent[c]) /\ IsState(call[c])
  BY DEF Inv, Fits, Typed
<1>2. Set(c, Evaluated(c, [call[c] EXCEPT !.pc = step, !.position = position]))
  OBVIOUS
<1> DEFINE t == Evaluated(c, [call[c] EXCEPT !.pc = step, !.position = position])
<1>3. Batch(c, call[c], t, step, position) /\ Set(c, t)
  BY <1>1, <1>2, EvaluatedFacts
<1> HIDE DEF t
<1>4. call[c].late = 0 /\ StepOf(t) = step
  BY <1>1, <1>3 DEF Batch, Fits, Late, StepOf
<1>5. Late(c, t) /\ t.late \in Nat
  BY <1>3, <1>4 DEF Batch, Late
<1>6. Filled(t)
  BY <1>3, <1>4 DEF Batch, Filled, Generating
<1>7. Fits(c, t, sent[c])
  BY <1>1, <1>3, <1>5, <1>6, GoesOnFits DEF Batch, Generating, Fits, Typed
<1>8. QED BY <1>3, <1>7, SilentStepInv

LEMMA EvaluateChunkInv ==
    ASSUME Inv, NEW c \in Calls, EvaluateChunk(c) PROVE Inv'
<1> DEFINE s == call[c]
           left == s.request.prompt - s.position
           chunk == IF left < config.batch THEN left ELSE config.batch
<1>1. Fits(c, s, sent[c]) /\ s.pc = "prompt" /\ UNCHANGEDRest
  BY DEF Inv, EvaluateChunk
<1>2. \/ Set(c, Evaluated(c, [s EXCEPT !.pc = "chunk", !.position = s.position + chunk]))
      \/ Set(c, Fails(s, "failed"))
  BY DEF EvaluateChunk
<1>3. CASE Set(c, Fails(s, "failed"))
  BY <1>1, <1>3, FailsInv DEF Errors, Generating
<1>4. CASE Set(c, Evaluated(c, [s EXCEPT !.pc = "chunk", !.position = s.position + chunk]))
  <2>1. /\ MaxNew(s.request) \in Nat /\ s.request.prompt \in Nat
        /\ config.batch \in Nat /\ config.context \in Nat
    BY <1>1, MaxNewType, GenerationAssumption DEF Inv, TypeOK, Fits, Typed
  <2>2. /\ s.position \in Nat /\ s.position <= s.request.prompt /\ s.produced = 0
        /\ s.request.prompt + MaxNew(s.request) <= config.context
    BY <1>1 DEF Fits, Typed, Filled, StepOf, Generating
  <2>3. /\ s.position + chunk \in Nat /\ s.position + chunk <= s.request.prompt
        /\ s.position + chunk <= config.context
    BY <2>1, <2>2
  <2> HIDE DEF chunk
  <2>4. QED
    BY <1>1, <1>4, <2>2, <2>3, EvaluatedInv
<1>5. QED BY <1>2, <1>3, <1>4

LEMMA EvaluateTokenInv ==
    ASSUME Inv, NEW c \in Calls, EvaluateToken(c) PROVE Inv'
<1> DEFINE s == call[c]
<1>1. Fits(c, s, sent[c]) /\ s.pc = "evaluate" /\ UNCHANGEDRest
  BY DEF Inv, EvaluateToken
<1>2. \/ Set(c, Evaluated(c, [s EXCEPT !.pc = "generate", !.position = s.position + 1]))
      \/ Set(c, Fails(s, "failed"))
  BY DEF EvaluateToken
<1>3. CASE Set(c, Fails(s, "failed"))
  BY <1>1, <1>3, FailsInv DEF Errors, Generating
<1>4. CASE Set(c, Evaluated(c, [s EXCEPT !.pc = "generate", !.position = s.position + 1]))
  <2>1. /\ MaxNew(s.request) \in Nat /\ s.request.prompt \in Nat /\ config.context \in Nat
    BY <1>1, MaxNewType, GenerationAssumption DEF Inv, TypeOK, Fits, Typed
  <2>2. /\ s.position \in Nat /\ s.produced \in Nat
        /\ s.position + 1 = s.request.prompt + s.produced
        /\ s.produced < MaxNew(s.request)
        /\ s.request.prompt + MaxNew(s.request) <= config.context
    BY <1>1 DEF Fits, Typed, Filled, StepOf, Generating
  <2>3. s.position + 1 \in Nat /\ s.position + 1 <= config.context
    BY <2>1, <2>2
  <2>4. QED
    BY <1>1, <1>4, <2>2, <2>3, EvaluatedInv
<1>5. QED BY <1>2, <1>3, <1>4

LEMMA AfterChunkInv ==
    ASSUME Inv, NEW c \in Calls, AfterChunk(c) PROVE Inv'
<1> DEFINE s == call[c]
<1>1. Fits(c, s, sent[c]) /\ s.pc = "chunk" /\ UNCHANGEDRest
  BY DEF Inv, AfterChunk
<1>2. /\ Stopping(c) => Set(c, Fails(s, "cancelled"))
      /\ ~Stopping(c) /\ s.position < s.request.prompt => Set(c, [s EXCEPT !.pc = "prompt"])
      /\ ~Stopping(c) /\ ~(s.position < s.request.prompt)
           => Set(c, [s EXCEPT !.pc = "generate"])
  BY DEF AfterChunk
<1>3. CASE Stopping(c)
  BY <1>1, <1>2, <1>3, FailsInv DEF Errors, Generating
<1>4. CASE ~Stopping(c)
  <2>1. s.late = 0
    BY <1>1, <1>4 DEF Fits, Late
  <2>2. MaxNew(s.request) \in Nat /\ s.request.prompt \in Nat /\ s.position \in Nat
    BY <1>1, MaxNewType DEF Inv, Fits, Typed
  <2>3. /\ s.position <= s.request.prompt /\ s.produced = 0 /\ s.position <= config.context
        /\ s.request.prompt + MaxNew(s.request) <= config.context
    BY <1>1 DEF Fits, Filled, StepOf, Generating
  <2>4. CASE s.position < s.request.prompt
    <3>1. ASSUME NEW t, Keeps(s, t), t.pc = "prompt" PROVE Filled(t)
      BY <2>3, <3>1 DEF Filled, Keeps, StepOf, Generating
    <3>2. QED
      BY <1>1, <1>2, <1>4, <2>1, <2>4, <3>1, StepOnInv DEF Generating
  <2>5. CASE ~(s.position < s.request.prompt)
    <3>1. s.position = s.request.prompt + s.produced
      BY <2>2, <2>3, <2>5
    <3>2. ASSUME NEW t, Keeps(s, t), t.pc = "generate" PROVE Filled(t)
      BY <2>3, <3>1, <3>2 DEF Filled, Keeps, StepOf, Generating
    <3>3. QED
      BY <1>1, <1>2, <1>4, <2>1, <2>5, <3>2, StepOnInv DEF Generating
  <2>6. QED BY <2>4, <2>5
<1>5. QED BY <1>3, <1>4

LEMMA LoopHeadInv ==
    ASSUME Inv, NEW c \in Calls, LoopHead(c) PROVE Inv'
<1> DEFINE s == call[c]
<1>1. Fits(c, s, sent[c]) /\ s.pc = "generate" /\ UNCHANGEDRest
  BY DEF Inv, LoopHead
<1>2. CASE Stopping(c)
  <2>1. Set(c, Fails(s, "cancelled"))
    BY <1>2 DEF LoopHead
  <2>2. QED BY <1>1, <2>1, FailsInv DEF Errors, Generating
<1>3. CASE ~Stopping(c)
  <2>1. Set(c, [s EXCEPT !.pc = "sample"])
    BY <1>3 DEF LoopHead
  <2>2. s.late = 0
    BY <1>1, <1>3 DEF Fits, Late
  <2>3. ASSUME NEW t, Keeps(s, t), t.pc = "sample" PROVE Filled(t)
    BY <1>1, <2>3 DEF Fits, Filled, Keeps, StepOf, Generating
  <2>4. QED
    BY <1>1, <2>1, <2>2, <2>3, StepOnInv DEF Generating
<1>4. QED BY <1>2, <1>3

-------------------------------------------------------------------------------
\* What a call sends takes it to the next step, or ends it.
LEMMA SendsInv ==
    ASSUME Inv, NEW c \in Calls, call[c].pc \in Generating, call[c].late = 0,
           NEW s, NEW out, NEW step \in {"evaluate", "flush", "finish"},
           IsState(s), s.request = call[c].request, s.position = call[c].position,
           s.produced \in Nat, s.late = 0,
           Set(c, Sends(s, out, step)), UNCHANGEDRest,
           \A t : Keeps(s, t) /\ GoesOn(t, step) => Filled(t)
    PROVE  Inv'
<1> DEFINE t == Sends(s, out, step)
<1>1. Fits(c, call[c], sent[c])
  BY DEF Inv
<1>2. Keeps(s, t) /\ (GoesOn(t, step) \/ Ends(t)) /\ Set(c, t)
  BY SendsFacts
<1>3. GoesOn(t, step) => Filled(t)
  BY <1>2
<1> HIDE DEF t
<1>4. /\ IsState(t) /\ t.request = call[c].request /\ t.position = call[c].position
      /\ t.position \in Nat /\ t.produced \in Nat /\ t.late = 0
  BY <1>1, <1>2 DEF Keeps, Fits, Typed
<1>5. CASE Ends(t)
  <2>1. Fits(c, t, sent[c])
    BY <1>1, <1>4, <1>5, EndsFits
  <2>2. QED BY <1>2, <2>1, SilentStepInv
<1>6. CASE GoesOn(t, step)
  <2>1. Late(c, t) /\ step \in Generating
    BY <1>4 DEF Late, Generating
  <2>2. Fits(c, t, sent[c])
    BY <1>1, <1>3, <1>4, <1>6, <2>1, GoesOnFits
  <2>3. QED BY <1>2, <2>2, SilentStepInv
<1>7. QED BY <1>2, <1>5, <1>6

\* What a sampled token changes, but for the text that is passed on.
Token(s, t, produced, pending, decoded, held) ==
    /\ IsState(t) /\ t.request = s.request /\ t.position = s.position
    /\ t.produced = produced /\ t.late = s.late
    /\ t.text = s.text /\ t.streamed = s.streamed
    /\ t.pending = pending /\ t.decoded = decoded /\ t.held = held

LEMMA SampledFacts ==
    ASSUME NEW s, IsState(s), NEW produced, NEW pending, NEW decoded, NEW held, NEW finish
    PROVE  Token(s, [s EXCEPT !.produced = produced, !.pending = pending,
                              !.decoded = decoded, !.held = held, !.finish = finish],
                 produced, pending, decoded, held)
<1>1. [s EXCEPT !.produced = produced, !.pending = pending,
                !.decoded = decoded, !.held = held, !.finish = finish]
        = [s EXCEPT !["produced"] = produced, !["pending"] = pending,
                    !["decoded"] = decoded, !["held"] = held, !["finish"] = finish]
  OBVIOUS
<1>2. QED
  BY <1>1 DEF Token, IsState, Fields

LEMMA StoppedFacts ==
    ASSUME NEW s, IsState(s)
    PROVE  LET t == [s EXCEPT !.pc = "flush", !.finish = "stop"]
           IN  Keeps(s, t) /\ Same(s, t) /\ t.pc = "flush"
<1>1. [s EXCEPT !.pc = "flush", !.finish = "stop"]
        = [s EXCEPT !["pc"] = "flush", !["finish"] = "stop"]
  OBVIOUS
<1>2. QED
  BY <1>1 DEF IsState, Fields, Keeps, Same

LEMMA FlushedFacts ==
    ASSUME NEW s, IsState(s)
    PROVE  LET t == [s EXCEPT !.held = <<>>]
           IN  /\ Keeps(s, t) /\ t.held = <<>>
               /\ t.pending = s.pending /\ t.decoded = s.decoded
               /\ t.text = s.text /\ t.streamed = s.streamed
<1>1. [s EXCEPT !.held = <<>>] = [s EXCEPT !["held"] = <<>>]
  OBVIOUS
<1>2. QED
  BY <1>1 DEF IsState, Fields, Keeps, Same

LEMMA SampleInv ==
    ASSUME Inv, NEW c \in Calls, Sample(c) PROVE Inv'
<1> DEFINE s == call[c]
<1>1. Fits(c, s, sent[c]) /\ s.pc = "sample" /\ UNCHANGEDRest /\ IsState(s)
  BY DEF Inv, Sample, Fits, Typed
<1>2. s.late = 0
  BY <1>1 DEF Fits, Late, StepOf
<1>3. /\ MaxNew(s.request) \in Nat /\ s.request.prompt \in Nat
      /\ s.position \in Nat /\ s.produced \in Nat
  BY <1>1, MaxNewType DEF Inv, Fits, Typed
<1>4. /\ s.position <= config.context /\ s.position = s.request.prompt + s.produced
      /\ s.request.prompt + MaxNew(s.request) <= config.context
  BY <1>1 DEF Fits, Filled, StepOf, Generating
<1>5. CASE Set(c, [s EXCEPT !.pc = "flush", !.finish = "stop"])
  <2> DEFINE t == [s EXCEPT !.pc = "flush", !.finish = "stop"]
  <2>1. Keeps(s, t) /\ t.pc = "flush"
    BY <1>1, StoppedFacts
  <2>2. Set(c, t)
    BY <1>5
  <2> HIDE DEF t
  <2>3. Late(c, t) /\ Filled(t)
    BY <1>2, <1>4, <2>1 DEF Keeps, Late, Filled, StepOf, Generating
  <2>4. Fits(c, t, sent[c])
    BY <1>1, <1>2, <1>3, <2>1, <2>3, GoesOnFits DEF Keeps, Generating
  <2>5. QED BY <1>1, <2>2, <2>4, SilentStepInv
<1>6. ASSUME NEW piece \in Pieces,
             LET utf8 == Utf8Push(s.pending, piece)
                 filter == StopPush(s.held, utf8.text, s.request.stops)
                 sampled == [s EXCEPT !.produced = @ + 1,
                                      !.pending = utf8.pending,
                                      !.decoded = @ \o utf8.text,
                                      !.held = filter.held,
                                      !.finish = IF filter.stopped THEN "stop" ELSE @]
             IN  Set(c, Sends(sampled, filter.out,
                              IF filter.stopped \/ sampled.produced >= MaxNew(s.request)
                              THEN "flush" ELSE "evaluate"))
      PROVE  Inv'
  <2> DEFINE utf8 == Utf8Push(s.pending, piece)
             filter == StopPush(s.held, utf8.text, s.request.stops)
             finish == IF filter.stopped THEN "stop" ELSE s.finish
             produced == s.produced + 1
             decoded == s.decoded \o utf8.text
             sampled == [s EXCEPT !.produced = produced, !.pending = utf8.pending,
                                  !.decoded = decoded, !.held = filter.held,
                                  !.finish = finish]
             step == IF filter.stopped \/ sampled.produced >= MaxNew(s.request)
                     THEN "flush" ELSE "evaluate"
  <2>1. Set(c, Sends(sampled, filter.out, step))
    BY <1>6
  <2> HIDE DEF utf8, filter, finish, produced, decoded
  <2>2. Token(s, sampled, produced, utf8.pending, decoded, filter.held)
    BY <1>1, SampledFacts
  <2> HIDE DEF sampled
  <2>3. /\ IsState(sampled) /\ sampled.request = s.request /\ sampled.position = s.position
        /\ sampled.produced = s.produced + 1 /\ sampled.late = s.late
    BY <2>2 DEF Token, produced
  <2>4. /\ step \in {"evaluate", "flush"}
        /\ step = "evaluate" => sampled.produced < MaxNew(s.request)
    BY <1>3, <2>3
  <2> HIDE DEF step
  <2>5. ASSUME NEW t, Keeps(sampled, t), GoesOn(t, step) PROVE Filled(t)
    <3>1. StepOf(t) = step
      BY <2>4, <2>5 DEF GoesOn, StepOf
    <3>2. /\ t.request = s.request /\ t.position = s.position /\ t.produced = s.produced + 1
      BY <2>3, <2>5 DEF Keeps
    <3>3. t.position + 1 = t.request.prompt + t.produced
      BY <1>3, <1>4, <3>2
    <3>4. QED
      BY <1>4, <2>3, <2>4, <3>1, <3>2, <3>3 DEF Filled
  <2>6. QED
    BY <1>1, <1>2, <1>3, <2>1, <2>3, <2>4, <2>5, SendsInv DEF Generating
<1>7. QED BY <1>5, <1>6 DEF Sample

LEMMA FlushInv ==
    ASSUME Inv, NEW c \in Calls, Flush(c) PROVE Inv'
<1> DEFINE s == call[c]
           u == [s EXCEPT !.held = <<>>]
<1>1. Fits(c, s, sent[c]) /\ s.pc = "flush" /\ UNCHANGEDRest /\ IsState(s)
  BY DEF Inv, Flush, Fits, Typed
<1>2. Set(c, Sends(u, s.held, "finish"))
  BY DEF Flush
<1>3. Keeps(s, u)
  BY <1>1, FlushedFacts
<1> HIDE DEF u
<1>4. s.late = 0 /\ s.produced \in Nat
  BY <1>1 DEF Fits, Late, StepOf, Typed
<1>5. ASSUME NEW t, Keeps(u, t), GoesOn(t, "finish") PROVE Filled(t)
  <2>1. StepOf(t) = "finish"
    BY <1>5 DEF GoesOn, StepOf
  <2>2. QED
    BY <1>1, <1>3, <1>5, <2>1 DEF Keeps, Fits, Filled, StepOf, Generating
<1>6. QED
  BY <1>1, <1>2, <1>3, <1>4, <1>5, SendsInv DEF Keeps, Generating

LEMMA FinishInv ==
    ASSUME Inv, NEW c \in Calls, Finish(c) PROVE Inv'
<1> DEFINE s == call[c]
           event == Event("completed", <<>>)
           d == Delivers(s, event, "end")
           p == [s EXCEPT !.pc = "ended", !.item = event]
           t == IF s.request.stream THEN d ELSE p
<1>1. Fits(c, s, sent[c]) /\ s.pc = "finish" /\ UNCHANGEDRest /\ Set(c, t)
  BY DEF Inv, Finish
<1>2. event.kind = "completed"
  BY DEF Event
<1> HIDE DEF s, event
<1>3. Keeps(s, d) /\ d.pc = "deliver" /\ d.item = event /\ d.next = "end"
  BY <1>1, DeliversFacts DEF Fits, Typed
<1>4. Keeps(s, p) /\ p.pc = "ended"
  BY <1>1, EndedFacts DEF Fits, Typed
<1> HIDE DEF d, p
<1>5. Keeps(s, t) /\ Ends(t)
  BY <1>2, <1>3, <1>4 DEF Keeps, Ends, LastKind
<1> HIDE DEF t
<1>6. Fits(c, t, sent[c])
  BY <1>1, <1>5, EndsFits DEF Keeps, Fits, Typed, Generating
<1>7. QED BY <1>1, <1>6, SilentStepInv DEF s

-------------------------------------------------------------------------------
\* A channel is opened, goes on and is closed.
LEMMA OpenFacts ==
    ASSUME NEW events, events \in Seq(Range(events)), NEW event
    PROVE  LET more == Append(events, event)
           IN  /\ more \in Seq(Range(more))
               /\ events = <<>> /\ event.kind = "started" => Open(more)
               /\ Open(events) /\ event.kind = "delta" => Open(more)
               /\ Open(events) /\ event.kind \in LastKind => Closed(more)
<1> DEFINE more == Append(events, event)
<1>1. /\ more \in Seq(Range(more))
      /\ Len(more) = Len(events) + 1 /\ Len(events) \in Nat
      /\ more[Len(more)] = event
      /\ \A i \in 1 .. Len(events) : more[i] = events[i]
  BY AppendFacts
<1>2. ASSUME events = <<>>, event.kind = "started" PROVE Open(more)
  <2>1. Len(more) = 1 /\ more[1] = event
    BY <1>2, OpenedFacts
  <2> HIDE DEF more
  <2>2. QED BY <1>2, <2>1 DEF Open
<1> HIDE DEF more
<1>3. ASSUME Open(events), event.kind = "delta" PROVE Open(more)
  BY <1>1, <1>3 DEF Open
<1>4. ASSUME Open(events), event.kind \in LastKind PROVE Closed(more)
  BY <1>1, <1>4 DEF Open, Closed
<1>5. QED BY <1>1, <1>2, <1>3, <1>4 DEF more

\* What a worker changes of its call when its event is in the channel.
Delivered(s, t, step, streamed) ==
    /\ Keeps(s, t) /\ t.pc = step /\ t.item = s.item /\ t.streamed = streamed
    /\ t.pending = s.pending /\ t.decoded = s.decoded
    /\ t.held = s.held /\ t.text = s.text

LEMMA DeliveredFacts ==
    ASSUME NEW s, IsState(s), NEW step, NEW streamed
    PROVE  Delivered(s, [s EXCEPT !.pc = step, !.streamed = streamed], step, streamed)
<1>1. [s EXCEPT !.pc = step, !.streamed = streamed]
         = [s EXCEPT !["pc"] = step, !["streamed"] = streamed]
  OBVIOUS
<1>2. QED
  BY <1>1 DEF IsState, Fields, Keeps, Delivered

LEMMA DeliverInv ==
    ASSUME Inv, NEW c \in Calls, Deliver(c) PROVE Inv'
<1> DEFINE s == call[c]
           events == sent[c]
           more == Append(events, s.item)
           step == IF s.next = "end" THEN "ended" ELSE s.next
           streamed == s.streamed \o s.item.text
           t == [s EXCEPT !.pc = step, !.streamed = streamed]
<1>1. Fits(c, s, events) /\ s.pc = "deliver" /\ c \notin dropped
  BY DEF Inv, Deliver
<1>2. /\ Set(c, t) /\ sent' = [sent EXCEPT ![c] = more]
      /\ taken' \in [Calls -> Nat] /\ UNCHANGED <<config, file, Caller>>
  BY DEF Inv, TypeOK, Deliver
<1>3. events \in Seq(Range(events))
  BY <1>1 DEF Fits, Written
<1>4. /\ more \in Seq(Range(more))
      /\ events = <<>> /\ s.item.kind = "started" => Open(more)
      /\ Open(events) /\ s.item.kind = "delta" => Open(more)
      /\ Open(events) /\ s.item.kind \in LastKind => Closed(more)
  BY <1>3, OpenFacts
<1> HIDE DEF more, events, streamed
<1>5. /\ s.request.stream
      /\ \/ s.next = "end" /\ s.item.kind \in LastKind
         \/ s.next = "prepare" /\ s.item.kind = "started"
         \/ s.next \in {"evaluate", "flush", "finish"} /\ s.item.kind = "delta"
  BY <1>1 DEF Fits, Typed
<1>6. Keeps(s, t) /\ t.pc = step
  <2>1. IsState(s)
    BY <1>1 DEF Fits, Typed
  <2>2. Delivered(s, t, step, streamed)
    BY <2>1, DeliveredFacts
  <2> HIDE DEF t
  <2>3. QED BY <2>2 DEF Delivered
<1> HIDE DEF t
<1>7. Typed(c, t)
  BY <1>1, <1>5, <1>6 DEF Fits, Typed, Keeps, PcStep, Generating
<1>8. StepOf(s) = s.next /\ StepOf(t) = step
  BY <1>1, <1>5, <1>6 DEF StepOf
<1>9. Late(c, t)
  BY <1>1, <1>6, <1>8 DEF Fits, Late, Keeps
<1>10. Filled(t)
  BY <1>1, <1>5, <1>6, <1>8 DEF Fits, Filled, Keeps, Generating
<1>11. /\ s.next = "prepare" => events = <<>>
       /\ s.next # "prepare" => Open(events)
  BY <1>1, <1>5, <1>8 DEF Fits, Written, Unopened
<1>12. ~Unopened(t) /\ (s.next = "end" => t.pc = "ended") /\ (s.next # "end" => t.pc # "ended")
  BY <1>5, <1>6, <1>8 DEF Unopened, Keeps
<1>13. (s.next = "end" => Closed(more)) /\ (s.next # "end" => Open(more))
  BY <1>4, <1>5, <1>11
<1>14. Written(c, t, more)
  BY <1>1, <1>4, <1>12, <1>13 DEF Written
<1>15. QED
  BY <1>2, <1>7, <1>9, <1>10, <1>14, StepInv DEF Fits

LEMMA DeliverStopsInv ==
    ASSUME Inv, NEW c \in Calls, DeliverStops(c) PROVE Inv'
<1> DEFINE s == call[c]
           t == [s EXCEPT !.pc = "ended"]
<1>1. /\ Fits(c, s, sent[c]) /\ s.pc = "deliver" /\ Stopping(c)
      /\ Set(c, Undelivered(s)) /\ UNCHANGEDRest
  BY DEF Inv, DeliverStops, Stopping
<1>2. CASE s.item.kind = "delta"
  <2>1. Set(c, Fails(s, "cancelled"))
    BY <1>1, <1>2 DEF Undelivered
  <2>2. QED BY <1>1, <1>2, <2>1, FailsInv DEF Errors
<1>3. CASE s.item.kind # "delta"
  <2>1. Set(c, t)
    BY <1>1, <1>3 DEF Undelivered
  <2>2. Keeps(s, t) /\ t.pc = "ended"
    BY <1>1, StepFacts DEF Fits, Typed
  <2> HIDE DEF t
  <2>3. s.next \in {"end", "prepare"} /\ s.request.stream
    BY <1>1, <1>3 DEF Fits, Typed
  <2>4. Typed(c, t)
    BY <1>1, <2>2 DEF Fits, Typed, Keeps, PcStep
  <2>5. StepOf(t) = "ended" /\ StepOf(s) = s.next
    BY <1>1, <2>2 DEF StepOf
  <2>6. Late(c, t) /\ Filled(t)
    BY <1>1, <2>2, <2>5 DEF Fits, Late, Filled, Keeps, Generating
  <2>7. ~Unopened(t)
    BY <2>2, <2>3, <2>5 DEF Unopened, Keeps
  <2>8. Written(c, t, sent[c])
    BY <1>1, <2>2, <2>3, <2>7 DEF Fits, Written
  <2>9. QED
    BY <1>1, <2>1, <2>4, <2>6, <2>8, SilentStepInv DEF Fits
<1>4. QED BY <1>2, <1>3

LEMMA TakeInv ==
    ASSUME Inv, NEW c \in Calls, Take(c) PROVE Inv'
<1>1. UNCHANGED <<config, file, call, sent, Caller>>
  BY DEF Take
<1>2. TypeOK'
  BY DEF Inv, TypeOK, Take, Caller
<1>3. ASSUME NEW d \in Calls PROVE Fits(d, call[d], sent[d])'
  BY <1>1 DEF Inv, Fits, Typed, Late, Filled, Written, LoadError, Stopping, MaxNew, Caller
<1>4. QED BY <1>2, <1>3 DEF Inv

LEMMA CancelInv ==
    ASSUME Inv, NEW c \in Calls, Cancel(c) PROVE Inv'
<1>1. UNCHANGED <<config, file, call, sent, dropped>> /\ cancelled' = cancelled \cup {c}
  BY DEF Cancel, Channel
<1>2. TypeOK'
  BY <1>1 DEF Inv, TypeOK, Cancel, Channel
<1>3. ASSUME NEW d \in Calls PROVE Fits(d, call[d], sent[d])'
  <2>1. Fits(d, call[d], sent[d])
    BY DEF Inv
  <2>2. Stopping(d) => Stopping(d)'
    BY <1>1 DEF Stopping
  <2>3. QED
    BY <1>1, <2>1, <2>2 DEF Fits, Typed, Late, Filled, Written, LoadError, MaxNew
<1>4. QED BY <1>2, <1>3 DEF Inv

LEMMA DropInv ==
    ASSUME Inv, NEW c \in Calls, Drop(c) PROVE Inv'
<1>1. /\ UNCHANGED <<config, file, call, cancelled>> /\ dropped' = dropped \cup {c}
      /\ sent' = [sent EXCEPT ![c] = <<>>]
  BY DEF Drop
<1>2. TypeOK'
  BY <1>1 DEF Inv, TypeOK, Drop
<1>3. ASSUME NEW d \in Calls PROVE Fits(d, call[d], sent[d])'
  <2>1. Fits(d, call[d], sent[d])
    BY DEF Inv
  <2>2. Stopping(d) => Stopping(d)'
    BY <1>1 DEF Stopping
  <2>3. Typed(d, call[d])' /\ Late(d, call[d])' /\ Filled(call[d])'
    BY <1>1, <2>1, <2>2 DEF Fits, Typed, Late, Filled, LoadError, MaxNew
  <2>4. CASE d = c
    <3>1. sent'[d] = <<>> /\ d \in dropped' /\ Stopping(d)'
      BY <1>1, <2>4 DEF Inv, TypeOK, Stopping
    <3>2. <<>> \in Seq(Range(<<>>))
      OBVIOUS
    <3>3. Written(d, call[d], sent[d])'
      BY <3>1, <3>2 DEF Written
    <3>4. QED BY <2>3, <3>3 DEF Fits
  <2>5. CASE d # c
    <3>1. sent'[d] = sent[d] /\ (d \in dropped' <=> d \in dropped)
      BY <1>1, <2>5 DEF Inv, TypeOK
    <3>2. Written(d, call[d], sent[d])'
      BY <1>1, <2>1, <2>2, <3>1 DEF Fits, Written
    <3>3. QED BY <2>3, <3>2 DEF Fits
  <2>6. QED BY <2>4, <2>5
<1>4. QED BY <1>2, <1>3 DEF Inv

-------------------------------------------------------------------------------
LEMMA InitInv == ASSUME Init PROVE Inv
<1>1. TypeOK
  BY DEF Init, TypeOK
<1>2. ASSUME NEW c \in Calls PROVE Fits(c, call[c], sent[c])
  <2>1. call[c] = Idle /\ sent[c] = <<>>
    BY DEF Init
  <2>2. config.context \in Nat
    BY <1>1, GenerationAssumption DEF TypeOK
  <2>3. /\ IsState(Idle) /\ Idle.pc = "idle" /\ Idle.position = 0 /\ Idle.produced = 0
        /\ Idle.late = 0 /\ ~Idle.request.stream
    BY DEF Idle, NoRequest, IsState, Fields
  <2>4. Typed(c, Idle)
    BY <2>3 DEF Typed, PcStep
  <2>5. Late(c, Idle) /\ Filled(Idle)
    BY <2>2, <2>3 DEF Late, Filled, StepOf, Generating
  <2>6. <<>> \in Seq(Range(<<>>))
    OBVIOUS
  <2>7. Written(c, Idle, <<>>)
    BY <2>3, <2>6 DEF Written, Unopened
  <2>8. QED BY <2>1, <2>4, <2>5, <2>7 DEF Fits
<1>3. QED BY <1>1, <1>2 DEF Inv

LEMMA NextInv == ASSUME Inv, [Next]_vars PROVE Inv'
<1>1. ASSUME NEW c \in Calls, Admission(c) PROVE Inv'
  BY <1>1, AdmitCancelledInv, AdmitInv DEF Admission
<1>2. ASSUME NEW c \in Calls, Worker(c) PROVE Inv'
  BY <1>2, PrepareInv, EvaluateChunkInv, AfterChunkInv, LoopHeadInv, SampleInv,
     EvaluateTokenInv, FlushInv, FinishInv, DeliverInv, DeliverStopsInv DEF Worker
<1>3. ASSUME NEW c \in Calls, Consumer(c) PROVE Inv'
  BY <1>3, BeginInv, TakeInv, CancelInv, DropInv DEF Consumer
<1>4. CASE UNCHANGED vars
  BY <1>4 DEF vars, Inv, TypeOK, Fits, Typed, Late, Filled, Written, LoadError, Stopping, MaxNew
<1>5. QED BY <1>1, <1>2, <1>3, <1>4 DEF Next

\* Of every call, at every step: what it holds has the form that step needs, its
\* context is filled as far as its limits allow, its channel holds what a stream
\* holds at that step, and a batch evaluated after the call was given up is its
\* last.
THEOREM GenerationInvariant == Spec => []Inv
<1>1. Init => Inv
  BY InitInv
<1>2. Inv /\ [Next]_vars => Inv'
  BY NextInv
<1>3. QED BY <1>1, <1>2, PTL DEF Spec

\* Of a call that is cancelled or dropped, whenever that happens, the worker
\* evaluates one more batch at most: one token, or one chunk of the prompt.
THEOREM WorkersStopSoon == Spec => []AbandonedStopsSoon
<1>1. Inv => AbandonedStopsSoon
  <2>1. ASSUME Inv, NEW c \in Calls PROVE call[c].late <= 1
    BY <2>1 DEF Inv, Fits, Typed, Late
  <2>2. QED BY <2>1 DEF AbandonedStopsSoon
<1>2. QED BY <1>1, GenerationInvariant, PTL

\* No position past the configured context is ever evaluated, nor one past the
\* context the model was trained for, whatever a request asks.
THEOREM ContextNeverOverflows == Spec => []ContextFits
<1>1. Inv => ContextFits
  <2>1. ASSUME Inv, NEW c \in Calls, call[c].position > 0
        PROVE  call[c].position <= config.context /\ config.context <= file.trained
    <3>1. call[c].position <= config.context
      BY <2>1 DEF Inv, Fits, Filled
    <3>2. call[c].pc # "idle"
      BY <2>1 DEF Inv, Fits, Filled, StepOf
    <3>3. ~(config.context > file.trained)
      BY <2>1, <3>2, LoadedContext DEF Inv, Fits, Typed
    <3>4. config.context \in Nat /\ file.trained \in Nat
      BY <2>1, GenerationAssumption DEF Inv, TypeOK
    <3>5. QED BY <3>1, <3>3, <3>4
  <2>2. QED BY <2>1 DEF ContextFits
<1>2. QED BY <1>1, GenerationInvariant, PTL

\* A stream begins with Started, goes on with deltas, and does not end without
\* saying how, unless its consumer gave it up.
THEOREM StreamsEndExplicitly == Spec => []EndsExplicitly
<1>1. Inv => EndsExplicitly
  <2> SUFFICES ASSUME Inv, NEW c \in Calls
               PROVE  LET events == sent[c]
                      IN  /\ \A i \in DOMAIN events :
                                /\ (i = 1) = (events[i].kind = "started")
                                /\ 1 < i /\ i < Len(events) => IsDelta(events[i])
                          /\ /\ call[c].pc = "ended" /\ call[c].request.stream
                             /\ ~Stopping(c)
                             => Last(events).kind \in LastKind
    BY DEF EndsExplicitly, LastKind
  <2> DEFINE events == sent[c]
             s == call[c]
  <2>1. Fits(c, s, events)
    BY DEF Inv
  <2> HIDE DEF events, s
  <2>2. /\ events \in Seq(Range(events)) /\ Len(events) \in Nat
        /\ DOMAIN events = 1 .. Len(events)
    BY <2>1 DEF Fits, Written
  <2>3. events = <<>> \/ Open(events) \/ Closed(events)
    BY <2>1 DEF Fits, Written
  <2>4. ASSUME NEW i \in DOMAIN events
        PROVE  /\ (i = 1) = (events[i].kind = "started")
               /\ 1 < i /\ i < Len(events) => events[i].kind = "delta"
    <3>1. CASE Open(events)
      BY <2>2, <2>4, <3>1 DEF Open
    <3>2. CASE Closed(events)
      BY <2>2, <2>4, <3>2 DEF Closed, LastKind, Errors
    <3>3. QED BY <2>2, <2>3, <3>1, <3>2
  <2>5. ASSUME s.pc = "ended", s.request.stream, ~Stopping(c)
        PROVE  Last(events).kind \in LastKind
    BY <2>1, <2>5 DEF Fits, Written, Closed, Last
  <2>6. QED BY <2>4, <2>5 DEF IsDelta, events, s
<1>2. QED BY <1>1, GenerationInvariant, PTL

-------------------------------------------------------------------------------
\* The stop filter.  A stop sequence at i of a text, and one that begins there and
\* is not over.
Occurs(text, stop, i) ==
    /\ i + Len(stop) - 1 <= Len(text)
    /\ \A k \in 1 .. Len(stop) : text[i + k - 1] = stop[k]

Begins(text, stop, i) ==
    /\ Len(text) - i + 1 < Len(stop)
    /\ \A k \in 1 .. Len(text) - i + 1 : text[i + k - 1] = stop[k]

Texts == Seq(STRING)

\* The least and the greatest of a set of numbers.
LEMMA MinExists ==
    ASSUME NEW S \in SUBSET Nat, S # {}
    PROVE  Min(S) \in S /\ \A i \in S : Min(S) <= i
<1> DEFINE less == OpToRel(<, Nat)
<1>1. IsWellFoundedOn(less, Nat)
  BY NatLessThanWellFounded, Zenon
<1>2. ASSUME NEW i \in Nat, NEW j \in Nat, i < j PROVE <<i, j>> \in less
  BY <1>2, SMT DEF OpToRel
<1> HIDE DEF less
<1>3. PICK x \in S : \A y \in S : <<y, x>> \notin less
  BY <1>1, WFMin
<1>4. \A y \in S : ~(y < x)
  BY <1>2, <1>3, Zenon
<1>5. \A y \in S : x <= y
  BY <1>4
<1>6. QED BY <1>3, <1>5 DEF Min

LEMMA MaxExists ==
    ASSUME NEW n \in Nat, NEW S \in SUBSET (0 .. n), S # {}
    PROVE  Max(S) \in S /\ \A i \in S : i <= Max(S)
<1> DEFINE T == {n - i : i \in S}
<1>1. T \in SUBSET Nat /\ T # {}
  <2>1. \A i \in S : n - i \in Nat
    OBVIOUS
  <2>2. QED BY <2>1
<1>2. Min(T) \in T /\ \A i \in T : Min(T) <= i
  BY <1>1, MinExists
<1>3. PICK x \in S : Min(T) = n - x
  BY <1>2
<1>4. ASSUME NEW i \in S PROVE x >= i
  <2>1. n - x <= n - i
    BY <1>2, <1>3
  <2>2. QED BY <2>1
<1>5. QED BY <1>3, <1>4 DEF Max

\* Parts of a text, and texts that begin others.
LEMMA PartFacts ==
    ASSUME NEW text \in Texts, NEW i \in Nat, 1 <= i, NEW j \in Nat, j <= Len(text)
    PROVE  LET part == SubSeq(text, i, j)
           IN  /\ part \in Texts
               /\ Len(part) = IF i <= j THEN j - i + 1 ELSE 0
               /\ \A k \in 1 .. j - i + 1 : part[k] = text[i + k - 1]
<1>1. Len(text) \in Nat /\ \A k \in 1 .. Len(text) : text[k] \in STRING
  BY DEF Texts
<1>2. \A k \in i .. j : text[k] \in STRING
  BY <1>1
<1>3. QED BY <1>2, SubSeqProperties DEF Texts

LEMMA PrefixFacts ==
    ASSUME NEW s \in Texts, NEW t \in Texts
    PROVE  IsPrefix(s, t) <=> Len(s) <= Len(t) /\ \A k \in 1 .. Len(s) : s[k] = t[k]
<1>1. Len(s) \in Nat /\ Len(t) \in Nat /\ SubSeq(s, 1, Len(s)) = s
  BY SubSeqFull DEF Texts
<1>2. CASE ~(Len(s) <= Len(t))
  BY <1>2 DEF IsPrefix
<1>3. CASE Len(s) <= Len(t)
  <2> DEFINE part == SubSeq(t, 1, Len(s))
  <2>1. /\ part \in Texts /\ Len(part) = Len(s)
        /\ \A k \in 1 .. Len(s) : part[k] = t[k]
    BY <1>1, <1>3, PartFacts
  <2>2. IsPrefix(s, t) <=> s = part
    BY <1>1, <1>3 DEF IsPrefix
  <2> HIDE DEF part
  <2>3. ASSUME \A k \in 1 .. Len(s) : s[k] = t[k] PROVE s = part
    BY <2>1, <2>3, SeqEqual DEF Texts
  <2>4. QED BY <1>3, <2>1, <2>2, <2>3
<1>4. QED BY <1>2, <1>3

\* What the comparisons of the filter say, character by character.
LEMMA OccursFacts ==
    ASSUME NEW text \in Texts, NEW stop \in Texts, NEW i \in DOMAIN text
    PROVE  IsPrefix(stop, SubSeq(text, i, Len(text))) <=> Occurs(text, stop, i)
<1> DEFINE rest == SubSeq(text, i, Len(text))
<1>1. Len(text) \in Nat /\ Len(stop) \in Nat /\ i \in Nat /\ 1 <= i /\ i <= Len(text)
  BY DEF Texts
<1>2. /\ rest \in Texts /\ Len(rest) = Len(text) - i + 1
      /\ \A k \in 1 .. Len(text) - i + 1 : rest[k] = text[i + k - 1]
  BY <1>1, PartFacts
<1> HIDE DEF rest
<1>3. IsPrefix(stop, rest) <=> /\ Len(stop) <= Len(rest)
                               /\ \A k \in 1 .. Len(stop) : stop[k] = rest[k]
  BY <1>2, PrefixFacts
<1>4. QED BY <1>1, <1>2, <1>3 DEF Occurs, rest

LEMMA BeginsFacts ==
    ASSUME NEW text \in Texts, NEW stop \in Texts, NEW i \in DOMAIN text,
           Begins(text, stop, i)
    PROVE  IsStrictPrefix(SubSeq(text, i, Len(text)), stop)
<1> DEFINE rest == SubSeq(text, i, Len(text))
<1>1. Len(text) \in Nat /\ Len(stop) \in Nat /\ i \in Nat /\ 1 <= i /\ i <= Len(text)
  BY DEF Texts
<1>2. /\ rest \in Texts /\ Len(rest) = Len(text) - i + 1
      /\ \A k \in 1 .. Len(text) - i + 1 : rest[k] = text[i + k - 1]
  BY <1>1, PartFacts
<1> HIDE DEF rest
<1>3. IsPrefix(rest, stop) <=> /\ Len(rest) <= Len(stop)
                               /\ \A k \in 1 .. Len(rest) : rest[k] = stop[k]
  BY <1>2, PrefixFacts
<1>4. IsPrefix(rest, stop) /\ rest # stop
  BY <1>1, <1>2, <1>3 DEF Begins
<1>5. QED BY <1>4 DEF IsStrictPrefix, rest

LEMMA FoundFacts ==
    ASSUME NEW text \in Texts, NEW stops \in SUBSET Texts
    PROVE  /\ Found(text, stops) \in SUBSET Nat
           /\ Found(text, stops) =
                 {i \in 1 .. Len(text) : \E stop \in stops : Occurs(text, stop, i)}
<1>1. DOMAIN text = 1 .. Len(text) /\ Len(text) \in Nat
  BY DEF Texts
<1>2. \A i \in DOMAIN text, stop \in stops :
         IsPrefix(stop, SubSeq(text, i, Len(text))) <=> Occurs(text, stop, i)
  BY OccursFacts
<1>3. Found(text, stops) = {i \in 1 .. Len(text) : \E stop \in stops : Occurs(text, stop, i)}
  BY <1>1, <1>2 DEF Found
<1>4. QED BY <1>1, <1>3

\* What is kept is long enough for every stop sequence that is not over.
LEMMA KeepFacts ==
    ASSUME NEW text \in Texts, NEW stops \in SUBSET Texts
    PROVE  /\ Keep(text, stops) \in 0 .. Len(text)
           /\ \A stop \in stops, i \in 1 .. Len(text) :
                 Begins(text, stop, i) => Len(text) - i + 1 <= Keep(text, stops)
<1> DEFINE lengths == {0} \cup {n \in DOMAIN text :
                        \E stop \in stops :
                           IsStrictPrefix(SubSeq(text, Len(text) - n + 1, Len(text)), stop)}
<1>1. DOMAIN text = 1 .. Len(text) /\ Len(text) \in Nat
  BY DEF Texts
<1>2. lengths \in SUBSET (0 .. Len(text)) /\ lengths # {} /\ Keep(text, stops) = Max(lengths)
  BY <1>1 DEF Keep
<1>3. Max(lengths) \in lengths /\ \A n \in lengths : n <= Max(lengths)
  <2> HIDE DEF lengths
  <2>1. QED BY <1>1, <1>2, MaxExists
<1>4. ASSUME NEW stop \in stops, NEW i \in 1 .. Len(text), Begins(text, stop, i)
      PROVE  Len(text) - i + 1 \in lengths
  <2>1. IsStrictPrefix(SubSeq(text, i, Len(text)), stop)
    BY <1>1, <1>4, BeginsFacts
  <2>2. Len(text) - (Len(text) - i + 1) + 1 = i /\ Len(text) - i + 1 \in DOMAIN text
    BY <1>1
  <2>3. QED BY <2>1, <2>2
<1> HIDE DEF lengths
<1>5. QED BY <1>2, <1>3, <1>4

\* A text in which no stop sequence is.
Clean(text, stops) == \A stop \in stops, i \in 1 .. Len(text) : ~Occurs(text, stop, i)

LEMMA CleanFacts ==
    ASSUME NEW text \in Texts, NEW stops \in SUBSET Texts
    PROVE  Found(text, stops) = {} <=> Clean(text, stops)
BY FoundFacts DEF Clean

\* A text that is cut at the first stop sequence.
LEMMA CutFacts ==
    ASSUME NEW text \in Texts, NEW stops \in SUBSET Texts, Found(text, stops) # {}
    PROVE  LET first == Min(Found(text, stops))
           IN  /\ first \in 1 .. Len(text)
               /\ Clean(SubSeq(text, 1, first - 1), stops)
               /\ IsPrefix(SubSeq(text, 1, first - 1), text)
<1> DEFINE found == Found(text, stops)
           first == Min(found)
           part == SubSeq(text, 1, first - 1)
<1>1. /\ found \in SUBSET Nat
      /\ found = {i \in 1 .. Len(text) : \E stop \in stops : Occurs(text, stop, i)}
  BY FoundFacts
<1>2. first \in found /\ \A i \in found : first <= i
  <2>1. found \in SUBSET Nat /\ found # {}
    BY <1>1
  <2> HIDE DEF found
  <2>2. QED BY <2>1, MinExists
<1>3. Len(text) \in Nat
  BY DEF Texts
<1> HIDE DEF first, found
<1>4. first \in 1 .. Len(text)
  BY <1>1, <1>2
<1>5. part \in Texts /\ Len(part) = first - 1 /\ \A k \in 1 .. first - 1 : part[k] = text[k]
  <2>1. /\ first - 1 \in Nat /\ first - 1 <= Len(text)
        /\ (IF 1 <= first - 1 THEN first - 1 - 1 + 1 ELSE 0) = first - 1
    BY <1>3, <1>4
  <2>2. /\ part \in Texts /\ Len(part) = IF 1 <= first - 1 THEN first - 1 - 1 + 1 ELSE 0
        /\ \A k \in 1 .. first - 1 - 1 + 1 : part[k] = text[1 + k - 1]
    BY <2>1, PartFacts
  <2>3. QED BY <1>4, <2>1, <2>2
<1> HIDE DEF part
<1>6. ASSUME NEW stop \in stops, NEW i \in 1 .. Len(part), Occurs(part, stop, i) PROVE FALSE
  <2>1. Len(stop) \in Nat /\ i + Len(stop) - 1 <= first - 1
    BY <1>5, <1>6 DEF Occurs, Texts
  <2>2. \A k \in 1 .. Len(stop) : i + k - 1 \in 1 .. first - 1
    BY <1>4, <1>5, <2>1
  <2>3. \A k \in 1 .. Len(stop) : text[i + k - 1] = stop[k]
    BY <1>5, <1>6, <2>2 DEF Occurs
  <2>4. Occurs(text, stop, i) /\ i \in 1 .. Len(text) /\ ~(first <= i)
    BY <1>3, <1>4, <1>5, <2>1, <2>3 DEF Occurs
  <2>5. QED BY <1>1, <1>2, <2>4
<1>7. Clean(part, stops)
  BY <1>6 DEF Clean
<1>8. IsPrefix(part, text)
  BY <1>3, <1>4, <1>5, PrefixFacts
<1>9. QED BY <1>4, <1>7, <1>8 DEF part, first, found

\* A text split in two.
LEMMA SplitFacts ==
    ASSUME NEW text \in Texts, NEW cut \in Nat, cut <= Len(text)
    PROVE  LET out == SubSeq(text, 1, cut)
               rest == SubSeq(text, cut + 1, Len(text))
           IN  out \in Texts /\ rest \in Texts /\ out \o rest = text /\ Len(out) = cut
<1>1. Len(text) \in Nat
  BY DEF Texts
<1>2. SubSeq(text, 1, cut) \in Texts /\ Len(SubSeq(text, 1, cut)) = cut
  <2>1. (IF 1 <= cut THEN cut - 1 + 1 ELSE 0) = cut
    OBVIOUS
  <2>2. QED BY <2>1, PartFacts
<1>3. SubSeq(text, cut + 1, Len(text)) \in Texts
  BY <1>1, PartFacts
<1>4. SubSeq(text, 1, cut) \o SubSeq(text, cut + 1, Len(text)) = SubSeq(text, 1, Len(text))
  <2>1. 1 \in 1 .. Len(text) + 1 /\ cut \in 1 - 1 .. Len(text) /\ Len(text) \in cut .. Len(text)
    BY <1>1
  <2>2. QED BY <2>1, ConcatAdjacentSubSeq DEF Texts
<1>5. SubSeq(text, 1, Len(text)) = text
  BY SubSeqFull DEF Texts
<1>6. QED BY <1>2, <1>3, <1>4, <1>5

\* Two texts after each other.
LEMMA JoinFacts ==
    ASSUME NEW s \in Texts, NEW t \in Texts
    PROVE  /\ s \o t \in Texts /\ Len(s \o t) = Len(s) + Len(t)
           /\ Len(s) \in Nat /\ Len(t) \in Nat
           /\ \A i \in 1 .. Len(s) : (s \o t)[i] = s[i]
           /\ \A i \in 1 .. Len(t) : (s \o t)[Len(s) + i] = t[i]
           /\ IsPrefix(s, s \o t)
<1>1. Len(s) \in Nat /\ Len(t) \in Nat
  BY DEF Texts
<1>2. /\ s \o t \in Texts /\ Len(s \o t) = Len(s) + Len(t)
      /\ \A i \in 1 .. Len(s) + Len(t) :
            (s \o t)[i] = IF i <= Len(s) THEN s[i] ELSE t[i - Len(s)]
  BY ConcatProperties DEF Texts
<1> DEFINE all == s \o t
<1> HIDE DEF all
<1>3. \A i \in 1 .. Len(s) : all[i] = s[i]
  BY <1>1, <1>2 DEF all
<1>4. \A i \in 1 .. Len(t) : all[Len(s) + i] = t[i]
  <2>1. ASSUME NEW i \in 1 .. Len(t) PROVE all[Len(s) + i] = t[i]
    <3>1. /\ Len(s) + i \in 1 .. Len(s) + Len(t) /\ ~(Len(s) + i <= Len(s))
          /\ Len(s) + i - Len(s) = i
      BY <1>1
    <3>2. QED BY <1>2, <3>1 DEF all
  <2>2. QED BY <2>1
<1>5. IsPrefix(s, all)
  <2>1. all \in Texts /\ Len(all) = Len(s) + Len(t)
    BY <1>2 DEF all
  <2>2. Len(s) <= Len(all)
    BY <1>1, <2>1
  <2>3. QED BY <1>3, <2>1, <2>2, PrefixFacts
<1>6. QED BY <1>1, <1>2, <1>3, <1>4, <1>5 DEF all

\* A text, and the beginning of the one after it.
LEMMA JoinPart ==
    ASSUME NEW s \in Texts, NEW t \in Texts, NEW cut \in Nat, cut <= Len(t)
    PROVE  /\ SubSeq(t, 1, cut) \in Texts
           /\ s \o SubSeq(t, 1, cut) = SubSeq(s \o t, 1, Len(s) + cut)
<1> DEFINE part == SubSeq(t, 1, cut)
           left == s \o part
           right == SubSeq(s \o t, 1, Len(s) + cut)
<1>1. part \in Texts /\ Len(part) = cut
  BY SplitFacts
<1>2. \A i \in 1 .. cut : part[i] = t[i]
  <2>1. \A i \in 1 .. cut - 1 + 1 : part[i] = t[1 + i - 1]
    BY PartFacts
  <2>2. ASSUME NEW i \in 1 .. cut PROVE i \in 1 .. cut - 1 + 1 /\ 1 + i - 1 = i
    OBVIOUS
  <2>3. QED BY <2>1, <2>2
<1> HIDE DEF part
<1>3. /\ left \in Texts /\ Len(left) = Len(s) + cut /\ Len(s) \in Nat
      /\ \A i \in 1 .. Len(s) : left[i] = s[i]
      /\ \A i \in 1 .. cut : left[Len(s) + i] = part[i]
  BY <1>1, JoinFacts
<1>4. /\ s \o t \in Texts /\ Len(s \o t) = Len(s) + Len(t) /\ Len(t) \in Nat
      /\ \A i \in 1 .. Len(s) : (s \o t)[i] = s[i]
      /\ \A i \in 1 .. Len(t) : (s \o t)[Len(s) + i] = t[i]
  BY JoinFacts
<1> DEFINE all == s \o t
           n == Len(s) + cut
<1>5. all \in Texts /\ n \in Nat /\ n <= Len(all)
  BY <1>3, <1>4
<1> HIDE DEF all, left
<1>6. /\ right \in Texts /\ Len(right) = n
      /\ \A i \in 1 .. n : right[i] = all[i]
  <2>1. SubSeq(all, 1, n) \in Texts /\ Len(SubSeq(all, 1, n)) = n
    BY <1>5, SplitFacts
  <2>2. \A i \in 1 .. n - 1 + 1 : SubSeq(all, 1, n)[i] = all[1 + i - 1]
    BY <1>5, PartFacts
  <2>3. ASSUME NEW i \in 1 .. n PROVE i \in 1 .. n - 1 + 1 /\ 1 + i - 1 = i
    BY <1>5
  <2> HIDE DEF n
  <2>4. \A i \in 1 .. n : SubSeq(all, 1, n)[i] = all[i]
    BY <2>2, <2>3
  <2>5. QED BY <2>1, <2>4 DEF all, n
<1> HIDE DEF right
<1>7. ASSUME NEW i \in 1 .. n PROVE left[i] = right[i]
  <2>1. CASE i <= Len(s)
    <3>1. i \in 1 .. Len(s)
      BY <1>3, <2>1
    <3>2. QED BY <1>3, <1>4, <1>6, <3>1 DEF all
  <2>2. CASE ~(i <= Len(s))
    <3> DEFINE j == i - Len(s)
    <3>1. j \in 1 .. cut /\ j \in 1 .. Len(t) /\ Len(s) + j = i
      BY <1>3, <1>4, <2>2
    <3> HIDE DEF j
    <3>2. left[i] = t[j]
      BY <1>2, <1>3, <3>1
    <3>3. right[i] = t[j]
      BY <1>4, <1>6, <3>1 DEF all
    <3>4. QED BY <3>2, <3>3
  <2>3. QED BY <2>1, <2>2
<1>8. left = right
  BY <1>3, <1>6, <1>7, SeqEqual DEF Texts
<1>9. QED BY <1>1, <1>8 DEF left, right, part

\* No stop sequence begins in what was passed on, not one that is not over.
Settled(text, decoded, stops) ==
    \A stop \in stops, i \in 1 .. Len(text) : ~Begins(decoded, stop, i)

\* The text that was passed on, what is held back and the text that comes: a stop
\* sequence in all of it is one in what was held back and what comes.
LEMMA HeldIsEnough ==
    ASSUME NEW text \in Texts, NEW held \in Texts, NEW piece \in Texts,
           NEW stops \in SUBSET Texts,
           Clean(text \o held, stops), Settled(text, text \o held, stops)
    PROVE  LET all == held \o piece
               next == (text \o held) \o piece
           IN  /\ next = text \o all
               /\ \A stop \in stops, i \in 1 .. Len(text) :
                     ~Occurs(next, stop, i) /\ ~Begins(next, stop, i)
               /\ \A stop \in stops, i \in 1 .. Len(all) :
                     /\ Occurs(next, stop, Len(text) + i) <=> Occurs(all, stop, i)
                     /\ Begins(next, stop, Len(text) + i) => Begins(all, stop, i)
<1> DEFINE decoded == text \o held
           all == held \o piece
           next == decoded \o piece
<1>1. /\ decoded \in Texts /\ Len(decoded) = Len(text) + Len(held)
      /\ Len(text) \in Nat /\ Len(held) \in Nat
  BY JoinFacts
<1>2. all \in Texts /\ Len(all) = Len(held) + Len(piece) /\ Len(piece) \in Nat
  BY JoinFacts
<1>3. next = text \o all
  BY ConcatAssociative DEF Texts
<1>4. Clean(decoded, stops) /\ Settled(text, decoded, stops)
  OBVIOUS
<1> HIDE DEF decoded, all
<1>5. /\ next \in Texts /\ Len(next) = Len(decoded) + Len(piece)
      /\ \A i \in 1 .. Len(decoded) : next[i] = decoded[i]
  BY <1>1, JoinFacts
<1>6. \A i \in 1 .. Len(all) : next[Len(text) + i] = all[i]
  <2>1. \A i \in 1 .. Len(all) : (text \o all)[Len(text) + i] = all[i]
    BY <1>2, JoinFacts
  <2>2. QED BY <1>3, <2>1, Zenon
<1> HIDE DEF next
<1>7. ASSUME NEW stop \in stops, NEW i \in 1 .. Len(text)
      PROVE  ~Occurs(next, stop, i) /\ ~Begins(next, stop, i)
  <2>1. Len(stop) \in Nat /\ i \in 1 .. Len(decoded)
    BY <1>1 DEF Texts
  <2>2. ~Occurs(decoded, stop, i) /\ ~Begins(decoded, stop, i)
    BY <1>4, <2>1 DEF Clean, Settled
  <2>3. CASE i + Len(stop) - 1 <= Len(decoded)
    <3>1. \A k \in 1 .. Len(stop) : i + k - 1 \in 1 .. Len(decoded)
      BY <1>1, <2>1, <2>3
    <3>2. ~Occurs(next, stop, i)
      BY <1>5, <2>2, <2>3, <3>1 DEF Occurs
    <3>3. ~(Len(next) - i + 1 < Len(stop))
      BY <1>1, <1>2, <1>5, <2>1, <2>3
    <3>4. QED BY <3>2, <3>3 DEF Begins
  <2>4. CASE ~(i + Len(stop) - 1 <= Len(decoded))
    <3>1. Len(decoded) - i + 1 < Len(stop) /\ Len(next) - i + 1 >= Len(decoded) - i + 1
      BY <1>1, <1>2, <1>5, <2>1, <2>4
    <3>2. PICK k \in 1 .. Len(decoded) - i + 1 : decoded[i + k - 1] # stop[k]
      BY <2>2, <3>1 DEF Begins
    <3>3. i + k - 1 \in 1 .. Len(decoded)
      BY <1>1, <2>1
    <3>4. next[i + k - 1] # stop[k]
      BY <1>5, <3>2, <3>3
    <3>5. k \in 1 .. Len(stop) /\ k \in 1 .. Len(next) - i + 1
      BY <1>1, <1>2, <1>5, <2>1, <3>1
    <3>6. QED BY <3>4, <3>5 DEF Occurs, Begins
  <2>5. QED BY <2>3, <2>4
<1>8. ASSUME NEW stop \in stops, NEW i \in 1 .. Len(all)
      PROVE  /\ Occurs(next, stop, Len(text) + i) <=> Occurs(all, stop, i)
             /\ Begins(next, stop, Len(text) + i) => Begins(all, stop, i)
  <2>1. Len(stop) \in Nat /\ Len(next) = Len(text) + Len(all) /\ Len(all) \in Nat
    BY <1>1, <1>2, <1>5 DEF Texts
  <2>2. /\ Len(text) + i + Len(stop) - 1 <= Len(next) <=> i + Len(stop) - 1 <= Len(all)
        /\ Len(next) - (Len(text) + i) + 1 = Len(all) - i + 1
    BY <1>1, <2>1
  <2>3. ASSUME NEW k \in Nat, 1 <= k, i + k - 1 <= Len(all)
        PROVE  next[Len(text) + i + k - 1] = all[i + k - 1]
    <3>1. i + k - 1 \in 1 .. Len(all) /\ Len(text) + i + k - 1 = Len(text) + (i + k - 1)
      BY <1>1, <2>1, <2>3
    <3>2. QED BY <1>6, <3>1
  <2>4. Occurs(next, stop, Len(text) + i) <=> Occurs(all, stop, i)
    <3>1. CASE i + Len(stop) - 1 <= Len(all)
      <4>1. \A k \in 1 .. Len(stop) : k \in Nat /\ 1 <= k /\ i + k - 1 <= Len(all)
        BY <2>1, <3>1
      <4>2. QED BY <2>2, <2>3, <3>1, <4>1 DEF Occurs
    <3>2. CASE ~(i + Len(stop) - 1 <= Len(all))
      BY <2>2, <3>2 DEF Occurs
    <3>3. QED BY <3>1, <3>2
  <2>5. ASSUME Begins(next, stop, Len(text) + i) PROVE Begins(all, stop, i)
    <3>1. \A k \in 1 .. Len(all) - i + 1 : k \in Nat /\ 1 <= k /\ i + k - 1 <= Len(all)
      BY <2>1
    <3>2. QED BY <2>2, <2>3, <2>5, <3>1 DEF Begins
  <2>6. QED BY <2>4, <2>5
<1>9. QED BY <1>3, <1>7, <1>8 DEF decoded, all, next

\* The least of a set is known by what is in it.
LEMMA MinIs ==
    ASSUME NEW S \in SUBSET Nat, NEW m \in S, \A i \in S : m <= i
    PROVE  Min(S) = m
<1>1. S # {}
  OBVIOUS
<1>2. Min(S) \in S /\ Min(S) <= m
  BY <1>1, MinExists
<1>3. m <= Min(S)
  BY <1>2
<1> DEFINE least == Min(S)
<1>4. least \in Nat /\ m \in Nat /\ least <= m /\ m <= least
  BY <1>2, <1>3
<1> HIDE DEF least
<1>5. least = m
  BY <1>4
<1>6. QED BY <1>5 DEF least

\* What a text without a stop sequence begins with has none either.
LEMMA CleanPrefix ==
    ASSUME NEW s \in Texts, NEW t \in Texts, NEW stops \in SUBSET Texts,
           IsPrefix(s, t), Clean(t, stops)
    PROVE  Clean(s, stops)
<1>1. Len(s) \in Nat /\ Len(t) \in Nat /\ Len(s) <= Len(t) /\ \A k \in 1 .. Len(s) : s[k] = t[k]
  BY PrefixFacts DEF Texts
<1>2. ASSUME NEW stop \in stops, NEW i \in 1 .. Len(s), Occurs(s, stop, i) PROVE FALSE
  <2>1. Len(stop) \in Nat /\ i + Len(stop) - 1 <= Len(s)
    BY <1>2 DEF Occurs, Texts
  <2>2. \A k \in 1 .. Len(stop) : i + k - 1 \in 1 .. Len(s)
    BY <1>1, <2>1
  <2>3. Occurs(t, stop, i) /\ i \in 1 .. Len(t)
    BY <1>1, <1>2, <2>1, <2>2 DEF Occurs
  <2>4. QED BY <2>3 DEF Clean
<1>3. QED BY <1>2 DEF Clean

\* Of the decoded text: all of it was passed on or is held back, or it was cut
\* at the first stop sequence.
Passes(text, held, decoded, stops) ==
    /\ decoded = text \o held
    /\ Clean(decoded, stops) /\ Settled(text, decoded, stops)

CutAt(text, decoded, stops) ==
    /\ Found(decoded, stops) # {}
    /\ text = SubSeq(decoded, 1, Min(Found(decoded, stops)) - 1)

\* The filter finds the first stop sequence in the text, wherever pieces split
\* it, and passes on only what no stop sequence can begin in.
LEMMA PushFacts ==
    ASSUME NEW text \in Texts, NEW held \in Texts, NEW decoded \in Texts,
           NEW piece \in Texts, NEW stops \in SUBSET Texts,
           Passes(text, held, decoded, stops)
    PROVE  LET filter == StopPush(held, piece, stops)
           IN  /\ filter.stopped \in BOOLEAN /\ filter.out \in Texts /\ filter.held \in Texts
               /\ ~filter.stopped =>
                     Passes(text \o filter.out, filter.held, decoded \o piece, stops)
               /\ filter.stopped =>
                     /\ filter.held = <<>>
                     /\ CutAt(text \o filter.out, decoded \o piece, stops)
<1> DEFINE all == held \o piece
           next == decoded \o piece
           keep == Keep(all, stops)
           filter == StopPush(held, piece, stops)
<1>1. /\ decoded = text \o held
      /\ Clean(text \o held, stops) /\ Settled(text, text \o held, stops)
  BY DEF Passes
<1>2. all \in Texts /\ Len(all) \in Nat /\ Len(text) \in Nat
  BY JoinFacts DEF Texts
<1>3. /\ next = text \o all
      /\ \A stop \in stops, i \in 1 .. Len(text) :
            ~Occurs(next, stop, i) /\ ~Begins(next, stop, i)
      /\ \A stop \in stops, i \in 1 .. Len(all) :
            /\ Occurs(next, stop, Len(text) + i) <=> Occurs(all, stop, i)
            /\ Begins(next, stop, Len(text) + i) => Begins(all, stop, i)
  BY <1>1, HeldIsEnough
<1>4. next \in Texts /\ Len(next) = Len(text) + Len(all)
  BY <1>2, <1>3, JoinFacts
<1>5. /\ Found(all, stops) \in SUBSET Nat /\ Found(next, stops) \in SUBSET Nat
      /\ Found(all, stops) = {i \in 1 .. Len(all) : \E stop \in stops : Occurs(all, stop, i)}
      /\ Found(next, stops) = {i \in 1 .. Len(next) : \E stop \in stops : Occurs(next, stop, i)}
  BY <1>2, <1>4, FoundFacts
<1> HIDE DEF next
<1>6. ASSUME NEW i \in Found(next, stops) PROVE i - Len(text) \in Found(all, stops)
  <2>1. PICK stop \in stops : Occurs(next, stop, i)
    BY <1>5
  <2>2. i \in 1 .. Len(next) /\ i \notin 1 .. Len(text)
    BY <1>3, <1>5, <2>1
  <2>3. i - Len(text) \in 1 .. Len(all) /\ Len(text) + (i - Len(text)) = i
    BY <1>2, <1>4, <2>2
  <2>4. Occurs(all, stop, i - Len(text))
    BY <1>3, <2>1, <2>3
  <2>5. QED BY <1>5, <2>3, <2>4
<1>7. ASSUME NEW i \in Found(all, stops) PROVE Len(text) + i \in Found(next, stops)
  <2>1. PICK stop \in stops : Occurs(all, stop, i)
    BY <1>5
  <2>2. i \in 1 .. Len(all) /\ Len(text) + i \in 1 .. Len(next)
    BY <1>2, <1>4, <1>5
  <2>3. QED BY <1>3, <1>5, <2>1, <2>2
<1> HIDE DEF all
<1>8. CASE Found(all, stops) # {}
  <2> DEFINE first == Min(Found(all, stops))
             out == SubSeq(all, 1, first - 1)
  <2>1. filter = [out |-> out, held |-> <<>>, stopped |-> TRUE]
    BY <1>8 DEF StopPush, all
  <2>2. first \in Found(all, stops) /\ \A i \in Found(all, stops) : first <= i
    BY <1>5, <1>8, MinExists
  <2> HIDE DEF first, filter
  <2>3. first \in 1 .. Len(all)
    BY <1>5, <2>2
  <2>4. Len(text) + first \in Found(next, stops)
    BY <1>7, <2>2
  <2>5. ASSUME NEW i \in Found(next, stops) PROVE Len(text) + first <= i
    <3>1. first <= i - Len(text) /\ i \in Nat
      BY <1>5, <1>6, <2>2
    <3>2. QED BY <1>2, <2>3, <3>1
  <2>6. Min(Found(next, stops)) = Len(text) + first
    BY <1>5, <2>4, <2>5, MinIs
  <2>7. out \in Texts /\ text \o out = SubSeq(next, 1, (Len(text) + first) - 1)
    <3>1. /\ first - 1 \in Nat /\ 1 <= first /\ first - 1 <= Len(all)
      BY <1>2, <2>3
    <3>2. out \in Texts /\ text \o out = SubSeq(text \o all, 1, Len(text) + (first - 1))
      BY <1>2, <3>1, JoinPart
    <3>3. Len(text) + (first - 1) = (Len(text) + first) - 1
      BY <1>2, <2>3
    <3>4. QED BY <1>3, <3>2, <3>3
  <2> HIDE DEF out
  <2>8. CutAt(text \o out, next, stops)
    <3>1. Found(next, stops) # {}
      BY <2>4
    <3>2. text \o out = SubSeq(next, 1, Min(Found(next, stops)) - 1)
      BY <2>6, <2>7, Zenon
    <3>3. QED BY <3>1, <3>2, Zenon DEF CutAt
  <2>9. filter.out = out /\ filter.held = <<>> /\ filter.stopped = TRUE
    BY <2>1
  <2>10. <<>> \in Texts
    BY DEF Texts
  <2>11. QED BY <2>7, <2>8, <2>9, <2>10 DEF next, filter
<1>9. CASE Found(all, stops) = {}
  <2> DEFINE cut == Len(all) - keep
             out == SubSeq(all, 1, cut)
             rest == SubSeq(all, cut + 1, Len(all))
  <2>1. filter = [out |-> out, held |-> rest, stopped |-> FALSE]
    BY <1>9 DEF StopPush, all
  <2>2. /\ keep \in 0 .. Len(all)
        /\ \A stop \in stops, i \in 1 .. Len(all) :
              Begins(all, stop, i) => Len(all) - i + 1 <= keep
    BY <1>2, KeepFacts
  <2> HIDE DEF keep, filter
  <2>3. cut \in 0 .. Len(all)
    BY <1>2, <2>2
  <2>4. /\ out \in Texts /\ rest \in Texts /\ out \o rest = all /\ Len(out) = cut
    <3>1. cut \in Nat /\ cut <= Len(all)
      BY <1>2, <2>3
    <3> HIDE DEF cut
    <3>2. QED BY <1>2, <3>1, SplitFacts
  <2> HIDE DEF out, rest
  <2>5. ASSUME NEW stop \in stops, NEW i \in 1 .. Len(text \o out)
        PROVE  ~Begins(next, stop, i)
    <3>1. Len(text \o out) = Len(text) + cut
      <4>1. out \in Texts /\ Len(out) = cut
        BY <2>4
      <4>2. Len(text \o out) = Len(text) + Len(out)
        BY <4>1, JoinFacts
      <4>3. QED BY <4>1, <4>2
    <3>2. CASE i <= Len(text)
      <4>1. i \in 1 .. Len(text)
        BY <1>2, <2>3, <3>1, <3>2
      <4>2. QED BY <1>3, <4>1
    <3>3. CASE ~(i <= Len(text))
      <4> DEFINE j == i - Len(text)
      <4>1. j \in 1 .. cut /\ j \in 1 .. Len(all) /\ Len(text) + j = i
        BY <1>2, <2>3, <3>1, <3>3
      <4>2. Len(all) - j + 1 > keep
        BY <1>2, <2>2, <4>1
      <4> HIDE DEF j
      <4>3. ~Begins(all, stop, j)
        BY <1>2, <2>2, <4>1, <4>2
      <4>4. QED BY <1>3, <4>1, <4>3
    <3>4. QED BY <3>2, <3>3
  <2> HIDE DEF cut
  <2>6. next = (text \o out) \o rest
    <3>1. (text \o out) \o rest = text \o (out \o rest)
      <4>1. out \in Seq(STRING) /\ rest \in Seq(STRING) /\ text \in Seq(STRING)
        BY <2>4 DEF Texts
      <4>2. QED BY <4>1, ConcatAssociative
    <3>2. QED BY <1>3, <2>4, <3>1, Zenon
  <2>7. Clean(next, stops)
    <3>1. Found(next, stops) = {}
      BY <1>6, <1>9
    <3>2. QED BY <1>4, <3>1, CleanFacts
  <2>8. Passes(text \o out, rest, next, stops)
    BY <2>5, <2>6, <2>7 DEF Passes, Settled
  <2>9. filter.out = out /\ filter.held = rest /\ filter.stopped = FALSE
    BY <2>1
  <2>10. QED BY <2>4, <2>8, <2>9 DEF next, filter
<1>10. QED BY <1>8, <1>9

-------------------------------------------------------------------------------
\* What a call holds of its text before the step it is at or goes on with.
Filtered(text, held, decoded, stops, step) ==
    IF step = "finish"
    THEN text = IF Found(decoded, stops) = {} THEN decoded
                ELSE SubSeq(decoded, 1, Min(Found(decoded, stops)) - 1)
    ELSE \/ Passes(text, held, decoded, stops)
         \/ step = "flush" /\ held = <<>> /\ CutAt(text, decoded, stops)

Shown(text, decoded, stops) == IsPrefix(text, decoded) /\ Clean(text, stops)

IsTyped(s) ==
    /\ s.text \in Texts /\ s.held \in Texts /\ s.decoded \in Texts /\ s.streamed \in Texts
    /\ s.request.stops \in SUBSET Texts
    /\ s.pending \in {<<>>, <<"lead">>}

\* What is in the channel of a stream, and what is on its way there.
Channelled(s) ==
    /\ IsPrefix(s.streamed, s.text)
    /\ s.pc \notin {"deliver", "ended"} => s.streamed = s.text
    /\ s.pc = "deliver" =>
          /\ s.item.text \in Texts
          /\ s.item.kind = "started" => s.streamed = s.text
          /\ IF s.item.kind = "delta" THEN s.text = s.streamed \o s.item.text
             ELSE s.item.text = <<>>

TextFits(s) ==
    /\ IsTyped(s)
    /\ s.pc = "idle" => s.text = <<>> /\ s.held = <<>> /\ s.decoded = <<>> /\ s.streamed = <<>>
    /\ StepOf(s) \notin {"end", "ended"} =>
          Filtered(s.text, s.held, s.decoded, s.request.stops, StepOf(s))
    /\ StepOf(s) \in {"end", "ended"} /\ s.item.kind = "completed" =>
          Filtered(s.text, s.held, s.decoded, s.request.stops, "finish")
    /\ Shown(s.text, s.decoded, s.request.stops)
    /\ s.request.stream => Channelled(s)

TextInv == \A c \in Calls : TextFits(call[c])

-------------------------------------------------------------------------------
LEMMA PrefixOfItself == ASSUME NEW s \in Texts PROVE IsPrefix(s, s)
<1>1. Len(s) \in Nat
  BY DEF Texts
<1>2. QED BY <1>1, PrefixFacts

LEMMA PrefixOfPrefix ==
    ASSUME NEW s \in Texts, NEW t \in Texts, NEW u \in Texts, IsPrefix(s, t), IsPrefix(t, u)
    PROVE  IsPrefix(s, u)
<1>1. Len(s) \in Nat /\ Len(t) \in Nat /\ Len(u) \in Nat
  BY DEF Texts
<1>2. Len(s) <= Len(t) /\ \A k \in 1 .. Len(s) : s[k] = t[k]
  BY PrefixFacts
<1>3. Len(t) <= Len(u) /\ \A k \in 1 .. Len(t) : t[k] = u[k]
  BY PrefixFacts
<1>4. Len(s) <= Len(u) /\ \A k \in 1 .. Len(s) : s[k] = u[k]
  BY <1>1, <1>2, <1>3
<1>5. QED BY <1>4, PrefixFacts

\* Text that was filtered shows no stop sequence.
LEMMA FilteredIsShown ==
    ASSUME NEW text \in Texts, NEW held \in Texts, NEW decoded \in Texts,
           NEW stops \in SUBSET Texts, NEW step, Filtered(text, held, decoded, stops, step)
    PROVE  Shown(text, decoded, stops)
<1>1. CASE Passes(text, held, decoded, stops)
  <2>1. decoded = text \o held /\ Clean(decoded, stops)
    BY <1>1 DEF Passes
  <2>2. IsPrefix(text, decoded)
    BY <2>1, JoinFacts
  <2>3. QED BY <2>1, <2>2, CleanPrefix DEF Shown
<1>2. CASE /\ Found(decoded, stops) # {}
           /\ text = SubSeq(decoded, 1, Min(Found(decoded, stops)) - 1)
  BY <1>2, CutFacts DEF Shown
<1>3. CASE Found(decoded, stops) = {} /\ text = decoded
  BY <1>3, CleanFacts, PrefixOfItself DEF Shown
<1>4. QED BY <1>1, <1>2, <1>3 DEF Filtered, CutAt

\* A step of one call.
LEMMA TextStep ==
    ASSUME Inv, TextInv, NEW c \in Calls, NEW t, Set(c, t), TextFits(t) PROVE TextInv'
<1>1. \A d \in Calls : call'[d] = IF d = c THEN t ELSE call[d]
  BY DEF Inv, TypeOK, Set
<1>2. ASSUME NEW d \in Calls PROVE TextFits(call[d])'
  <2> DEFINE u == call'[d]
  <2>1. TextFits(u)
    BY <1>1 DEF TextInv
  <2> HIDE DEF u
  <2>2. QED
    BY <2>1 DEF TextFits, IsTyped, StepOf, Channelled, u
<1>3. QED BY <1>2 DEF TextInv

\* A worker that fails leaves the text as it is.
LEMMA FailsText ==
    ASSUME NEW s, IsState(s), IsTyped(s), Shown(s.text, s.decoded, s.request.stops),
           s.request.stream => IsPrefix(s.streamed, s.text), NEW error \in Errors
    PROVE  TextFits(Fails(s, error))
<1> DEFINE t == Fails(s, error)
<1>1. Same(s, t) /\ Ends(t) /\ t.item.kind = error /\ t.item.text = <<>>
  BY FailsFacts
<1> HIDE DEF t
<1>2. StepOf(t) \in {"end", "ended"} /\ t.pc \in {"deliver", "ended"}
  BY <1>1 DEF Ends, StepOf
<1>3. error # "completed" /\ error # "started" /\ error # "delta"
  BY DEF Errors
<1>4. t.request.stream => Channelled(t)
  <2>1. <<>> \in Texts
    BY DEF Texts
  <2>2. QED
    BY <1>1, <1>2, <1>3, <2>1 DEF Channelled, Same
<1>5. QED
  BY <1>1, <1>2, <1>3, <1>4 DEF TextFits, IsTyped, Same, t

\* The steps at which nothing is on its way.
Quiet == {"waiting", "prepare", "prompt", "chunk", "generate", "sample", "evaluate"}

\* A worker that takes a step without its text.
LEMMA QuietText ==
    ASSUME NEW s, TextFits(s), s.pc \in Quiet,
           NEW t, Same(s, t), t.pc \in Quiet \cup {"flush"}
    PROVE  TextFits(t)
<1>1. StepOf(s) = s.pc /\ StepOf(t) = t.pc
  BY DEF StepOf, Quiet
<1>2. Passes(s.text, s.held, s.decoded, s.request.stops)
  BY <1>1 DEF TextFits, Filtered, Quiet
<1>3. Filtered(t.text, t.held, t.decoded, t.request.stops, t.pc)
  BY <1>2 DEF Filtered, Same, Quiet
<1>4. t.request.stream => Channelled(t)
  BY DEF TextFits, Channelled, Same, Quiet
<1>5. QED
  BY <1>1, <1>3, <1>4 DEF TextFits, IsTyped, Same, Quiet

-------------------------------------------------------------------------------
LEMMA BeginText ==
    ASSUME Inv, TextInv, NEW c \in Calls, Begin(c) PROVE TextInv'
<1> DEFINE s == call[c]
<1>1. IsState(s) /\ TextFits(s) /\ s.pc = "idle"
  BY DEF Inv, Fits, Typed, TextInv, Begin
<1>2. PICK request \in Asks[c] : Set(c, [s EXCEPT !.pc = "waiting", !.request = request])
  BY DEF Begin
<1> DEFINE t == [s EXCEPT !.pc = "waiting", !.request = request]
<1>3. t = [s EXCEPT !["pc"] = "waiting", !["request"] = request]
  OBVIOUS
<1> HIDE DEF s
<1>4. /\ t.pc = "waiting" /\ t.request = request /\ t.pending = s.pending
      /\ t.text = s.text /\ t.held = s.held /\ t.decoded = s.decoded
      /\ t.streamed = s.streamed
  BY <1>1, <1>3 DEF IsState, Fields
<1>5. Set(c, t)
  BY <1>2
<1> HIDE DEF t
<1>6. request.stops \in SUBSET Texts
  BY GenerationAssumption DEF Texts
<1>7. /\ t.text = <<>> /\ t.held = <<>> /\ t.decoded = <<>> /\ t.streamed = <<>>
      /\ t.pending \in {<<>>, <<"lead">>} /\ <<>> \in Texts
  BY <1>1, <1>4 DEF TextFits, IsTyped, Texts
<1>8. Passes(<<>>, <<>>, <<>>, request.stops)
  <2> DEFINE none == <<>>
  <2>1. none \in Texts /\ Len(none) = 0 /\ none = none \o none
    BY DEF Texts
  <2> HIDE DEF none
  <2>2. Clean(none, request.stops) /\ Settled(none, none, request.stops)
    BY <2>1 DEF Clean, Settled
  <2>3. Passes(none, none, none, request.stops)
    BY <2>1, <2>2 DEF Passes
  <2>4. QED BY <2>3 DEF none
<1>9. /\ StepOf(t) = "waiting"
      /\ Filtered(<<>>, <<>>, <<>>, request.stops, "waiting")
  BY <1>4, <1>8 DEF StepOf, Filtered
<1>10. Shown(<<>>, <<>>, request.stops) /\ IsPrefix(<<>>, <<>>)
  BY <1>6, <1>7, <1>9, FilteredIsShown, PrefixOfItself
<1>11. TextFits(t)
  BY <1>4, <1>6, <1>7, <1>9, <1>10 DEF TextFits, IsTyped, Channelled
<1>12. QED BY <1>5, <1>11, TextStep

\* The steps that fail a call.
LEMMA FailsTextInv ==
    ASSUME Inv, TextInv, NEW c \in Calls, NEW error \in Errors, Set(c, Fails(call[c], error))
    PROVE  TextInv'
<1> DEFINE s == call[c]
<1>1. IsState(s) /\ TextFits(s)
  BY DEF Inv, Fits, Typed, TextInv
<1> HIDE DEF s
<1>2. TextFits(Fails(s, error))
  <2>1. IsTyped(s) /\ Shown(s.text, s.decoded, s.request.stops)
    BY <1>1 DEF TextFits
  <2>2. s.request.stream => IsPrefix(s.streamed, s.text)
    BY <1>1 DEF TextFits, Channelled
  <2>3. QED BY <1>1, <2>1, <2>2, FailsText
<1>3. QED BY <1>2, TextStep DEF s

\* The steps that go on at another without the text.
LEMMA QuietTextInv ==
    ASSUME Inv, TextInv, NEW c \in Calls, NEW t, Set(c, t), Same(call[c], t),
           call[c].pc \in Quiet,
           t.pc \in Quiet \cup {"flush"}
    PROVE  TextInv'
<1>1. TextFits(t)
  BY QuietText DEF TextInv
<1>2. QED BY <1>1, TextStep

LEMMA PcTextInv ==
    ASSUME Inv, TextInv, NEW c \in Calls, NEW step, Set(c, [call[c] EXCEPT !.pc = step]),
           call[c].pc \in Quiet,
           step \in Quiet \cup {"flush"}
    PROVE  TextInv'
<1> DEFINE t == [call[c] EXCEPT !.pc = step]
<1>1. IsState(call[c])
  BY DEF Inv, Fits, Typed
<1>2. Same(call[c], t) /\ t.pc = step
  BY <1>1, StepFacts
<1> HIDE DEF t
<1>3. QED BY <1>2, QuietTextInv DEF t

LEMMA AdmitCancelledText ==
    ASSUME Inv, TextInv, NEW c \in Calls, AdmitCancelled(c) PROVE TextInv'
<1> DEFINE s == call[c]
           event == Event("cancelled", <<>>)
           t == [s EXCEPT !.pc = "ended", !.item = event]
<1>1. IsState(s) /\ TextFits(s) /\ Set(c, t)
  BY DEF Inv, Fits, Typed, TextInv, AdmitCancelled
<1>2. event.kind = "cancelled"
  BY DEF Event
<1> HIDE DEF s, event
<1>3. Same(s, t) /\ t.pc = "ended" /\ t.item = event
  BY <1>1, EndedFacts
<1> HIDE DEF t
<1>4. StepOf(t) = "ended" /\ t.item.kind # "completed"
  BY <1>2, <1>3 DEF StepOf
<1>5. t.request.stream => Channelled(t)
  BY <1>1, <1>3 DEF TextFits, Channelled, Same
<1>6. TextFits(t)
  BY <1>1, <1>3, <1>4, <1>5 DEF TextFits, IsTyped, Same
<1>7. QED BY <1>1, <1>6, TextStep

LEMMA AdmitText ==
    ASSUME Inv, TextInv, NEW c \in Calls, Admit(c) PROVE TextInv'
<1> DEFINE s == call[c]
           event == Event("started", <<>>)
           t == Delivers(s, event, "prepare")
<1>1. IsState(s) /\ TextFits(s) /\ s.pc = "waiting"
  BY DEF Inv, Fits, Typed, TextInv, Admit
<1>2. CASE ~s.request.stream
  <2>1. Set(c, [s EXCEPT !.pc = "prepare"])
    BY <1>2 DEF Admit
  <2>2. QED BY <1>1, <2>1, PcTextInv DEF Quiet
<1>3. CASE s.request.stream
  <2>1. Set(c, t)
    BY <1>3 DEF Admit
  <2>2. event.kind = "started" /\ event.text = <<>> /\ <<>> \in Texts
    BY DEF Event, Texts
  <2> HIDE DEF s, event
  <2>3. Same(s, t) /\ t.pc = "deliver" /\ t.item = event /\ t.next = "prepare"
    BY <1>1, DeliversFacts
  <2> HIDE DEF t
  <2>4. StepOf(s) = "waiting" /\ StepOf(t) = "prepare"
    BY <1>1, <2>3 DEF StepOf
  <2>5. Filtered(t.text, t.held, t.decoded, t.request.stops, "prepare")
    BY <1>1, <2>3, <2>4 DEF TextFits, Filtered, Same
  <2>6. Channelled(t)
    BY <1>1, <1>3, <2>2, <2>3 DEF TextFits, Channelled, Same
  <2>7. TextFits(t)
    BY <1>1, <2>3, <2>4, <2>5, <2>6 DEF TextFits, IsTyped, Same
  <2>8. QED BY <2>1, <2>7, TextStep
<1>4. QED BY <1>2, <1>3

\* The steps before and between two tokens.
LEMMA EvaluationText ==
    ASSUME Inv, TextInv, NEW c \in Calls,
           Prepare(c) \/ EvaluateChunk(c) \/ AfterChunk(c) \/ LoopHead(c) \/ EvaluateToken(c)
    PROVE  TextInv'
<1> DEFINE s == call[c]
<1>1. IsState(s)
  BY DEF Inv, Fits, Typed
<1>2. ASSUME NEW error \in Errors, Set(c, Fails(s, error)) PROVE TextInv'
  BY <1>2, FailsTextInv
<1>3. ASSUME NEW step \in {"prompt", "generate", "sample"},
             s.pc \in {"prepare", "chunk", "generate"},
             Set(c, [s EXCEPT !.pc = step])
      PROVE  TextInv'
  BY <1>3, PcTextInv DEF Quiet
<1>4. ASSUME NEW step \in {"chunk", "generate"}, s.pc \in {"prompt", "evaluate"}, NEW position,
             Set(c, Evaluated(c, [s EXCEPT !.pc = step, !.position = position]))
      PROVE  TextInv'
  <2> DEFINE t == Evaluated(c, [s EXCEPT !.pc = step, !.position = position])
  <2>1. Batch(c, s, t, step, position) /\ Same(s, t)
    BY <1>1, EvaluatedFacts
  <2>2. Set(c, t)
    BY <1>4
  <2> HIDE DEF t
  <2>3. t.pc = step
    BY <2>1 DEF Batch
  <2>4. QED BY <1>4, <2>1, <2>2, <2>3, QuietTextInv DEF Quiet
<1>5. CASE Prepare(c)
  BY <1>2, <1>3, <1>5 DEF Prepare, Errors
<1>6. CASE EvaluateChunk(c)
  BY <1>2, <1>4, <1>6 DEF EvaluateChunk, Errors
<1>7. CASE AfterChunk(c)
  BY <1>2, <1>3, <1>7 DEF AfterChunk, Errors
<1>8. CASE LoopHead(c)
  BY <1>2, <1>3, <1>8 DEF LoopHead, Errors
<1>9. CASE EvaluateToken(c)
  BY <1>2, <1>4, <1>9 DEF EvaluateToken, Errors
<1>10. QED BY <1>5, <1>6, <1>7, <1>8, <1>9

-------------------------------------------------------------------------------
\* What a call sends was filtered: sent, held back by a limit or on its way.
LEMMA SendsText ==
    ASSUME NEW s, IsState(s), IsTyped(s), NEW out \in Texts,
           NEW step \in {"evaluate", "flush", "finish"},
           s.request.stream => s.streamed = s.text,
           Filtered(s.text \o out, s.held, s.decoded, s.request.stops, step)
    PROVE  TextFits(Sends(s, out, step))
<1> DEFINE grown == s.text \o out
           stops == s.request.stops
<1>1. /\ s.text \in Texts /\ s.held \in Texts /\ s.decoded \in Texts
      /\ stops \in SUBSET Texts
  BY DEF IsTyped
<1>2. grown \in Texts /\ IsPrefix(s.text, grown)
  BY <1>1, JoinFacts
<1>3. Filtered(grown, s.held, s.decoded, stops, step)
  OBVIOUS
<1> HIDE DEF grown
<1>4. Shown(grown, s.decoded, stops)
  BY <1>1, <1>2, <1>3, FilteredIsShown
<1> HIDE DEF stops
<1>5. Shown(s.text, s.decoded, stops)
  <2>1. IsPrefix(s.text, s.decoded)
    BY <1>1, <1>2, <1>4, PrefixOfPrefix DEF Shown
  <2>2. Clean(s.text, stops)
    BY <1>1, <1>2, <1>4, CleanPrefix DEF Shown
  <2>3. QED BY <2>1, <2>2 DEF Shown
<1>6. IsPrefix(s.text, s.text)
  BY <1>1, PrefixOfItself
<1>7. step \notin {"idle", "deliver", "end", "ended"}
  OBVIOUS
<1>8. CASE out = <<>>
  <2> DEFINE t == [s EXCEPT !.pc = step]
  <2>1. Sends(s, out, step) = t
    BY <1>8 DEF Sends
  <2>2. Same(s, t) /\ t.pc = step
    BY StepFacts
  <2> HIDE DEF t
  <2>3. grown = s.text
    BY <1>1, <1>8, ConcatEmptySeq DEF grown, Texts
  <2>4. StepOf(t) = step
    BY <1>7, <2>2 DEF StepOf
  <2>5. Filtered(t.text, t.held, t.decoded, t.request.stops, step)
    BY <1>3, <2>2, <2>3 DEF Same, stops
  <2>6. t.request.stream => Channelled(t)
    BY <1>6, <1>7, <2>2 DEF Channelled, Same
  <2>7. TextFits(t)
    BY <1>5, <1>7, <2>2, <2>4, <2>5, <2>6 DEF TextFits, IsTyped, Same, stops
  <2>8. QED BY <2>1, <2>7
<1>9. CASE out # <<>> /\ Len(s.text) + Len(out) > MaxOutput
  <2>1. Sends(s, out, step) = Fails(s, "failed")
    BY <1>9 DEF Sends
  <2>2. TextFits(Fails(s, "failed"))
    BY <1>5, <1>6, FailsText DEF Errors, stops
  <2>3. QED BY <2>1, <2>2
<1>10. CASE out # <<>> /\ ~(Len(s.text) + Len(out) > MaxOutput)
  <2> DEFINE sending == [s EXCEPT !.text = @ \o out]
             event == Event("delta", out)
             t == Sends(s, out, step)
  <2>1. event.kind = "delta" /\ event.text = out
    BY DEF Event
  <2>2. t = IF s.request.stream THEN Delivers(sending, event, step)
            ELSE [sending EXCEPT !.pc = step]
    BY <1>10 DEF Sends
  <2>3. sending = [s EXCEPT !["text"] = grown]
    BY DEF grown
  <2> HIDE DEF event, sending, t
  <2>4. /\ IsState(sending) /\ sending.request = s.request /\ sending.text = grown
        /\ sending.pending = s.pending /\ sending.decoded = s.decoded
        /\ sending.held = s.held /\ sending.streamed = s.streamed
    BY <2>3 DEF IsState, Fields
  <2>5. CASE s.request.stream
    <3>1. t = Delivers(sending, event, step)
      BY <2>2, <2>5
    <3>2. Same(sending, t) /\ t.pc = "deliver" /\ t.item = event /\ t.next = step
      BY <2>4, <3>1, DeliversFacts
    <3>3. StepOf(t) = step
      BY <3>2 DEF StepOf
    <3>4. t.text = t.streamed \o out
      BY <2>4, <2>5, <3>2 DEF Same, grown
    <3>5. IsPrefix(t.streamed, t.text)
      BY <1>2, <2>4, <2>5, <3>2 DEF Same
    <3>6. Channelled(t)
      BY <2>1, <3>2, <3>4, <3>5 DEF Channelled
    <3>7. QED
      BY <1>2, <1>3, <1>4, <1>7, <2>4, <3>2, <3>3, <3>6 DEF TextFits, IsTyped, Same, stops, t
  <2>6. CASE ~s.request.stream
    <3>1. t = [sending EXCEPT !.pc = step]
      BY <2>2, <2>6
    <3>2. Same(sending, t) /\ t.pc = step
      BY <2>4, <3>1, StepFacts
    <3>3. StepOf(t) = step /\ ~t.request.stream
      BY <1>7, <2>4, <2>6, <3>2 DEF StepOf, Same
    <3>4. QED
      BY <1>2, <1>3, <1>4, <1>7, <2>4, <3>2, <3>3 DEF TextFits, IsTyped, Same, stops, t
  <2>7. QED BY <2>5, <2>6
<1>11. QED BY <1>8, <1>9, <1>10

LEMMA SampleText ==
    ASSUME Inv, TextInv, NEW c \in Calls, Sample(c) PROVE TextInv'
<1> DEFINE s == call[c]
<1>1. IsState(s) /\ TextFits(s) /\ s.pc = "sample"
  BY DEF Inv, Fits, Typed, TextInv, Sample
<1>2. /\ IsTyped(s) /\ StepOf(s) = "sample"
      /\ s.request.stream => s.streamed = s.text
  BY <1>1 DEF TextFits, Channelled, StepOf
<1>3. Passes(s.text, s.held, s.decoded, s.request.stops)
  BY <1>1, <1>2 DEF TextFits, Filtered
<1>4. CASE Set(c, [s EXCEPT !.pc = "flush", !.finish = "stop"])
  <2> DEFINE t == [s EXCEPT !.pc = "flush", !.finish = "stop"]
  <2>1. Same(s, t) /\ t.pc = "flush"
    BY <1>1, StoppedFacts
  <2>2. Set(c, t)
    BY <1>4
  <2> HIDE DEF t
  <2>3. QED BY <1>1, <2>1, <2>2, QuietTextInv DEF Quiet
<1>5. ASSUME NEW piece \in Pieces,
             LET utf8 == Utf8Push(s.pending, piece)
                 filter == StopPush(s.held, utf8.text, s.request.stops)
                 sampled == [s EXCEPT !.produced = @ + 1,
                                      !.pending = utf8.pending,
                                      !.decoded = @ \o utf8.text,
                                      !.held = filter.held,
                                      !.finish = IF filter.stopped THEN "stop" ELSE @]
             IN  Set(c, Sends(sampled, filter.out,
                              IF filter.stopped \/ sampled.produced >= MaxNew(s.request)
                              THEN "flush" ELSE "evaluate"))
      PROVE  TextInv'
  <2> DEFINE utf8 == Utf8Push(s.pending, piece)
             filter == StopPush(s.held, utf8.text, s.request.stops)
             finish == IF filter.stopped THEN "stop" ELSE s.finish
             produced == s.produced + 1
             decoded == s.decoded \o utf8.text
             sampled == [s EXCEPT !.produced = produced, !.pending = utf8.pending,
                                  !.decoded = decoded, !.held = filter.held,
                                  !.finish = finish]
             step == IF filter.stopped \/ sampled.produced >= MaxNew(s.request)
                     THEN "flush" ELSE "evaluate"
  <2>1. Set(c, Sends(sampled, filter.out, step))
    BY <1>5
  <2>2. utf8.text \in Texts /\ utf8.pending \in {<<>>, <<"lead">>}
    BY <1>2, DecodingAssumption DEF IsTyped, Texts
  <2> HIDE DEF utf8
  <2>3. /\ s.text \in Texts /\ s.held \in Texts /\ s.decoded \in Texts
        /\ s.request.stops \in SUBSET Texts /\ s.streamed \in Texts
    BY <1>2 DEF IsTyped
  <2>4. /\ filter.stopped \in BOOLEAN /\ filter.out \in Texts /\ filter.held \in Texts
        /\ ~filter.stopped =>
              Passes(s.text \o filter.out, filter.held, decoded, s.request.stops)
        /\ filter.stopped =>
              filter.held = <<>> /\ CutAt(s.text \o filter.out, decoded, s.request.stops)
    BY <1>3, <2>2, <2>3, PushFacts
  <2>5. decoded \in Texts
    BY <2>2, <2>3, JoinFacts
  <2> HIDE DEF filter, finish, produced, decoded
  <2>6. Token(s, sampled, produced, utf8.pending, decoded, filter.held)
    BY <1>1, SampledFacts
  <2> HIDE DEF sampled
  <2>7. /\ IsState(sampled) /\ sampled.request = s.request
        /\ sampled.text = s.text /\ sampled.streamed = s.streamed
        /\ sampled.pending = utf8.pending /\ sampled.decoded = decoded
        /\ sampled.held = filter.held
    BY <2>6 DEF Token
  <2>8. step \in {"evaluate", "flush"} /\ (filter.stopped => step = "flush")
    OBVIOUS
  <2> HIDE DEF step, s
  <2>9. Filtered(sampled.text \o filter.out, sampled.held, sampled.decoded,
                 sampled.request.stops, step)
    BY <2>4, <2>7, <2>8 DEF Filtered
  <2>10. IsTyped(sampled) /\ (sampled.request.stream => sampled.streamed = sampled.text)
    BY <1>2, <2>2, <2>3, <2>4, <2>5, <2>7 DEF IsTyped
  <2>11. TextFits(Sends(sampled, filter.out, step))
    BY <2>4, <2>7, <2>8, <2>9, <2>10, SendsText
  <2>12. QED BY <2>1, <2>11, TextStep
<1>6. QED BY <1>4, <1>5 DEF Sample

LEMMA FlushText ==
    ASSUME Inv, TextInv, NEW c \in Calls, Flush(c) PROVE TextInv'
<1> DEFINE s == call[c]
           u == [s EXCEPT !.held = <<>>]
<1>1. IsState(s) /\ TextFits(s) /\ s.pc = "flush"
  BY DEF Inv, Fits, Typed, TextInv, Flush
<1>2. Set(c, Sends(u, s.held, "finish"))
  BY DEF Flush
<1> HIDE DEF s
<1>3. /\ IsTyped(s) /\ StepOf(s) = "flush"
      /\ s.request.stream => s.streamed = s.text
  BY <1>1 DEF TextFits, Channelled, StepOf
<1>4. \/ Passes(s.text, s.held, s.decoded, s.request.stops)
      \/ s.held = <<>> /\ CutAt(s.text, s.decoded, s.request.stops)
  BY <1>1, <1>3 DEF TextFits, Filtered
<1>5. /\ Keeps(s, u) /\ u.held = <<>>
      /\ u.pending = s.pending /\ u.decoded = s.decoded
      /\ u.text = s.text /\ u.streamed = s.streamed
  BY <1>1, FlushedFacts
<1> HIDE DEF u
<1>6. IsState(u) /\ u.request = s.request
  BY <1>5 DEF Keeps
<1>7. /\ s.text \in Texts /\ s.held \in Texts /\ s.decoded \in Texts
      /\ s.request.stops \in SUBSET Texts
  BY <1>3 DEF IsTyped
<1>8. Filtered(s.text \o s.held, <<>>, s.decoded, s.request.stops, "finish")
  <2>1. CASE Passes(s.text, s.held, s.decoded, s.request.stops)
    <3>1. s.decoded = s.text \o s.held /\ Found(s.decoded, s.request.stops) = {}
      BY <1>7, <2>1, CleanFacts DEF Passes
    <3>2. QED BY <3>1 DEF Filtered
  <2>2. CASE s.held = <<>> /\ CutAt(s.text, s.decoded, s.request.stops)
    <3>1. s.text \o s.held = s.text
      BY <1>7, <2>2, ConcatEmptySeq DEF Texts
    <3>2. QED BY <2>2, <3>1 DEF Filtered, CutAt
  <2>3. QED BY <1>4, <2>1, <2>2
<1>9. IsTyped(u)
  BY <1>3, <1>5, <1>6 DEF IsTyped, Texts
<1>10. TextFits(Sends(u, s.held, "finish"))
  BY <1>3, <1>5, <1>6, <1>7, <1>8, <1>9, SendsText
<1>11. QED BY <1>2, <1>10, TextStep

LEMMA FinishText ==
    ASSUME Inv, TextInv, NEW c \in Calls, Finish(c) PROVE TextInv'
<1> DEFINE s == call[c]
           event == Event("completed", <<>>)
           d == Delivers(s, event, "end")
           p == [s EXCEPT !.pc = "ended", !.item = event]
           t == IF s.request.stream THEN d ELSE p
<1>1. IsState(s) /\ TextFits(s) /\ s.pc = "finish" /\ Set(c, t)
  BY DEF Inv, Fits, Typed, TextInv, Finish
<1>2. event.kind = "completed" /\ event.text = <<>> /\ <<>> \in Texts
  BY DEF Event, Texts
<1> HIDE DEF s, event
<1>3. Same(s, d) /\ d.pc = "deliver" /\ d.item = event /\ d.next = "end"
  BY <1>1, DeliversFacts
<1>4. Same(s, p) /\ p.pc = "ended" /\ p.item = event
  BY <1>1, EndedFacts
<1> HIDE DEF d, p
<1>5. /\ Same(s, t) /\ t.item = event
      /\ StepOf(t) \in {"end", "ended"} /\ t.pc \in {"deliver", "ended"}
  BY <1>3, <1>4 DEF StepOf
<1> HIDE DEF t
<1>6. Filtered(t.text, t.held, t.decoded, t.request.stops, "finish")
  BY <1>1, <1>5 DEF TextFits, StepOf, Same
<1>7. t.request.stream => Channelled(t)
  BY <1>1, <1>2, <1>5 DEF TextFits, Channelled, Same
<1>8. TextFits(t)
  BY <1>1, <1>5, <1>6, <1>7 DEF TextFits, IsTyped, Same
<1>9. QED BY <1>1, <1>8, TextStep

LEMMA DeliverText ==
    ASSUME Inv, TextInv, NEW c \in Calls, Deliver(c) PROVE TextInv'
<1> DEFINE s == call[c]
           step == IF s.next = "end" THEN "ended" ELSE s.next
           streamed == s.streamed \o s.item.text
           t == [s EXCEPT !.pc = step, !.streamed = streamed]
<1>1. IsState(s) /\ TextFits(s) /\ s.pc = "deliver" /\ Set(c, t) /\ Typed(c, s)
  BY DEF Inv, Fits, Typed, TextInv, Deliver
<1>2. /\ s.request.stream
      /\ \/ s.next = "end" /\ s.item.kind \in LastKind
         \/ s.next = "prepare" /\ s.item.kind = "started"
         \/ s.next \in {"evaluate", "flush", "finish"} /\ s.item.kind = "delta"
  BY <1>1 DEF Typed
<1>3. Delivered(s, t, step, streamed)
  <2> HIDE DEF s, step, streamed
  <2>1. QED BY <1>1, DeliveredFacts
<1> HIDE DEF s, streamed, t
<1>4. /\ t.request = s.request /\ t.pc = step /\ t.item = s.item /\ t.streamed = streamed
      /\ t.pending = s.pending /\ t.decoded = s.decoded
      /\ t.held = s.held /\ t.text = s.text
  BY <1>3 DEF Delivered, Keeps
<1>5. IsTyped(s) /\ Channelled(s) /\ s.item.text \in Texts
  BY <1>1, <1>2 DEF TextFits, Channelled
<1>6. streamed \in Texts
  BY <1>5, JoinFacts DEF IsTyped, streamed
<1>7. s.item.kind # "delta" => streamed = s.streamed
  <2>1. ASSUME s.item.kind # "delta" PROVE streamed = s.streamed
    <3>1. s.item.text = <<>>
      BY <1>1, <1>5, <2>1 DEF Channelled
    <3>2. QED BY <1>5, <3>1, ConcatEmptySeq DEF IsTyped, Texts, streamed
  <2>2. QED BY <2>1
<1>8. s.item.kind = "delta" => streamed = s.text
  BY <1>1, <1>5 DEF Channelled, streamed
<1>9. IsPrefix(streamed, s.text)
  <2>1. CASE s.item.kind = "delta"
    BY <1>5, <1>8, <2>1, PrefixOfItself DEF IsTyped
  <2>2. CASE s.item.kind # "delta"
    BY <1>5, <1>7, <2>2 DEF Channelled
  <2>3. QED BY <2>1, <2>2
<1>10. step # "ended" => streamed = s.text
  <2>1. CASE s.item.kind = "delta"
    BY <1>8, <2>1
  <2>2. CASE s.item.kind = "started"
    BY <1>1, <1>5, <1>7, <2>2 DEF Channelled
  <2>3. CASE s.next = "end"
    BY <2>3
  <2>4. QED BY <1>2, <2>1, <2>2, <2>3
<1>11. StepOf(s) = s.next /\ StepOf(t) = step /\ t.pc # "deliver" /\ t.pc # "idle"
  BY <1>1, <1>2, <1>4 DEF StepOf
<1>12. Channelled(t)
  BY <1>4, <1>9, <1>10, <1>11 DEF Channelled
<1>13. /\ step \notin {"end", "ended"} =>
             Filtered(t.text, t.held, t.decoded, t.request.stops, step)
       /\ step \in {"end", "ended"} /\ t.item.kind = "completed" =>
             Filtered(t.text, t.held, t.decoded, t.request.stops, "finish")
  BY <1>1, <1>2, <1>4, <1>11 DEF TextFits
<1> HIDE DEF step
<1>14. TextFits(t)
  BY <1>1, <1>4, <1>5, <1>6, <1>11, <1>12, <1>13 DEF TextFits, IsTyped
<1>15. QED BY <1>1, <1>14, TextStep

LEMMA DeliverStopsText ==
    ASSUME Inv, TextInv, NEW c \in Calls, DeliverStops(c) PROVE TextInv'
<1> DEFINE s == call[c]
           t == [s EXCEPT !.pc = "ended"]
<1>1. /\ IsState(s) /\ TextFits(s) /\ s.pc = "deliver" /\ Typed(c, s)
      /\ Set(c, Undelivered(s))
  BY DEF Inv, Fits, Typed, TextInv, DeliverStops
<1>2. CASE s.item.kind = "delta"
  <2>1. Set(c, Fails(s, "cancelled"))
    BY <1>1, <1>2 DEF Undelivered
  <2>2. QED BY <2>1, FailsTextInv DEF Errors
<1>3. CASE s.item.kind # "delta"
  <2>1. Set(c, t)
    BY <1>1, <1>3 DEF Undelivered
  <2>2. Same(s, t) /\ t.pc = "ended" /\ t.item = s.item
    BY <1>1, StepFacts
  <2> HIDE DEF s, t
  <2>3. s.next = "end" \/ s.item.kind = "started"
    BY <1>1, <1>3 DEF Typed
  <2>4. StepOf(s) = s.next /\ StepOf(t) = "ended"
    BY <1>1, <2>2 DEF StepOf
  <2>5. t.item.kind = "completed" =>
           Filtered(t.text, t.held, t.decoded, t.request.stops, "finish")
    BY <1>1, <2>2, <2>3, <2>4 DEF TextFits, Same
  <2>6. t.request.stream => Channelled(t)
    BY <1>1, <2>2 DEF TextFits, Channelled, Same
  <2>7. TextFits(t)
    BY <1>1, <2>2, <2>4, <2>5, <2>6 DEF TextFits, IsTyped, Same
  <2>8. QED BY <2>1, <2>7, TextStep
<1>4. QED BY <1>2, <1>3

\* The steps of the consumer after the first, and of no one.
LEMMA OtherText ==
    ASSUME TextInv, UNCHANGED call PROVE TextInv'
BY DEF TextInv, TextFits, IsTyped, StepOf, Channelled

-------------------------------------------------------------------------------
LEMMA InitText == ASSUME Init PROVE TextInv
<1>1. ASSUME NEW c \in Calls PROVE TextFits(call[c])
  <2> DEFINE none == <<>>
             noStops == {}
  <2>1. call[c] = Idle
    BY DEF Init
  <2>2. /\ Idle.pc = "idle" /\ Idle.text = none /\ Idle.held = none /\ Idle.decoded = none
        /\ Idle.streamed = none /\ Idle.pending = none
        /\ Idle.request.stops = noStops /\ ~Idle.request.stream
    BY DEF Idle, NoRequest
  <2>3. /\ none \in Texts /\ Len(none) = 0 /\ none = none \o none
        /\ none \in {<<>>, <<"lead">>} /\ noStops \in SUBSET Texts
    BY DEF Texts
  <2> HIDE DEF none
  <2>4. Passes(none, none, none, noStops)
    BY DEF Passes, Clean, Settled, none
  <2> HIDE DEF noStops
  <2>5. Filtered(none, none, none, noStops, "idle")
    BY <2>4 DEF Filtered
  <2>6. Shown(none, none, noStops)
    BY <2>3, <2>5, FilteredIsShown
  <2>7. StepOf(Idle) = "idle"
    BY <2>2 DEF StepOf
  <2>8. TextFits(Idle)
    BY <2>2, <2>3, <2>5, <2>6, <2>7 DEF TextFits, IsTyped, none
  <2>9. QED BY <2>1, <2>8
<1>2. QED BY <1>1 DEF TextInv

LEMMA NextText == ASSUME Inv, TextInv, [Next]_vars PROVE TextInv'
<1>1. ASSUME NEW c \in Calls, Admission(c) PROVE TextInv'
  BY <1>1, AdmitCancelledText, AdmitText DEF Admission
<1>2. ASSUME NEW c \in Calls, Worker(c) PROVE TextInv'
  BY <1>2, EvaluationText, SampleText, FlushText, FinishText, DeliverText,
     DeliverStopsText DEF Worker
<1>3. ASSUME NEW c \in Calls, Consumer(c) PROVE TextInv'
  <2>1. CASE Begin(c)
    BY <2>1, BeginText
  <2>2. CASE Take(c) \/ Cancel(c) \/ Drop(c)
    BY <2>2, OtherText DEF Take, Cancel, Drop
  <2>3. QED BY <1>3, <2>1, <2>2 DEF Consumer
<1>4. CASE UNCHANGED vars
  BY <1>4, OtherText DEF vars
<1>5. QED BY <1>1, <1>2, <1>3, <1>4 DEF Next

\* Of every call, at every step: the decoded text was passed on or is held back,
\* with no stop sequence in it and none begun in what was passed on, or it was
\* cut at the first one; and what its stream was given is what was passed on.
THEOREM TextInvariant == Spec => []TextInv
<1>1. Init => TextInv
  BY InitText
<1>2. Inv /\ TextInv /\ [Next]_vars => TextInv'
  BY NextText
<1>3. QED BY <1>1, <1>2, GenerationInvariant, PTL DEF Spec

\* Whatever the stop sequences are, however the tokens split them and the
\* characters of the text, and wherever a call is cancelled, refused more output
\* or dropped, its consumer sees decoded text up to the first stop sequence, and
\* all of that when the call completes.
THEOREM StopsNeverLeak == Spec => []StopNeverLeaks
<1>1. Inv /\ TextInv => StopNeverLeaks
  <2> SUFFICES ASSUME Inv, TextInv, NEW c \in Calls
               PROVE  LET state == call[c]
                          stops == Found(state.decoded, state.request.stops)
                      IN  /\ IsPrefix(state.text, state.decoded)
                          /\ Found(state.text, state.request.stops) = {}
                          /\ state.request.stream => IsPrefix(state.streamed, state.text)
                          /\ state.pc = "ended" /\ state.item.kind = "completed" =>
                                state.text = IF stops = {} THEN state.decoded
                                             ELSE SubSeq(state.decoded, 1, Min(stops) - 1)
    BY DEF StopNeverLeaks
  <2> DEFINE s == call[c]
             stops == Found(s.decoded, s.request.stops)
  <2>1. TextFits(s)
    BY DEF TextInv
  <2> HIDE DEF s, stops
  <2>2. IsPrefix(s.text, s.decoded) /\ Clean(s.text, s.request.stops)
    BY <2>1 DEF TextFits, Shown
  <2>3. Found(s.text, s.request.stops) = {}
    BY <2>1, <2>2, CleanFacts DEF TextFits, IsTyped
  <2>4. s.request.stream => IsPrefix(s.streamed, s.text)
    BY <2>1 DEF TextFits, Channelled
  <2>5. ASSUME s.pc = "ended", s.item.kind = "completed"
        PROVE  s.text = IF stops = {} THEN s.decoded ELSE SubSeq(s.decoded, 1, Min(stops) - 1)
    BY <2>1, <2>5 DEF TextFits, StepOf, Filtered, stops
  <2>6. QED BY <2>2, <2>3, <2>4, <2>5 DEF s, stops
<1>2. QED BY <1>1, GenerationInvariant, TextInvariant, PTL
===============================================================================
