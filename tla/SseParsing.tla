------------------------------ MODULE SseParsing ------------------------------
(***************************************************************************)
(* SseParser of providers/http/src/openai.rs: the bytes of a server's      *)
(* event stream arrive in chunks cut anywhere, inside a character or       *)
(* between CR and LF, and become events.  A byte is what the parser tells  *)
(* apart: "cr", "lf", "colon", "space", "bom" (the three bytes of a byte   *)
(* order mark), "bad" (no UTF-8), "data" (the name of that field) and text.*)
(***************************************************************************)
EXTENDS Naturals, Sequences, SequencesExt

CONSTANTS Stream,   \* what servers send
          MaxEvent  \* max_event_bytes

VARIABLES stream,
          received,  \* how much of it has been pushed
          parser,
          events,    \* the events of the batches so far
          status     \* "reading", "eof" or "error"

vars == <<stream, received, parser, events, status>>

New == [line |-> <<>>, data |-> <<>>, hasData |-> FALSE, pendingCr |-> FALSE,
        firstLine |-> TRUE, batch |-> <<>>, error |-> FALSE]

Dispatch(p) ==
    [p EXCEPT !.batch = IF p.hasData THEN Append(@, p.data) ELSE @,
              !.data = <<>>, !.hasData = FALSE]

\* A field's value, without one leading space.
Value(line) ==
    LET colon == SelectInSeq(line, LAMBDA byte : byte = "colon")
        value == IF colon = 0 THEN <<>> ELSE SubSeq(line, colon + 1, Len(line))
    IN  IF value # <<>> /\ value[1] = "space" THEN Tail(value) ELSE value

IsData(line) == line = <<"data">> \/ IsPrefix(<<"data", "colon">>, line)

AddData(p, value) ==
    IF Len(p.data) + Len(value) + 1 > MaxEvent THEN [p EXCEPT !.error = TRUE]
    ELSE [p EXCEPT !.data = (IF p.hasData THEN Append(@, "newline") ELSE @) \o value,
                   !.hasData = TRUE]

\* Comments and every other field are skipped.
EndLine(p) ==
    LET line == IF p.firstLine /\ p.line # <<>> /\ p.line[1] = "bom" THEN Tail(p.line) ELSE p.line
        ended == [p EXCEPT !.line = <<>>, !.firstLine = FALSE]
    IN  CASE "bad" \in ToSet(p.line) -> [ended EXCEPT !.error = TRUE]
          [] line = <<>> -> Dispatch(ended)
          [] IsData(line) -> AddData(ended, Value(line))
          [] OTHER -> ended

\* Fault: a CR is forgotten with the chunk it ends.
PushChunkForgetsCr(p, chunk) ==
    FoldLeft(LAMBDA q, byte :
                CASE q.error -> q
                  [] byte = "lf" /\ q.pendingCr -> [q EXCEPT !.pendingCr = FALSE]
                  [] byte = "cr" -> [EndLine(q) EXCEPT !.pendingCr = TRUE]
                  [] byte = "lf" -> EndLine(q)
                  [] OTHER -> [q EXCEPT !.line = Append(@, byte), !.pendingCr = FALSE,
                                        !.error = Len(q.line) >= MaxEvent],
             [p EXCEPT !.batch = <<>>, !.pendingCr = FALSE], chunk)

\* push: an LF behind a CR belongs to it; a line is decoded when it is whole.
\* The events of a chunk are lost with an error behind them.
PushChunk(p, chunk) ==
    FoldLeft(LAMBDA q, byte :
                CASE q.error -> q
                  [] byte = "lf" /\ q.pendingCr -> [q EXCEPT !.pendingCr = FALSE]
                  [] byte = "cr" -> [EndLine(q) EXCEPT !.pendingCr = TRUE]
                  [] byte = "lf" -> EndLine(q)
                  [] OTHER -> [q EXCEPT !.line = Append(@, byte), !.pendingCr = FALSE,
                                        !.error = Len(q.line) >= MaxEvent],
             [p EXCEPT !.batch = <<>>], chunk)

-------------------------------------------------------------------------------
Take(p, ending) ==
    /\ parser' = p
    /\ IF p.error THEN status' = "error" /\ UNCHANGED events
       ELSE status' = ending /\ events' = events \o p.batch

\* A chunk arrives, as the network cut it.
Push ==
    /\ status = "reading"
    /\ \E n \in received + 1 .. Len(stream) :
          /\ received' = n
          /\ Take(PushChunk(parser, SubSeq(stream, received + 1, n)), "reading")
    /\ UNCHANGED stream

\* finish: what is left of a line and of an event is dispatched.
Finish ==
    /\ status = "reading" /\ received = Len(stream)
    /\ LET last == [parser EXCEPT !.batch = <<>>]
           flushed == IF last.line = <<>> THEN last ELSE EndLine(last)
       IN  Take(IF flushed.error THEN flushed ELSE Dispatch(flushed), "eof")
    /\ UNCHANGED <<stream, received>>

Init ==
    /\ stream \in Stream
    /\ received = 0
    /\ parser = New
    /\ events = <<>>
    /\ status = "reading"

Next == Push \/ Finish

Spec == Init /\ [][Next]_vars

-------------------------------------------------------------------------------
\* The lines of a text, by their definition: they end with CR LF, CR or LF.
LineEnds(text) ==
    SelectSeq([i \in DOMAIN text |-> i],
              LAMBDA i : text[i] = "lf" \/ (text[i] = "cr" /\ (i = Len(text) \/ text[i + 1] # "lf")))

Lines(text) ==
    LET ends == LineEnds(text)
        from(n) == IF n = 1 THEN 1 ELSE ends[n - 1] + 1
    IN  [n \in DOMAIN ends |->
            SelectSeq(SubSeq(text, from(n), ends[n]), LAMBDA byte : byte \notin {"cr", "lf"})]

WithoutBom(lines) ==
    IF lines # <<>> /\ lines[1] # <<>> /\ lines[1][1] = "bom"
    THEN [lines EXCEPT ![1] = Tail(@)] ELSE lines

\* An event is the data lines of a paragraph that has one.
Paragraph(lines, n) ==
    LET blank == {i \in 1 .. n - 1 : lines[i] = <<>>}
        from == IF blank = {} THEN 1 ELSE 1 + CHOOSE i \in blank : \A j \in blank : j <= i
        data == SelectSeq(SubSeq(lines, from, n - 1), IsData)
    IN  FlattenSeq([i \in DOMAIN data |->
                       (IF i = 1 THEN <<>> ELSE <<"newline">>) \o Value(data[i])])

HasData(lines, n) ==
    \E i \in 1 .. n - 1 : IsData(lines[i]) /\ \A j \in i .. n - 1 : lines[j] # <<>>

EventsOf(lines) ==
    LET ends == SelectSeq([n \in DOMAIN lines |-> n],
                          LAMBDA n : lines[n] = <<>> /\ HasData(lines, n))
    IN  [i \in DOMAIN ends |-> Paragraph(lines, ends[i])]

\* The end of the response ends the line and the event it cuts off.
Whole == WithoutBom(Lines(stream \o <<"lf", "lf">>))

\* However the bytes were cut, the events so far are those of the text received,
\* and at the end of a stream without errors those of the whole text.
ChunkingInvisible ==
    /\ status # "error" =>
          IF status = "eof" THEN events = EventsOf(Whole)
          ELSE events = EventsOf(WithoutBom(Lines(SubSeq(stream, 1, received))))
    /\ IsPrefix(events, EventsOf(Whole))
===============================================================================
