----------------------------- MODULE LayaDecisions -----------------------------
(***************************************************************************)
(* LayaModel::decide of the ONNX and the Core ML adapter                   *)
(* (backends/onnx/src/laya.rs, backends/coreml/src/laya.rs): a typed       *)
(* question becomes a sequence of tokens within the budgets of the         *)
(* artifact, the tensors are filled, and the columns of the answer are     *)
(* mapped back to the options.  ONNX prepares every question of a request, *)
(* pads them to one batch and runs the session once; Core ML runs once for *)
(* each question on an exported length.  Tokens keep what they are and     *)
(* what they come from; the tokenizer and the network are external.        *)
(***************************************************************************)
EXTENDS Integers, Sequences, FiniteSets, SequencesExt

CONSTANTS Request, \* requests: sequences of questions and the tokens of the state
          Config   \* configurations of an artifact, headMax at most maxLen

VARIABLES backend, config, request,
          prepared,  \* the questions laid out so far
          decisions, \* the typed decisions so far
          status     \* "running", "done", "error"

vars == <<backend, config, request, prepared, decisions, status>>

AtMost(n, limit) == IF n < limit THEN n ELSE limit
AtLeast(n, least) == IF n > least THEN n ELSE least
SaturatingSub(a, b) == AtLeast(a - b, 0)

Repeat(token, n) == [i \in 1 .. n |-> token]

Token(kind, question, option) == [kind |-> kind, question |-> question, option |-> option]
Special(kind) == Token(kind, "", 0)

-------------------------------------------------------------------------------
\* The tokens of each option's text: the labels of a choice, the levels of a
\* score, false and true of a noul, which may bring descriptions of its own.
Rendered(question) ==
    IF question.kind = "noul" /\ question.options = <<>> THEN <<8, 6>> ELSE question.options

DistinctLabels(question) == Cardinality(ToSet(question.labels)) = Len(question.labels)

Askable(question) ==
    /\ question.name # "" /\ question.head > 0
    /\ question.kind \in {"choice", "score"} => question.options # <<>>
    /\ question.kind = "choice" => "" \notin ToSet(question.labels) /\ DistinctLabels(question)

\* Fault: the share has no least value.
ShareOfNothing(count) == SaturatingSub(config.headMax, 16) \div AtLeast(count, 1)

Share(count) == AtLeast(SaturatingSub(config.headMax, 16) \div AtLeast(count, 1), 4)

TotalLength(options) == Len(FlattenSeq(options))

\* Each option is a mask and at most 48 tokens of its text.  When they leave
\* fewer than 16 tokens of the head's budget they are cut to equal shares.
Options(question) ==
    LET full == [i \in DOMAIN Rendered(question) |->
                    <<Token("mask", question.name, i)>>
                    \o Repeat(Token("option", question.name, i), AtMost(Rendered(question)[i], 48))]
        Cut(ids) == SubSeq(ids, 1, AtMost(Len(ids), Share(Len(full))))
    IN  IF SaturatingSub(config.headMax, TotalLength(full)) < 16
        THEN [i \in DOMAIN full |-> Cut(full[i])] ELSE full

HeadBudget(question) ==
    AtLeast(SaturatingSub(config.headMax, TotalLength(Options(question))), 8)

QuestionHead(question) ==
    <<Special("cls")>>
    \o Repeat(Token("head", question.name, 0), AtMost(question.head, HeadBudget(question)))
    \o <<Special("sep")>>

\* markers[i] is the index (from 0) the option's mask is pushed at: what has
\* been pushed before it.
Markers(question) ==
    [i \in DOMAIN Rendered(question) |->
        Len(QuestionHead(question) \o FlattenSeq(SubSeq(Options(question), 1, i - 1)))]

\* What is left of max_len after the header and the last separator is the
\* room of the state.
Ids(question, state) ==
    LET header == QuestionHead(question)
                  \o FlattenSeq(Options(question))
                  \o <<Special("sep")>>
        room == SaturatingSub(config.maxLen, Len(header) + 1)
    IN  header \o Repeat(Special("state"), AtMost(state, room)) \o <<Special("sep")>>

Accepted(question, state) ==
    /\ Askable(question)
    /\ backend = "coreml" => Len(Rendered(question)) <= config.maxOptions
    /\ Len(Ids(question, state)) <= config.maxLen

Prepared(question, state) ==
    [question |-> question, ids |-> Ids(question, state), markers |-> Markers(question)]

-------------------------------------------------------------------------------
\* padded_length of Core ML: of the exported lengths, which ascend, the first
\* that holds the tokens (0: there is none), or, in steps of 16, a flexible one.
PaddedLength(actual) ==
    LET holding == {n \in ToSet(config.lengths) : n >= actual}
    IN  CASE config.lengths # <<>> -> IF holding = {} THEN 0 ELSE Min(holding)
          [] config.lengths = <<>> /\ config.flexible ->
                 ((AtLeast(actual, config.minLength) + 15) \div 16) * 16
          [] OTHER -> config.maxLen

\* The tensors of the rows: flat, row * length + column.
InputIds(items, length) ==
    [at \in 0 .. Len(items) * length - 1 |->
        LET row == items[at \div length + 1]
            column == (at % length) + 1
        IN  IF column <= Len(row.ids) THEN row.ids[column] ELSE Special("pad")]

Attention(items, length) ==
    [at \in 0 .. Len(items) * length - 1 |-> at % length < Len(items[at \div length + 1].ids)]

MarkerPositions(items, width) ==
    [at \in 0 .. Len(items) * width - 1 |->
        LET row == items[at \div width + 1]
            column == (at % width) + 1
        IN  IF column <= Len(row.markers) THEN row.markers[column] ELSE 0]

\* The network, as it is used: a column of a row's logits depends on the
\* tokens the row attends to and on the one at its marker.
Logits(items, length, width) ==
    LET ids == InputIds(items, length)
        attention == Attention(items, length)
        positions == MarkerPositions(items, width)
    IN  [at \in 0 .. Len(items) * width - 1 |->
            LET row == at \div width
                attended == {column \in 0 .. length - 1 : attention[row * length + column]}
            IN  [seen |-> [column \in attended |-> ids[row * length + column]],
                 scored |-> ids[row * length + positions[at]]]]

\* Fault: the rows are sliced by their own width.
SliceOwnWidth(logits, row, width, count) ==
    [i \in 1 .. count |-> logits[row * count + i - 1]]

Slice(logits, row, width, count) ==
    [i \in 1 .. count |-> logits[row * width + i - 1]]

\* decode: the probabilities are mapped to the labels of a choice, or to the
\* indices of the levels, or to false and true.
Keys(question) ==
    CASE question.kind = "choice" -> ToSet(question.labels)
      [] OTHER -> DOMAIN Rendered(question)

Decode(item, columns) ==
    [question |-> item.question, columns |-> columns, keys |-> Keys(item.question)]

-------------------------------------------------------------------------------
Fail ==
    /\ status' = "error"
    /\ decisions' = <<>>

\* The first question that is not accepted ends the call.
PrepareNext ==
    /\ status = "running"
    /\ Len(prepared) < Len(request.questions)
    /\ Len(prepared) = Len(decisions) \/ backend = "onnx"
    /\ LET question == request.questions[Len(prepared) + 1]
       IN  IF Accepted(question, request.state)
           THEN /\ prepared' = Append(prepared, Prepared(question, request.state))
                /\ UNCHANGED <<decisions, status>>
           ELSE Fail /\ UNCHANGED prepared
    /\ UNCHANGED <<backend, config, request>>

Finished == status' = IF Len(decisions') = Len(request.questions) THEN "done" ELSE "running"

\* ONNX: one run over all rows.  marker_mask, which tells the network the columns
\* of a row, and the probability of action are left out.
InferBatch ==
    /\ status = "running" /\ backend = "onnx"
    /\ prepared # <<>> /\ Len(prepared) = Len(request.questions)
    /\ LET length == Max({Len(prepared[i].ids) : i \in DOMAIN prepared})
           width == Max({Len(prepared[i].markers) : i \in DOMAIN prepared})
           logits == Logits(prepared, length, width)
       IN  decisions' = [row \in DOMAIN prepared |->
               Decode(prepared[row],
                      Slice(logits, row - 1, width, Len(prepared[row].markers)))]
    /\ Finished
    /\ UNCHANGED <<backend, config, request, prepared>>

\* Core ML: a run for each question, padded to the artifact's shape.
InferOne ==
    /\ status = "running" /\ backend = "coreml"
    /\ Len(prepared) > Len(decisions)
    /\ LET item == prepared[Len(prepared)]
           length == PaddedLength(Len(item.ids))
       IN  IF length = 0 THEN Fail
           ELSE /\ decisions' = Append(decisions,
                       Decode(item, Slice(Logits(<<item>>, length, config.maxOptions), 0,
                                          config.maxOptions, Len(item.markers))))
                /\ Finished
    /\ UNCHANGED <<backend, config, request, prepared>>

\* The session fails, or its tensors have another shape or values that are not
\* finite, or give no probabilities.
InferFails ==
    /\ status = "running"
    /\ IF backend = "onnx"
       THEN prepared # <<>> /\ Len(prepared) = Len(request.questions)
       ELSE Len(prepared) > Len(decisions)
    /\ Fail
    /\ UNCHANGED <<backend, config, request, prepared>>

Init ==
    /\ backend \in {"onnx", "coreml"}
    /\ config \in Config
    /\ request \in Request
    /\ prepared = <<>> /\ decisions = <<>>
    /\ status = IF request.questions = <<>> THEN "error" ELSE "running"

Next == PrepareNext \/ InferBatch \/ InferOne \/ InferFails

Spec == Init /\ [][Next]_vars

-------------------------------------------------------------------------------
\* Every layout that reaches the network fits the artifact: no prompt is longer
\* than the exported sequence, and cutting the head, the options and the state
\* never cuts away a separator or the mask an option is scored at.
PromptsFit ==
    \A i \in DOMAIN prepared :
       LET item == prepared[i]
       IN  /\ Len(item.ids) <= config.maxLen
           /\ item.ids[1].kind = "cls" /\ Last(item.ids).kind = "sep"
           /\ Cardinality({at \in DOMAIN item.ids : item.ids[at].kind = "sep"}) = 3
           /\ {at - 1 : at \in {n \in DOMAIN item.ids : item.ids[n].kind = "mask"}}
              = ToSet(item.markers)
           /\ backend = "coreml" =>
                 PaddedLength(Len(item.ids)) \in {0} \cup Len(item.ids) .. config.maxLen

\* A decision is computed from its own question only and each of its columns
\* from the mask of its own option, however many other questions of whatever
\* width and length share the batch.
AnswersOwnPrompt ==
    \A i \in DOMAIN decisions :
       LET item == prepared[i]
           decision == decisions[i]
       IN  /\ decision.question = request.questions[i]
           /\ \A option \in DOMAIN item.markers :
                 /\ decision.columns[option].seen
                    = [column \in 0 .. Len(item.ids) - 1 |-> item.ids[column + 1]]
                 /\ decision.columns[option].scored = Token("mask", item.question.name, option)

===============================================================================
