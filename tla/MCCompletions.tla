----------------------------- MODULE MCCompletions -----------------------------
(***************************************************************************)
(* Chat completions on small instances.                                    *)
(* There are two tools, of which one constrains its arguments; servers     *)
(* number their fragments or not, repeat identifiers, propose what was not *)
(* offered or cut arguments short.  The streams combine line ends, fields, *)
(* a byte order mark and a byte that is no UTF-8 in every order.           *)
(***************************************************************************)
EXTENDS ChatCompletions, SequencesExt

Call(id, name) == [id |-> <<id>>, name |-> <<name>>, arguments |-> <<"{", "}">>]

Tool(name, schema) == [name |-> <<name>>, schema |-> schema]

Choose(tools, choice, named) == [tools |-> tools, choice |-> choice, named |-> named]

Both == <<Tool("read", "any"), Tool("write", "strict")>>

MCOptions ==
    {Choose(Both, "absent", <<>>), Choose(Both, "tool", <<"read">>),
     Choose(<<Tool("read", "any")>>, "none", <<>>),
     Choose(<<Tool("read", "any")>>, "tool", <<"write">>),
     Choose(<<Tool("read", "any"), Tool("read", "any")>>, "auto", <<>>),
     Choose(<<>>, "absent", <<>>)}

Turn(role, calls, answers) == [role |-> role, calls |-> calls, answers |-> answers]

User == Turn("user", <<>>, {})
Assistant(calls) == Turn("assistant", calls, {})
ToolResult(id) == Turn("tool", <<>>, {id})

MCHistory ==
    {<<User>>, <<Assistant(<<>>)>>,
     <<User, Assistant(<<Call("i", "read")>>)>>,
     <<User, Assistant(<<Call("i", "read"), Call("j", "write")>>), ToolResult(<<"j">>)>>,
     <<User, Assistant(<<Call("i", "read"), Call("i", "read")>>)>>,
     <<User, Assistant(<<Call("i", "~")>>)>>,
     <<User, ToolResult(<<"i">>), Assistant(<<Call("i", "read")>>)>>,
     <<Turn("user", <<Call("i", "read")>>, {})>>,
     <<User, Turn("assistant", <<>>, {<<"i">>})>>}

Part(index, id, name, arguments) ==
    [index |-> index, hasId |-> id # <<>>, id |-> id, name |-> name, arguments |-> arguments,
     malformed |-> FALSE]

MCFragment ==
    {Part(-1, <<"i">>, <<"read">>, <<"{", "}">>),
     Part(-1, <<"k">>, <<"read">>, <<"{">>),
     Part(-1, <<>>, <<>>, <<"violation", "}">>),
     Part(0, <<"k">>, <<"write">>, <<"{">>),
     Part(1, <<"i">>, <<"read">>, <<"{", "}">>),
     Part(0, <<>>, <<>>, <<"}">>),
     [Part(0, <<"k">>, <<"read">>, <<>>) EXCEPT !.malformed = TRUE]}

MCDeclared == {{}, {"tools"}, {"tools", "tool_choice"}}

MCStreams ==
    LET Alphabet == {<<"cr">>, <<"lf">>, <<"data", "colon">>, <<"x">>,
                     <<"data", "colon", "space", "x", "lf">>, <<"bad">>, <<"bom">>}
    IN  {FlattenSeq(s) : s \in SeqOf(Alphabet, 5)}

===============================================================================
