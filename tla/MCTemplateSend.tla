---------------------------- MODULE MCTemplateSend ----------------------------
(* TemplateSend on a small instance: headers of every format, bodies of up to *)
(* two placeholders, buttons of every type, and messages that fit them or     *)
(* differ from one that does.                                                 *)
EXTENDS TemplateSend

Header(format, text) == <<format, text>>
Headers == {Header("", <<>>), Header("TEXT", <<>>), Header("TEXT", <<"1">>),
            Header("TEXT", <<"a">>), Header("IMAGE", <<>>), Header("VIDEO", <<>>),
            Header("DOCUMENT", <<>>), Header("LOCATION", <<>>), Header("GIF", <<>>)}

Bodies == {<<>>, <<"1">>, <<"1", "2">>, <<"1", "1">>, <<"a">>, <<"a", "b">>, <<"b", "b">>,
           <<"A">>}

Button(type, placeholder, otp) ==
    [type |-> type, placeholder |-> placeholder, name |-> "", otp |-> otp]
URL == Button("URL", TRUE, FALSE)
NamedURL == [URL EXCEPT !.name = "a"]
ButtonRows == {<<>>, <<URL>>, <<Button("URL", FALSE, FALSE)>>,
               <<Button("URL", TRUE, TRUE)>>, <<Button("URL", FALSE, TRUE)>>,
               <<Button("OTP", FALSE, FALSE)>>, <<Button("QUICK_REPLY", FALSE, FALSE)>>,
               <<Button("COPY_CODE", FALSE, FALSE)>>,
               <<Button("PHONE_NUMBER", FALSE, FALSE), URL>>, <<URL, URL>>}

\* The parameter_format Meta gives for a template's placeholders, or none (an
\* older one); it has no template that mixes numbers and names.
Formats(h, body) ==
    LET used == ToSet(h[2]) \union ToSet(body)
    IN  {f \in {"", "POSITIONAL", "NAMED"} :
           /\ f = "POSITIONAL" => used \subseteq Digits
           /\ f = "NAMED" => used \intersect Digits = {}
           /\ f = "" => used \subseteq Digits \/ used \intersect Digits = {}}

Template(h, body, row, format) ==
    [headerFormat |-> h[1], headerText |-> h[2], bodyText |-> body, buttons |-> row,
     format |-> format]

\* Every header with every body, and every row of buttons with the bodies of a
\* code and of nothing.
SmallTemplates ==
    UNION {{Template(h, body, row, f) : f \in Formats(h, body)} :
              h \in Headers, body \in Bodies, row \in {<<>>, <<URL>>}}
    \union
    UNION {{Template(Header("", <<>>), body, row, f) : f \in Formats(Header("", <<>>), body)} :
              body \in {<<>>, <<"1">>, <<"a">>}, row \in ButtonRows}
    \union
    {Template(Header("", <<>>), body, row, "NAMED") :
              body \in {<<>>, <<"b">>}, row \in {<<NamedURL>>, <<URL, NamedURL>>}}

Value(kind, name, text) == [kind |-> kind, name |-> name, text |-> text, fault |-> "none"]
Text(name) == Value("text", name, "code")
Faulty(kind, fault) == [kind |-> kind, name |-> "", text |-> "x", fault |-> fault]

MessageHeaders == {NoValue, Text(""), Text("a"), Value("image", "", ""),
                   Value("video", "", ""), Value("document", "", ""),
                   Value("location", "", "")}
MessageBodies == {<<>>} \union {<<Text(n)>> : n \in {"", "a", "b"}}
                 \union {<<Text(n), Text(p)>> : n, p \in {"", "a", "b"}}

Press(index, kind, value) ==
    [index |-> index, kind |-> kind, value |-> value, name |-> "", fault |-> "none"]
NamedPress(index, name) == [Press(index, "url", "x") EXCEPT !.name = name]
PressRows == {<<>>, <<Press(0, "url", "x")>>, <<Press(0, "otp", "code")>>,
            <<Press(0, "otp", "x")>>, <<Press(0, "quick_reply", "x")>>,
            <<Press(0, "copy_code", "x")>>, <<Press(1, "url", "x")>>,
            <<Press(1, "url", "x"), Press(0, "url", "x")>>,
            <<NamedPress(0, "a")>>, <<NamedPress(0, "b")>>,
            <<NamedPress(1, "a"), Press(0, "url", "x")>>}

Message(header, body, buttons) ==
    [fields |-> "complete", header |-> header, body |-> body, buttons |-> buttons]

\* One thing wrong with a message.
FaultyValues ==
    {Faulty("text", "line break"), Faulty("text", "long"), Faulty("currency", "no fallback"),
     Faulty("currency", "no currency code"), Faulty("currency", "none"),
     Faulty("date_time", "line break"), Faulty("date_time", "none"),
     Faulty("image", "id and link"), Faulty("image", "filename"),
     Faulty("document", "neither id nor link"), Faulty("location", "out of range"),
     Faulty("none", "none"), Faulty("several", "none")}

FaultyPresses ==
    {[Press(0, "url", "x") EXCEPT !.fault = "line break"],
     [Press(0, "url", "x") EXCEPT !.fault = "long"],
     [Press(0, "otp", "code") EXCEPT !.fault = "long"],
     [Press(0, "copy_code", "x") EXCEPT !.fault = "long"],
     [Press(0, "quick_reply", "x") EXCEPT !.name = "a"],
     [Press(0, "quick_reply", "x") EXCEPT !.fault = "long"],
     NamedPress(0, "A"),
     Press(0, "url", ""), Press(10, "url", "x"), Press(0, "call", "x")}

SmallMessages ==
    {Message(h, b, p) : h \in MessageHeaders, b \in MessageBodies, p \in PressRows}
    \union {Message(v, <<>>, <<>>) : v \in FaultyValues \union {Value("image", "a", "")}}
    \union {Message(NoValue, <<v>>, <<>>) : v \in FaultyValues}
    \union {Message(NoValue, <<Text("")>>, <<p>>) : p \in FaultyPresses}
    \union {Message(NoValue, <<Text("A")>>, <<>>),
            Message(NoValue, <<>>, <<Press(0, "url", "x"), Press(0, "url", "x")>>),
            [Message(NoValue, <<>>, <<>>) EXCEPT !.fields = "bad number"]}
=============================================================================
