-------------------------- MODULE TemplateSendProofs --------------------------
(***************************************************************************)
(* Theorems about TemplateSend, for any templates and messages.  The       *)
(* argument: templatePlaceholders keeps the placeholders of a text, each   *)
(* once (induction on its length); so what the validator keeps of a        *)
(* template says the same as the template does, part by part; so the check *)
(* against it and Meta's own are the same, but for what is beyond the      *)
(* check.  In the other direction every part a template may have has a     *)
(* value that Meta takes, and the values together make a message.          *)
(***************************************************************************)
EXTENDS TemplateSend, SequenceTheorems, InductionLemmas, TLAPS

-----------------------------------------------------------------------------
(* templatePlaceholders *)

\* The placeholders of a text, each once.
LEMMA Placeholders ==
    ASSUME NEW S, NEW text \in Seq(S)
    PROVE  /\ templatePlaceholders(text) \in Seq(S)
           /\ ToSet(templatePlaceholders(text)) = ToSet(text)
           /\ Len(templatePlaceholders(text)) = Cardinality(ToSet(text))
           /\ \A i, j \in DOMAIN templatePlaceholders(text) :
                templatePlaceholders(text)[i] = templatePlaceholders(text)[j] => i = j
<1> DEFINE N == Len(text)
           next(names, n) ==
             IF text[n] \in ToSet(names) THEN names ELSE Append(names, text[n])
           Recursive(f) ==
             f = [n \in 0..N |-> IF n = 0 THEN <<>>
                                 ELSE IF text[n] \in ToSet(f[n - 1]) THEN f[n - 1]
                                 ELSE Append(f[n - 1], text[n])]
           names == CHOOSE f : Recursive(f)
<1>1. N \in Nat /\ DOMAIN text = 1..N /\ \A n \in 1..N : text[n] \in S
  BY LenProperties, ElementOfSeq
<1>2. \E f : Recursive(f)
  <2> DEFINE step == [p \in (1..N) \X Seq(S) |-> next(p[2], p[1])]
  <2>1. step \in [(1..N) \X Seq(S) -> Seq(S)]
    <3>1. ASSUME NEW n \in 1..N, NEW s \in Seq(S) PROVE next(s, n) \in Seq(S)
      BY <1>1, AppendProperties
    <3> QED BY <3>1
  <2>2. <<>> \in Seq(S)
    BY EmptySeq
  <2> HIDE DEF step, next, N
  <2>3. PICK f : Recursion(f, N, Seq(S), <<>>, step)
    <3>1. N \in Nat
      BY <1>1
    <3> QED BY <2>1, <2>2, <3>1, RecursionExists
  <2> USE DEF Recursion
  <2>4. ASSUME NEW n \in 0..N, n # 0 PROVE f[n] = next(f[n - 1], n)
    <3>1. n \in 1..N /\ n - 1 \in 0..N
      BY <1>1, <2>4
    <3>2. f[n] = step[<<n, f[n - 1]>>] /\ <<n, f[n - 1]>> \in (1..N) \X Seq(S)
      BY <2>3, <2>4, <3>1
    <3> QED BY <3>2 DEF step
  <2>5. f[0] = <<>>
    <3>1. 0 \in 0..N
      BY <1>1
    <3> QED BY <2>3, <3>1
  <2>6. f = [n \in 0..N |-> IF n = 0 THEN <<>> ELSE next(f[n - 1], n)]
    BY <2>3, <2>4, <2>5
  <2>7. Recursive(f)
    BY <2>6 DEF next
  <2> QED BY <2>7, Zenon
<1> USE DEF next, N
<1>3. Recursive(names)
  BY <1>2, Zenon
<1>4. templatePlaceholders(text) = names[N]
  BY Zenon DEF templatePlaceholders
<1> HIDE DEF names, N
<1>5. names[0] = <<>> /\ \A n \in 0..N : n # 0 => names[n] = next(names[n - 1], n)
  <2>1. 0 \in 0..N
    BY <1>1
  <2>2. \A n \in 0..N :
          names[n] = IF n = 0 THEN <<>>
                     ELSE IF text[n] \in ToSet(names[n - 1]) THEN names[n - 1]
                     ELSE Append(names[n - 1], text[n])
    BY <1>3, Zenon
  <2> QED BY <2>1, <2>2
<1> DEFINE Seen(n) == {text[i] : i \in 1..n}
           Right(s, n) ==
             /\ s \in Seq(S) /\ ToSet(s) = Seen(n)
             /\ \A i, j \in DOMAIN s : s[i] = s[j] => i = j
           Good == {n \in 0..N : Right(names[n], n)}
<1>6. 0 \in Good
  <2>1. <<>> \in Seq(S) /\ DOMAIN <<>> = {} /\ ToSet(<<>>) = {}
    BY EmptySeq DEF ToSet
  <2>2. Seen(0) = {}
    OBVIOUS
  <2>3. Right(names[0], 0)
    BY <1>5, <2>1, <2>2
  <2> HIDE DEF Right
  <2> QED BY <1>1, <2>3
<1>7. ASSUME NEW n \in 0..N, n < N, n \in Good PROVE n + 1 \in Good
  <2> DEFINE s == names[n]
             x == text[n + 1]
  <2>1. /\ n + 1 \in 1..N /\ n + 1 \in 0..N /\ x \in S
        /\ s \in Seq(S) /\ DOMAIN s = 1..Len(s) /\ Len(s) \in Nat
        /\ Right(s, n)
    BY <1>1, <1>7, LenProperties
  <2>2. names[n + 1] = next(s, n + 1)
    BY <1>1, <1>5, <2>1
  <2>3. Seen(n + 1) = Seen(n) \union {x}
    <3>1. 1..(n + 1) = (1..n) \union {n + 1}
      BY <2>1
    <3> QED BY <3>1
  <2> HIDE DEF s, x, Seen
  <2>4. CASE x \in ToSet(s)
    <3>1. next(s, n + 1) = s
      BY <2>4 DEF x
    <3>2. Right(s, n + 1)
      BY <2>1, <2>3, <2>4
    <3> QED BY <2>1, <2>2, <3>1, <3>2
  <2>5. CASE x \notin ToSet(s)
    <3> DEFINE t == Append(s, x)
    <3>1. next(s, n + 1) = t
      BY <2>5 DEF x
    <3>2. /\ t \in Seq(S) /\ Len(t) = Len(s) + 1 /\ DOMAIN t = 1..(Len(s) + 1)
          /\ \A i \in 1..Len(s) : t[i] = s[i]
          /\ t[Len(s) + 1] = x
      BY <2>1, AppendProperties, LenProperties
    <3> HIDE DEF t
    <3>3. DOMAIN t = (1..Len(s)) \union {Len(s) + 1}
      BY <2>1, <3>2
    <3>4. ToSet(t) = ToSet(s) \union {x}
      <4>1. \A i \in DOMAIN s : t[i] = s[i]
        BY <2>1, <3>2, Zenon
      <4>2. DOMAIN t = DOMAIN s \union {Len(s) + 1} /\ t[Len(s) + 1] = x
        BY <2>1, <3>2, <3>3, Zenon
      <4> QED BY <4>1, <4>2, Zenon DEF ToSet
    <3>5. \A i, j \in DOMAIN t : t[i] = t[j] => i = j
      BY <2>1, <2>5, <3>2, <3>3 DEF ToSet
    <3>6. Right(t, n + 1)
      BY <2>1, <2>3, <3>2, <3>4, <3>5
    <3> QED BY <2>1, <2>2, <3>1, <3>6
  <2> QED BY <2>4, <2>5
<1> HIDE DEF Good
<1>8. N \in Good
  <2>1. 0..N \subseteq Good
    BY <1>1, <1>6, <1>7, IntervalInduction
  <2> QED BY <1>1, <2>1
<1>9. Right(names[N], N) /\ Seen(N) = ToSet(text)
  BY <1>1, <1>8 DEF Good, ToSet
<1>10. Len(names[N]) = Cardinality(ToSet(names[N]))
  <2> DEFINE s == names[N]
  <2>1. Len(s) \in Nat /\ s \in [1..Len(s) -> S] /\ DOMAIN s = 1..Len(s)
    BY <1>9, LenProperties
  <2>2. s \in Bijection(1..Len(s), ToSet(s))
    BY <1>9, <2>1 DEF Bijection, Injection, Surjection, IsInjective, ToSet
  <2>3. ExistsBijection(1..Len(s), ToSet(s))
    BY <2>2 DEF ExistsBijection
  <2> QED BY <2>1, <2>3, FS_CountingElements
<1> QED BY <1>4, <1>9, <1>10

-----------------------------------------------------------------------------
(* What the validator keeps of a template *)

\* The header's placeholders are those of its text, and there is one at most.
LEMMA HeaderPlaceholders ==
    ASSUME NEW t \in Templates
    PROVE  /\ HeaderParameters(t) \in Seq(STRING)
           /\ ToSet(HeaderParameters(t)) = ToSet(t.headerText)
           /\ Len(HeaderParameters(t)) = Cardinality(ToSet(t.headerText))
           /\ Len(HeaderParameters(t)) \in {0, 1}
<1>1. /\ t.headerText \in Seq(STRING)
      /\ t.headerFormat # "TEXT" => t.headerText = <<>>
      /\ \A i, j \in DOMAIN t.headerText : t.headerText[i] = t.headerText[j]
  BY TemplatesAssumption
<1> DEFINE names == HeaderParameters(t)
<1>2. /\ names \in Seq(STRING)
      /\ ToSet(names) = ToSet(t.headerText)
      /\ Len(names) = Cardinality(ToSet(t.headerText))
      /\ \A i, j \in DOMAIN names : names[i] = names[j] => i = j
  <2>1. CASE t.headerFormat = "TEXT"
    <3>1. names = templatePlaceholders(t.headerText)
      BY <2>1 DEF HeaderParameters
    <3> HIDE DEF names
    <3> QED BY <1>1, <3>1, Placeholders
  <2>2. CASE t.headerFormat # "TEXT"
    <3>1. names = <<>> /\ t.headerText = <<>>
      BY <1>1, <2>2 DEF HeaderParameters
    <3>2. ToSet(<<>>) = {} /\ DOMAIN <<>> = {} /\ <<>> \in Seq(STRING) /\ Len(<<>>) = 0
      BY EmptySeq DEF ToSet
    <3>3. Cardinality({}) = 0
      BY FS_EmptySet
    <3> HIDE DEF names
    <3> QED BY <3>1, <3>2, <3>3
  <2> QED BY <2>1, <2>2
<1> HIDE DEF names
<1>3. Len(names) \in Nat /\ DOMAIN names = 1..Len(names)
  BY <1>2, LenProperties
<1>4. ASSUME Len(names) > 1 PROVE FALSE
  <2>1. 1 \in DOMAIN names /\ 2 \in DOMAIN names
    BY <1>3, <1>4
  <2>2. names[1] \in ToSet(t.headerText) /\ names[2] \in ToSet(t.headerText)
    BY <1>2, <2>1 DEF ToSet
  <2>3. names[1] = names[2]
    BY <1>1, <2>2 DEF ToSet
  <2> QED BY <1>2, <2>1, <2>3
<1> QED BY <1>2, <1>3, <1>4 DEF names

\* So are the body's.
LEMMA BodyPlaceholders ==
    ASSUME NEW t \in Templates
    PROVE  LET names == templatePlaceholders(t.bodyText)
           IN  /\ names \in Seq(STRING)
               /\ ToSet(names) = ToSet(t.bodyText)
               /\ Len(names) = Cardinality(ToSet(t.bodyText))
               /\ \A i, j \in DOMAIN names : names[i] = names[j] => i = j
<1>1. t.bodyText \in Seq(STRING)
  BY TemplatesAssumption
<1> QED BY <1>1, Placeholders

\* grpop tells a named template from a positional one as Meta does, whether or
\* not the list says.
LEMMA NamedAgrees == ASSUME NEW t \in Templates PROVE IsNamed(t) = Named(t)
<1>1. ToSet(HeaderParameters(t)) = ToSet(t.headerText)
  BY HeaderPlaceholders
<1>2. /\ t.format \in {"", "POSITIONAL", "NAMED"}
      /\ t.format = "POSITIONAL" => ToSet(t.headerText) \union ToSet(t.bodyText) \subseteq Digits
  BY TemplatesAssumption
<1> QED BY <1>1, <1>2 DEF IsNamed, Named

\* A template's list entry.
LEMMA InfoOf ==
    ASSUME NEW t \in Templates
    PROVE  LET i == metaTemplateInfo(t)
           IN  /\ i # NoInfo
               /\ i.named = Named(t)
               /\ i.headerFormat = t.headerFormat
               /\ i.headerParameters = HeaderParameters(t)
               /\ i.bodyParameters = templatePlaceholders(t.bodyText)
               /\ DOMAIN i.buttons = DOMAIN t.buttons
               /\ \A n \in DOMAIN t.buttons :
                    /\ i.buttons[n].type = t.buttons[n].type
                    /\ i.buttons[n].requiresValue = RequiresValue(t.buttons[n])
<1>1. t.headerFormat # "no list"
  BY TemplatesAssumption
<1>2. metaTemplateInfo(t).headerFormat = t.headerFormat
  BY DEF metaTemplateInfo
<1>3. metaTemplateInfo(t) # NoInfo
  <2>1. NoInfo.headerFormat = "no list"
    BY DEF NoInfo
  <2> QED BY <1>1, <1>2, <2>1, Zenon
<1>4. metaTemplateInfo(t).named = Named(t)
  <2>1. metaTemplateInfo(t).named = IsNamed(t)
    BY DEF metaTemplateInfo
  <2> QED BY <2>1, NamedAgrees, Zenon
<1>5. \A n \in DOMAIN t.buttons :
        /\ metaTemplateInfo(t).buttons[n].type = t.buttons[n].type
        /\ metaTemplateInfo(t).buttons[n].requiresValue = RequiresValue(t.buttons[n])
  BY DEF metaTemplateInfo
<1>6. /\ DOMAIN metaTemplateInfo(t).buttons = DOMAIN t.buttons
      /\ metaTemplateInfo(t).headerParameters = HeaderParameters(t)
      /\ metaTemplateInfo(t).bodyParameters = templatePlaceholders(t.bodyText)
  BY DEF metaTemplateInfo
<1> QED BY <1>2, <1>3, <1>4, <1>5, <1>6, Zenon

\* The parts of a message.
LEMMA MessageParts ==
    ASSUME NEW m \in Messages
    PROVE  /\ DOMAIN m = {"fields", "header", "body", "buttons"}
           /\ m.header \in Values /\ m.body \in Seq(Values) /\ m.buttons \in Seq(Presses)
           /\ \A v \in {m.header} \union ToSet(m.body) :
                /\ v.fault = "long" => v.kind = "text"
                /\ v.fault \in {"none", "long"} \union Faults(v.kind)
           /\ \A n \in DOMAIN m.buttons : m.buttons[n].fault \in {"none", "long", "line break"}
BY MessagesAssumption

-----------------------------------------------------------------------------
(* What is sent of a message *)

\* A value that passes its check has no fault but a length, and only a text that.
LEMMA CheckedValue ==
    ASSUME NEW m \in Messages, NEW v \in {m.header} \union ToSet(m.body),
           checkWhatsAppValue(v)
    PROVE  /\ v.fault \in {"none", "long"}
           /\ v.kind # "text" => v.fault = "none"
BY MessageParts DEF checkWhatsAppValue

\* The components, part by part.
LEMMA ComponentsOf ==
    ASSUME NEW m \in Messages
    PROVE  LET c == metaTemplateComponents(m)
           IN  /\ m.header = NoValue => c.header = <<>>
               /\ m.header # NoValue => c.header = <<metaParameter(m.header)>>
               /\ DOMAIN c.body = DOMAIN m.body /\ Len(c.body) = Len(m.body)
               /\ \A n \in DOMAIN m.body : c.body[n] = metaParameter(m.body[n])
               /\ DOMAIN c.buttons = DOMAIN m.buttons
               /\ \A n \in DOMAIN m.buttons : c.buttons[n] = metaButton(m.buttons[n])
<1> DEFINE c == metaTemplateComponents(m)
<1>1. /\ m.body \in Seq(Values) /\ DOMAIN m.body = 1..Len(m.body) /\ Len(m.body) \in Nat
  BY MessageParts, LenProperties
<1>2. /\ m.header = NoValue => c.header = <<>>
      /\ m.header # NoValue => c.header = <<metaParameter(m.header)>>
      /\ DOMAIN c.body = DOMAIN m.body
      /\ \A n \in DOMAIN m.body : c.body[n] = metaParameter(m.body[n])
      /\ DOMAIN c.buttons = DOMAIN m.buttons
      /\ \A n \in DOMAIN m.buttons : c.buttons[n] = metaButton(m.buttons[n])
  BY DEF metaTemplateComponents
<1>3. Len(c.body) = Len(m.body)
  <2>1. c.body = [n \in 1..Len(m.body) |-> metaParameter(m.body[n])]
    BY <1>1 DEF metaTemplateComponents
  <2> QED BY <1>1, <2>1
<1> QED BY <1>2, <1>3

\* A parameter is the value's.
LEMMA ParameterOf ==
    ASSUME NEW p
    PROVE  /\ metaParameter(p).type = p.kind /\ metaParameter(p).name = p.name
           /\ metaParameter(p).text = p.text /\ metaParameter(p).fault = p.fault
BY DEF metaParameter

\* The body fits the list entry just when Meta takes it.
LEMMA BodyFitsIffTaken ==
    ASSUME NEW t \in Templates, NEW m \in Messages, ValidBody(m.body)
    PROVE  BodyFits(metaTemplateInfo(t), m.body) <=>
             TakesValues(metaTemplateComponents(m).body, t.bodyText, Named(t))
<1> DEFINE i == metaTemplateInfo(t)
           body == m.body
           sent == metaTemplateComponents(m).body
           text == ToSet(t.bodyText)
<1>1. /\ i.named = Named(t)
      /\ ToSet(i.bodyParameters) = text
      /\ Len(i.bodyParameters) = Cardinality(text)
  BY InfoOf, BodyPlaceholders
<1>2. /\ DOMAIN sent = DOMAIN body /\ Len(sent) = Len(body)
      /\ \A n \in DOMAIN body :
           /\ sent[n].type = body[n].kind /\ sent[n].name = body[n].name
           /\ sent[n].fault = body[n].fault
  BY ComponentsOf, ParameterOf
<1>3. \A n \in DOMAIN body :
        sent[n].type \in BodyKinds /\ sent[n].fault \in {"none", "long"}
  <2> SUFFICES ASSUME NEW n \in DOMAIN body
               PROVE  sent[n].type \in BodyKinds /\ sent[n].fault \in {"none", "long"}
    BY <1>2
  <2>1. body[n] \in ToSet(body) /\ checkWhatsAppValue(body[n]) /\ body[n].kind \in BodyKinds
    BY DEF ToSet, ValidBody
  <2> QED BY <1>2, <2>1, CheckedValue
<1>4. {sent[n].name : n \in DOMAIN sent} = {body[n].name : n \in DOMAIN body}
  BY <1>2
<1>5. "" \notin text
  BY TemplatesAssumption
<1>6. Named(t) \in BOOLEAN
  BY DEF Named
<1> HIDE DEF i, body, sent, text
<1>7. CASE Named(t)
  <2>1. ASSUME {body[n].name : n \in DOMAIN body} = text
        PROVE  \A n \in DOMAIN body : body[n].name # ""
    BY <1>5, <2>1
  <2>2. i.named /\ i.named = TRUE
    BY <1>1, <1>7
  <2>3. BodyFits(i, body) <=> /\ Len(body) = Cardinality(text)
                              /\ {body[n].name : n \in DOMAIN body} = text
    BY <1>1, <2>1, <2>2 DEF BodyFits
  <2>4. TakesValues(sent, t.bodyText, Named(t)) <=>
          /\ Len(body) = Cardinality(text)
          /\ {body[n].name : n \in DOMAIN body} = text
    BY <1>2, <1>3, <1>4, <1>7 DEF TakesValues, text
  <2> QED BY <2>3, <2>4 DEF i, body, sent
<1>8. CASE ~Named(t)
  <2>1. ~i.named /\ i.named = FALSE
    BY <1>1, <1>6, <1>8
  <2>2. BodyFits(i, body) <=> /\ Len(body) = Cardinality(text)
                              /\ \A n \in DOMAIN body : body[n].name = ""
    BY <1>1, <2>1 DEF BodyFits
  <2>3. TakesValues(sent, t.bodyText, Named(t)) <=>
          /\ Len(body) = Cardinality(text)
          /\ \A n \in DOMAIN body : body[n].name = ""
    BY <1>2, <1>3, <1>8 DEF TakesValues, text
  <2> QED BY <2>2, <2>3 DEF i, body, sent
<1> QED BY <1>7, <1>8

\* A header that fits the list entry is taken, and the other way round, but for
\* what is beyond the check.
LEMMA HeaderFitsIffTaken ==
    ASSUME NEW t \in Templates, NEW m \in Messages, ValidHeader(m.header)
    PROVE  LET fits  == HeaderFits(metaTemplateInfo(t), m.header)
               taken == TakesHeader(t, metaTemplateComponents(m).header)
           IN  /\ taken => fits
               /\ fits /\ t.headerFormat # "GIF" /\ (Named(t) \/ m.header.name = "") => taken
<1> DEFINE i == metaTemplateInfo(t)
           h == m.header
           sent == metaTemplateComponents(m).header
           fits  == HeaderFits(i, h)
           taken == TakesHeader(t, sent)
           names == HeaderParameters(t)
<1>1. /\ i.headerFormat = t.headerFormat
      /\ i.headerParameters = names
      /\ i.named = Named(t)
  BY InfoOf
<1>2. /\ h = NoValue => sent = <<>>
      /\ h # NoValue => /\ sent = <<metaParameter(h)>>
                        /\ checkWhatsAppValue(h)
                        /\ ~(h.kind = "text" /\ h.fault = "long")
  BY ComponentsOf DEF ValidHeader
<1>3. h # NoValue => /\ h.kind \in BodyKinds \union HeaderKinds
                     /\ h.fault \in {"none", "long"}
                     /\ h.kind # "text" => h.fault = "none"
  BY <1>2, CheckedValue DEF checkWhatsAppValue
<1>4. /\ sent = <<>> => Len(sent) = 0 /\ DOMAIN sent = {}
      /\ h # NoValue => /\ Len(sent) = 1 /\ DOMAIN sent = {1}
                        /\ sent[1] = metaParameter(h)
                        /\ sent # <<>>
  <2> DEFINE p == metaParameter(h)
  <2>1. /\ Len(<<>>) = 0 /\ DOMAIN <<>> = {}
        /\ Len(<<p>>) = 1 /\ DOMAIN <<p>> = {1} /\ <<p>>[1] = p
    <3> HIDE DEF p
    <3> QED OBVIOUS
  <2> HIDE DEF p, sent
  <2> QED BY <1>2, <2>1 DEF p
<1>5. /\ metaParameter(h).type = h.kind /\ metaParameter(h).name = h.name
      /\ metaParameter(h).fault = h.fault
  BY ParameterOf
<1>6. NoValue.kind = "nil"
  BY DEF NoValue
<1>7. /\ names \in Seq(STRING) /\ Len(names) \in {0, 1}
      /\ ToSet(names) = ToSet(t.headerText)
      /\ Len(names) = Cardinality(ToSet(t.headerText))
      /\ DOMAIN names = 1..Len(names)
  BY HeaderPlaceholders, LenProperties
<1>8. t.headerFormat \in {"", "TEXT", "IMAGE", "VIDEO", "DOCUMENT", "LOCATION", "GIF"}
  BY TemplatesAssumption
<1>9. Named(t) \in BOOLEAN
  BY DEF Named
<1> HIDE DEF i, h, sent, names, fits, taken
<1> SUFFICES /\ taken => fits
             /\ fits /\ t.headerFormat # "GIF" /\ (Named(t) \/ h.name = "") => taken
  BY DEF fits, taken, i, h, sent
<1>10. CASE t.headerFormat = "TEXT"
  <2>1. taken <=> /\ TakesValues(sent, t.headerText, Named(t))
                  /\ \A n \in DOMAIN sent : sent[n].type = "text" => sent[n].fault # "long"
    BY <1>10 DEF taken, TakesHeader
  <2>2. CASE Len(names) = 0
    <3>1. names = <<>> /\ ToSet(t.headerText) = {}
      <4>1. names = <<>>
        BY <1>7, <2>2, EmptySeq
      <4>2. DOMAIN names = {}
        BY <1>7, <2>2
      <4>3. ToSet(names) = {}
        BY <4>2 DEF ToSet
      <4> QED BY <1>7, <4>1, <4>3
    <3>2. fits <=> h = NoValue
      BY <1>1, <1>10, <3>1 DEF fits, HeaderFits
    <3>3. TakesValues(sent, t.headerText, Named(t)) => h = NoValue
      BY <1>4, <1>7, <2>2 DEF TakesValues
    <3>4. h = NoValue => TakesValues(sent, t.headerText, Named(t)) /\ DOMAIN sent = {}
      <4> SUFFICES ASSUME h = NoValue
                   PROVE  TakesValues(sent, t.headerText, Named(t)) /\ DOMAIN sent = {}
        OBVIOUS
      <4>1. Len(sent) = 0 /\ DOMAIN sent = {}
        BY <1>2, <1>4
      <4> QED BY <1>7, <2>2, <3>1, <4>1 DEF TakesValues
    <3> QED BY <2>1, <3>2, <3>3, <3>4
  <2>3. CASE Len(names) = 1
    <3>1. names # <<>> /\ ToSet(t.headerText) = {names[1]}
      <4>1. names # <<>>
        <5>1. Len(<<>>) # 1
          OBVIOUS
        <5> QED BY <2>3, <5>1, Zenon
      <4>2. DOMAIN names = {1}
        BY <1>7, <2>3
      <4>3. ToSet(names) = {names[1]}
        BY <4>2 DEF ToSet
      <4> QED BY <1>7, <4>1, <4>3
    <3>2. fits <=> /\ h # NoValue /\ h.kind \notin HeaderKinds
                   /\ Named(t) => h.name = names[1]
      <4>1. HeaderFits(i, h) <=> /\ h # NoValue /\ h.kind \notin HeaderKinds
                                 /\ i.named => h.name = i.headerParameters[1]
        BY <1>1, <1>10, <3>1 DEF HeaderFits
      <4> QED BY <1>1, <4>1 DEF fits
    <3>3. h = NoValue => ~TakesValues(sent, t.headerText, Named(t))
      BY <1>2, <1>4, <1>7, <2>3 DEF TakesValues
    <3>4. ASSUME h # NoValue
          PROVE  TakesValues(sent, t.headerText, Named(t)) <=>
                   /\ h.kind \in BodyKinds
                   /\ IF Named(t) THEN h.name = names[1] ELSE h.name = ""
      <4>1. /\ Len(sent) = 1 /\ DOMAIN sent = {1}
            /\ sent[1].type = h.kind /\ sent[1].name = h.name
            /\ sent[1].fault = h.fault
            /\ h.fault \in {"none", "long"}
        BY <1>3, <1>4, <1>5, <3>4
      <4>2. {sent[n].name : n \in DOMAIN sent} = {h.name}
        BY <4>1
      <4> QED BY <1>7, <2>3, <3>1, <4>1, <4>2 DEF TakesValues
    <3>5. h # NoValue => \A n \in DOMAIN sent :
                            sent[n].type = "text" => sent[n].fault # "long"
      <4> SUFFICES ASSUME h # NoValue, NEW n \in DOMAIN sent
                   PROVE  sent[n].type = "text" => sent[n].fault # "long"
        OBVIOUS
      <4>1. n = 1 /\ sent[n].type = h.kind /\ sent[n].fault = h.fault
        BY <1>4, <1>5
      <4> QED BY <1>2, <4>1
    <3>6. h.kind \in BodyKinds => h.kind \notin HeaderKinds
      BY DEF BodyKinds, HeaderKinds, MediaKinds
    <3>7. h # NoValue /\ h.kind \notin HeaderKinds => h.kind \in BodyKinds
      BY <1>3
    <3> QED BY <1>9, <2>1, <3>2, <3>3, <3>4, <3>5, <3>6, <3>7
  <2> QED BY <1>7, <2>2, <2>3
<1>11. CASE t.headerFormat = ""
  <2>1. names = <<>>
    BY <1>11 DEF names, HeaderParameters
  <2>2. fits <=> h = NoValue
    BY <1>1, <1>11, <2>1 DEF fits, HeaderFits
  <2>3. taken <=> sent = <<>>
    BY <1>11 DEF taken, TakesHeader
  <2> QED BY <1>2, <1>4, <2>2, <2>3
<1>12. CASE t.headerFormat \in {"IMAGE", "VIDEO", "DOCUMENT", "LOCATION"}
  <2> DEFINE kind == IF t.headerFormat = "LOCATION" THEN "location" ELSE MediaOf(t.headerFormat)
  <2>1. kind \in HeaderKinds /\ kind \notin BodyKinds /\ kind # "nil" /\ kind # "text"
    BY <1>12 DEF MediaOf, HeaderKinds, MediaKinds, BodyKinds
  <2>2. fits <=> h.kind = kind
    BY <1>1, <1>12 DEF fits, HeaderFits
  <2>3. taken <=> /\ Len(sent) = 1 /\ sent[1].fault = "none" /\ sent[1].type = kind
    BY <1>12 DEF taken, TakesHeader
  <2> HIDE DEF kind
  <2>4. ASSUME h = NoValue PROVE ~fits /\ ~taken
    BY <1>2, <1>4, <1>6, <2>1, <2>2, <2>3, <2>4
  <2>5. ASSUME h # NoValue PROVE fits <=> taken
    <3>1. Len(sent) = 1 /\ sent[1].fault = h.fault /\ sent[1].type = h.kind
      BY <1>4, <1>5, <2>5
    <3> QED BY <1>3, <2>1, <2>2, <2>3, <2>5, <3>1
  <2> QED BY <2>4, <2>5
<1>13. CASE t.headerFormat = "GIF"
  BY <1>1, <1>13 DEF fits, HeaderFits
<1> QED BY <1>8, <1>10, <1>11, <1>12, <1>13

\* What a template's button is, and which ask for a value: Meta's and grpop's
\* views of that are the same.
LEMMA TemplateButton ==
    ASSUME NEW t \in Templates, NEW n \in DOMAIN t.buttons
    PROVE  LET tb == t.buttons[n]
           IN  /\ DOMAIN t.buttons = 1..Len(t.buttons) /\ Len(t.buttons) \in 0..(MaxButtonIndex + 1)
               /\ tb.placeholder \in BOOLEAN /\ tb.otp \in BOOLEAN
               /\ tb.placeholder \/ tb.otp => tb.type = "URL"
               /\ RequiresValue(tb) <=> tb.placeholder \/ tb.type = "COPY_CODE" \/ IsOTP(tb)
<1>1. /\ t.buttons \in Seq(Buttons)
      /\ t.buttons[n].placeholder \/ t.buttons[n].otp => t.buttons[n].type = "URL"
      /\ Len(t.buttons) <= MaxButtonIndex + 1
  BY TemplatesAssumption
<1>2. /\ DOMAIN t.buttons = 1..Len(t.buttons) /\ Len(t.buttons) \in Nat
      /\ t.buttons[n] \in Buttons
  BY <1>1, LenProperties, ElementOfSeq
<1>3. t.buttons[n].placeholder \in BOOLEAN /\ t.buttons[n].otp \in BOOLEAN
  BY <1>2 DEF Buttons
<1>4. RequiresValue(t.buttons[n]) <=>
        \/ t.buttons[n].placeholder \/ t.buttons[n].type = "COPY_CODE" \/ IsOTP(t.buttons[n])
  BY <1>1, <1>3 DEF RequiresValue, IsOTP
<1>5. Len(t.buttons) \in 0..(MaxButtonIndex + 1)
  <2>1. Len(t.buttons) <= MaxButtonIndex + 1 /\ Len(t.buttons) \in Nat
    BY <1>1, <1>2, Zenon
  <2>2. \A len \in Nat : len <= MaxButtonIndex + 1 => len \in 0..(MaxButtonIndex + 1)
    BY DEF MaxButtonIndex
  <2> QED BY <2>1, <2>2, Zenon
<1> QED BY <1>1, <1>2, <1>3, <1>4, <1>5

\* A button's components.
LEMMA ButtonOf ==
    ASSUME NEW b
    PROVE  /\ metaButton(b).index = b.index
           /\ metaButton(b).text = b.value
           /\ metaButton(b).fault = b.fault
           /\ b.kind \in {"quick_reply", "copy_code"} => metaButton(b).type = b.kind
           /\ b.kind \notin {"quick_reply", "copy_code"} =>
                metaButton(b).type = "url" /\ metaButton(b).name = b.name
BY DEF metaButton

\* An index below the length is a button's place.
LEMMA IndexInRow ==
    ASSUME NEW t \in Templates, NEW k \in 0..MaxButtonIndex
    PROVE  k + 1 \in DOMAIN t.buttons <=> k < Len(t.buttons)
<1>1. t.buttons \in Seq(Buttons)
  BY TemplatesAssumption
<1>2. DOMAIN t.buttons = 1..Len(t.buttons) /\ Len(t.buttons) \in Nat
  BY <1>1, LenProperties
<1>3. \A len \in Nat : k + 1 \in 1..len <=> k < len
  BY DEF MaxButtonIndex
<1> QED BY <1>2, <1>3, Zenon

\* A value sent as a URL's to the button of a one-time code, or with a name that
\* is not its placeholder's.
Unlooked(t, m) ==
    \E n \in DOMAIN m.buttons :
      LET b  == m.buttons[n]
          tb == t.buttons[b.index + 1]
      IN  /\ b.index < Len(t.buttons)
          /\ \/ b.kind = "url" /\ IsOTP(tb)
             \/ b.kind \in {"url", "otp"} /\ b.name # tb.name

\* One value, one button: what the two sides say of it.
LEMMA ButtonTakenIff ==
    ASSUME NEW t \in Templates, NEW m \in Messages, NEW n \in DOMAIN m.buttons,
           ValidButton(m.buttons[n], m.body)
    PROVE  LET b == m.buttons[n]
               i == metaTemplateInfo(t)
               fits == /\ b.index + 1 \in DOMAIN i.buttons
                       /\ templateButtonTakes(i.buttons[b.index + 1], b.kind)
           IN  /\ TakesButton(t, metaButton(b)) => fits
               /\ fits /\ ~Unlooked(t, m) => TakesButton(t, metaButton(b))
<1> DEFINE b == m.buttons[n]
           sent == metaButton(b)
           i == metaTemplateInfo(t)
           k == b.index + 1
           tb == t.buttons[k]
           fits == k \in DOMAIN i.buttons /\ templateButtonTakes(i.buttons[k], b.kind)
<1>1. /\ b.index \in 0..MaxButtonIndex /\ b.fault # "line break"
      /\ b.kind \in {"url", "quick_reply", "copy_code", "otp"}
      /\ b.kind \in {"copy_code", "otp"} => b.fault # "long"
  BY DEF ValidButton
<1>2. b.fault \in {"none", "long"}
  BY <1>1, MessageParts
<1>3. /\ sent.index = b.index /\ sent.fault = b.fault
      /\ b.kind \in {"quick_reply", "copy_code"} => sent.type = b.kind
      /\ b.kind \notin {"quick_reply", "copy_code"} => sent.type = "url" /\ sent.name = b.name
  BY ButtonOf
<1>5. k \in DOMAIN t.buttons <=> b.index < Len(t.buttons)
  BY <1>1, IndexInRow
<1>6. DOMAIN i.buttons = DOMAIN t.buttons
  BY InfoOf
<1>7. ASSUME k \notin DOMAIN t.buttons PROVE ~fits /\ ~TakesButton(t, sent)
  BY <1>3, <1>5, <1>6, <1>7 DEF TakesButton
<1>8. ASSUME k \in DOMAIN t.buttons
      PROVE  /\ TakesButton(t, sent) => fits
             /\ fits /\ ~Unlooked(t, m) => TakesButton(t, sent)
  <2>1. /\ i.buttons[k].type = tb.type
        /\ i.buttons[k].requiresValue = RequiresValue(tb)
    BY <1>8, InfoOf
  <2>2. /\ tb.placeholder \in BOOLEAN /\ tb.otp \in BOOLEAN
        /\ tb.placeholder \/ tb.otp => tb.type = "URL"
    BY <1>8, TemplateButton
  <2>3. RequiresValue(tb) <=> \/ tb.type \in {"COPY_CODE", "OTP"}
                              \/ tb.type = "URL" /\ (tb.placeholder \/ tb.otp)
    BY DEF RequiresValue
  <2>4. IsOTP(tb) <=> tb.type = "OTP" \/ tb.otp
    BY DEF IsOTP
  <2>5. ~Unlooked(t, m) => /\ b.kind = "url" => ~IsOTP(tb)
                           /\ b.kind \in {"url", "otp"} => b.name = tb.name
    BY <1>5, <1>8 DEF Unlooked
  <2>6. fits <=> \/ b.kind \in {"url", "otp"} /\ tb.type \in {"URL", "OTP"} /\ RequiresValue(tb)
                 \/ b.kind = "quick_reply" /\ tb.type = "QUICK_REPLY"
                 \/ b.kind = "copy_code" /\ tb.type = "COPY_CODE"
    BY <1>6, <1>8, <2>1 DEF templateButtonTakes
  <2>7. TakesButton(t, sent) <=>
          /\ \/ b.fault = "none"
             \/ b.fault = "long" /\ sent.type # "copy_code" /\ ~IsOTP(tb)
          /\ CASE sent.type = "url" -> /\ \/ tb.type = "OTP"
                                          \/ tb.type = "URL" /\ (tb.placeholder \/ tb.otp)
                                       /\ sent.name = tb.name
               [] sent.type = "quick_reply" -> tb.type = "QUICK_REPLY"
               [] sent.type = "copy_code"   -> tb.type = "COPY_CODE"
    BY <1>3, <1>5, <1>8 DEF TakesButton
  <2> HIDE DEF b, sent, i, k, tb, fits
  <2>8. CASE b.kind \in {"url", "otp"}
    BY <1>1, <1>2, <1>3, <2>2, <2>3, <2>4, <2>5, <2>6, <2>7, <2>8
  <2>9. CASE b.kind = "quick_reply"
    BY <1>1, <1>2, <1>3, <2>2, <2>3, <2>4, <2>5, <2>6, <2>7, <2>9
  <2>10. CASE b.kind = "copy_code"
    BY <1>1, <1>2, <1>3, <2>2, <2>3, <2>4, <2>5, <2>6, <2>7, <2>10
  <2> QED BY <1>1, <2>8, <2>9, <2>10
<1> QED BY <1>7, <1>8

\* A sequence of one value.
LEMMA HasFirst ==
    ASSUME NEW S, NEW s \in Seq(S), Len(s) = 1
    PROVE  1 \in DOMAIN s /\ DOMAIN s = {1} /\ Len(s) > 0
BY LenProperties

\* The same of the tuple itself.
LEMMA OneOf ==
    ASSUME NEW x, NEW s, s = <<x>>
    PROVE  Len(s) = 1 /\ DOMAIN s = {1} /\ s[1] = x /\ ToSet(s) = {x}
<1>1. Len(s) = 1 /\ DOMAIN s = {1} /\ s[1] = x
  OBVIOUS
<1>2. ToSet(s) = {x}
  BY <1>1 DEF ToSet
<1> QED BY <1>1, <1>2

\* What passes both checks is taken, unless it is beyond them.
LEMMA FitsIsTaken ==
    ASSUME NEW t \in Templates, NEW m \in Messages,
           validateWhatsAppMessage(m), templateFits(metaTemplateInfo(t), m),
           t.headerFormat # "GIF", Named(t) \/ m.header.name = "", ~Unlooked(t, m)
    PROVE  MetaTakes(t, metaTemplateComponents(m))
<1> DEFINE c == metaTemplateComponents(m)
           i == metaTemplateInfo(t)
<1>1. /\ ValidHeader(m.header) /\ ValidBody(m.body) /\ ValidButtons(m)
      /\ HeaderFits(i, m.header) /\ BodyFits(i, m.body) /\ ButtonsFit(i, m.buttons)
  BY DEF validateWhatsAppMessage, templateFits
<1>2. TakesHeader(t, c.header)
  BY <1>1, HeaderFitsIffTaken
<1>3. TakesValues(c.body, t.bodyText, Named(t))
  BY <1>1, BodyFitsIffTaken
<1>4. /\ DOMAIN c.buttons = DOMAIN m.buttons
      /\ \A n \in DOMAIN m.buttons : c.buttons[n] = metaButton(m.buttons[n])
      /\ \A n \in DOMAIN m.buttons :
           c.buttons[n].index = m.buttons[n].index /\ c.buttons[n].text = m.buttons[n].value
  BY ComponentsOf, ButtonOf
<1>5. ASSUME NEW n \in DOMAIN c.buttons PROVE TakesButton(t, c.buttons[n])
  <2>1. /\ n \in DOMAIN m.buttons /\ c.buttons[n] = metaButton(m.buttons[n])
        /\ ValidButton(m.buttons[n], m.body)
        /\ m.buttons[n].index + 1 \in DOMAIN i.buttons
        /\ templateButtonTakes(i.buttons[m.buttons[n].index + 1], m.buttons[n].kind)
    BY <1>1, <1>4 DEF ValidButtons, ButtonsFit
  <2> HIDE DEF i
  <2> QED BY <2>1, ButtonTakenIff DEF i
<1>6. ASSUME NEW n \in DOMAIN t.buttons,
             t.buttons[n].placeholder \/ t.buttons[n].type = "COPY_CODE" \/ IsOTP(t.buttons[n])
      PROVE  \E b \in DOMAIN c.buttons : c.buttons[b].index + 1 = n
  <2>1. n \in DOMAIN i.buttons /\ i.buttons[n].requiresValue
    BY <1>6, InfoOf, TemplateButton
  <2>2. PICK b \in DOMAIN m.buttons : m.buttons[b].index + 1 = n
    BY <1>1, <2>1 DEF ButtonsFit
  <2> QED BY <1>4, <2>2
<1>7. ASSUME NEW n \in DOMAIN t.buttons, IsOTP(t.buttons[n]),
             NEW b \in DOMAIN c.buttons, c.buttons[b].index + 1 = n
      PROVE  Len(c.body) > 0 /\ c.buttons[b].text = c.body[1].text
  <2> DEFINE press == m.buttons[b]
  <2>1. /\ b \in DOMAIN m.buttons /\ press.index + 1 = n
        /\ c.buttons[b].text = press.value
        /\ ValidButton(press, m.body)
        /\ templateButtonTakes(i.buttons[n], press.kind)
    BY <1>1, <1>4, <1>7 DEF ValidButtons, ButtonsFit
  <2>2. i.buttons[n].type = t.buttons[n].type
    BY InfoOf
  <2>3. t.buttons[n].type \in {"OTP", "URL"}
    BY <1>7, TemplateButton DEF IsOTP
  <2>4. press.kind \in {"url", "otp"}
    BY <2>1, <2>2, <2>3 DEF templateButtonTakes
  <2>5. press.kind # "url"
    <3>1. press.index < Len(t.buttons)
      <4>1. press.index \in 0..MaxButtonIndex
        BY <2>1 DEF ValidButton
      <4> QED BY <2>1, <4>1, IndexInRow, Zenon
    <3>2. IsOTP(t.buttons[press.index + 1])
      BY <1>7, <2>1
    <3> QED BY <2>1, <3>1, <3>2 DEF Unlooked
  <2>6. Len(m.body) = 1 /\ m.body[1].text = press.value
    <3> HIDE DEF press
    <3> QED BY <2>1, <2>4, <2>5, Zenon DEF ValidButton
  <2>7. 1 \in DOMAIN m.body
    <3>1. m.body \in Seq(Values)
      BY MessageParts
    <3> QED BY <2>6, <3>1, HasFirst, Zenon
  <2>8. Len(c.body) = Len(m.body) /\ c.body[1].text = m.body[1].text
    BY <2>7, ComponentsOf, ParameterOf
  <2>9. Len(c.body) > 0
    <3>1. m.body \in Seq(Values)
      BY MessageParts
    <3>2. Len(m.body) > 0
      BY <2>6, <3>1, HasFirst, Zenon
    <3> QED BY <2>8, <3>2, Zenon
  <2> HIDE DEF press, c
  <2> QED BY <2>1, <2>6, <2>8, <2>9, Zenon
<1> HIDE DEF c, i
<1>8. MetaTakes(t, c)
  BY <1>2, <1>3, <1>5, <1>6, <1>7 DEF MetaTakes
<1> QED BY <1>8 DEF c

\* What Meta takes fits the list entry, if it is a message at all.
LEMMA TakenFits ==
    ASSUME NEW t \in Templates, NEW m \in Messages,
           validateWhatsAppMessage(m), MetaTakes(t, metaTemplateComponents(m))
    PROVE  templateFits(metaTemplateInfo(t), m)
<1> DEFINE c == metaTemplateComponents(m)
           i == metaTemplateInfo(t)
<1>1. /\ ValidHeader(m.header) /\ ValidBody(m.body) /\ ValidButtons(m)
      /\ TakesHeader(t, c.header) /\ TakesValues(c.body, t.bodyText, Named(t))
  BY DEF validateWhatsAppMessage, MetaTakes
<1>2. HeaderFits(i, m.header) /\ BodyFits(i, m.body)
  BY <1>1, HeaderFitsIffTaken, BodyFitsIffTaken
<1>3. /\ DOMAIN c.buttons = DOMAIN m.buttons
      /\ \A n \in DOMAIN m.buttons : c.buttons[n] = metaButton(m.buttons[n])
      /\ \A n \in DOMAIN m.buttons : c.buttons[n].index = m.buttons[n].index
  BY ComponentsOf, ButtonOf
<1>4. ASSUME NEW n \in DOMAIN m.buttons
      PROVE  /\ m.buttons[n].index + 1 \in DOMAIN i.buttons
             /\ templateButtonTakes(i.buttons[m.buttons[n].index + 1], m.buttons[n].kind)
  <2>1. ValidButton(m.buttons[n], m.body) /\ TakesButton(t, metaButton(m.buttons[n]))
    BY <1>1, <1>3 DEF ValidButtons, MetaTakes
  <2> QED BY <2>1, ButtonTakenIff
<1>5. ASSUME NEW n \in DOMAIN i.buttons, i.buttons[n].requiresValue
      PROVE  \E b \in DOMAIN m.buttons : m.buttons[b].index + 1 = n
  <2>1. n \in DOMAIN t.buttons /\ RequiresValue(t.buttons[n])
    BY <1>5, InfoOf
  <2>2. t.buttons[n].placeholder \/ t.buttons[n].type = "COPY_CODE" \/ IsOTP(t.buttons[n])
    BY <2>1, TemplateButton
  <2>3. PICK b \in DOMAIN c.buttons : c.buttons[b].index + 1 = n
    BY <2>1, <2>2 DEF MetaTakes
  <2> QED BY <1>3, <2>3
<1> HIDE DEF i
<1>6. templateFits(i, m)
  BY <1>2, <1>4, <1>5 DEF templateFits, ButtonsFit
<1> QED BY <1>6 DEF i

-----------------------------------------------------------------------------
(* The invariant *)

\* The list is the template's, and what is sent has passed the checks; where a
\* failure for good comes from tells which check, or whether Meta, refused.
IInv ==
    /\ template \in Templates
    /\ info \in {NoInfo, metaTemplateInfo(template)}
    /\ msg \in Messages \union {NoMessage}
    /\ at \in {"start", "listed", "sending", "returned"}
    /\ outcome \in {"none", "ok", "temporary", "permanent"}
    /\ refusedBy \in {"none", "message", "template", "Meta"}
    /\ at # "returned" => refusedBy = "none"
    /\ at = "sending" => /\ msg \in Messages
                         /\ validateWhatsAppMessage(msg)
                         /\ Validate(msg)
    /\ refusedBy = "Meta" => /\ msg \in Messages
                             /\ validateWhatsAppMessage(msg)
                             /\ Validate(msg)
                             /\ ~MetaTakes(template, metaTemplateComponents(msg))
    /\ refusedBy = "template" => /\ msg \in Messages
                                 /\ validateWhatsAppMessage(msg)
                                 /\ info # NoInfo
                                 /\ ~templateFits(info, msg)

\* Meta's overload, however it is told, never reads as a refusal.
LEMMA Classes ==
    ASSUME NEW taken \in BOOLEAN, NEW a \in Answers(taken)
    PROVE  /\ Classify(a[1], a[2]) \in {"ok", "temporary", "permanent"}
           /\ Classify(a[1], a[2]) = "permanent" => ~taken
<1>1. \/ a \in {<<429, 0>>, <<500, 0>>, <<0, 0>>}
      \/ a[1] = 400 /\ a[2] \in TemporaryCodes
      \/ a = <<200, 0>>
      \/ a = <<400, 132000>> /\ ~taken
  <2>1. a \in {<<429, 0>>, <<500, 0>>, <<0, 0>>} \/ a \in {400} \X TemporaryCodes
          \/ a \in (IF taken THEN {<<200, 0>>} ELSE {<<400, Misfit>>})
    BY DEF Answers, Overload
  <2>2. CASE a \in {400} \X TemporaryCodes
    BY <2>2
  <2> QED BY <2>1, <2>2 DEF Misfit
<1>2. CASE a = <<200, 0>>
  BY <1>2 DEF Classify
<1>3. CASE a = <<0, 0>>
  BY <1>3 DEF Classify
<1>4. CASE a \in {<<429, 0>>, <<500, 0>>}
  BY <1>4 DEF Classify, metaErrorIsTemporary
<1>5. CASE a[1] = 400 /\ a[2] \in TemporaryCodes
  BY <1>5 DEF Classify, metaErrorIsTemporary
<1>6. CASE a = <<400, 132000>> /\ ~taken
  BY <1>6 DEF Classify, metaErrorIsTemporary
<1> QED BY <1>1, <1>2, <1>3, <1>4, <1>5, <1>6

\* IInv holds at first.
LEMMA InitIInv == Init => IInv
<1>1. NoMessage \in Messages \union {NoMessage}
  OBVIOUS
<1> QED BY <1>1 DEF Init, IInv

\* Every step keeps it.
LEMMA NextIInv == IInv /\ [Next]_vars => IInv'
<1> SUFFICES ASSUME IInv, [Next]_vars PROVE IInv'
  OBVIOUS
<1>1. CASE List
  BY <1>1, Zenon DEF IInv, List, Validate
<1>2. CASE Send
  <2>1. PICK m \in Messages :
          /\ msg' = m
          /\ CASE ~validateWhatsAppMessage(m) -> Returns("permanent", "message")
               [] validateWhatsAppMessage(m) /\ ~Validate(m) -> Returns("permanent", "template")
               [] OTHER -> at' = "sending" /\ UNCHANGED <<outcome, refusedBy>>
    BY <1>2 DEF Send
  <2>2. at = "listed" /\ UNCHANGED <<template, info>> /\ refusedBy = "none"
    BY <1>2 DEF Send, IInv
  <2>3. CASE ~validateWhatsAppMessage(m)
    <3>1. Returns("permanent", "message")
      BY <2>1, <2>3
    <3>2. at' = "returned" /\ outcome' = "permanent" /\ refusedBy' = "message"
      BY <3>1 DEF Returns
    <3> QED BY <2>1, <2>2, <3>2 DEF IInv
  <2>4. CASE validateWhatsAppMessage(m) /\ ~Validate(m)
    <3>1. Returns("permanent", "template")
      BY <2>1, <2>4
    <3>2. at' = "returned" /\ outcome' = "permanent" /\ refusedBy' = "template"
      BY <3>1 DEF Returns
    <3>3. info # NoInfo /\ ~templateFits(info, m)
      BY <2>4 DEF Validate
    <3> QED BY <2>1, <2>2, <2>4, <3>2, <3>3 DEF IInv
  <2>5. CASE validateWhatsAppMessage(m) /\ Validate(m)
    <3>1. at' = "sending" /\ UNCHANGED <<outcome, refusedBy>>
      BY <2>1, <2>5
    <3>2. Validate(m)'  = Validate(m)
      BY <2>2 DEF Validate
    <3> QED BY <2>1, <2>2, <2>5, <3>1, <3>2 DEF IInv, Validate
  <2> QED BY <2>3, <2>4, <2>5
<1>3. CASE Answer
  <2> DEFINE taken == MetaTakes(template, metaTemplateComponents(msg))
  <2>1. PICK a \in Answers(taken) : Returns(Classify(a[1], a[2]), "Meta")
    BY <1>3 DEF Answer
  <2>2. at = "sending" /\ UNCHANGED <<template, info, msg>>
    BY <1>3 DEF Answer
  <2>3. taken \in BOOLEAN
    BY DEF MetaTakes
  <2>4. /\ Classify(a[1], a[2]) \in {"ok", "temporary", "permanent"}
        /\ Classify(a[1], a[2]) = "permanent" => ~taken
    BY <2>3, Classes
  <2>5. /\ at' = "returned"
        /\ outcome' \in {"ok", "temporary", "permanent"}
        /\ refusedBy' \in {"none", "Meta"}
        /\ refusedBy' = "Meta" => ~taken
    BY <2>1, <2>4 DEF Returns
  <2> QED BY <2>2, <2>5 DEF IInv, Validate
<1>4. CASE UNCHANGED vars
  BY <1>4 DEF IInv, vars, Validate
<1> QED BY <1>1, <1>2, <1>3, <1>4 DEF Next

\* Spec keeps it.
LEMMA Inductive == Spec => []IInv
BY InitIInv, NextIInv, PTL DEF Spec

-----------------------------------------------------------------------------
(* What it gives *)

\* The variables have their types: what grpop keeps of a template is as long as
\* the template.
THEOREM TypeCorrect == Spec => []TypeOK
<1>1. IInv => TypeOK
  <2> SUFFICES ASSUME IInv PROVE TypeOK
    OBVIOUS
  <2>1. info # NoInfo => /\ info.headerFormat = template.headerFormat
                         /\ DOMAIN info.buttons = DOMAIN template.buttons
    BY InfoOf DEF IInv
  <2>2. msg # NoMessage => DOMAIN msg = {"fields", "header", "body", "buttons"}
    BY MessageParts DEF IInv
  <2> QED BY <2>1, <2>2 DEF IInv, TypeOK
<1> QED BY <1>1, Inductive, PTL

\* payloadvalidator.go and templatevalidator.whatsapp.go let nothing through that
\* Meta refuses for good, but for what is beyond them and where there is no list:
\* the entry kept of the template, the two checks, the components sent and the
\* class of Meta's answers agree, for any templates and messages.
THEOREM FitIsTaken == Spec => []FitsMeansTaken
<1>1. IInv => FitsMeansTaken
  <2> SUFFICES ASSUME IInv, refusedBy = "Meta", info # NoInfo, ~BeyondTheChecks PROVE FALSE
    BY DEF FitsMeansTaken
  <2>1. /\ template \in Templates /\ msg \in Messages
        /\ info = metaTemplateInfo(template)
        /\ validateWhatsAppMessage(msg) /\ templateFits(info, msg)
        /\ ~MetaTakes(template, metaTemplateComponents(msg))
    BY DEF IInv, Validate
  <2>2. /\ template.headerFormat # "GIF"
        /\ Named(template) \/ msg.header.name = ""
        /\ ~Unlooked(template, msg)
    BY DEF BeyondTheChecks, Unlooked
  <2> QED BY <2>1, <2>2, FitsIsTaken
<1> QED BY <1>1, Inductive, PTL

\* templatevalidator.whatsapp.go refuses no message Meta would take, whatever the
\* template.
THEOREM NothingNeedlesslyRefused == Spec => []NoNeedlessRefusal
<1>1. IInv => NoNeedlessRefusal
  <2> SUFFICES ASSUME IInv, refusedBy = "template"
               PROVE  ~MetaTakes(template, metaTemplateComponents(msg))
    BY DEF NoNeedlessRefusal
  <2>1. /\ template \in Templates /\ msg \in Messages
        /\ info = metaTemplateInfo(template)
        /\ validateWhatsAppMessage(msg) /\ ~templateFits(info, msg)
    BY DEF IInv
  <2> QED BY <2>1, TakenFits
<1> QED BY <1>1, Inductive, PTL

-----------------------------------------------------------------------------
(* A message for every template *)

\* Messages with nothing wrong, of the kinds the templates ask for.  (The provers
\* do not know that "" is a string.)
SimpleValues == [kind : {"text", "image", "video", "document", "location"},
                 name : STRING \union {""}, text : {"x"}, fault : {"none"}]
SimplePresses == [index : 0..MaxButtonIndex, kind : {"url", "copy_code"}, value : {"x"},
                  name : {""}, fault : {"none"}]
SimpleMessages == [fields : {"complete"}, header : SimpleValues \union {NoValue},
                   body : Seq(SimpleValues), buttons : Seq(SimplePresses)]

\* The name a value has for a placeholder.
NameFor(t, placeholder) == IF Named(t) THEN placeholder ELSE ""

\* It is a placeholder's, or none.
LEMMA NameType ==
    ASSUME NEW t, NEW p \in STRING PROVE NameFor(t, p) \in STRING \union {""}
BY DEF NameFor

\* A header, a body and buttons that pass the checks of a template.
HeaderFor(t, h) ==
    /\ h \in SimpleValues \union {NoValue}
    /\ ValidHeader(h)
    /\ HeaderFits(metaTemplateInfo(t), h)
    /\ h # NoValue /\ h.kind \notin HeaderKinds =>
         HeaderParameters(t) # <<>> /\ h.name = NameFor(t, HeaderParameters(t)[1])

BodyFor(t, body) ==
    /\ body \in Seq(SimpleValues)
    /\ ValidBody(body)
    /\ BodyFits(metaTemplateInfo(t), body)
    /\ DOMAIN body = DOMAIN templatePlaceholders(t.bodyText)
    /\ \A n \in DOMAIN body : body[n].name = NameFor(t, templatePlaceholders(t.bodyText)[n])

ButtonsFor(t, row) ==
    /\ row \in Seq(SimplePresses)
    /\ \A i, j \in DOMAIN row : row[i].index = row[j].index => i = j
    /\ ButtonsFit(metaTemplateInfo(t), row)

\* Every template has such a header.
LEMMA HasHeader == ASSUME NEW t \in Templates PROVE \E h : HeaderFor(t, h)
<1> DEFINE i == metaTemplateInfo(t)
           names == HeaderParameters(t)
           text == [kind |-> "text", name |-> NameFor(t, names[1]), text |-> "x", fault |-> "none"]
           kind == IF t.headerFormat = "LOCATION" THEN "location" ELSE MediaOf(t.headerFormat)
           media == [kind |-> kind, name |-> "", text |-> "x", fault |-> "none"]
<1>1. /\ i.headerFormat = t.headerFormat /\ i.headerParameters = names /\ i.named = Named(t)
  BY InfoOf
<1>2. names \in Seq(STRING) /\ Len(names) \in {0, 1} /\ DOMAIN names = 1..Len(names)
  BY HeaderPlaceholders, LenProperties
<1>3. t.headerFormat \in {"", "TEXT", "IMAGE", "VIDEO", "DOCUMENT", "LOCATION", "GIF"}
  BY TemplatesAssumption
<1>4. NoValue.kind = "nil"
  BY DEF NoValue
<1>5. ValidHeader(NoValue)
  BY DEF ValidHeader
<1> HIDE DEF i, names
<1>6. CASE t.headerFormat \in {"", "GIF"} \/ (t.headerFormat = "TEXT" /\ names = <<>>)
  <2>1. t.headerFormat = "" => names = <<>>
    BY DEF names, HeaderParameters
  <2>2. HeaderFits(i, NoValue)
    BY <1>1, <1>6, <2>1 DEF HeaderFits
  <2>3. HeaderFor(t, NoValue)
    BY <1>5, <2>2 DEF HeaderFor, i
  <2> QED BY <2>3
<1>7. CASE t.headerFormat = "TEXT" /\ names # <<>>
  <2>1. NameFor(t, names[1]) \in STRING \union {""} /\ (Named(t) => NameFor(t, names[1]) = names[1])
    <3>1. 1 \in DOMAIN names
      BY <1>2, <1>7, EmptySeq
    <3>2. names[1] \in STRING
      BY <1>2, <3>1
    <3>3. NameFor(t, names[1]) \in STRING \union {""}
      BY <3>2, NameType
    <3> QED BY <3>3 DEF NameFor
  <2>2. /\ text.kind = "text" /\ text.fault = "none" /\ text.name = NameFor(t, names[1])
        /\ text \in SimpleValues
    BY <2>1 DEF SimpleValues
  <2> HIDE DEF text
  <2>3. text # NoValue
    BY <1>4, <2>2
  <2>4. "text" \notin HeaderKinds /\ "text" \in BodyKinds
    BY DEF HeaderKinds, MediaKinds, BodyKinds
  <2>5. ValidHeader(text)
    BY <2>2, <2>4 DEF ValidHeader, checkWhatsAppValue, Faults
  <2>6. HeaderFits(i, text)
    BY <1>1, <1>7, <2>1, <2>2, <2>3, <2>4 DEF HeaderFits
  <2>7. HeaderFor(t, text)
    BY <1>7, <2>2, <2>5, <2>6 DEF HeaderFor, i, names
  <2> QED BY <2>7
<1>8. CASE t.headerFormat \in {"IMAGE", "VIDEO", "DOCUMENT", "LOCATION"}
  <2>1. kind \in {"image", "video", "document", "location"}
    BY <1>8 DEF MediaOf
  <2>2. /\ t.headerFormat = "LOCATION" => kind = "location"
        /\ t.headerFormat # "LOCATION" => kind = MediaOf(t.headerFormat)
    OBVIOUS
  <2>3. kind \in HeaderKinds
    BY <2>1 DEF HeaderKinds, MediaKinds
  <2> HIDE DEF kind
  <2>4. media.kind = kind /\ media.name = "" /\ media.fault = "none" /\ media \in SimpleValues
    BY <2>1 DEF SimpleValues
  <2>5. "none" \notin Faults(kind)
    BY DEF Faults
  <2> HIDE DEF media
  <2>6. ValidHeader(media)
    BY <2>1, <2>4, <2>3, <2>5 DEF ValidHeader, checkWhatsAppValue
  <2>7. HeaderFits(i, media)
    BY <1>1, <1>8, <2>2, <2>4 DEF HeaderFits
  <2>8. HeaderFor(t, media)
    BY <2>4, <2>3, <2>6, <2>7 DEF HeaderFor, i
  <2> QED BY <2>8
<1> QED BY <1>3, <1>6, <1>7, <1>8

\* Every template has such a body.
LEMMA HasBody == ASSUME NEW t \in Templates PROVE \E body : BodyFor(t, body)
<1> DEFINE i == metaTemplateInfo(t)
           names == templatePlaceholders(t.bodyText)
           value(n) == [kind |-> "text", name |-> NameFor(t, names[n]), text |-> "x",
                        fault |-> "none"]
           body == [n \in 1..Len(names) |-> value(n)]
<1>1. /\ names \in Seq(STRING) /\ Len(names) \in Nat /\ DOMAIN names = 1..Len(names)
      /\ ToSet(names) = ToSet(t.bodyText)
      /\ \A n \in 1..Len(names) : names[n] \in STRING
  BY BodyPlaceholders, LenProperties, ElementOfSeq
<1>2. i.named = Named(t) /\ i.bodyParameters = names
  BY InfoOf
<1>3. "" \notin ToSet(names)
  BY <1>1, TemplatesAssumption
<1>4. Named(t) \in BOOLEAN
  BY DEF Named
<1> HIDE DEF i, names
<1>5. ASSUME NEW n \in 1..Len(names)
      PROVE  /\ value(n) \in SimpleValues
             /\ value(n).kind = "text" /\ value(n).fault = "none"
             /\ value(n).name = NameFor(t, names[n])
  <2>1. NameFor(t, names[n]) \in STRING \union {""}
    BY <1>1, NameType
  <2> QED BY <2>1 DEF SimpleValues
<1> HIDE DEF value
<1>6. body \in Seq(SimpleValues) /\ Len(body) = Len(names) /\ DOMAIN body = 1..Len(names)
  BY <1>1, <1>5
<1>7. \A n \in 1..Len(names) : body[n] = value(n)
  OBVIOUS
<1> HIDE DEF body
<1>8. ValidBody(body)
  BY <1>5, <1>6, <1>7 DEF ValidBody, checkWhatsAppValue, Faults, BodyKinds
<1>9. \A n \in 1..Len(names) : (body[n].name # "") = Named(t)
  <2> SUFFICES ASSUME NEW n \in 1..Len(names) PROVE (body[n].name # "") = Named(t)
    OBVIOUS
  <2>1. names[n] # ""
    BY <1>1, <1>3 DEF ToSet
  <2> QED BY <1>4, <1>5, <1>7, <2>1 DEF NameFor
<1>10. Named(t) => {body[n].name : n \in DOMAIN body} = ToSet(names)
  <2> SUFFICES ASSUME Named(t) PROVE {body[n].name : n \in DOMAIN body} = ToSet(names)
    OBVIOUS
  <2>1. \A n \in 1..Len(names) : body[n].name = names[n]
    BY <1>5, <1>7 DEF NameFor
  <2> QED BY <1>1, <1>6, <2>1 DEF ToSet
<1>11. BodyFits(i, body)
  BY <1>2, <1>6, <1>9, <1>10 DEF BodyFits
<1>12. BodyFor(t, body)
  BY <1>1, <1>5, <1>6, <1>7, <1>8, <1>11 DEF BodyFor, i, names
<1> QED BY <1>12

\* Every template has such buttons: one for each of its own that asks for a value.
LEMMA HasButtons == ASSUME NEW t \in Templates PROVE \E row : ButtonsFor(t, row)
<1> DEFINE i == metaTemplateInfo(t)
           asking == {n \in DOMAIN t.buttons : RequiresValue(t.buttons[n])}
           count == Cardinality(asking)
<1>1. /\ t.buttons \in Seq(Buttons)
      /\ Len(t.buttons) <= MaxButtonIndex + 1
  BY TemplatesAssumption
<1>2. DOMAIN t.buttons = 1..Len(t.buttons) /\ Len(t.buttons) \in Nat
  BY <1>1, LenProperties
<1>3. IsFiniteSet(asking)
  <2>1. IsFiniteSet(1..Len(t.buttons))
    BY <1>2, FS_Interval
  <2>2. asking \subseteq 1..Len(t.buttons)
    BY <1>2
  <2> QED BY <2>1, <2>2, FS_Subset
<1> HIDE DEF asking
<1>4. count \in Nat /\ ExistsBijection(1..count, asking)
  BY <1>3, FS_CardinalityType
<1>5. PICK place : place \in Bijection(1..count, asking)
  BY <1>4 DEF ExistsBijection
<1>6. /\ place \in [1..count -> asking]
      /\ \A j, k \in 1..count : place[j] = place[k] => j = k
      /\ \A n \in asking : \E j \in 1..count : place[j] = n
  BY <1>5 DEF Bijection, Injection, Surjection, IsInjective
<1> HIDE DEF count
<1> DEFINE press(n) == [index |-> place[n] - 1,
                        kind |-> IF t.buttons[place[n]].type = "COPY_CODE" THEN "copy_code" ELSE "url",
                        value |-> "x", name |-> "", fault |-> "none"]
           row == [n \in 1..count |-> press(n)]
<1>7. \A len \in Nat : len <= MaxButtonIndex + 1 =>
        \A n \in 1..len : n - 1 \in 0..MaxButtonIndex /\ n \in Int
  BY DEF MaxButtonIndex
<1>8. ASSUME NEW n \in 1..count
      PROVE  /\ place[n] \in DOMAIN t.buttons /\ RequiresValue(t.buttons[place[n]])
             /\ place[n] \in Int /\ place[n] - 1 \in 0..MaxButtonIndex
  <2>1. place[n] \in DOMAIN t.buttons /\ RequiresValue(t.buttons[place[n]])
    BY <1>6 DEF asking
  <2>2. place[n] \in 1..Len(t.buttons)
    BY <1>2, <2>1, Zenon
  <2> QED BY <1>1, <1>2, <1>7, <2>1, <2>2, Zenon
<1>9. ASSUME NEW n \in 1..count
      PROVE  /\ press(n) \in SimplePresses
             /\ press(n).index = place[n] - 1
             /\ press(n).kind = IF t.buttons[place[n]].type = "COPY_CODE" THEN "copy_code" ELSE "url"
  BY <1>8 DEF SimplePresses
<1> HIDE DEF press
<1>10. row \in Seq(SimplePresses) /\ DOMAIN row = 1..count
  BY <1>4, <1>9
<1>11. \A n \in 1..count : row[n] = press(n)
  OBVIOUS
<1> HIDE DEF row
<1>12. ASSUME NEW n \in 1..count
       PROVE  row[n].index + 1 = place[n]
  BY <1>8, <1>9, <1>11
<1>13. ASSUME NEW j \in DOMAIN row, NEW k \in DOMAIN row, row[j].index = row[k].index
       PROVE  j = k
  <2>1. place[j] = place[k]
    BY <1>10, <1>12, <1>13
  <2> QED BY <1>6, <1>10, <2>1
<1>14. ASSUME NEW n \in DOMAIN row
       PROVE  /\ row[n].index + 1 \in DOMAIN i.buttons
              /\ templateButtonTakes(i.buttons[row[n].index + 1], row[n].kind)
  <2> DEFINE k == place[n]
  <2>1. n \in 1..count /\ row[n].index + 1 = k /\ k \in DOMAIN t.buttons
        /\ RequiresValue(t.buttons[k])
    BY <1>8, <1>10, <1>12
  <2>2. row[n].kind = IF t.buttons[k].type = "COPY_CODE" THEN "copy_code" ELSE "url"
    BY <1>9, <1>11, <2>1
  <2>3. /\ DOMAIN i.buttons = DOMAIN t.buttons
        /\ i.buttons[k].type = t.buttons[k].type
        /\ i.buttons[k].requiresValue = RequiresValue(t.buttons[k])
    BY <2>1, InfoOf
  <2>4. t.buttons[k].type \in {"COPY_CODE", "OTP", "URL"}
    BY <2>1 DEF RequiresValue
  <2> HIDE DEF k, i
  <2>5. i.buttons[k].requiresValue
    BY <2>1, <2>3, Zenon
  <2>6. templateButtonTakes(i.buttons[k], row[n].kind)
    BY <2>2, <2>3, <2>4, <2>5 DEF templateButtonTakes
  <2> QED BY <2>1, <2>3, <2>6
<1>15. ASSUME NEW n \in DOMAIN i.buttons, i.buttons[n].requiresValue
       PROVE  \E b \in DOMAIN row : row[b].index + 1 = n
  <2>1. n \in asking
    BY <1>15, InfoOf DEF asking
  <2>2. PICK j \in 1..count : place[j] = n
    BY <1>6, <2>1
  <2> HIDE DEF i
  <2> QED BY <1>10, <1>12, <2>2
<1> HIDE DEF i
<1>16. ButtonsFor(t, row)
  <2>1. ButtonsFit(i, row)
    BY <1>14, <1>15 DEF ButtonsFit
  <2> QED BY <1>10, <1>13, <2>1 DEF ButtonsFor, i
<1> QED BY <1>16

\* Names are valid: none has one, or each has its placeholder's.
LEMMA HasNames ==
    ASSUME NEW t \in Templates, NEW h, NEW body, HeaderFor(t, h), BodyFor(t, body),
           \A name \in ToSet(t.bodyText) \union ToSet(HeaderParameters(t)) : ValidName(name),
           Named(t) => ToSet(t.bodyText) \intersect ToSet(HeaderParameters(t)) = {},
           NEW m, m.header = h, m.body = body
    PROVE  ValidNames(Counted(m))
<1> DEFINE front == IF h = NoValue \/ h.kind \in HeaderKinds THEN <<>> ELSE <<h>>
           S == SimpleValues \union {NoValue}
           head == HeaderParameters(t)
           names == templatePlaceholders(t.bodyText)
           values == front \o body
<1>1. Counted(m) = values
  BY DEF Counted
<1>2. body \in Seq(S) /\ Len(body) \in Nat /\ DOMAIN body = 1..Len(body)
  <2>1. body \in Seq(SimpleValues)
    BY DEF BodyFor
  <2> QED BY <2>1, LenProperties, ElementOfSeq, SeqDef
<1>3. /\ h \in S
      /\ h # NoValue /\ h.kind \notin HeaderKinds => head # <<>> /\ h.name = NameFor(t, head[1])
  BY DEF HeaderFor
<1>4. /\ DOMAIN body = DOMAIN names
      /\ \A n \in DOMAIN body : body[n].name = NameFor(t, names[n])
  BY DEF BodyFor
<1>5. /\ ToSet(names) = ToSet(t.bodyText)
      /\ \A i, j \in DOMAIN names : names[i] = names[j] => i = j
  BY BodyPlaceholders
<1>6. head # <<>> => 1 \in DOMAIN head
  <2>1. head \in Seq(STRING)
    BY HeaderPlaceholders
  <2> HIDE DEF head
  <2> QED BY <2>1, EmptySeq, LenProperties
<1>7. /\ \A n \in DOMAIN names : names[n] \in ToSet(t.bodyText)
      /\ head # <<>> => head[1] \in ToSet(head)
  BY <1>5, <1>6 DEF ToSet
<1> HIDE DEF S, head, names
<1>8. CASE h = NoValue \/ h.kind \in HeaderKinds
  <2>1. values = body
    BY <1>2, <1>8, ConcatEmptySeq
  <2> HIDE DEF values
  <2>2. CASE Named(t)
    <3>1. \A n \in DOMAIN body : body[n].name = names[n] /\ ValidName(names[n])
      BY <1>4, <1>7, <2>2 DEF NameFor
    <3>2. \A i, j \in DOMAIN body : body[i].name = body[j].name => i = j
      BY <1>4, <1>5, <3>1
    <3>3. \A n \in DOMAIN body : ValidName(body[n].name)
      BY <3>1
    <3> QED BY <1>1, <2>1, <3>2, <3>3 DEF ValidNames
  <2>3. CASE ~Named(t)
    <3>1. \A n \in DOMAIN body : body[n].name = ""
      BY <1>4, <2>3 DEF NameFor
    <3> QED BY <1>1, <2>1, <3>1 DEF ValidNames
  <2> QED BY <2>2, <2>3
<1>9. CASE h # NoValue /\ h.kind \notin HeaderKinds
  <2>1. front = <<h>> /\ front \in Seq(S) /\ Len(front) = 1 /\ front[1] = h
    BY <1>3, <1>9
  <2> HIDE DEF front
  <2>2. /\ values \in Seq(S) /\ Len(values) = 1 + Len(body)
        /\ \A n \in 1..(1 + Len(body)) :
             values[n] = IF n <= 1 THEN front[n] ELSE body[n - 1]
    BY <1>2, <2>1, ConcatProperties
  <2> HIDE DEF values
  <2>3. DOMAIN values = 1..(1 + Len(body))
    BY <2>2, LenProperties
  <2>4. values[1] = h
    BY <1>2, <2>1, <2>2
  <2>5. \A n \in DOMAIN values : n # 1 => n - 1 \in DOMAIN body /\ values[n] = body[n - 1]
    BY <1>2, <2>2, <2>3
  <2>6. CASE Named(t)
    <3>1. h.name = head[1] /\ head[1] \in ToSet(head) /\ ValidName(head[1])
      BY <1>3, <1>7, <1>9, <2>6 DEF NameFor, head
    <3>2. \A n \in DOMAIN values : n # 1 =>
            /\ n - 1 \in DOMAIN names
            /\ values[n].name = names[n - 1] /\ names[n - 1] \in ToSet(t.bodyText)
            /\ ValidName(names[n - 1])
      BY <1>4, <1>7, <2>5, <2>6 DEF NameFor
    <3>3. \A n \in DOMAIN values : ValidName(values[n].name)
      BY <2>4, <3>1, <3>2
    <3>4. \A n \in DOMAIN values : n # 1 => values[n].name # head[1]
      BY <2>6, <3>1, <3>2 DEF head
    <3>5. ASSUME NEW i \in DOMAIN values, NEW j \in DOMAIN values,
                 values[i].name = values[j].name
          PROVE  i = j
      <4>1. CASE i = 1 \/ j = 1
        BY <2>4, <3>1, <3>4, <3>5, <4>1
      <4>2. CASE i # 1 /\ j # 1
        <5>1. i - 1 = j - 1
          BY <1>5, <3>2, <3>5, <4>2
        <5>2. i \in Int /\ j \in Int
          BY <1>2, <2>3
        <5> QED BY <5>1, <5>2
      <4> QED BY <4>1, <4>2
    <3> QED BY <1>1, <3>3, <3>5 DEF ValidNames
  <2>7. CASE ~Named(t)
    <3>1. \A n \in DOMAIN values : values[n].name = ""
      BY <1>3, <1>4, <1>9, <2>4, <2>5, <2>7 DEF NameFor
    <3> QED BY <1>1, <3>1 DEF ValidNames
  <2> QED BY <2>6, <2>7
<1> QED BY <1>8, <1>9

\* A simple button is valid with any body.
LEMMA SimplePressValid == ASSUME NEW b \in SimplePresses, NEW body PROVE ValidButton(b, body)
BY DEF SimplePresses, ValidButton

\* A template whose values can be named has a message that passes both checks.
LEMMA Sendable ==
    ASSUME SimpleMessages \subseteq Messages, NEW t \in Templates,
           \A name \in ToSet(t.bodyText) \union ToSet(HeaderParameters(t)) : ValidName(name),
           Named(t) => ToSet(t.bodyText) \intersect ToSet(HeaderParameters(t)) = {}
    PROVE  \E m \in Messages : validateWhatsAppMessage(m) /\ templateFits(metaTemplateInfo(t), m)
<1>1. PICK h : HeaderFor(t, h)
  BY HasHeader
<1>2. PICK body : BodyFor(t, body)
  BY HasBody
<1>3. PICK row : ButtonsFor(t, row)
  BY HasButtons
<1> DEFINE m == [fields |-> "complete", header |-> h, body |-> body, buttons |-> row]
<1>4. m \in SimpleMessages
  BY <1>1, <1>2, <1>3 DEF HeaderFor, BodyFor, ButtonsFor, SimpleMessages
<1>5. m.fields = "complete" /\ m.header = h /\ m.body = body /\ m.buttons = row
  OBVIOUS
<1> HIDE DEF m
<1>6. ValidNames(Counted(m))
  BY <1>1, <1>2, <1>5, HasNames
<1>7. ValidButtons(m)
  <2>1. \A i \in DOMAIN row : row[i] \in SimplePresses
    BY <1>3, ElementOfSeq, LenProperties DEF ButtonsFor
  <2>2. \A i, j \in DOMAIN row : row[i].index = row[j].index => i = j
    BY <1>3 DEF ButtonsFor
  <2>3. \A i \in DOMAIN row : ValidButton(row[i], body)
    BY <2>1, SimplePressValid
  <2> QED BY <1>5, <2>2, <2>3 DEF ValidButtons
<1>8. validateWhatsAppMessage(m)
  BY <1>1, <1>2, <1>5, <1>6, <1>7 DEF HeaderFor, BodyFor, validateWhatsAppMessage
<1>9. templateFits(metaTemplateInfo(t), m)
  BY <1>1, <1>2, <1>3, <1>5 DEF HeaderFor, BodyFor, ButtonsFor, templateFits
<1> QED BY <1>4, <1>8, <1>9

\* An authentication template, of one code.
OneCode(t) ==
    /\ t.headerFormat = "" /\ t.bodyText = <<"1">>
    /\ Len(t.buttons) = 1 /\ IsOTP(t.buttons[1])

\* A message of one code.
OfCode(m) == \E code : code # "" /\ m = WhatsAppOTP(code)

\* What WhatsAppOTP's message is made of.
LEMMA OTPParts ==
    ASSUME NEW code
    PROVE  LET m == WhatsAppOTP(code)
           IN  /\ m.fields = "complete" /\ m.header = NoValue
               /\ m.body = <<m.body[1]>> /\ m.buttons = <<m.buttons[1]>>
               /\ m.body[1].kind = "text" /\ m.body[1].name = "" /\ m.body[1].text = code
               /\ m.body[1].fault = "none"
               /\ m.buttons[1].index = 0 /\ m.buttons[1].kind = "otp"
               /\ m.buttons[1].value = code /\ m.buttons[1].name = ""
               /\ m.buttons[1].fault = "none"
BY DEF WhatsAppOTP

\* WhatsAppOTP's message passes both checks of such a template.
LEMMA OTPSendable ==
    ASSUME NEW t \in Templates, OneCode(t), NEW m, OfCode(m)
    PROVE  validateWhatsAppMessage(m) /\ templateFits(metaTemplateInfo(t), m)
<1> DEFINE i == metaTemplateInfo(t)
           body == m.body
           row == m.buttons
           value == body[1]
           press == row[1]
<1>1. PICK code : code # "" /\ m = WhatsAppOTP(code)
  BY DEF OfCode
<1>2. /\ m.fields = "complete" /\ m.header = NoValue
      /\ body = <<value>> /\ row = <<press>>
  BY <1>1, OTPParts, Zenon
<1>3. value.kind = "text" /\ value.name = "" /\ value.fault = "none"
  BY <1>1, OTPParts, Zenon
<1>3a. press.index = 0 /\ press.kind = "otp"
  BY <1>1, OTPParts, Zenon
<1>3b. press.name = "" /\ press.fault = "none" /\ press.value = value.text /\ press.value # ""
  <2>1. press.value = code /\ value.text = code
    BY <1>1, OTPParts, Zenon
  <2>2. press.name = "" /\ press.fault = "none"
    BY <1>1, OTPParts, Zenon
  <2> HIDE DEF press, value
  <2> QED BY <1>1, <2>1, <2>2, Zenon
<1> HIDE DEF value, press
<1>4. /\ Len(body) = 1 /\ DOMAIN body = {1} /\ body[1] = value
      /\ DOMAIN row = {1} /\ row[1] = press
  BY <1>2, OneOf, Zenon
<1>5. m.body = body /\ m.buttons = row /\ <<>> \o body = body
  <2>1. <<>> \o <<value>> = <<value>>
    OBVIOUS
  <2> QED BY <1>2, <2>1, Zenon
<1> HIDE DEF body, row, i
<1>6. Counted(m) = body
  <2>1. Counted(m) = <<>> \o body
    BY <1>2, <1>5 DEF Counted
  <2> QED BY <1>5, <2>1, Zenon
<1>7. ValidHeader(m.header) /\ ValidBody(m.body) /\ ValidNames(Counted(m))
  <2>1. ValidHeader(m.header)
    BY <1>2 DEF ValidHeader
  <2>2. ValidBody(m.body)
    BY <1>3, <1>4, <1>5 DEF ValidBody, checkWhatsAppValue, Faults, BodyKinds
  <2>3. ValidNames(Counted(m))
    BY <1>3, <1>4, <1>6 DEF ValidNames
  <2> QED BY <2>1, <2>2, <2>3
<1>8. ValidButtons(m)
  <2>1. body[1].kind = "text" /\ body[1].text = press.value
    BY <1>3, <1>3b, <1>4, Zenon
  <2>2. 0 \in 0..MaxButtonIndex
    BY DEF MaxButtonIndex
  <2>3. ValidButton(press, body)
    BY <1>3a, <1>3b, <1>4, <2>1, <2>2 DEF ValidButton
  <2> QED BY <1>4, <1>5, <2>3 DEF ValidButtons
<1>9. validateWhatsAppMessage(m)
  BY <1>2, <1>7, <1>8 DEF validateWhatsAppMessage
<1>10. /\ i.headerFormat = t.headerFormat /\ i.headerParameters = HeaderParameters(t)
       /\ i.named = Named(t)
       /\ i.bodyParameters = templatePlaceholders(t.bodyText)
  BY InfoOf DEF i
<1>11. HeaderFits(i, m.header)
  BY <1>2, <1>10 DEF HeaderFits, HeaderParameters, OneCode
<1>12. ToSet(t.bodyText) = {"1"}
  BY OneOf, Zenon DEF OneCode
<1>13. ~Named(t)
  <2>1. /\ t.headerFormat # "TEXT" => t.headerText = <<>>
        /\ t.format = "NAMED" => (ToSet(t.headerText) \union ToSet(t.bodyText)) \intersect Digits = {}
    BY TemplatesAssumption
  <2>2. ToSet(t.headerText) = {}
    <3>1. t.headerText = <<>>
      BY <2>1 DEF OneCode
    <3>2. DOMAIN t.headerText = {}
      BY <3>1
    <3> QED BY <3>2 DEF ToSet
  <2> QED BY <1>12, <2>1, <2>2, DigitsAssumption DEF Named
<1>14. BodyFits(i, m.body)
  <2>1. Cardinality({"1"}) = 1
    BY FS_Singleton
  <2>2. Len(i.bodyParameters) = 1
    BY <1>10, <1>12, <2>1, BodyPlaceholders
  <2>3. (body[1].name # "") = FALSE /\ i.named = FALSE
    <3>1. body[1].name = ""
      BY <1>3, <1>4
    <3>2. Named(t) \in BOOLEAN
      BY DEF Named
    <3> QED BY <1>10, <1>13, <3>1, <3>2
  <2> QED BY <1>4, <1>5, <2>2, <2>3 DEF BodyFits
<1>15. ButtonsFit(i, m.buttons)
  <2>1. 1 \in DOMAIN t.buttons /\ DOMAIN t.buttons = {1}
    <3>1. t.buttons \in Seq(Buttons)
      BY TemplatesAssumption
    <3> QED BY <3>1, HasFirst, Zenon DEF OneCode
  <2>2. /\ DOMAIN i.buttons = {1}
        /\ i.buttons[1].type = t.buttons[1].type
        /\ i.buttons[1].requiresValue = RequiresValue(t.buttons[1])
    BY <2>1, InfoOf DEF i
  <2>3. RequiresValue(t.buttons[1]) /\ t.buttons[1].type \in {"OTP", "URL"}
    BY <2>1, TemplateButton DEF IsOTP, OneCode
  <2>4. templateButtonTakes(i.buttons[1], "otp")
    BY <2>2, <2>3, Zenon DEF templateButtonTakes
  <2>5. row[1].index + 1 = 1 /\ row[1].kind = "otp"
    BY <1>3a, <1>4
  <2>6. \A n \in DOMAIN row :
          /\ row[n].index + 1 \in DOMAIN i.buttons
          /\ templateButtonTakes(i.buttons[row[n].index + 1], row[n].kind)
    BY <1>4, <2>2, <2>4, <2>5
  <2>7. \A n \in DOMAIN i.buttons : \E b \in DOMAIN row : row[b].index + 1 = n
    BY <1>4, <2>2, <2>5
  <2> QED BY <1>5, <2>6, <2>7 DEF ButtonsFit
<1>16. templateFits(i, m)
  BY <1>11, <1>14, <1>15 DEF templateFits
<1> QED BY <1>9, <1>16 DEF i

\* The two checks leave every template whose values they can name a message that
\* passes both, if any is to be had: where Messages has those with nothing wrong.
\* And WhatsAppOTP's (types.go) passes for every template of one code.
THEOREM SomethingToSend ==
    ASSUME SimpleMessages \subseteq Messages PROVE Spec => []EveryTemplateSendable
<1>1. IInv => EveryTemplateSendable
  <2> SUFFICES ASSUME IInv, info # NoInfo
               PROVE  /\ Nameable => \E m \in Messages : Passes(m)
                      /\ (/\ template.headerFormat = "" /\ template.bodyText = <<"1">>
                          /\ Len(template.buttons) = 1 /\ IsOTP(template.buttons[1]))
                            => Passes(WhatsAppOTP("code"))
    BY DEF EveryTemplateSendable
  <2>1. template \in Templates /\ info = metaTemplateInfo(template)
    BY DEF IInv
  <2>2. ASSUME Nameable PROVE \E m \in Messages : Passes(m)
    <3>1. \E m \in Messages :
            validateWhatsAppMessage(m) /\ templateFits(metaTemplateInfo(template), m)
      BY <2>1, <2>2, Sendable DEF Nameable
    <3> QED BY <2>1, <3>1 DEF Passes
  <2>3. ASSUME template.headerFormat = "", template.bodyText = <<"1">>,
               Len(template.buttons) = 1, IsOTP(template.buttons[1])
        PROVE  Passes(WhatsAppOTP("code"))
    <3>1. OneCode(template)
      BY <2>3 DEF OneCode
    <3>2. OfCode(WhatsAppOTP("code"))
      BY Zenon DEF OfCode
    <3> QED BY <2>1, <3>1, <3>2, OTPSendable, Zenon DEF Passes
  <2> QED BY <2>2, <2>3
<1> QED BY <1>1, Inductive, PTL

=============================================================================
