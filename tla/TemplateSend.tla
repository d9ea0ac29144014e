----------------------------- MODULE TemplateSend -----------------------------
(***************************************************************************)
(* One WhatsApp message, from Meta's template to Meta's verdict: what      *)
(* dispatcher.whatsapp.metacloud.go reads of a listed template, what       *)
(* payloadvalidator.go and templatevalidator.whatsapp.go check of the      *)
(* message, the components it is sent as, and the class of Meta's reply.   *)
(*                                                                         *)
(* A text is the sequence of its placeholders; a value is its kind, its    *)
(* placeholder's name and what is wrong with it; `text' only tells one     *)
(* value from another.  When a list is fetched is TemplateValidator's      *)
(* subject, and how its pages are read TemplateListing's.                  *)
(***************************************************************************)
EXTENDS Integers, SequencesExt

CONSTANTS Templates,    \* as Meta lists them
          Messages,     \* WhatsAppMessages
          Digits,       \* the placeholders that are numbers
          LowerNames    \* and those that are lower-case names

MaxButtonIndex == 9

VARIABLES template,     \* Meta's
          info,         \* WhatsAppTemplateInfo; NoInfo without a list
          msg,
          at,
          outcome,      \* what Send returned
          refusedBy     \* where a permanent failure comes from

vars == <<template, info, msg, at, outcome, refusedBy>>

NoInfo  == [headerFormat |-> "no list"]
NoValue == [kind |-> "nil", name |-> "", text |-> "", fault |-> "none"]
NoMessage == [fields |-> "none"]

-----------------------------------------------------------------------------
(* metaTemplateInfo *)

\* Mutant: a placeholder that is repeated counts each time.
AllPlaceholders(text) == text

templatePlaceholders(text) ==
    LET names[n \in 0..Len(text)] ==
          IF n = 0 THEN <<>>
          ELSE IF text[n] \in ToSet(names[n - 1]) THEN names[n - 1]
          ELSE Append(names[n - 1], text[n])
    IN  names[Len(text)]

\* Mutant: the otp_type of a URL is not looked at.
RequiresValueNoOTP(b) == b.type \in {"COPY_CODE", "OTP"} \/ (b.type = "URL" /\ b.placeholder)

RequiresValue(b) == \/ b.type \in {"COPY_CODE", "OTP"}
                    \/ b.type = "URL" /\ (b.placeholder \/ b.otp)

HeaderParameters(t) ==
    IF t.headerFormat = "TEXT" THEN templatePlaceholders(t.headerText) ELSE <<>>

\* Without a parameter_format, a template is named when any placeholder isn't a
\* number.
IsNamed(t) ==
    \/ t.format = "NAMED"
    \/ /\ t.format = ""
       /\ ~(ToSet(HeaderParameters(t)) \union ToSet(t.bodyText) \subseteq Digits)

\* Mutant: only the buttons that take a value are kept.
metaTemplateInfoValueButtons(t) ==
    [named            |-> IsNamed(t),
     headerFormat     |-> t.headerFormat,
     headerParameters |-> HeaderParameters(t),
     bodyParameters   |-> templatePlaceholders(t.bodyText),
     buttons          |-> [i \in 1..Cardinality({b \in DOMAIN t.buttons :
                                                    RequiresValue(t.buttons[b])}) |->
                             [type |-> t.buttons[i].type, requiresValue |-> TRUE]]]

metaTemplateInfo(t) ==
    [named            |-> IsNamed(t),
     headerFormat     |-> t.headerFormat,
     headerParameters |-> HeaderParameters(t),
     bodyParameters   |-> templatePlaceholders(t.bodyText),
     buttons          |-> [i \in DOMAIN t.buttons |->
                             [type          |-> t.buttons[i].type,
                              requiresValue |-> RequiresValue(t.buttons[i])]]]

-----------------------------------------------------------------------------
(* validateWhatsAppMessage *)

MediaKinds  == {"image", "video", "document"}
HeaderKinds == MediaKinds \union {"location"}   \* those only a header takes
BodyKinds   == {"text", "currency", "date_time"}

\* What each kind of value must not be; a value of no kind, or of several, is
\* none of these.
Faults(kind) ==
    CASE kind = "text"      -> {"line break"}
      [] kind = "currency"  -> {"no fallback", "no currency code", "line break"}
      [] kind = "date_time" -> {"no fallback", "line break"}
      [] kind = "document"  -> {"id and link", "neither id nor link"}
      [] kind = "location"  -> {"out of range"}
      [] OTHER              -> {"id and link", "neither id nor link", "filename"}

checkWhatsAppValue(p) == /\ p.kind \in BodyKinds \union HeaderKinds
                         /\ p.fault \notin Faults(p.kind)

ValidName(name) == name \in LowerNames \union Digits

\* The values that have a placeholder, which countName counts.
Counted(m) ==
    (IF m.header = NoValue \/ m.header.kind \in HeaderKinds THEN <<>> ELSE <<m.header>>)
        \o m.body

ValidHeader(h) ==
    h # NoValue => /\ checkWhatsAppValue(h)
                   /\ ~(h.kind = "text" /\ h.fault = "long")
                   /\ h.kind \in HeaderKinds => h.name = ""

ValidBody(body) ==
    \A i \in DOMAIN body : checkWhatsAppValue(body[i]) /\ body[i].kind \in BodyKinds

\* All named, each with its own name, or none.
ValidNames(values) ==
    \/ \A i \in DOMAIN values : values[i].name = ""
    \/ /\ \A i \in DOMAIN values : ValidName(values[i].name)
       /\ \A i, j \in DOMAIN values : values[i].name = values[j].name => i = j

\* Mutant: the code is not compared with the body's value.
ValidButtonAnyCode(b, body) ==
    /\ b.index \in 0..MaxButtonIndex
    /\ b.value # ""
    /\ b.fault # "line break"
    /\ b.name # "" => b.kind = "url" /\ ValidName(b.name)
    /\ \/ b.kind \in {"url", "quick_reply"}
       \/ b.kind \in {"copy_code", "otp"} /\ b.fault # "long"

ValidButton(b, body) ==
    /\ b.index \in 0..MaxButtonIndex
    /\ b.value # ""
    /\ b.fault # "line break"
    /\ b.name # "" => b.kind = "url" /\ ValidName(b.name)
    /\ \/ b.kind \in {"url", "quick_reply"}
       \/ b.kind \in {"copy_code", "otp"} /\ b.fault # "long"
    /\ b.kind = "otp" => /\ Len(body) = 1
                         /\ body[1].kind = "text" /\ body[1].text = b.value

ValidButtons(m) ==
    /\ \A i \in DOMAIN m.buttons : ValidButton(m.buttons[i], m.body)
    /\ \A i, j \in DOMAIN m.buttons :
         m.buttons[i].index = m.buttons[j].index => i = j

validateWhatsAppMessage(m) ==
    /\ m.fields = "complete"   \* a phone number, a template, a language
    /\ ValidHeader(m.header)
    /\ ValidBody(m.body)
    /\ ValidNames(Counted(m))
    /\ ValidButtons(m)

-----------------------------------------------------------------------------
(* templateFits *)

MediaOf(format) == CASE format = "IMAGE"    -> "image"
                     [] format = "VIDEO"    -> "video"
                     [] format = "DOCUMENT" -> "document"

\* (A format grpop does not know is not checked.)
HeaderFits(i, h) ==
    CASE i.headerFormat \in {"", "TEXT"} ->
            IF i.headerParameters = <<>> THEN h = NoValue
            ELSE /\ h # NoValue /\ h.kind \notin HeaderKinds
                 /\ i.named => h.name = i.headerParameters[1]
      [] i.headerFormat \in {"IMAGE", "VIDEO", "DOCUMENT"} -> h.kind = MediaOf(i.headerFormat)
      [] i.headerFormat = "LOCATION" -> h.kind = "location"
      [] OTHER -> TRUE

\* Mutant: named values are counted, like positional ones.
BodyFitsByCount(i, body) ==
    /\ \A n \in DOMAIN body : (body[n].name # "") = i.named
    /\ Len(body) = Len(i.bodyParameters)

BodyFits(i, body) ==
    /\ \A n \in DOMAIN body : (body[n].name # "") = i.named
    /\ Len(body) = Len(i.bodyParameters)
    /\ i.named => {body[n].name : n \in DOMAIN body} = ToSet(i.bodyParameters)

\* Mutant: a one-time code fills an OTP button only.
templateButtonTakesOwnKind(tb, kind) ==
    \/ kind = "url" /\ tb.type = "URL" /\ tb.requiresValue
    \/ kind = "otp" /\ tb.type = "OTP"
    \/ kind = "quick_reply" /\ tb.type = "QUICK_REPLY"
    \/ kind = "copy_code" /\ tb.type = "COPY_CODE"

templateButtonTakes(tb, kind) ==
    \/ kind \in {"url", "otp"} /\ tb.type \in {"URL", "OTP"} /\ tb.requiresValue
    \/ kind = "quick_reply" /\ tb.type = "QUICK_REPLY"
    \/ kind = "copy_code" /\ tb.type = "COPY_CODE"

\* A button's index is its place in the template, counted from 0.
ButtonsFit(i, buttons) ==
    /\ \A n \in DOMAIN buttons :
         /\ buttons[n].index + 1 \in DOMAIN i.buttons
         /\ templateButtonTakes(i.buttons[buttons[n].index + 1], buttons[n].kind)
    /\ \A n \in DOMAIN i.buttons : i.buttons[n].requiresValue =>
         \E b \in DOMAIN buttons : buttons[b].index + 1 = n

templateFits(i, m) == /\ HeaderFits(i, m.header)
                      /\ BodyFits(i, m.body)
                      /\ ButtonsFit(i, m.buttons)

-----------------------------------------------------------------------------
(* SendTemplateMessage *)

metaParameter(p) == [type |-> p.kind, name |-> p.name, text |-> p.text, fault |-> p.fault]

\* A one-time code goes as a URL suffix does.
metaButton(b) ==
    LET own == b.kind \in {"quick_reply", "copy_code"}
    IN  [index |-> b.index,
         type  |-> IF own THEN b.kind ELSE "url",
         name  |-> IF own THEN "" ELSE b.name,
         text  |-> b.value, fault |-> b.fault]

metaTemplateComponents(m) ==
    [header  |-> IF m.header = NoValue THEN <<>> ELSE <<metaParameter(m.header)>>,
     body    |-> [n \in DOMAIN m.body |-> metaParameter(m.body[n])],
     buttons |-> [n \in DOMAIN m.buttons |-> metaButton(m.buttons[n])]]

\* Meta (external), as the comments of types.go and of the checks describe it:
\* the values it takes in a template's text, ...
Named(t) == \/ t.format = "NAMED"
            \/ ~(ToSet(t.headerText) \union ToSet(t.bodyText) \subseteq Digits)

TakesValues(values, text, named) ==
    /\ Len(values) = Cardinality(ToSet(text))
    /\ \A n \in DOMAIN values :
         values[n].type \in BodyKinds /\ values[n].fault \in {"none", "long"}
    /\ IF named
       THEN {values[n].name : n \in DOMAIN values} = ToSet(text)
       ELSE \A n \in DOMAIN values : values[n].name = ""

TakesHeader(t, values) ==
    CASE t.headerFormat = "TEXT" ->
            /\ TakesValues(values, t.headerText, Named(t))
            /\ \A n \in DOMAIN values : values[n].type = "text" => values[n].fault # "long"
      [] t.headerFormat = "" -> values = <<>>
      [] OTHER -> /\ Len(values) = 1
                  /\ values[1].fault = "none"
                  /\ values[1].type = (CASE t.headerFormat = "LOCATION" -> "location"
                                         [] t.headerFormat = "GIF"      -> "gif"
                                         [] OTHER -> MediaOf(t.headerFormat))

IsOTP(tb) == tb.type = "OTP" \/ tb.otp

\* ... in its buttons, with the name of a URL's placeholder if it has one (only
\* codes have a length), each at most once and each that has a placeholder, ...
TakesButton(t, b) ==
    /\ b.index < Len(t.buttons)
    /\ \/ b.fault = "none"
       \/ b.fault = "long" /\ b.type # "copy_code" /\ ~IsOTP(t.buttons[b.index + 1])
    /\ LET tb == t.buttons[b.index + 1]
       IN  CASE b.type = "url"         -> /\ tb.type \in {"URL", "OTP"}
                                          /\ tb.type = "URL" => tb.placeholder \/ tb.otp
                                          /\ b.name = tb.name
             [] b.type = "quick_reply" -> tb.type = "QUICK_REPLY"
             [] b.type = "copy_code"   -> tb.type = "COPY_CODE"

\* ... and a one-time code twice.
MetaTakes(t, c) ==
    /\ TakesHeader(t, c.header)
    /\ TakesValues(c.body, t.bodyText, Named(t))
    /\ \A n \in DOMAIN c.buttons : TakesButton(t, c.buttons[n])
    /\ \A n \in DOMAIN t.buttons :
         /\ t.buttons[n].placeholder \/ t.buttons[n].type = "COPY_CODE" \/ IsOTP(t.buttons[n])
              => \E b \in DOMAIN c.buttons : c.buttons[b].index + 1 = n
         /\ IsOTP(t.buttons[n]) =>
              \A b \in DOMAIN c.buttons : c.buttons[b].index + 1 = n =>
                  Len(c.body) > 0 /\ c.buttons[b].text = c.body[1].text

\* metaTemporaryErrorCodes; and a code of the other kind.
TemporaryCodes == {2, 4, 80007, 130429, 131000, 131016, 131056, 133004, 2494100}
Misfit == 132000

\* Mutant: only the status says whether to try again.
metaErrorIsTemporaryByStatus(status, code) == status = 429 \/ status >= 500

metaErrorIsTemporary(status, code) ==
    code \in TemporaryCodes \/ status = 429 \/ status >= 500

\* doJSON and SendTemplateMessage: no reply, or one that makes no sense, is 0.
Classify(status, code) ==
    CASE status \in 200..299 -> "ok"
      [] status = 0          -> "temporary"
      [] OTHER -> IF metaErrorIsTemporary(status, code) THEN "temporary" ELSE "permanent"

\* Meta's answers to a message it takes, and to one it does not; overload may
\* come in the place of either, under a 400 too.
Overload == {<<429, 0>>, <<500, 0>>, <<0, 0>>} \union ({400} \X TemporaryCodes)
Answers(taken) == Overload \union (IF taken THEN {<<200, 0>>} ELSE {<<400, Misfit>>})

-----------------------------------------------------------------------------
(* What there is to send, and to send it to *)

\* Templates as Meta has them (external): numbered or named, of the kind the
\* format says; at most one placeholder in a header, which is all a
\* WhatsAppMessage has a value for; placeholders of buttons in URLs, with a name
\* (or "", for a number) in a named template; and buttons that Index can tell
\* apart.
Buttons == [type : STRING, placeholder : BOOLEAN, name : STRING, otp : BOOLEAN]

ASSUME TemplatesAssumption ==
    \A t \in Templates :
      /\ t.headerFormat \in {"", "TEXT", "IMAGE", "VIDEO", "DOCUMENT", "LOCATION", "GIF"}
      /\ t.headerText \in Seq(STRING) /\ t.bodyText \in Seq(STRING)
      /\ "" \notin ToSet(t.headerText) \union ToSet(t.bodyText)
      /\ t.headerFormat # "TEXT" => t.headerText = <<>>
      /\ \A i, j \in DOMAIN t.headerText : t.headerText[i] = t.headerText[j]
      /\ t.format \in {"", "POSITIONAL", "NAMED"}
      /\ t.format = "POSITIONAL" => ToSet(t.headerText) \union ToSet(t.bodyText) \subseteq Digits
      /\ t.format = "NAMED" => (ToSet(t.headerText) \union ToSet(t.bodyText)) \intersect Digits = {}
      /\ t.buttons \in Seq(Buttons)
      /\ \A n \in DOMAIN t.buttons :
           LET b == t.buttons[n]
           IN  /\ b.placeholder \/ b.otp => b.type = "URL"
               /\ b.name # "" => b.placeholder /\ ~b.otp /\ Named(t)
      /\ Len(t.buttons) <= MaxButtonIndex + 1

\* Messages: values of any kind, with a fault of the kind or none.  Only a text is
\* ever too long.
Values == [kind : STRING, name : STRING, text : STRING, fault : STRING]
Presses == [index : Int, kind : STRING, value : STRING, name : STRING, fault : STRING]

ASSUME MessagesAssumption ==
    \A m \in Messages :
      /\ m \in [fields : STRING, header : Values, body : Seq(Values), buttons : Seq(Presses)]
      /\ \A v \in {m.header} \union ToSet(m.body) :
           v.fault = "long" => v.kind = "text"
      /\ \A v \in {m.header} \union ToSet(m.body) :
           v.fault \in {"none", "long"} \union Faults(v.kind)
      /\ \A n \in DOMAIN m.buttons : m.buttons[n].fault \in {"none", "long", "line break"}

ASSUME DigitsAssumption == "1" \in Digits

-----------------------------------------------------------------------------

Init == /\ template \in Templates
        /\ info = NoInfo
        /\ msg = NoMessage
        /\ at = "start"
        /\ outcome = "none"
        /\ refusedBy = "none"

\* The validator lists the template, or has no list to check against.
List == /\ at = "start"
        /\ info' \in {metaTemplateInfo(template), NoInfo}
        /\ at' = "listed"
        /\ UNCHANGED <<template, msg, outcome, refusedBy>>

Returns(result, who) == /\ at' = "returned"
                        /\ outcome' = result
                        /\ refusedBy' = IF result = "permanent" THEN who ELSE "none"

\* Validate: without a list the message goes through.
Validate(m) == info # NoInfo => templateFits(info, m)

\* Send: the two checks.
Send == /\ at = "listed"
        /\ \E m \in Messages :
             /\ msg' = m
             /\ CASE ~validateWhatsAppMessage(m) -> Returns("permanent", "message")
                  [] validateWhatsAppMessage(m) /\ ~Validate(m) ->
                        Returns("permanent", "template")
                  [] OTHER -> at' = "sending" /\ UNCHANGED <<outcome, refusedBy>>
        /\ UNCHANGED <<template, info>>

\* SendTemplateMessage.
Answer == /\ at = "sending"
          /\ \E a \in Answers(MetaTakes(template, metaTemplateComponents(msg))) :
               Returns(Classify(a[1], a[2]), "Meta")
          /\ UNCHANGED <<template, info, msg>>

Next == List \/ Send \/ Answer

Spec == Init /\ [][Next]_vars

-----------------------------------------------------------------------------
(* Properties *)

TypeOK == /\ info # NoInfo => /\ info.headerFormat = template.headerFormat
                              /\ DOMAIN info.buttons = DOMAIN template.buttons
          /\ msg # NoMessage => DOMAIN msg = {"fields", "header", "body", "buttons"}
          /\ at \in {"start", "listed", "sending", "returned"}
          /\ outcome \in {"none", "ok", "temporary", "permanent"}
          /\ refusedBy \in {"none", "message", "template", "Meta"}

\* What the checks do not look at: a header of an unknown format; a name on the
\* header's value where the template is positional (the body's are looked at);
\* whether the name on a URL's value is that of its placeholder (types.go: "empty
\* otherwise"); and that a value sent as a URL's to a one-time code's button is
\* the code.
BeyondTheChecks ==
    \/ template.headerFormat = "GIF"
    \/ ~Named(template) /\ msg.header.name # ""
    \/ \E n \in DOMAIN msg.buttons :
         LET b  == msg.buttons[n]
             tb == template.buttons[b.index + 1]
         IN  /\ b.index < Len(template.buttons)
             /\ \/ b.kind = "url" /\ IsOTP(tb)
                \/ b.kind \in {"url", "otp"} /\ b.name # tb.name

\* Nothing else is refused by Meta once it has passed the checks: what is read
\* of a template, the two checks and the components sent agree with what the
\* template takes, and a busy Meta never reads as a refusal for good.
FitsMeansTaken ==
    refusedBy = "Meta" => info = NoInfo \/ BeyondTheChecks

\* The check against the template refuses no message Meta would have taken.
NoNeedlessRefusal ==
    refusedBy = "template" => ~MetaTakes(template, metaTemplateComponents(msg))

\* types.go: WhatsAppOTP builds an authentication template's Body and Buttons.
WhatsAppOTP(code) ==
    [fields |-> "complete", header |-> NoValue,
     body |-> <<[kind |-> "text", name |-> "", text |-> code, fault |-> "none"]>>,
     buttons |-> <<[index |-> 0, kind |-> "otp", value |-> code, name |-> "",
                    fault |-> "none"]>>]

Passes(m) == validateWhatsAppMessage(m) /\ templateFits(info, m)

\* A template whose values the checks can name (they take lower-case names, one
\* use of each in header and body).
Nameable ==
    /\ \A name \in ToSet(template.bodyText) \union ToSet(HeaderParameters(template)) :
         ValidName(name)
    /\ Named(template) =>
         ToSet(template.bodyText) \intersect ToSet(HeaderParameters(template)) = {}

\* The two checks leave every such template a message that can be sent: neither
\* asks for what the other refuses.  WhatsAppOTP's is one for every template of
\* one code, however Meta lists its button.
EveryTemplateSendable ==
    at = "listed" /\ info # NoInfo =>
        /\ Nameable => \E m \in Messages : Passes(m)
        /\ (/\ template.headerFormat = "" /\ template.bodyText = <<"1">>
            /\ Len(template.buttons) = 1 /\ IsOTP(template.buttons[1]))
              => Passes(WhatsAppOTP("code"))

=============================================================================
