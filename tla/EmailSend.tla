------------------------------ MODULE EmailSend ------------------------------
(***************************************************************************)
(* One email on its way, with its content: example/main.go's sendWithRetry *)
(* around the SMTP sender (dispatcher.email.smtp.go) or the Resend sender  *)
(* (dispatcher.email.resend.go), down to the SMTP commands and the HTTP    *)
(* status, what prepareEmail makes of the message, and the template engine *)
(* (templateengine.email.go), in which the application may register a new  *)
(* version of the template at any time.                                    *)
(*                                                                         *)
(* Content is the version it was rendered from: literal and inline content *)
(* is version 0, the n-th registration version n.  MAIL, RCPT and DATA,    *)
(* three commands that fail alike, are one stage, "envelope".  The circuit *)
(* breaker stays closed here: how it opens is Delivery's subject.  The     *)
(* relay and Resend are external.                                          *)
(***************************************************************************)
EXTENDS Integers, Sequences, FiniteSets

CONSTANTS Configs,       \* what SMTPDispatcherDeps or ResendDispatcherDeps say
          Emails,        \* the messages
          Backoffs,      \* the <<base, max>> a caller gives FullJitterBackoff
          Width,         \* bits of a time.Duration
          DefaultMax,    \* defaultMaxBackoff
          MaxAttempts,   \* maxAttempts of sendWithRetry
          MaxVersion     \* bound: registrations of the template

MaxInt == 2^(Width - 1) - 1

ASSUME BackoffAssumption ==
    /\ Width \in Nat /\ Width > 2
    /\ DefaultMax \in 1..MaxInt
    /\ \A b \in Backoffs : b[1] \in 0..MaxInt /\ b[2] \in 0..MaxInt
\* NewSMTPDispatcher takes any string for a TLSMode.
ASSUME ConfigsAssumption == \A c \in Configs : c.sender \in {"smtp", "resend"}
ASSUME BoundsAssumption == MaxAttempts \in Nat \ {0} /\ MaxVersion \in Nat

Attempts == 1..MaxAttempts

VARIABLES
    config,     \* the dispatcher
    msg,        \* EmailMessage
    cancelled,  \* ctx is done
    registry,   \* e.templates[name]: its version, 0 when there is none
    at,         \* where the send is
    attempt,    \* counted from 1
    compiled,   \* the version this attempt renders from
    rendered,   \* the versions of the parts rendered: subject, HTML, text;
                \*   like reply, gone when its function returns
    body,       \* what each attempt sends
    stage,      \* where each attempt's exchange with the vendor is
    secured,    \* the sessions under TLS
    reply,      \* what the last exchange ended with: a status (0 for none)
                \*   and the step or error it names
    outcome,    \* what Send returned
    asked,      \* the FullJitterBackoff call, <<base, max, attempt>>
    wait,       \* and what it returned
    key,        \* at Resend: what has become of the Idempotency-Key
    delivered   \* the attempts of which the vendor took a copy

content  == <<compiled, rendered, body>>
exchange == <<stage, secured, key, delivered>>
retry    == <<attempt, asked, wait>>
fixed    == <<config, msg>>
vars     == <<fixed, cancelled, registry, at, retry, content, exchange, reply,
              outcome>>

Rendering == {"ready", "execute", "address"}
Places    == Rendering \union {"recipient", "channel", "breaker", "vendor",
                               "returned", "waiting", "sent", "gaveup"}
SMTPStages == {"dial", "starttls", "auth", "envelope", "content", "close"}
HTTPStages == {"request", "processing"}
Stages     == SMTPStages \union HTTPStages \union {"none", "taken", "ended"}
Statuses   == {0, 200, 250, 409, 422, 429, 450, 500, 550}

Reply(status, name) == [status |-> status, name |-> name]
Concurrent == "concurrent_idempotent_requests"
Invalid    == "invalid_idempotent_request"

-----------------------------------------------------------------------------

\* NewSMTPDispatcher: credentials in a session that is to be plaintext need
\* AllowInsecureAuth; a mode it does not know is not looked at.
Accepts(c) == c.tls = "insecure_no_tls" /\ c.auth => c.allowInsecureAuth

Init == /\ config \in {c \in Configs : Accepts(c)}
        /\ msg \in Emails
        /\ cancelled = FALSE
        /\ registry = 0
        /\ at = "ready"
        /\ attempt = 1
        /\ compiled = 0
        /\ rendered = <<>>
        /\ body = [i \in Attempts |-> <<>>]
        /\ stage = [i \in Attempts |-> "none"]
        /\ secured = {}
        /\ reply = Reply(0, "none")
        /\ outcome = "temporary"
        /\ asked = <<0, 0, 0>>
        /\ wait = 0
        /\ key = [state |-> "free", by |-> 0]
        /\ delivered = {}

\* Send returns.
SendReturns(result) == at' = "returned" /\ outcome' = result

-----------------------------------------------------------------------------
(* prepareEmail: every failure is permanent *)

\* validateEmailMessage: a recipient, and exactly one content mode.
ValidEmail == msg.to # "none" /\ Cardinality(msg.modes) = 1

\* RenderInline, before it executes.
InlineCompiles == msg.inline \notin {"oversize", "unparsable"}

\* renderEmailContent, up to the execution of the first part.  Render takes the
\* compiled template out of the map once, under the lock.
StartRendering ==
    \/ /\ msg.modes = {"literal"}
       /\ at' = "address"
       /\ rendered' = <<0, 0, 0>>
       /\ compiled' = 0
    \/ /\ msg.modes = {"inline"}
       /\ config.engine /\ InlineCompiles
       /\ at' = "execute"
       /\ rendered' = <<>>
       /\ compiled' = 0
    \/ /\ msg.modes = {"name"}
       /\ config.engine /\ registry # 0
       /\ at' = "execute"
       /\ rendered' = <<>>
       /\ compiled' = registry

\* ErrEmailTemplateEngineRequired, ErrEmailTemplateNotFound,
\* ErrInlineTemplateTooLarge, or a template that does not parse.
CannotRender ==
    \/ msg.modes # {"literal"} /\ ~config.engine
    \/ msg.modes = {"inline"} /\ ~InlineCompiles
    \/ msg.modes = {"name"} /\ registry = 0

Begin ==
    /\ at = "ready"
    /\ \/ cancelled /\ SendReturns("temporary") /\ UNCHANGED content
       \/ /\ ~cancelled
          /\ ~ValidEmail \/ CannotRender
          /\ SendReturns("permanent")
          /\ UNCHANGED content
       \/ /\ ~cancelled /\ ValidEmail
          /\ StartRendering
          /\ UNCHANGED <<body, outcome>>
    /\ UNCHANGED <<fixed, cancelled, registry, retry, exchange, reply>>

\* Mutant: each part is looked up in the map anew.
PartVersionOfNow == IF msg.modes = {"name"} THEN registry ELSE compiled
PartVersion      == compiled

\* executeEmailTemplate: subject, HTML and text in turn.  Data that does not
\* fit fails in the part that uses it, in the versions that have one.
ExecutePart ==
    /\ at = "execute"
    /\ \/ /\ rendered' = Append(rendered, PartVersion)
          /\ at' = IF Len(rendered) = 2 THEN "address" ELSE "execute"
          /\ UNCHANGED outcome
       \/ ~msg.fits /\ SendReturns("permanent") /\ UNCHANGED rendered
    /\ UNCHANGED <<fixed, cancelled, registry, retry, compiled, body, exchange,
                   reply>>

\* From, or DefaultFrom in its place (ErrEmailFromRequired without either).
Sender == IF msg.from = "none" THEN config.defaultFrom ELSE msg.from

\* parseEmailAddress on From, To and Reply-To.
AddressesParse == Sender = "good" /\ msg.to = "good" /\ msg.replyTo # "bad"

ParseAddresses ==
    /\ at = "address"
    /\ \/ /\ AddressesParse
          /\ at' = "recipient"
          /\ body' = [body EXCEPT ![attempt] = rendered]
          /\ UNCHANGED outcome
       \/ ~AddressesParse /\ SendReturns("permanent") /\ UNCHANGED body
    /\ rendered' = <<>>
    /\ compiled' = 0
    /\ UNCHANGED <<fixed, cancelled, registry, retry, exchange, reply>>

\* RegisterTemplate: compiled first, then put in the map; a template that does
\* not parse changes nothing.
RegisterTemplate ==
    /\ config.engine /\ msg.modes = {"name"}
    /\ registry < MaxVersion
    /\ registry' = registry + 1
    /\ UNCHANGED <<fixed, cancelled, at, retry, content, exchange, reply,
                   outcome>>

-----------------------------------------------------------------------------
(* To the vendor *)

\* checkRateLimits: a limiter lets the send pass (or there is none), refuses,
\* or fails.
CheckRateLimit ==
    /\ at \in {"recipient", "channel"}
    /\ \/ /\ at' = IF at = "recipient" THEN "channel" ELSE "breaker"
          /\ UNCHANGED outcome
       \/ SendReturns("temporary")
    /\ UNCHANGED <<fixed, cancelled, registry, retry, content, exchange, reply>>

\* executeThroughBreaker: Execute looks at ctx again, then transact starts
\* doTransact, or post sends its request.
Call ==
    /\ at = "breaker"
    /\ \/ cancelled /\ SendReturns("temporary") /\ UNCHANGED stage
       \/ /\ ~cancelled
          /\ at' = "vendor"
          /\ stage' = [stage EXCEPT ![attempt] =
                          IF config.sender = "smtp" THEN "dial" ELSE "request"]
          /\ UNCHANGED outcome
    /\ UNCHANGED <<fixed, cancelled, registry, retry, content, secured, key,
                   delivered, reply>>

SetStage(i, s) == stage' = [stage EXCEPT ![i] = s]
Awaited(i) == at = "vendor" /\ attempt = i

\* The exchange is over: the connection is closed, and the reply goes to the
\* Send that waits for it, if any.
Ends(i, r) ==
    /\ SetStage(i, IF Awaited(i) THEN "ended" ELSE "none")
    /\ secured' = secured \ {i}
    /\ reply' = IF Awaited(i) THEN r ELSE reply

VendorOnly == UNCHANGED <<fixed, cancelled, registry, at, retry, content, outcome>>

-----------------------------------------------------------------------------
(* SMTP: realSMTPDialer.Dial, then doTransact *)

\* The zero value is the default; what is none of the modes is as good as
\* insecure_no_tls to Dial, which asks for the other two.
TLSMode == IF config.tls = "" THEN "starttls" ELSE config.tls

Credentials == IF config.auth THEN "auth" ELSE "envelope"

\* What follows a stage that succeeds.  Mutant: credentials before STARTTLS.
AfterStageAuthFirst(s) ==
    CASE s = "dial"     -> Credentials
      [] s = "auth"     -> IF TLSMode = "starttls" THEN "starttls" ELSE "envelope"
      [] s = "starttls" -> "envelope"
      [] s = "envelope" -> "content"
      [] s = "content"  -> "close"

AfterStage(s) ==
    CASE s = "dial"     -> IF TLSMode = "starttls" THEN "starttls" ELSE Credentials
      [] s = "starttls" -> Credentials
      [] s = "auth"     -> "envelope"
      [] s = "envelope" -> "content"
      [] s = "content"  -> "close"

\* TLS from the first byte, or from STARTTLS on.
Secures(s) == \/ s = "dial" /\ TLSMode = "implicit"
              \/ s = "starttls"

\* The relay does as it is asked.
StageSucceeds(i) ==
    /\ stage[i] \in SMTPStages \ {"close"}
    /\ SetStage(i, AfterStage(stage[i]))
    /\ secured' = IF Secures(stage[i]) THEN secured \union {i} ELSE secured
    /\ UNCHANGED <<key, delivered, reply>>
    /\ VendorOnly

\* It refuses (the first reply comes when dialled, none while the content is
\* written), or the connection fails.  A failed write is followed by Close, but
\* net/smtp's writer keeps its error: the relay never sees the final dot.
StageFails(i) ==
    /\ stage[i] \in SMTPStages
    /\ \E status \in {0, 450, 550} :
         /\ stage[i] = "content" => status = 0
         /\ Ends(i, Reply(status, stage[i]))
    /\ UNCHANGED <<key, delivered>>
    /\ VendorOnly

\* It takes the message at the final dot.
RelayTakes(i) ==
    /\ stage[i] = "close"
    /\ SetStage(i, "taken")
    /\ delivered' = delivered \union {i}
    /\ UNCHANGED <<secured, key, reply>>
    /\ VendorOnly

-----------------------------------------------------------------------------
(* Resend (external), as post and the comment on resendErrorIsTemporary use it *)

\* The request gets nowhere, or is refused before its key is looked at.
RequestFails(i) ==
    /\ stage[i] = "request"
    /\ \E status \in {0, 422, 429, 500} : Ends(i, Reply(status, "error"))
    /\ UNCHANGED <<key, delivered>>
    /\ VendorOnly

\* A key is looked up: free, another request's that is running, or one whose
\* email was taken, with this body or with another.
LookUpKey(i) ==
    /\ stage[i] = "request"
    /\ \/ /\ ~msg.keyed \/ key.state = "free"
          /\ SetStage(i, "processing")
          /\ key' = IF msg.keyed THEN [state |-> "running", by |-> i] ELSE key
          /\ UNCHANGED <<secured, reply>>
       \/ /\ msg.keyed /\ key.state = "running"
          /\ Ends(i, Reply(409, Concurrent))
          /\ UNCHANGED key
       \/ /\ msg.keyed /\ key.state = "done"
          /\ IF body[key.by] = body[i]
             THEN SetStage(i, "taken") /\ UNCHANGED <<secured, reply>>
             ELSE Ends(i, Reply(409, Invalid))
          /\ UNCHANGED key
    /\ UNCHANGED delivered
    /\ VendorOnly

Process(i) ==
    /\ stage[i] = "processing"
    /\ \/ /\ SetStage(i, "taken")
          /\ delivered' = delivered \union {i}
          /\ key' = IF msg.keyed THEN [state |-> "done", by |-> i] ELSE key
          /\ UNCHANGED <<secured, reply>>
       \/ /\ \E status \in {422, 500} : Ends(i, Reply(status, "error"))
          /\ key' = IF msg.keyed THEN [state |-> "free", by |-> 0] ELSE key
          /\ UNCHANGED delivered
    /\ VendorOnly

-----------------------------------------------------------------------------

\* The vendor took the message.  Its reply comes, or is lost, or cannot be read
\* (a success body without an id), or a gateway's 500 comes in its place.
Confirm(i) ==
    /\ stage[i] = "taken"
    /\ \E status \in IF config.sender = "smtp" THEN {0, 250} ELSE {0, 200, 500} :
         Ends(i, Reply(status, "taken"))
    /\ UNCHANGED <<key, delivered>>
    /\ VendorOnly

Exchange(i) == \/ StageSucceeds(i) \/ StageFails(i) \/ RelayTakes(i)
               \/ RequestFails(i) \/ LookUpKey(i) \/ Process(i)
               \/ Confirm(i)

\* Mutant: any conflict is about the message.
resendErrorIsTemporaryBut409(r) == r.status = 429 \/ r.status \in 500..599

resendErrorIsTemporary(r) ==
    \/ r.status = 429 \/ r.status \in 500..599
    \/ r.status = 409 /\ r.name # Invalid

\* Mutant: a conflict says that the email was sent before.
ClassifyConflictAsSent(r) ==
    CASE r.status \in 200..299 \union {409} -> "ok"
      [] config.sender = "smtp" /\ r.status \in 500..599 -> "permanent"
      [] config.sender = "resend" /\ r.status \notin {0} \union 200..299
         /\ ~resendErrorIsTemporary(r) -> "permanent"
      [] OTHER -> "temporary"

\* Mutant: what is not a 4xx is final.
ClassifyNoReplyAsFinal(r) ==
    CASE r.status \in 200..299 -> "ok"
      [] r.status \notin 400..499 -> "permanent"
      [] OTHER -> "temporary"

\* Send's sendFn and smtpResponseCode; post.  Without a reply: temporary.
Classify(r) ==
    CASE r.status \in 200..299 -> "ok"
      [] config.sender = "smtp" /\ r.status \in 500..599 -> "permanent"
      [] config.sender = "resend" /\ r.status \notin {0} \union 200..299
         /\ ~resendErrorIsTemporary(r) -> "permanent"
      [] OTHER -> "temporary"

Receive == /\ at = "vendor"
           /\ stage[attempt] = "ended"
           /\ SetStage(attempt, "none")
           /\ SendReturns(Classify(reply))
           /\ UNCHANGED <<fixed, cancelled, registry, retry, content, secured,
                          key, delivered, reply>>

\* transact's timer, the HTTP client's timeout or ctx: the exchange goes on by
\* itself.
StopWaiting ==
    /\ at = "vendor"
    /\ stage' = IF stage[attempt] = "ended"
                THEN [stage EXCEPT ![attempt] = "none"] ELSE stage
    /\ reply' = Reply(0, "timeout")
    /\ SendReturns("temporary")
    /\ UNCHANGED <<fixed, cancelled, registry, retry, content, secured, key,
                   delivered>>

-----------------------------------------------------------------------------
(* FullJitterBackoff and sendWithRetry *)

\* Two's complement.
Wrap(n) == ((n + 2^(Width - 1)) % 2^Width) - 2^(Width - 1)

Ceiling(max) == IF max <= 0 THEN DefaultMax ELSE max

\* What rand.Int63n is asked for, less one.  Mutant: the ceiling is only used
\* after an overflow.
JitterBoundUncapped(base, max, n) ==
    LET scaled == Wrap(base * 2^n)
    IN  IF n < Width - 2 /\ scaled > 0 THEN scaled ELSE Ceiling(max)

JitterBound(base, max, n) ==
    LET scaled == Wrap(base * 2^n)
    IN  IF n < Width - 2 /\ scaled > 0 /\ scaled < Ceiling(max)
        THEN scaled ELSE Ceiling(max)

\* rand.Int63n panics where bound+1 overflows, for a ceiling of MaxInt: then
\* there is no wait.
FullJitterBackoff(base, max, n) ==
    IF base <= 0 THEN {0} ELSE 0..(Wrap(JitterBound(base, max, n) + 1) - 1)

\* Mutant: attempts are counted from 0.
TriesOnceMore == outcome = "temporary" /\ attempt <= MaxAttempts
TriesAgain    == outcome = "temporary" /\ attempt < MaxAttempts

\* A message that expires before the next attempt is given up too; so is one
\* whose backoff panics.
Decide ==
    /\ at = "returned"
    /\ \/ /\ outcome = "ok"
          /\ at' = "sent"
          /\ UNCHANGED <<retry, reply>>
       \/ /\ outcome # "ok"
          /\ at' = "gaveup"
          /\ UNCHANGED <<retry, reply>>
       \/ /\ TriesAgain
          /\ at' = "waiting"
          /\ attempt' = attempt + 1
          /\ reply' = Reply(0, "none")
          /\ \E b \in Backoffs :
               /\ asked' = <<b[1], b[2], attempt - 1>>
               /\ wait' \in FullJitterBackoff(b[1], b[2], attempt - 1)
    /\ UNCHANGED <<fixed, cancelled, registry, content, exchange, outcome>>

\* The wait is over, and what was computed for it is gone.
Wake == /\ at = "waiting"
        /\ at' = "ready"
        /\ asked' = <<0, 0, 0>>
        /\ wait' = 0
        /\ UNCHANGED <<fixed, cancelled, registry, attempt, content, exchange,
                       reply, outcome>>

Cancel == /\ ~cancelled
          /\ cancelled' = TRUE
          /\ UNCHANGED <<fixed, registry, at, retry, content, exchange, reply,
                         outcome>>

-----------------------------------------------------------------------------

Next == \/ Begin \/ ExecutePart \/ ParseAddresses
        \/ CheckRateLimit \/ Call \/ Receive \/ StopWaiting
        \/ Decide \/ Wake
        \/ \E i \in Attempts : Exchange(i)
        \/ RegisterTemplate \/ Cancel

Spec == Init /\ [][Next]_vars

-----------------------------------------------------------------------------
(* Properties *)

TypeOK == /\ config \in Configs
          /\ msg \in Emails
          /\ cancelled \in BOOLEAN
          /\ registry \in 0..MaxVersion
          /\ at \in Places
          /\ attempt \in Attempts
          /\ compiled \in 0..MaxVersion
          /\ Len(rendered) <= 3
          /\ \A i \in Attempts : Len(body[i]) \in {0, 3}
          /\ stage \in [Attempts -> Stages]
          /\ secured \subseteq Attempts
          /\ reply.status \in Statuses
          /\ outcome \in {"ok", "temporary", "permanent"}
          /\ wait \in Nat
          /\ key.state \in {"free", "running", "done"}
          /\ delivered \subseteq Attempts

\* An email reported sent is at the vendor as the attempt that reports it
\* rendered it, complete: not one rendered from an earlier version that an
\* earlier attempt had sent with the same key.
SentAsRendered ==
    at = "sent" => \E i \in delivered : body[i] = body[attempt] /\ body[i] # <<>>

\* No copy mixes two versions of a template, however registrations fall between
\* the rendering of its parts.
CopiesAreWhole ==
    \A i \in delivered : \A p, q \in DOMAIN body[i] : body[i][p] = body[i][q]

\* A message is never refused for good on account of its own earlier attempt,
\* still running or taken with its reply lost, unless its content changed in
\* between.
NoSelfConflict ==
    (at \in {"returned", "gaveup"} /\ outcome = "permanent" /\ reply.status = 409)
        => \E i \in Attempts : body[i] \notin {<<>>, body[attempt]}

\* Nothing but the greeting and STARTTLS crosses an unprotected connection that
\* was to be protected, by choice or by default; and where plaintext was asked
\* for by its name, credentials cross it only if AllowInsecureAuth says so.  (A
\* mode that is neither, a misspelt one, is plaintext without a word: content
\* and, AllowInsecureAuth or not, credentials are in the clear.)
NothingInTheClear ==
    \A i \in Attempts \ secured :
        /\ stage[i] \in {"auth", "envelope", "content", "close"}
             => TLSMode \notin {"starttls", "implicit"}
        /\ stage[i] = "auth" /\ TLSMode = "insecure_no_tls" => config.allowInsecureAuth

\* retrystrategy.go: 2^62 "already exceeds any sane" wait.  With a ceiling beyond
\* it, later attempts are given the ceiling though base*2^62 may be less; with
\* the last one of all, MaxInt, they panic.
SaneCeilings ==
    \A b \in Backoffs : Ceiling(b[2]) <= 2^(Width - 2) \/ Ceiling(b[2]) = MaxInt

\* retrystrategy.go: "a value in [0, min(max, base*2^attempt)]", though the
\* product may overflow, to a negative value or to a small positive one: for
\* this attempt and any later one a caller may come to.
WaitInRange ==
    LET base == asked[1] max == asked[2] n == asked[3]
        InRange(w, k) == w >= 0 /\ w <= base * 2^k /\ w <= Ceiling(max)
    IN  /\ InRange(wait, n)
        /\ \A k \in n..Width : \A w \in FullJitterBackoff(base, max, k) : InRange(w, k)

-----------------------------------------------------------------------------
(* The promise: Delivery, with one message and a breaker that never opens *)

Message == IF msg.keyed THEN "keyed" ELSE "plain"

Of(value, default) ==
    [m \in {"keyed", "plain"} |-> IF m = Message THEN value ELSE default]

Abstraction(i) == CASE stage[i] \in {"none", "taken"} -> stage[i]
                    [] stage[i] = "ended"             -> Classify(reply)
                    [] OTHER                          -> "talking"

Promise == INSTANCE Delivery WITH
    Senders   <- {"smtp", "resend"},
    Messages  <- {"keyed", "plain"},
    Keyed     <- {"keyed"},
    MaxHalfOpenRequests <- 1,
    sender    <- config.sender,
    phase     <- "closed",
    calls     <- IF at = "vendor" THEN {Message} ELSE {},
    probes    <- {},
    at        <- Of(CASE at \in Rendering \union {"waiting"} -> "ready"
                      [] at \in {"recipient", "channel"}     -> "limits"
                      [] OTHER                               -> at, "ready"),
    attempt   <- Of(attempt, 1),
    tokens    <- Of(CASE at = "channel"               -> {"recipient"}
                      [] at \in {"breaker", "vendor"} -> {"recipient", "channel"}
                      [] OTHER                        -> {}, {}),
    outcome   <- Of(outcome, "temporary"),
    tx        <- Of([i \in Attempts |-> Abstraction(i)],
                    [i \in Attempts |-> "none"]),
    delivered <- Of(delivered, {})

\* The sessions and requests, with their codes, keys and contents, are no more
\* than the exchanges of Delivery: what is proved of those holds of this.
DeliveryImplemented == Promise!Spec

-----------------------------------------------------------------------------
(* What the documentation says, and the code does not do *)

\* smtp.go: "A 4xx reply, a dial or TLS failure, a timeout and an open breaker
\* are worth another attempt."  A relay that greets with a 5xx (a 554, a 521)
\* or answers STARTTLS with one fails the dial, and the error still carries the
\* reply.
DialFailureIsTemporary ==
    at = "returned" /\ reply.name \in {"dial", "starttls"} => outcome # "permanent"

=============================================================================
