# grpop in TLA+

grpop is a Go library that sends one email or one WhatsApp message per call:
through an SMTP relay, through Resend's API, or through Meta's Graph API. It
keeps no messages and retries nothing; what it does keep, and what callers on
many goroutines share, is a circuit breaker per sender and a cached list of
approved WhatsApp templates. This directory holds TLA+ models of those parts
and of a message's way through them, the TLC runs that check the models, and
TLAPS proofs of the main properties.

    tlc -config Breaker.cfg MCCircuitBreaker.tla
    tlapm CircuitBreakerProofs.tla

`PROJECT.json` lists the runs, which source lines each definition stands for,
the mutants that break each property, the hazards, and the theorems.

## The system

| component | source | state | operations |
|---|---|---|---|
| circuit breaker | `circuitbreaker.go` | state, failure count, trial slots, two clocks, under `cb.mu` | `Execute` (`beforeRequest`, the call, `afterRequest`), `Reset`, `GetStats` |
| template validator | `templatevalidator.whatsapp.go` | the last listing, when it was fetched, when one was last attempted, under `v.mu` | `Validate`, `Refresh` (`claimListing`, `snapshot`, `templateFits`) |
| SMTP sender | `dispatcher.email.smtp.go` | none kept; one goroutine and one channel per transaction | `Send`, `Dial`, `transact`, `doTransact` |
| Resend sender | `dispatcher.email.resend.go` | none kept; an idempotency key per message | `Send`, `post` |
| WhatsApp sender, Graph API client | `dispatcher.whatsapp.metacloud.go` | none kept; a cursor and a page count per listing | `Send`, `SendTemplateMessage`, `GetApprovedTemplates`, `metaTemplateInfo` |
| rate limits | `ratelimiter.go` | in the application's limiters | `checkRateLimits` |
| message checks | `payloadvalidator.go`, `dispatcher.email.go` | none | `validateEmailMessage`, `validateWhatsAppMessage`, `prepareEmail` |
| template engine | `templateengine.email.go` | a map of compiled templates under a lock | `RegisterTemplate`, `Render`, `RenderInline` |
| error classes | `errors.go` | none | `permanent` |
| backoff, the caller's retry loop | `retrystrategy.go`, `example/main.go` | attempt number, expiry | `FullJitterBackoff`, `sendWithRetry` |
| test senders | `memory.go`, `dryrun.go` | messages sent | `Send` |

A `Send` runs on its caller's goroutine, in this order: `ctx.Err`, the message
checks (and, for WhatsApp, the template validator), the recipient's rate limit,
the channel's, then the vendor call inside the breaker
(`executeThroughBreaker`), which turns a permanent failure into a success for
the breaker's count. Every error is permanent (`ErrPermanent`: no retry helps)
or temporary. Senders share the breaker, the limiters and the validator; the
validator calls the Graph API client.

What is hard here:

- a breaker call is two critical sections with a vendor call of any length
  between them: results arrive in states the breaker was not in when the call
  was let through, and counters are reset under calls in flight;
- a panic in the vendor call passes between the two sections;
- the validator lists templates with no lock held: listings overlap, fail, and
  are stored in another order than they were answered; a refusal is a
  permanent error, so a wrong one loses a message;
- an SMTP transaction that times out is abandoned, not stopped; an HTTP call
  given up may have been taken; replies get lost; a retry then sends again;
- permanent and temporary failures must be kept apart on all of those ways,
  for the caller's loop and for the breaker: also when a retry meets its own
  first request at Resend, or Meta says "busy" with a 400;
- the template of an email can be registered anew while a message is rendered
  from it, and between two attempts that carry one key;
- a listing is read in pages while templates change, with cursors that are
  Meta's to choose;
- what is read of a WhatsApp template, what is checked of a message and what the
  message is sent as are three pieces of code that must agree.

What makes each part correct:

- breaker: slots are accounted for exactly, stale results do not wear down the
  bookkeeping, an open period ends and is not extended, a healthy vendor is
  served again;
- validator: no message is refused without a listing that says so, listings
  are not more frequent than promised, approvals and revocations are seen;
- senders: "sent" means taken, "permanent" means not taken, a keyed message is
  taken once by Resend, the breaker hears of every call exactly once, every
  send ends; a copy is of one version of its template, and nothing crosses a
  connection that was to be protected and is not;
- listings: they end, and say of each template what was so at some instant;
- WhatsApp checks: what passes them is taken by Meta, what Meta would take passes,
  and every template has a message that does.

## The modules

| module | what it is |
|---|---|
| `BreakerContract` | what a sender may rely on from a breaker: phases and calls, no counters or clocks |
| `CircuitBreaker` | `standardCircuitBreaker`, called by any number of goroutines |
| `TemplateValidator` | `metaTemplateValidator`, with Meta approving and revoking one template |
| `Delivery` | messages through the retry loop, one of the three senders, its limiters and its breaker (`BreakerContract`) |
| `EmailSend` | one email in full: rendering, the SMTP session or the Resend request, the codes, the retry loop with its backoff |
| `TemplateSend` | one WhatsApp message from Meta's template to Meta's verdict |
| `TemplateListing` | `GetApprovedTemplates` against a Meta that changes and misbehaves |
| `MCCircuitBreaker`, `MCTemplateValidator`, `MCDelivery`, `MCEmailSend`, `MCTemplateSend`, `MCTemplateListing` | small instances for TLC |
| `CircuitBreakerProofs`, `TemplateValidatorProofs`, `DeliveryProofs`, `EmailSendProofs`, `EmailSendRefinement`, `TemplateSendProofs`, `TemplateListingProofs` | theorems |
| `InductionLemmas` | what the proofs need of induction: intervals, recursive functions, powers of two |

How they fit together:

    CircuitBreaker  --implements-->  BreakerContract  <--uses--  Delivery
    EmailSend       --implements-->  Delivery
    TemplateListing   shows what one answer to TemplateValidator's StartListing is
    TemplateSend      shows what TemplateValidator's verdict on a message rests on

`Delivery` is built on `BreakerContract`, so what it shows holds with the real
breaker's admission and trip decisions left open, a superset of what
`CircuitBreaker` does. `EmailSend` opens up what `Delivery` leaves to choice for
the two email senders (what `Prepare` refuses, how an exchange goes, which
reply is permanent) and implements it, with one message and a breaker that
stays closed. The two WhatsApp models meet `TemplateValidator` in what they
compute, not by refinement: `TemplateListing.AnswerIsARead` justifies that
`MetaAnswers` reads one template's state at one instant, and
`TemplateSend.templateFits` is the verdict that `list` is reduced to.

### CircuitBreaker

| model | code |
|---|---|
| `BeforeClosed`, `BeforeOpen`, `BeforeHalfOpen`, `Refuse` | the cases of `beforeRequest` |
| `AfterFailure`, `AfterSuccess` | `afterRequest(err)`, with `openCircuit`, `closeCircuit` |
| `Panic` | `fn` panics; `afterRequest` is not deferred |
| `Reset` | `Reset` |
| `inflight` | callers between `beforeRequest` and `afterRequest` |
| `sinceOpened`, `sinceFailure` | now minus `openedAt`, `lastFailureTime` |

`beforeRequest` and `afterRequest` hold `cb.mu` throughout, so each is one step.
Clocks are kept as ages, saturated at the first value that decides the
comparison they are used in (`>= Timeout`, `> ResetTimeout`), so nothing is lost
and the state is finite. `consecutiveFailures` is saturated at `MaxFailures`.
`trials`, `stale`, `leaked` and `streak` are history variables: no guard reads
them. `Execute`'s check of its context changes nothing and is in `Delivery`.

### TemplateValidator

| model | code |
|---|---|
| `BeginValidate`, `Check`, `Reclaim`, `Recheck` | `Validate`: first claim, check, second claim, second check |
| `Claim` | `claimListing`, granted |
| `BeginRefresh`, `StartListing`, `MetaAnswers`, `Store`, `ListingFails` | `Refresh`: called by the application, `attemptedAt`, the listing, the list stored or an error |
| `approved`, `Approve`, `Revoke` | Meta, for one template |
| `list` | `v.templates`, reduced to `checkTemplate`'s verdict on the messages |

`v.mu` is held in `claimListing`, twice in `Refresh`, and in `snapshot`; each is
one step. Meta's answer and its arrival are two steps (`MetaAnswers`, `Store`):
a template can change between them, and answers can overtake each other.

### Delivery

| model | code |
|---|---|
| `Prepare` | `ctx.Err`; `prepareEmail`, or `validateWhatsAppMessage` and `Validate` |
| `CheckRateLimit` | one round of `checkRateLimits`' loop |
| `Execute` | `Execute` up to `fn`: the context, then the breaker |
| `Take`, `Refuse`, `Confirm`, `LoseReply` | `doTransact`, `post`, `SendTemplateMessage` with `doJSON`, and the vendor |
| `Receive`, `StopWaiting` | `transact`'s `select`, or the HTTP client's return; then `executeThroughBreaker` and `Send`'s return |
| `Decide` | `sendWithRetry` |

An exchange is kept per attempt: one that is abandoned goes on beside the
next attempt's. A timeout may fire at any moment, also with the result there
(`select` takes either), and a message may expire at any moment, so no clock is
needed. Nothing is assumed of vendors: they may take a message and lose the
reply, answer late, or never. Resend's collapsing of requests with one key is
external, modelled from the key `post` sends, without its 24-hour limit: the
property says nothing of retries later than that. `Delivery` takes a sender
with both limiters and a breaker; without them `Send` has fewer steps. The
loop's `log.Fatalf` ends one message here, as in an application that sends
many; the example's loop takes email senders, and the model lets WhatsApp
messages be retried likewise.

### EmailSend

| model | code |
|---|---|
| `Begin` | `ctx.Err`, `validateEmailMessage`, `renderEmailContent` up to the first part; `Render` reads the map under its lock |
| `ExecutePart` | `executeEmailTemplate`: subject, HTML, text |
| `ParseAddresses` | `prepareEmail`'s `parseEmailAddress` calls |
| `RegisterTemplate` | `RegisterTemplate`, by the application, at any time |
| `CheckRateLimit`, `Call` | `checkRateLimits`; `Execute` and the start of `doTransact` or `post` |
| `StageSucceeds`, `StageFails`, `RelayTakes` | `realSMTPDialer.Dial` and `doTransact`: dial, STARTTLS, AUTH, envelope, content, close |
| `RequestFails`, `LookUpKey`, `Process` | Resend, as `post` and the comment on `resendErrorIsTemporary` use it |
| `Confirm` | the reply after the vendor took the message: it comes, is lost, or is a gateway's 500 |
| `Classify` | `smtpResponseCode` and `Send`'s use of it; `resendErrorIsTemporary` |
| `Receive`, `StopWaiting` | `transact`'s `select` or the HTTP client's return |
| `Decide`, `Wake` | `sendWithRetry` with `FullJitterBackoff` |

Content is the version of the template each of its three parts was rendered
from. A session that nobody waits for any more goes on by itself: the client's
connection has no deadline, so it may do so for as long as the relay lets it.
Durations are two's-complement integers of `Width` bits; where the bound of the
draw overflows, `rand.Int63n` panics, and the loop with it.

`TLSMode` is any string, as `NewSMTPDispatcher` takes it: "" is "starttls", and `Dial`
treats every string but "starttls" and "implicit" as plaintext. The instance has a
misspelt one. A failed write of the content never delivers: `net/smtp`'s writer, which
is external, keeps its error and does not send the final dot, so that half a message
is taken is not a behaviour of the model.

### TemplateSend

| model | code |
|---|---|
| `List` | `metaTemplateInfo` on what Meta lists, or no list at all |
| `Send` | `validateWhatsAppMessage`, then `templateFits` |
| `Answer` | `metaTemplateComponents`, and `doJSON` on Meta's answer |
| `MetaTakes` | Meta, as `types.go` and the comments of the checks describe it |

Nearly all of it is pure functions on records; a text is the sequence of its
placeholders. `MetaTakes` is the reference definition the three pieces of code
are compared with. It is written from the comments, with the placeholders and
buttons of the template itself and not from what `metaTemplateInfo` makes of
them. A value carries its placeholder's name, a URL button's too (`metaButton`), and
Meta's overload comes under every code that `metaTemporaryErrorCodes` has.

### TemplateListing

| model | code |
|---|---|
| `Read` | one round of the loop in `GetApprovedTemplates`, after `doJSON` |
| `OrderlyPage`, `DisorderlyPage` | a page that is what was asked for; any other |
| `RequestFails` | `doJSON`'s errors |
| `Change` | Meta's templates change between two pages |

`always` and `ever`, the templates approved all along and at some time, are
history variables, like `orderly` and `failing`.

## The runs

| run | instance | what it shows |
|---|---|---|
| `breaker` | 4 callers, `MaxFailures` 2, 2 trials, both times 2 | `TrialSlots`, `CountHonest`, `OpenPeriodNotExtended`, `Recovery`, `RefusedIsServed`, and that the contract is implemented |
| `breaker_overlap` | 3 callers, 1 trial | counterexample: two trials at once with a bound of one |
| `breaker_slow_failure` | 2 callers | counterexample: failures more than `ResetTimeout` apart open the breaker |
| `breaker_panic` | 3 callers, 1 trial | counterexample: `ErrTooManyRequests` with no trial in flight |
| `validator` | 2 callers, `TTL` 2, interval 1 | `NoGroundlessRefusal`, `OneListingPerInterval`, `ApprovalIsSeen`, `RevocationIsSeen` |
| `validator_old_list` | 2 callers, no failures | counterexample: refused on an old list |
| `validator_overwrite` | 2 callers, no failures | counterexample: a `Refresh` overwritten by an older answer |
| `delivery` | 2 messages (one keyed), 2 attempts, each sender | verdicts, limiters, the breaker's calls, `Decided` |
| `email` | 12 messages, 7 dispatchers (and one refused), 3 attempts, 2 registrations, 5-bit durations | content, keys, TLS, backoff, and that `Delivery` is implemented |
| `email_dial` | the same with 2 attempts | counterexample: a dial failure classed permanent |
| `template_send` | every header with every body, every row of buttons; messages of every shape, and with one thing wrong | `FitsMeansTaken`, `NoNeedlessRefusal`, `EveryTemplateSendable` |
| `template_listing` | 4 places, pages of 1, at most 3 pages | `AnswerIsARead`, `FailsOnlyForCause`, `Ends` |

Why the bounds are enough.

- Breaker: four callers give two trials, a call left over from an earlier state
  and one more, which is what the counter's argument needs; a threshold of 2
  makes one failure differ from enough, and clocks of 2 leave a value strictly
  inside each interval.
- Validator: with two callers listings overlap, with each other and with a
  `Refresh`; `TTL` is above the interval so that both limits act. A third caller
  adds no kind of overlap, and the proofs of the safety properties hold for any
  number.
- Delivery: two attempts are enough for an abandoned exchange to run beside its
  successor, two messages for one to meet the other's breaker states.
- Email: three attempts let two abandoned exchanges run beside a third, with
  one key and the contents of up to three registry states; the messages differ
  from a good one in at most one field, since `prepareEmail` stops at the first
  failure. With 5 bits, `9 * 2` wraps to a negative product and `9 * 4` to a small
  positive one, below the ceiling of 5 (`WaitInRange` also looks at the attempts
  after the third), a `max` of 0 stands for the default ceiling, and with one of 15,
  the largest duration, the second draw panics. From attempt 62 on the bound is the
  ceiling alone; only a ceiling above 2^62 ns (146 years) could then be above
  `base*2^attempt`. `SaneCeilings` excludes those but the last, `MaxInt64`, with which
  `rand.Int63n` panics; `MCEmailSend` assumes that of the run, and the theorem has it as
  a hypothesis. The dispatchers have the three TLS modes, the default and an unknown one.
- TemplateSend: texts have up to two placeholders, numbers or names, repeated or
  not; buttons of named templates have a name too; a template has up to two buttons, which is what the index, the count and
  "each at most once" need.
- TemplateListing: four places and three pages leave a listing that fits, one
  that fits exactly and one that is too long; more templates per page only
  group places together.

`Delivery`'s messages are not symmetric: one has a key. The runs of `delivery`,
`email`, `template_send` and `template_listing` allow deadlock because these do
stop: a message decided, a listing over.

### Fairness

- `CircuitBreaker`: time passes (`Tick`), every call returns (each vendor call has
  a timeout) or panics, and callers keep sending. `Recovery` and `RefusedIsServed`
  assume that failures stop, and that the trials of a half-open period return
  rather than panic; `Reset` is never required.
- `TemplateValidator`: time passes, each step of a call in progress is in the end
  taken (Graph API calls have a timeout), callers keep sending. The properties
  assume that listings stop failing and that Meta's decision lasts.
- `Delivery`: each message's goroutine runs. Nothing is required of the vendor or of
  the exchanges: `transact`'s timer alone ends the wait.
- `TemplateListing`: a request in progress ends (the HTTP client has a timeout), with
  a page of any kind or with an error. Nothing is required of the pages: that
  the listing ends is the page limit's doing.
- `EmailSend` and `TemplateSend` state no fairness: their properties are all of safety.

### What the code does that the documentation does not say

Six runs end in a counterexample, each to a sentence quoted in `PROJECT.json`
under "findings".

1. `types.go:291` says `MaxHalfOpenRequests` bounds *concurrent* trials. A stale
   failure reopens the breaker while a trial is out; the next half-open
   period starts a new count.
2. `types.go:288` and `README.md:161` say the failure count resets after
   `ResetTimeout` without a failure. It resets when a call *starts* after that; a
   slow call that fails later adds to the old count.
3. `circuitbreaker.go:16` says `ErrTooManyRequests` means the trials are in
   flight. After a panic in a trial there may be none, and the breaker stays so
   until `Reset` or the return of some earlier call.
4. `interfaces.go:108` says a newly approved template is refused for the minimum
   interval at most. A call that is denied its second look because another's
   listing is under way refuses on a list of any age.
5. `interfaces.go:120` recommends `Refresh` after registering a template. A slower
   listing, answered earlier, can overwrite what `Refresh` stored.
6. `dispatcher.email.smtp.go:235` and `README.md:286` call a dial or TLS failure
   temporary. `Send` looks for a 5xx reply in the whole error chain, and the
   errors of `smtp.NewClient` and `StartTLS` hold one: a relay that greets with
   554, or answers STARTTLS with a 5xx, fails the send for good.

Other disagreements met while modelling, which no run is spent on. The largest is that
of an unknown `TLSMode`: `docs/plan/grpop-plan.md:953` says that plaintext exists "only
for the local Mailpit/MailHog test container" and "credentials over plaintext should
require two deliberate opt-ins, not one", but `NewSMTPDispatcher` (`dispatcher.email.smtp.go:157-162`)
looks for "insecure_no_tls" only, and `Dial` (435-455) treats every mode it does not know
as plaintext: with "STARTTLS" (`example/main.go:141` reads the mode from the environment)
a session goes unprotected with no opt-in. `NothingInTheClear` is about the modes that
protect, and says so. The rest: the comment at
`dispatcher.email.smtp.go:330-333` says that nothing is done with the reply's code,
which line 238 does since; a next link without a cursor ends a listing as
complete; what passes both WhatsApp checks and is refused by Meta all the same
is listed in `TemplateSend.BeyondTheChecks` (a GIF header, a name on the header's
value of a positional template, a URL value for a one-time code's button, a name on
a URL's value that is not its placeholder's, or none where it has one: `types.go:201-203`
says which it has to be, and no check looks); a
template that uses one name in its header and its body has no message that passes
the checks (`Nameable` excludes it); `ErrEmailTemplateNotFound` is permanent though
a later registration would cure it; the loop of the example does not look at
the message's expiry before its first attempt; from attempt 62 on `FullJitterBackoff` may
wait longer than `base*2^attempt`, for a base of 1 ns and a ceiling beyond 2^62 ns
(`SaneCeilings` excludes it).

## The proofs

Every invariant and every action property of the passing runs is a theorem, and so
are the two refinements (`ContractImplemented`, `DeliveryImplemented`). All theorems hold for every value of the constants allowed
by the assumptions in the modules: positive limits and times; finitely many callers
of the breaker (cardinalities are taken); for `EmailSend`, that a dispatcher is one of
the two (its TLS mode may be any string) and durations fit their width; for `TemplateSend`, that templates are such as Meta approves
(`TemplatesAssumption`: at most one placeholder in a header, numbers or names and not
both, ten buttons at most, with names only in the URLs of named templates) and messages such as the types can hold
(`MessagesAssumption`). TLC evaluates these assumptions in each run. Two theorems have
a hypothesis of their own: `WaitsInRange` `SaneCeilings`, which the `email` run's
instance satisfies, and `SomethingToSend` that `Messages` holds the messages with nothing
wrong (`SimpleMessages`), since it says that one of them can be sent.

**InductionLemmas.** The library's induction theorems take the formula as an operator,
which the provers cannot instantiate. With a set in its place, induction over `0..n`
follows from the theorems on finite sets: a set closed under successor with a gap would
be mapped into itself one to one, yet not onto. From that follows that a function may be
defined by recursion over an interval (`RecursionExists`), which is what lets a proof unfold
`templatePlaceholders`. Powers of two are counted as subsets.

**CircuitBreakerProofs.** `TypeOK /\ TrialSlots /\ CountHonest` is inductive.
`TrialSlots` is the heart: `halfOpenRequests` is never decremented, and is right
only because any return in half-open ends the period and makes everything in
flight stale; the types (`trials` and `stale` within `inflight`) are what lets
the cardinality step by one. From the invariant follow
`OpenPeriodNotExtended` and the refinement `Spec => ContractImplemented`, one
lemma for calls let through and one for returns.

**TemplateValidatorProofs.** `NoGroundlessRefusal` needs `Evidence`: whatever says
"without" (the list, an answer on its way, a caller about to refuse) implies
that Meta has lacked the template; and a caller in its second look, or about
to ask for one, has seen such a list. `OneListingPerInterval` needs
`ClaimIsAttempt`: the time since an attempt is at most the time since a claim,
because each claim records an attempt in the same critical section.

**DeliveryProofs.** What a caller is told is decided by an exchange it no longer
sees, so the verdicts are not inductive alone. `Tidy` says that an attempt not
yet at the vendor has left nothing there; `GroundsOfStage` what each stage of an
exchange says about the vendor; `GroundsOfVerdict` what each result of `Send`
does; `Undecided` that a message on its way has had no verdict; `OneCopy` that
Resend has one copy at most. With `TokensInOrder` and `BreakerKnowsCalls` they
are inductive. `OpensOnlyOnTemporary` and `NoCallAfterVerdict` follow as properties of a step.

**EmailSendProofs.** A verdict rests on the last reply, and a reply on what the
vendor holds, which goes on changing. `GroundsOfReply` says what each reply
means for the body of the attempt it belongs to: a 2xx that the vendor holds a
copy with that body, a 409 "invalid" that another attempt had another body. It
holds at every moment because nothing the vendor holds is taken back, and a
body only changes while there is no reply. `GroundsOfStage` says the same of an exchange
that is "taken" and a key that is "done"; `Filled` where a body is there at all; and
`Whole` that the parts rendered so far are of one version, because the version is
fixed when `Render` reads the map. `NothingInTheClear` is inductive with the types, for
any mode: the argument is the order of the stages (`AfterStage`), and where that goes
past STARTTLS, that `Secures` or the mode says why.

`TypeOK` follows with `Bounded`, the ranges no other proof needs. `WaitInRange` rests on
what `FullJitterBackoff` returns for each `base`, `max` and `attempt` (`BoundInRange`). The code
tests the product after it may have wrapped. If the wrapped value passes, it is the
bound: positive, it is at most the product. If it fails, the bound is the ceiling, and
the product is no less: it did not wrap and is at least the ceiling, or it wrapped and is
beyond every duration. From attempt `Width - 2` on nothing is tested, and `SaneCeilings` says
that the ceiling is no more than the product there, or is `MaxInt`: then nothing is drawn
(`WrapBounds`).

**EmailSendRefinement.** `Spec => DeliveryImplemented`: rendering and the SMTP commands are
stutters of `Delivery`, and one lemma for each other action names the step of
the promise it is. Two more facts are inductive for it. `VendorOfStage`: an SMTP stage is a
session of the SMTP sender, an HTTP stage a request to Resend. `KeyAccounts`: with a key,
what Resend holds makes the key "done", and only the request the key belongs to is
processed; without it a second request could be taken as a second copy, which
`Delivery` does not allow. So what `DeliveryProofs` proves of a message (`SentMeansTaken`,
`PermanentNotTaken`, `TakenOnce`, ...) holds of an email with its codes and keys. The prover
cannot cite the theorems of an instance, so that last step is the reader's, but for
`TakenOnce`: `KeyedEmailTakenOnce` proves it of the email directly, from `KeyAccounts`.

**TemplateSendProofs.** The invariant says that the list entry is the template's and that
what is sent passed the checks; the rest is about the functions. `Placeholders` is the
induction: what `templatePlaceholders` makes of a text has the text's names, each once, so
counting them counts what Meta asks for. `HeaderFitsIffTaken`, `BodyFitsIffTaken` and
`ButtonTakenIff` compare check and Meta part by part, in both directions, with what is
beyond the check named at each; they give `FitsMeansTaken` and `NoNeedlessRefusal`.
`EveryTemplateSendable` needs witnesses: a header, a body and a row of buttons for every
template (`HasHeader`, `HasBody`, `HasButtons`), whose names together are valid (`HasNames`).

**TemplateListingProofs.** `ReadToCursor`: while Meta is orderly, everything approved
all along up to the cursor is listed, nothing listed is beyond it, and every
page read was full. The last part is what makes `FailsOnlyForCause` hold: a
cursor that repeats cannot come of a page with a next link, since that page has
a template beyond the cursor.

Only model-checked:

- liveness, which rests on fairness and ENABLED: `Recovery` and `RefusedIsServed` of the
  breaker, `ApprovalIsSeen` and `RevocationIsSeen` of the validator, `Decided` of a
  delivery, `Ends` of a listing;
- the six counterexamples.

## Not modelled

- Message texts: MIME, JSON, headers, the formats of addresses, masking, logging.
  None has state or feeds a decision of the models; what is wrong with a text or
  an address is a mark on it (`fault`, "bad").
- What Go's template packages do with a template. Its registry and the order of
  rendering are in `EmailSend`.
- The constructors, but for the refusal of plaintext credentials.
- The test senders (`memory.go`, `dryrun.go`): nothing of the library uses them.
- The limiters: they belong to the application; here they allow, refuse or
  fail.
- The breaker's totals and `GetStats`, apart from the time until the next
  attempt.
- Resend's 24-hour limit on keys, and the time a message expires at: both are a
  choice, or left out, as said above.

## What is left

1. `TemplateListing` joined to `TemplateValidator` by refinement, for several templates.
2. A template that changes between the check of a message and its send: `TemplateSend`
   keeps the template fixed, so what it says is of a template that lasts.
3. The safety half of the liveness properties as theorems: that no reachable state is
   one the breaker or a delivery cannot leave.
