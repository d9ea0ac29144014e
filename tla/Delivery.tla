------------------------------- MODULE Delivery -------------------------------
(***************************************************************************)
(* Messages on their way: each is sent by its own goroutine running a      *)
(* retry loop (example/main.go: sendWithRetry) around one sender, which    *)
(* all share with its rate limiters and its circuit breaker:               *)
(*                                                                         *)
(*   "smtp"    dispatcher.email.smtp.go: transact races a goroutine that   *)
(*             talks SMTP with a timer and the context, and abandons it;   *)
(*   "resend"  dispatcher.email.resend.go: an HTTP call with a deadline,   *)
(*             carrying the message's idempotency key;                     *)
(*   "meta"    dispatcher.whatsapp.metacloud.go: an HTTP call, after the   *)
(*             template validator has had its say.                         *)
(*                                                                         *)
(* The breaker is BreakerContract, which CircuitBreaker implements.  The   *)
(* vendor is external: it may take a message and lose the reply, answer    *)
(* long after the sender stopped waiting, or never.  An HTTP call given up *)
(* may be at the vendor all the same, so the three share the states of an  *)
(* attempt.  Time is abstract: a timeout may fire, and a message expire, at *)
(* any moment.  An application would retry WhatsApp messages the same way. *)
(***************************************************************************)
EXTENDS Naturals, FiniteSets

CONSTANTS Senders,              \* the senders an application may have made
          Messages,
          Keyed,                \* those with an IdempotencyKey
          MaxAttempts,          \* maxAttempts of sendWithRetry
          MaxHalfOpenRequests   \* of the breaker

ASSUME SendersAssumption == Senders \subseteq {"smtp", "resend", "meta"}
ASSUME KeyedAssumption == Keyed \subseteq Messages
ASSUME MaxAttemptsAssumption == MaxAttempts \in Nat \ {0}

Attempts == 1..MaxAttempts

VARIABLES
    sender,      \* which one this application made
    phase,       \* the breaker, as in BreakerContract
    calls,
    probes,
    at,          \* where each message's goroutine is
    attempt,     \* the attempt it is at
    tokens,      \* the limiters that let the send in progress pass
    outcome,     \* what Send returned last
    tx,          \* each attempt's exchange with the vendor
    delivered,   \* the attempts whose copy the vendor took
    cancelled    \* ctx is done

breaker == <<phase, calls, probes>>
vendor  == <<tx, delivered>>
vars    == <<sender, breaker, at, attempt, tokens, outcome, vendor, cancelled>>

Limiters == {"recipient", "channel"}
Places   == {"ready", "limits", "breaker", "vendor", "returned", "sent",
             "gaveup"}
Results  == {"ok", "temporary", "permanent"}
Stages   == {"none", "talking", "taken"} \union Results

Breaker == INSTANCE BreakerContract WITH Callers <- Messages

-----------------------------------------------------------------------------

Init == /\ sender \in Senders
        /\ Breaker!Init
        /\ at = [m \in Messages |-> "ready"]
        /\ attempt = [m \in Messages |-> 1]
        /\ tokens = [m \in Messages |-> {}]
        /\ outcome = [m \in Messages |-> "temporary"]
        /\ tx = [m \in Messages |-> [i \in Attempts |-> "none"]]
        /\ delivered = [m \in Messages |-> {}]
        /\ cancelled = FALSE

Go(m, place) == at' = [at EXCEPT ![m] = place]

\* Send returns.
SendReturns(m, result) == /\ Go(m, "returned")
                          /\ outcome' = [outcome EXCEPT ![m] = result]
                          /\ tokens' = [tokens EXCEPT ![m] = {}]

-----------------------------------------------------------------------------
(* Send, up to the vendor *)

\* ctx.Err; then prepareEmail, or validateWhatsAppMessage and the template
\* validator, whose failures are all permanent.  ctx may be done just after it
\* was looked at.  (A template may be registered or approved anew between two
\* attempts, so a later one may end differently.)
Prepare(m) ==
    /\ at[m] = "ready"
    /\ \/ cancelled /\ SendReturns(m, "temporary")
       \/ SendReturns(m, "permanent")
       \/ Go(m, "limits") /\ UNCHANGED <<tokens, outcome>>
    /\ UNCHANGED <<sender, breaker, attempt, vendor, cancelled>>

\* checkRateLimits asks the recipient's bucket first.  Mutant: the channel's.
ChannelFirst == "channel"
FirstLimiter == "recipient"

NextLimiter(m) == IF tokens[m] = {} THEN FirstLimiter
                  ELSE CHOOSE k \in Limiters : k # FirstLimiter

\* One limiter is asked: it spends a token, refuses, or fails.
CheckRateLimit(m) ==
    /\ at[m] = "limits"
    /\ \/ /\ tokens' = [tokens EXCEPT ![m] = @ \union {NextLimiter(m)}]
          /\ Go(m, IF tokens[m] = {} THEN "limits" ELSE "breaker")
          /\ UNCHANGED outcome
       \/ SendReturns(m, "temporary")
    /\ UNCHANGED <<sender, breaker, attempt, vendor, cancelled>>

\* ErrCircuitOpen or ErrTooManyRequests.
BreakerRefuses ==
    \/ phase = "cooling"
    \/ phase = "half_open" /\ Cardinality(probes) >= MaxHalfOpenRequests

\* CircuitBreaker.Execute, up to fn.
Execute(m) ==
    /\ at[m] = "breaker"
    /\ \/ /\ cancelled \/ BreakerRefuses
          /\ SendReturns(m, "temporary")
          /\ UNCHANGED <<breaker, tx>>
       \/ /\ ~cancelled
          /\ Breaker!Pass(m) \/ Breaker!Probe(m)
          /\ tx' = [tx EXCEPT ![m][attempt[m]] = "talking"]
          /\ Go(m, "vendor")
          /\ UNCHANGED <<tokens, outcome>>
    /\ UNCHANGED <<sender, attempt, delivered, cancelled>>

-----------------------------------------------------------------------------
(* The exchange with the vendor: doTransact, post, SendTemplateMessage *)

Stage(m, i, stage) == tx' = [tx EXCEPT ![m][i] = stage]

\* The result goes to the caller that waits for it; one nobody waits for any
\* more stays in resultCh, and is never read.
Awaited(m, i) == at[m] = "vendor" /\ attempt[m] = i
Ends(m, i, result) == Stage(m, i, IF Awaited(m, i) THEN result ELSE "none")

VendorOnly == UNCHANGED <<sender, breaker, at, attempt, tokens, outcome, cancelled>>

\* What a copy carries for its receiver to know it by: the Message-ID, or the
\* Idempotency-Key header.  Mutant: each attempt has its own.
FreshIdentity(m, i) == i
Identity(m, i) == IF m \in Keyed THEN 0 ELSE i

\* Resend sends one email for all requests with a key (external).
Collapsed(m, i) ==
    /\ sender = "resend"
    /\ m \in Keyed
    /\ \E j \in delivered[m] : Identity(m, j) = Identity(m, i)

\* The vendor takes the message: the end of DATA, or the request processed.
Take(m, i) ==
    /\ tx[m][i] = "talking"
    /\ Stage(m, i, "taken")
    /\ delivered' = IF Collapsed(m, i) THEN delivered
                    ELSE [delivered EXCEPT ![m] = @ \union {i}]
    /\ VendorOnly

\* It cannot be reached, or refuses: for now (4xx, 429, 5xx of an API) or for
\* good (an SMTP 5xx, another HTTP refusal).
Refuse(m, i) ==
    /\ tx[m][i] = "talking"
    /\ \E result \in {"temporary", "permanent"} : Ends(m, i, result)
    /\ UNCHANGED delivered
    /\ VendorOnly

\* Mutant: the sender does not wait for the reply to the message.
ConfirmEarly(m, i) ==
    /\ tx[m][i] \in {"talking", "taken"}
    /\ Ends(m, i, "ok")
    /\ UNCHANGED delivered
    /\ VendorOnly

Confirm(m, i) ==
    /\ tx[m][i] = "taken"
    /\ Ends(m, i, "ok")
    /\ UNCHANGED delivered
    /\ VendorOnly

\* Mutant: a reply that cannot be read is taken for a refusal.
LoseReplyForGood(m, i) ==
    /\ tx[m][i] = "taken"
    /\ Ends(m, i, "permanent")
    /\ UNCHANGED delivered
    /\ VendorOnly

\* The vendor took it, and its reply is lost or makes no sense.
LoseReply(m, i) ==
    /\ tx[m][i] = "taken"
    /\ Ends(m, i, "temporary")
    /\ UNCHANGED delivered
    /\ VendorOnly

Exchange(m, i) == \/ Take(m, i)
                  \/ Refuse(m, i)
                  \/ Confirm(m, i)
                  \/ LoseReply(m, i)

-----------------------------------------------------------------------------
(* Send, after the vendor *)

\* executeThroughBreaker: what the breaker is told.  Mutant: of every error.
CountsAnyError(result) == result # "ok"
CountsAsFailure(result) == result = "temporary"

\* afterRequest, and Send returns.
Finish(m, result) ==
    /\ IF CountsAsFailure(result) THEN Breaker!Fail(m) ELSE Breaker!Succeed(m)
    /\ SendReturns(m, result)
    /\ UNCHANGED <<sender, attempt, delivered, cancelled>>

\* An exchange that has ended is done with; another goes on by itself.
Forget(m) == IF tx[m][attempt[m]] \in Results
             THEN Stage(m, attempt[m], "none")
             ELSE UNCHANGED tx

Receive(m) == /\ at[m] = "vendor"
              /\ tx[m][attempt[m]] \in Results
              /\ Finish(m, tx[m][attempt[m]])
              /\ Forget(m)

\* Mutant: only the context ends the wait.
StopWaitingIfCancelled(m) == /\ at[m] = "vendor"
                             /\ cancelled
                             /\ Finish(m, "temporary")
                             /\ Forget(m)

\* Mutant: the breaker is not told of a timeout.
StopWaitingUnreported(m) ==
    /\ at[m] = "vendor"
    /\ SendReturns(m, "temporary")
    /\ Forget(m)
    /\ UNCHANGED <<sender, breaker, attempt, delivered, cancelled>>

\* The timer fires, or ctx is done, before the result comes or with it: select
\* takes any of those that are ready.
StopWaiting(m) == /\ at[m] = "vendor"
                  /\ Finish(m, "temporary")
                  /\ Forget(m)

-----------------------------------------------------------------------------
(* sendWithRetry *)

\* Mutant: a permanent failure is tried again.
TriesAgainAfterAny(m) == outcome[m] # "ok" /\ attempt[m] < MaxAttempts
\* Mutant: attempts are counted from 0.
OneTooMany(m) == outcome[m] = "temporary" /\ attempt[m] <= MaxAttempts
TriesAgain(m) == outcome[m] = "temporary" /\ attempt[m] < MaxAttempts

\* (The loop may give up after a temporary failure too, when the message would
\* have expired by the next attempt.)
Decide(m) ==
    /\ at[m] = "returned"
    /\ \/ /\ outcome[m] = "ok"
          /\ Go(m, "sent")
          /\ UNCHANGED attempt
       \/ /\ outcome[m] # "ok"
          /\ Go(m, "gaveup")
          /\ UNCHANGED attempt
       \/ /\ TriesAgain(m)
          /\ Go(m, "ready")
          /\ attempt' = [attempt EXCEPT ![m] = @ + 1]
    /\ UNCHANGED <<sender, breaker, tokens, outcome, vendor, cancelled>>

-----------------------------------------------------------------------------
(* The environment *)

Cancel == /\ ~cancelled
          /\ cancelled' = TRUE
          /\ UNCHANGED <<sender, breaker, at, attempt, tokens, outcome, vendor>>

\* The breaker's timeout passes, or an operator resets it.
BreakerMoves == /\ Breaker!CoolDown \/ Breaker!Reset
                /\ UNCHANGED <<sender, at, attempt, tokens, outcome, vendor,
                               cancelled>>

-----------------------------------------------------------------------------

\* What message m's goroutine does next.
Progress(m) == \/ Prepare(m)
               \/ CheckRateLimit(m)
               \/ Execute(m)
               \/ Receive(m)
               \/ StopWaiting(m)
               \/ Decide(m)

Next == \/ \E m \in Messages : Progress(m)
        \/ \E m \in Messages, i \in Attempts : Exchange(m, i)
        \/ Cancel
        \/ BreakerMoves

Spec == Init /\ [][Next]_vars

\* The goroutines run and the timer fires; the vendor owes nothing.
FairSpec == Spec /\ \A m \in Messages : WF_vars(Progress(m))

-----------------------------------------------------------------------------
(* Properties *)

TypeOK == /\ sender \in Senders
          /\ phase \in {"closed", "cooling", "ready", "half_open"}
          /\ calls \subseteq Messages
          /\ probes \subseteq Messages
          /\ at \in [Messages -> Places]
          /\ attempt \in [Messages -> Attempts]
          /\ tokens \in [Messages -> SUBSET Limiters]
          /\ outcome \in [Messages -> Results]
          /\ tx \in [Messages -> [Attempts -> Stages]]
          /\ delivered \in [Messages -> SUBSET Attempts]
          /\ cancelled \in BOOLEAN

\* A send that the recipient's limiter refuses costs the channel no token, and
\* no send reaches the breaker without both.
TokensInOrder ==
    \A m \in Messages :
        /\ "channel" \in tokens[m] => "recipient" \in tokens[m]
        /\ at[m] \in {"breaker", "vendor"} => tokens[m] = Limiters

\* The breaker knows of exactly the calls that are waited for: every way out of
\* a call, a timeout and a cancellation included, is reported to it once.
BreakerKnowsCalls == calls = {m \in Messages : at[m] = "vendor"}

\* README: "A run of bad addresses never opens the breaker on the good messages
\* behind them."  What opens it is a temporary failure of a call.
OpensOnlyOnTemporary ==
    [][phase # "cooling" /\ phase' = "cooling"
         => \E m \in Messages : /\ at[m] = "vendor"
                                /\ at'[m] = "returned"
                                /\ outcome'[m] = "temporary"]_vars

\* A message reported sent is one the vendor took.
SentMeansTaken ==
    \A m \in Messages : at[m] = "sent" => delivered[m] # {}

\* A send that failed for good was not taken in that attempt, and stays not
\* taken: a permanent failure is never a lost reply.  (An earlier attempt that
\* timed out may have been taken.)
PermanentNotTaken ==
    \A m \in Messages :
        at[m] \in {"returned", "gaveup"} /\ outcome[m] = "permanent"
            => attempt[m] \notin delivered[m]

\* Resend takes a keyed message once, however often it is sent and whatever
\* becomes of the replies.
TakenOnce ==
    sender = "resend" => \A m \in Keyed : Cardinality(delivered[m]) <= 1

\* A call to the vendor is a message's first, or follows a temporary failure:
\* never a verdict, on whatever way Send and the loop came by it.
NoCallAfterVerdict ==
    [][\A m \in Messages : at[m] # "vendor" /\ at'[m] = "vendor"
         => outcome[m] = "temporary"]_vars

\* Every message is decided, even by a vendor that never answers.
Decided == \A m \in Messages : <>(at[m] \in {"sent", "gaveup"})

=============================================================================
