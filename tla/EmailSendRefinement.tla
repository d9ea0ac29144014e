------------------------- MODULE EmailSendRefinement -------------------------
(***************************************************************************)
(* EmailSend implements Delivery (DeliveryImplemented): one lemma for each *)
(* action says which step of the promise it is.  Beside the invariant of   *)
(* EmailSendProofs it needs to know which vendor an exchange is with, and  *)
(* that the key at Resend accounts for what Resend has taken.  The latter  *)
(* also gives the promise about keys directly.                             *)
(***************************************************************************)
EXTENDS EmailSendProofs, FiniteSetTheorems

VendorOfStage ==
    \A i \in Attempts : /\ stage[i] \in SMTPStages => config.sender = "smtp"
                        /\ stage[i] \in HTTPStages => config.sender = "resend"

\* Of requests with one key, one is processed at a time, and none once it is
\* done.
KeyAccounts ==
    config.sender = "resend" /\ msg.keyed =>
        /\ delivered # {} => key.state = "done"
        /\ \A i \in Attempts : stage[i] = "processing" =>
             key.state = "running" /\ key.by = i

RInv == IInv /\ VendorOfStage /\ KeyAccounts

-----------------------------------------------------------------------------

\* The conjuncts that RInv adds hold at first.
LEMMA InitRInv == Init => VendorOfStage /\ KeyAccounts
BY DEF Init, VendorOfStage, KeyAccounts, SMTPStages, HTTPStages

\* A step that leaves the exchanges alone, or takes one of them out.
LEMMA FewerStages ==
    ASSUME RInv, UNCHANGED <<fixed, key, delivered>>, NEW k \in Attempts,
           stage' = [stage EXCEPT ![k] = "none"] \/ stage' = [stage EXCEPT ![k] = "ended"]
           \/ stage' = stage
    PROVE  VendorOfStage' /\ KeyAccounts'
<1>1. \A i \in Attempts : stage'[i] \in SMTPStages \union HTTPStages => stage'[i] = stage[i]
  BY DEF RInv, IInv, Types, SMTPStages, HTTPStages
<1>2. VendorOfStage'
  BY <1>1 DEF RInv, VendorOfStage, fixed
<1>3. KeyAccounts'
  BY <1>1 DEF RInv, KeyAccounts, fixed, HTTPStages
<1> QED BY <1>2, <1>3

\* A call begins with the vendor of its sender.
LEMMA CallKeeps == ASSUME RInv, Call PROVE VendorOfStage' /\ KeyAccounts'
<1> USE DEF RInv, IInv, Types, fixed
<1>0. attempt \in Attempts /\ config.sender \in {"smtp", "resend"}
  BY ConfigsAssumption
<1>1. CASE UNCHANGED stage
  BY <1>1 DEF Call, VendorOfStage, KeyAccounts
<1>2. CASE stage' = [stage EXCEPT ![attempt] =
                        IF config.sender = "smtp" THEN "dial" ELSE "request"]
  <2>1. VendorOfStage'
    BY <1>0, <1>2 DEF Call, VendorOfStage, SMTPStages, HTTPStages
  <2>2. KeyAccounts'
    BY <1>0, <1>2 DEF Call, KeyAccounts
  <2> QED BY <2>1, <2>2
<1> QED BY <1>1, <1>2 DEF Call

LEMMA StageSucceedsKeeps ==
    ASSUME RInv, NEW k \in Attempts, StageSucceeds(k) PROVE VendorOfStage' /\ KeyAccounts'
<1> USE DEF RInv, IInv, Types, fixed, VendorOnly, SetStage
<1>1. stage[k] \in SMTPStages /\ stage' = [stage EXCEPT ![k] = AfterStage(stage[k])]
  BY DEF StageSucceeds
<1>2. AfterStage(stage[k]) \in SMTPStages
  BY DEF StageSucceeds, AfterStage, Credentials, SMTPStages
<1>3. VendorOfStage'
  BY <1>1, <1>2 DEF StageSucceeds, VendorOfStage, SMTPStages, HTTPStages
<1>4. KeyAccounts'
  BY <1>1, <1>2 DEF StageSucceeds, KeyAccounts, SMTPStages
<1> QED BY <1>3, <1>4

\* An exchange that ends leaves the vendor.
LEMMA EndsStage ==
    ASSUME RInv, NEW k \in Attempts, NEW r, Ends(k, r)
    PROVE  stage' = [stage EXCEPT ![k] = "none"] \/ stage' = [stage EXCEPT ![k] = "ended"]
BY DEF Ends, SetStage

LEMMA RelayTakesKeeps ==
    ASSUME RInv, NEW k \in Attempts, RelayTakes(k) PROVE VendorOfStage' /\ KeyAccounts'
<1> USE DEF RInv, IInv, Types, fixed, VendorOnly, SetStage
<1>1. config.sender = "smtp"
  BY DEF RelayTakes, VendorOfStage, SMTPStages
<1>2. VendorOfStage'
  BY DEF RelayTakes, VendorOfStage, SMTPStages, HTTPStages
<1> QED BY <1>1, <1>2 DEF RelayTakes, KeyAccounts

\* A request is processed under a free key only.
LEMMA LookUpKeyKeeps ==
    ASSUME RInv, NEW k \in Attempts, LookUpKey(k) PROVE VendorOfStage' /\ KeyAccounts'
<1> USE DEF RInv, IInv, Types
<1>1. CASE /\ ~msg.keyed \/ key.state = "free"
           /\ SetStage(k, "processing")
           /\ key' = IF msg.keyed THEN [state |-> "running", by |-> k] ELSE key
  <2>1. VendorOfStage'
    BY <1>1 DEF LookUpKey, VendorOfStage, SMTPStages, HTTPStages, SetStage, VendorOnly, fixed
  <2>2. CASE ~msg.keyed
    <3>1. msg' = msg
      BY DEF LookUpKey, VendorOnly, fixed
    <3>2. ~msg'.keyed
      BY <2>2, <3>1
    <3> QED BY <2>1, <3>2 DEF KeyAccounts
  <2>3. CASE msg.keyed
    <3>1. key'.state = "running" /\ key'.by = k /\ key.state = "free"
      BY <1>1, <2>3
    <3>2. \A i \in Attempts : stage'[i] = "processing" => i = k \/ stage[i] = "processing"
      BY <1>1 DEF SetStage
    <3>3. UNCHANGED <<fixed, delivered>>
      BY DEF LookUpKey, VendorOnly
    <3>4. KeyAccounts' <=> (config.sender = "resend" =>
              /\ delivered # {} => key'.state = "done"
              /\ \A i \in Attempts : stage'[i] = "processing" =>
                    key'.state = "running" /\ key'.by = i)
      BY <2>3, <3>3 DEF KeyAccounts, fixed
    <3>5. config.sender = "resend" =>
              /\ delivered # {} => key.state = "done"
              /\ \A i \in Attempts : stage[i] = "processing" => key.state = "running"
      BY <2>3 DEF KeyAccounts
    <3>6. ASSUME config.sender = "resend"
          PROVE  /\ delivered = {}
                 /\ \A i \in Attempts : stage[i] # "processing"
      BY <3>1, <3>5, <3>6
    <3> QED BY <2>1, <3>1, <3>2, <3>4, <3>6
  <2> QED BY <2>1, <2>2, <2>3
<1>2. CASE /\ UNCHANGED key
           /\ SetStage(k, "taken") \/ \E r : Ends(k, r)
  <2>1. \A i \in Attempts : stage'[i] \in SMTPStages \union HTTPStages => stage'[i] = stage[i]
    BY <1>2 DEF Ends, SetStage, SMTPStages, HTTPStages
  <2>2. UNCHANGED <<fixed, key, delivered>>
    BY <1>2 DEF LookUpKey, VendorOnly
  <2>3. VendorOfStage'
    BY <2>1, <2>2 DEF VendorOfStage, fixed
  <2>4. KeyAccounts'
    BY <2>1, <2>2 DEF KeyAccounts, fixed, HTTPStages
  <2> QED BY <2>3, <2>4
<1> QED BY <1>1, <1>2 DEF LookUpKey

LEMMA ProcessKeeps ==
    ASSUME RInv, NEW k \in Attempts, Process(k) PROVE VendorOfStage' /\ KeyAccounts'
<1> USE DEF RInv, IInv, Types
<1>0. \A i \in Attempts : i # k => stage'[i] = stage[i]
  BY DEF Process, SetStage, Ends
<1>1. stage'[k] \in {"taken", "none", "ended"}
  BY DEF Process, SetStage, Ends
<1>2. UNCHANGED fixed
  BY DEF Process, VendorOnly
<1>3. VendorOfStage'
  BY <1>0, <1>1, <1>2 DEF VendorOfStage, SMTPStages, HTTPStages, fixed
<1>4. KeyAccounts'
  <2> SUFFICES ASSUME config.sender = "resend", msg.keyed PROVE KeyAccounts'
    BY <1>2 DEF KeyAccounts, fixed
  <2>1. key.state = "running" /\ key.by = k /\ stage[k] = "processing" /\ delivered = {}
    BY DEF Process, KeyAccounts
  <2>2. \A i \in Attempts : stage'[i] # "processing"
    BY <1>0, <1>1, <2>1 DEF KeyAccounts
  <2>3. delivered' # {} => key'.state = "done"
    BY <2>1 DEF Process
  <2> QED BY <2>2, <2>3 DEF KeyAccounts
<1> QED BY <1>3, <1>4

\* Every step keeps them.
LEMMA KeepsRInv == ASSUME RInv, [Next]_vars PROVE VendorOfStage' /\ KeyAccounts'
<1>0. attempt \in Attempts
  BY DEF RInv, IInv, Types
<1>1. CASE \/ Begin \/ ExecutePart \/ ParseAddresses \/ CheckRateLimit \/ Decide \/ Wake
           \/ RegisterTemplate \/ Cancel \/ UNCHANGED vars
  BY <1>0, <1>1, FewerStages DEF Begin, ExecutePart, ParseAddresses, CheckRateLimit,
     Decide, Wake, RegisterTemplate, Cancel, vars, exchange
<1>2. CASE Receive \/ StopWaiting
  BY <1>0, <1>2, FewerStages DEF Receive, StopWaiting, SetStage
<1>3. ASSUME NEW i \in Attempts, StageFails(i) \/ RequestFails(i) \/ Confirm(i)
      PROVE  VendorOfStage' /\ KeyAccounts'
  BY <1>3, EndsStage, FewerStages DEF StageFails, RequestFails, Confirm, VendorOnly
<1> QED BY <1>1, <1>2, <1>3, CallKeeps, StageSucceedsKeeps, RelayTakesKeeps,
           LookUpKeyKeeps, ProcessKeeps DEF Next, Exchange

\* RInv holds in every reachable state.
LEMMA AlwaysRInv == Spec => []RInv
<1>1. RInv /\ [Next]_vars => VendorOfStage' /\ KeyAccounts'
  BY KeepsRInv
<1> QED BY Inductive, InitRInv, <1>1, PTL DEF Spec, RInv


-----------------------------------------------------------------------------
(* The moves of the promise *)

\* The row of exchanges of the message that is on its way.
Row == [i \in Attempts |-> Abstraction(i)]

\* The message is one of Delivery's two, and stays that one.
LEMMA OneMessage ==
    /\ Message \in {"keyed", "plain"}
    /\ UNCHANGED fixed => Message' = Message
BY DEF Message, fixed

\* A change at one key of the function of one message.
LEMMA UpdatedAt ==
    ASSUME NEW S, NEW M \in S, NEW f, NEW d, NEW k, NEW w
    PROVE  [m \in S |-> IF m = M THEN [f EXCEPT ![k] = w] ELSE d]
             = [[m \in S |-> IF m = M THEN f ELSE d] EXCEPT ![M][k] = w]
OBVIOUS

\* One exchange moves, or none does.
LEMMA StageMoves ==
    ASSUME UNCHANGED fixed, NEW k \in Attempts, NEW w,
           \A i \in Attempts : Abstraction(i)' = IF i = k THEN w ELSE Abstraction(i)
    PROVE  Promise!Stage(Message, k, w)
<1>1. Row' = [Row EXCEPT ![k] = w]
  BY DEF Row
<1> DEFINE None == [i \in Attempts |-> "none"]
           Kinds == {"keyed", "plain"}
<1>2. [m \in Kinds |-> IF m = Message THEN Row ELSE None]'
        = [m \in Kinds |-> IF m = Message THEN [Row EXCEPT ![k] = w] ELSE None]
  <2> HIDE DEF None
  <2> QED BY <1>1, OneMessage
<1>3. [m \in Kinds |-> IF m = Message THEN [Row EXCEPT ![k] = w] ELSE None]
        = [[m \in Kinds |-> IF m = Message THEN Row ELSE None] EXCEPT ![Message][k] = w]
  <2> HIDE DEF None
  <2> QED BY OneMessage, UpdatedAt
<1> QED BY <1>2, <1>3, Zenon DEF Promise!Stage, Row, Of

\* Nor does a step that changes no stage's abstraction change an exchange.
LEMMA StagesStay ==
    ASSUME UNCHANGED fixed, \A i \in Attempts : Abstraction(i)' = Abstraction(i)
    PROVE  UNCHANGED Of([i \in Attempts |-> Abstraction(i)], [i \in Attempts |-> "none"])
BY OneMessage DEF Of

\* What an exchange does leaves the sender alone.
LEMMA VendorLeavesSender ==
    ASSUME UNCHANGED <<fixed, at, attempt, cancelled, outcome>>
    PROVE  Promise!VendorOnly
BY OneMessage DEF Promise!VendorOnly, Promise!breaker, Of, fixed

\* A step of the message, or of an exchange of its, is one of Delivery.
LEMMA MessageProgresses ==
    ASSUME \/ Promise!Prepare(Message) \/ Promise!CheckRateLimit(Message)
           \/ Promise!Execute(Message) \/ Promise!Receive(Message)
           \/ Promise!StopWaiting(Message) \/ Promise!Decide(Message)
    PROVE  Promise!Next
BY OneMessage DEF Promise!Next, Promise!Progress

LEMMA ExchangeProgresses ==
    ASSUME NEW i \in Attempts,
           \/ Promise!Take(Message, i) \/ Promise!Refuse(Message, i)
           \/ Promise!Confirm(Message, i) \/ Promise!LoseReply(Message, i)
    PROVE  Promise!Next
BY OneMessage DEF Promise!Next, Promise!Exchange, Promise!Attempts, Attempts

\* A step within the rendering, or before a retry, is a stutter of Delivery.
LEMMA NothingMoves ==
    ASSUME UNCHANGED <<fixed, attempt, cancelled, outcome, delivered>>,
           \/ UNCHANGED at
           \/ at \in Rendering \union {"waiting"} /\ at' \in Rendering \union {"waiting"},
           \A i \in Attempts : Abstraction(i)' = Abstraction(i)
    PROVE  UNCHANGED Promise!vars
BY OneMessage, StagesStay DEF Promise!vars, Promise!breaker, Promise!vendor, Of, fixed, Rendering

\* The exchanges that a step does not touch look as they did.
LEMMA OthersStay ==
    ASSUME UNCHANGED fixed, NEW i \in Attempts, stage'[i] = stage[i],
           stage[i] = "ended" => UNCHANGED reply
    PROVE  Abstraction(i)' = Abstraction(i)
BY DEF Abstraction, Classify, resendErrorIsTemporary, fixed


-----------------------------------------------------------------------------
(* The sender's steps *)

\* A send that ends before it has a token, or between the limiters, or at the
\* breaker.
LEMMA SendReturnsThere ==
    ASSUME NEW result, SendReturns(result), UNCHANGED fixed
    PROVE  Promise!SendReturns(Message, result)
BY OneMessage DEF SendReturns, Promise!SendReturns, Promise!Go, Of, Rendering

\* A step of the sender alone leaves the vendor as it was.
LEMMA SamePlace ==
    ASSUME UNCHANGED <<fixed, attempt, cancelled, exchange, reply>>
    PROVE  /\ UNCHANGED Promise!vendor
           /\ at # "vendor" /\ at' # "vendor" => UNCHANGED Promise!breaker
           /\ UNCHANGED <<config.sender, cancelled, Of(attempt, 1)>>
BY OneMessage, StagesStay, OthersStay
DEF Promise!vendor, Promise!breaker, Of, fixed, exchange

LEMMA BeginRefines == ASSUME RInv, Begin PROVE [Promise!Next]_(Promise!vars)
<1>0. UNCHANGED <<fixed, attempt, cancelled, exchange, reply>> /\ at = "ready"
  BY DEF Begin, retry
<1>1. CASE \/ cancelled /\ SendReturns("temporary")
           \/ SendReturns("permanent")
  <2>1. at' = "returned"
    BY <1>1 DEF SendReturns
  <2>2. Promise!Prepare(Message)
    BY <1>0, <1>1, <2>1, SamePlace, SendReturnsThere, OneMessage
    DEF Promise!Prepare, Of, Rendering
  <2> QED BY <2>2, MessageProgresses
<1>2. CASE StartRendering /\ UNCHANGED outcome
  <2>1. at' \in Rendering
    BY <1>2 DEF StartRendering, Rendering
  <2> QED BY <1>0, <1>2, <2>1, NothingMoves, OthersStay DEF exchange, Rendering
<1> QED BY <1>1, <1>2 DEF Begin

LEMMA ExecutePartRefines == ASSUME RInv, ExecutePart PROVE [Promise!Next]_(Promise!vars)
<1>0. UNCHANGED <<fixed, attempt, cancelled, exchange, reply>> /\ at = "execute"
  BY DEF ExecutePart, retry
<1>1. CASE SendReturns("permanent")
  <2>1. at' = "returned"
    BY <1>1 DEF SendReturns
  <2>2. Promise!Prepare(Message)
    BY <1>0, <1>1, <2>1, SamePlace, SendReturnsThere, OneMessage
    DEF Promise!Prepare, Of, Rendering
  <2> QED BY <2>2, MessageProgresses
<1>2. CASE at' \in {"address", "execute"} /\ UNCHANGED outcome
  BY <1>0, <1>2, NothingMoves, OthersStay DEF exchange, Rendering
<1> QED BY <1>1, <1>2 DEF ExecutePart

LEMMA ParseAddressesRefines ==
    ASSUME RInv, ParseAddresses PROVE [Promise!Next]_(Promise!vars)
<1>0. UNCHANGED <<fixed, attempt, cancelled, exchange, reply>> /\ at = "address"
  BY DEF ParseAddresses, retry
<1>1. CASE SendReturns("permanent")
  <2>1. at' = "returned"
    BY <1>1 DEF SendReturns
  <2>2. Promise!Prepare(Message)
    BY <1>0, <1>1, <2>1, SamePlace, SendReturnsThere, OneMessage
    DEF Promise!Prepare, Of, Rendering
  <2> QED BY <2>2, MessageProgresses
<1>2. CASE at' = "recipient" /\ UNCHANGED outcome
  <2>1. Promise!Go(Message, "limits")
    BY <1>0, <1>2, OneMessage DEF Promise!Go, Of, Rendering
  <2>2. Promise!Prepare(Message)
    BY <1>0, <1>2, <2>1, SamePlace, OneMessage DEF Promise!Prepare, Of, Rendering
  <2> QED BY <2>2, MessageProgresses
<1> QED BY <1>1, <1>2 DEF ParseAddresses

LEMMA CheckRateLimitRefines ==
    ASSUME RInv, CheckRateLimit PROVE [Promise!Next]_(Promise!vars)
<1>0. /\ UNCHANGED <<fixed, attempt, cancelled, exchange, reply>>
      /\ at \in {"recipient", "channel"}
  BY DEF CheckRateLimit, retry
<1>1. CASE SendReturns("temporary")
  <2>1. at' = "returned"
    BY <1>1 DEF SendReturns
  <2>2. Promise!CheckRateLimit(Message)
    BY <1>0, <1>1, <2>1, SamePlace, SendReturnsThere, OneMessage
    DEF Promise!CheckRateLimit, Of, Rendering
  <2> QED BY <2>2, MessageProgresses
<1>2. CASE at = "recipient" /\ at' = "channel" /\ UNCHANGED outcome
  <2>1. Promise!NextLimiter(Message) = "recipient"
    BY <1>2, OneMessage DEF Promise!NextLimiter, Promise!FirstLimiter, Of, Rendering
  <2>2. Promise!CheckRateLimit(Message)
    BY <1>0, <1>2, <2>1, SamePlace, OneMessage
    DEF Promise!CheckRateLimit, Promise!Go, Of, Rendering
  <2> QED BY <2>2, MessageProgresses
<1>3. CASE at = "channel" /\ at' = "breaker" /\ UNCHANGED outcome
  <2>1. Promise!NextLimiter(Message) = "channel"
    <3>1. (CHOOSE k \in {"recipient", "channel"} : k # "recipient") = "channel"
      OBVIOUS
    <3> QED BY <1>3, <3>1, OneMessage
            DEF Promise!NextLimiter, Promise!FirstLimiter, Promise!Limiters, Of, Rendering
  <2>2. Promise!Go(Message, "breaker") /\ UNCHANGED Of(outcome, "temporary")
    BY <1>0, <1>3, OneMessage DEF Promise!Go, Of, Rendering
  <2>3. {"recipient"} \union {"channel"} = {"recipient", "channel"} /\ {"recipient"} # {}
    OBVIOUS
  <2> DEFINE Tokens == CASE at = "channel"               -> {"recipient"}
                         [] at \in {"breaker", "vendor"} -> {"recipient", "channel"}
                         [] OTHER                        -> {}
  <2>4. /\ Of(Tokens, {})[Message] = {"recipient"}
        /\ Of(Tokens, {})' = [Of(Tokens, {}) EXCEPT
                                ![Message] = {"recipient", "channel"}]
    BY <1>0, <1>3, OneMessage DEF Of
  <2>5. /\ Of(Tokens, {})[Message] # {}
        /\ Of(Tokens, {})' = [Of(Tokens, {}) EXCEPT
                                ![Message] = Of(Tokens, {})[Message] \union
                                             {Promise!NextLimiter(Message)}]
    BY <2>1, <2>3, <2>4, Zenon
  <2>6. Promise!Go(Message, IF Of(Tokens, {})[Message] = {} THEN "limits" ELSE "breaker")
    BY <2>2, <2>5
  <2>7. /\ UNCHANGED <<config.sender, Promise!breaker, Of(attempt, 1), Promise!vendor,
                       cancelled>>
        /\ Of(CASE at \in Rendering \union {"waiting"} -> "ready"
                [] at \in {"recipient", "channel"}     -> "limits"
                [] OTHER                               -> at, "ready")[Message] = "limits"
    BY <1>0, <1>3, SamePlace, OneMessage DEF Of, Rendering
  <2>8. Promise!CheckRateLimit(Message)
    BY <2>2, <2>5, <2>6, <2>7, Zenon DEF Promise!CheckRateLimit
  <2> QED BY <2>8, MessageProgresses
<1> QED BY <1>0, <1>1, <1>2, <1>3 DEF CheckRateLimit

LEMMA CallRefines == ASSUME RInv, Call PROVE [Promise!Next]_(Promise!vars)
<1>0. /\ UNCHANGED <<fixed, attempt, cancelled, delivered, reply>>
      /\ at = "breaker" /\ attempt \in Attempts
  BY DEF Call, retry, RInv, IInv, Types
<1>1. CASE cancelled /\ SendReturns("temporary") /\ UNCHANGED stage
  <2>1. at' = "returned" /\ UNCHANGED exchange
    BY <1>1 DEF SendReturns, Call, exchange
  <2>2. Promise!Execute(Message)
    BY <1>0, <1>1, <2>1, SamePlace, SendReturnsThere, OneMessage
    DEF Promise!Execute, Promise!vendor, Of, Rendering
  <2> QED BY <2>2, MessageProgresses
<1>2. CASE /\ ~cancelled /\ at' = "vendor" /\ UNCHANGED outcome
           /\ stage' = [stage EXCEPT ![attempt] =
                           IF config.sender = "smtp" THEN "dial" ELSE "request"]
  <2>1. Promise!Breaker!Pass(Message)
    BY <1>0, <1>2, OneMessage DEF Promise!Breaker!Pass
  <2>2. \A i \in Attempts : i # attempt => Abstraction(i)' = Abstraction(i)
    BY <1>0, <1>2, OthersStay DEF RInv, IInv, Types
  <2>3. Abstraction(attempt)' = "talking"
    BY <1>0, <1>2 DEF Abstraction, RInv, IInv, Types
  <2>4. Promise!Stage(Message, attempt, "talking")
    BY <1>0, <2>2, <2>3, StageMoves
  <2>5. Promise!Execute(Message)
    BY <1>0, <1>2, <2>1, <2>4, OneMessage
    DEF Promise!Execute, Promise!Stage, Promise!Go, Of, Rendering, fixed
  <2> QED BY <2>5, MessageProgresses
<1> QED BY <1>1, <1>2 DEF Call


-----------------------------------------------------------------------------
(* The vendor's steps *)

\* An exchange, as the promise sees it.
LEMMA ExchangeOf ==
    ASSUME NEW k \in Attempts
    PROVE  Of([i \in Attempts |-> Abstraction(i)], [i \in Attempts |-> "none"])[Message][k]
             = Abstraction(k)
BY OneMessage DEF Of

\* What class a reply may have.
LEMMA ClassOf ==
    ASSUME NEW r \in Replies
    PROVE  /\ Classify(r) \in {"ok", "temporary", "permanent"}
           /\ Classify(r) = "ok" <=> r.status \in 200..299
           /\ r.status = 0 => Classify(r) = "temporary"
           /\ config.sender = "resend" /\ r.status = 500 => Classify(r) = "temporary"
BY DEF Classify, resendErrorIsTemporary, Replies

\* An exchange that ends with a reply ends with its class.
LEMMA EndRefines ==
    ASSUME RInv, NEW k \in Attempts, NEW r \in Replies, Ends(k, r), VendorOnly
    PROVE  Promise!Ends(Message, k, Classify(r)) /\ Promise!VendorOnly
<1>0. UNCHANGED <<fixed, at, attempt, cancelled, outcome>>
  BY DEF VendorOnly, retry
<1>1. Promise!Awaited(Message, k) <=> Awaited(k)
  BY OneMessage DEF Promise!Awaited, Awaited, Of, Rendering
<1>2. Abstraction(k)' = IF Awaited(k) THEN Classify(r) ELSE "none"
  <2>1. stage'[k] = IF Awaited(k) THEN "ended" ELSE "none"
    BY DEF Ends, SetStage, RInv, IInv, Types
  <2>2. Awaited(k) => reply' = r
    BY DEF Ends
  <2>3. Classify(r)' = Classify(r)
    BY <1>0 DEF Classify, resendErrorIsTemporary, fixed
  <2>4. CASE Awaited(k)
    <3>1. Abstraction(k)' = Classify(reply)'
      BY <2>1, <2>4 DEF Abstraction
    <3>2. Classify(reply)' = Classify(r)
      BY <1>0, <2>2, <2>4 DEF Classify, resendErrorIsTemporary, fixed
    <3> QED BY <2>4, <3>1, <3>2
  <2>5. CASE ~Awaited(k)
    BY <2>1, <2>5 DEF Abstraction
  <2> QED BY <2>4, <2>5
<1>3. ASSUME NEW i \in Attempts, i # k PROVE Abstraction(i)' = Abstraction(i)
  <2>1. stage'[i] = stage[i]
    BY <1>3 DEF Ends, SetStage, RInv, IInv, Types
  <2>2. stage[i] = "ended" => ~Awaited(k)
    BY <1>3 DEF Awaited, RInv, IInv, GroundsOfReply
  <2>3. stage[i] = "ended" => UNCHANGED reply
    BY <2>2 DEF Ends
  <2> QED BY <1>0, <2>1, <2>3, OthersStay
<1>4. Promise!Ends(Message, k, Classify(r))
  <2>1. Promise!Stage(Message, k, IF Awaited(k) THEN Classify(r) ELSE "none")
    BY <1>0, <1>2, <1>3, StageMoves
  <2> QED BY <1>1, <2>1 DEF Promise!Ends
<1> QED BY <1>0, <1>4, VendorLeavesSender

\* One that ends before the message is taken is refused.
LEMMA RefuseRefines ==
    ASSUME RInv, NEW k \in Attempts, NEW r \in Replies, Ends(k, r), VendorOnly,
           UNCHANGED delivered, Abstraction(k) = "talking", r.status \notin 200..299
    PROVE  Promise!Next
<1>1. Promise!Ends(Message, k, Classify(r)) /\ Promise!VendorOnly
  BY EndRefines
<1>2. Classify(r) \in {"temporary", "permanent"}
  BY ClassOf
<1>3. UNCHANGED Of(delivered, {})
  BY OneMessage DEF Of, VendorOnly
<1>4. Promise!Refuse(Message, k)
  BY <1>1, <1>2, <1>3, ExchangeOf DEF Promise!Refuse
<1> QED BY <1>4, ExchangeProgresses

\* The message is taken; under a key that has a copy already, as that one.
LEMMA TakeRefines ==
    ASSUME RInv, NEW k \in Attempts, UNCHANGED reply, VendorOnly, SetStage(k, "taken"),
           Abstraction(k) = "talking",
           \/ /\ ~(config.sender = "resend" /\ msg.keyed /\ delivered # {})
              /\ delivered' = delivered \union {k}
           \/ /\ config.sender = "resend" /\ msg.keyed /\ delivered # {}
              /\ UNCHANGED delivered
    PROVE  Promise!Next
<1>0. UNCHANGED <<fixed, at, attempt, cancelled, outcome>>
  BY DEF VendorOnly, retry
<1>1. \A i \in Attempts : Abstraction(i)' = IF i = k THEN "taken" ELSE Abstraction(i)
  <2>1. ASSUME NEW i \in Attempts, i # k PROVE Abstraction(i)' = Abstraction(i)
    BY <1>0, <2>1, OthersStay DEF SetStage, RInv, IInv, Types
  <2>2. Abstraction(k)' = "taken"
    BY DEF SetStage, Abstraction, RInv, IInv, Types
  <2> QED BY <2>1, <2>2
<1>2. Promise!Stage(Message, k, "taken") /\ Promise!VendorOnly
  BY <1>0, <1>1, StageMoves, VendorLeavesSender
<1>3. Of(delivered, {})[Message] = delivered
  BY OneMessage DEF Of
<1>4. Message \in {"keyed"} <=> msg.keyed
  BY DEF Message
<1>5. Promise!Collapsed(Message, k)
        <=> config.sender = "resend" /\ msg.keyed /\ delivered # {}
  BY <1>3, <1>4 DEF Promise!Collapsed, Promise!Identity
<1>6. Of(delivered, {})' = IF Promise!Collapsed(Message, k) THEN Of(delivered, {})
                           ELSE [Of(delivered, {}) EXCEPT ![Message] = delivered \union {k}]
  BY <1>0, <1>5, OneMessage DEF Of
<1>7. Promise!Take(Message, k)
  BY <1>2, <1>3, <1>6, ExchangeOf DEF Promise!Take
<1> QED BY <1>7, ExchangeProgresses

LEMMA StageSucceedsRefines ==
    ASSUME RInv, NEW k \in Attempts, StageSucceeds(k) PROVE UNCHANGED Promise!vars
<1>0. UNCHANGED <<fixed, at, attempt, cancelled, outcome, delivered, reply>>
  BY DEF StageSucceeds, VendorOnly, retry
<1>1. stage' = [stage EXCEPT ![k] = AfterStage(stage[k])]
  BY DEF StageSucceeds, SetStage
<1>2. stage[k] \in SMTPStages /\ AfterStage(stage[k]) \in SMTPStages
  BY DEF StageSucceeds, AfterStage, Credentials, SMTPStages
<1>3. Abstraction(k)' = Abstraction(k)
  BY <1>1, <1>2 DEF Abstraction, SMTPStages, RInv, IInv, Types
<1>4. ASSUME NEW i \in Attempts, i # k PROVE Abstraction(i)' = Abstraction(i)
  BY <1>0, <1>1, <1>4, OthersStay DEF RInv, IInv, Types
<1> QED BY <1>0, <1>3, <1>4, NothingMoves

LEMMA StageFailsRefines ==
    ASSUME RInv, NEW k \in Attempts, StageFails(k) PROVE Promise!Next
<1>1. PICK status \in {0, 450, 550} : Ends(k, Reply(status, stage[k]))
  BY DEF StageFails
<1>2. stage[k] \in Names /\ Abstraction(k) = "talking"
  BY DEF StageFails, Names, Stages, SMTPStages, Abstraction
<1>3. /\ Reply(status, stage[k]) \in Replies
      /\ Reply(status, stage[k]).status \notin 200..299
  BY <1>1, <1>2, ReplyParts
<1> QED BY <1>1, <1>2, <1>3, RefuseRefines DEF StageFails

LEMMA RelayTakesRefines ==
    ASSUME RInv, NEW k \in Attempts, RelayTakes(k) PROVE Promise!Next
<1>1. Abstraction(k) = "talking" /\ config.sender = "smtp"
  BY DEF RelayTakes, Abstraction, RInv, VendorOfStage, SMTPStages
<1> QED BY <1>1, TakeRefines DEF RelayTakes

LEMMA RequestFailsRefines ==
    ASSUME RInv, NEW k \in Attempts, RequestFails(k) PROVE Promise!Next
<1>1. PICK status \in {0, 422, 429, 500} : Ends(k, Reply(status, "error"))
  BY DEF RequestFails
<1>2. "error" \in Names /\ Abstraction(k) = "talking"
  BY DEF RequestFails, Names, Abstraction
<1>3. /\ Reply(status, "error") \in Replies
      /\ Reply(status, "error").status \notin 200..299
  BY <1>1, <1>2, ReplyParts
<1> QED BY <1>1, <1>2, <1>3, RefuseRefines DEF RequestFails

LEMMA LookUpKeyRefines ==
    ASSUME RInv, NEW k \in Attempts, LookUpKey(k) PROVE [Promise!Next]_(Promise!vars)
<1>0. /\ UNCHANGED <<fixed, at, attempt, cancelled, outcome, delivered>>
      /\ VendorOnly /\ stage[k] = "request"
  BY DEF LookUpKey, VendorOnly, retry
<1>1. Abstraction(k) = "talking"
  BY <1>0 DEF Abstraction
<1>2. CASE SetStage(k, "processing") /\ UNCHANGED reply
  <2>1. Abstraction(k)' = "talking"
    BY <1>2 DEF SetStage, Abstraction, RInv, IInv, Types
  <2>2. ASSUME NEW i \in Attempts, i # k PROVE Abstraction(i)' = Abstraction(i)
    BY <1>0, <1>2, <2>2, OthersStay DEF SetStage, RInv, IInv, Types
  <2> QED BY <1>0, <1>1, <2>1, <2>2, NothingMoves
<1>3. CASE Ends(k, Reply(409, Concurrent)) \/ Ends(k, Reply(409, Invalid))
  <2>1. PICK name \in {Concurrent, Invalid} : Ends(k, Reply(409, name))
    BY <1>3
  <2>2. /\ Reply(409, name) \in Replies
        /\ Reply(409, name).status \notin 200..299
    BY ReplyParts DEF Names
  <2> QED BY <1>0, <1>1, <2>1, <2>2, RefuseRefines
<1>4. CASE SetStage(k, "taken") /\ UNCHANGED reply /\ msg.keyed /\ key.state = "done"
  <2>1. config.sender = "resend" /\ delivered # {}
    BY <1>0, <1>4 DEF RInv, VendorOfStage, HTTPStages, IInv, GroundsOfStage
  <2> QED BY <1>0, <1>1, <1>4, <2>1, TakeRefines
<1> QED BY <1>2, <1>3, <1>4 DEF LookUpKey

LEMMA ProcessRefines ==
    ASSUME RInv, NEW k \in Attempts, Process(k) PROVE Promise!Next
<1>0. VendorOnly /\ stage[k] = "processing" /\ Abstraction(k) = "talking"
  BY DEF Process, Abstraction
<1>1. CASE SetStage(k, "taken") /\ delivered' = delivered \union {k} /\ UNCHANGED reply
  <2>1. ~(config.sender = "resend" /\ msg.keyed /\ delivered # {})
    BY <1>0 DEF RInv, KeyAccounts
  <2> QED BY <1>0, <1>1, <2>1, TakeRefines
<1>2. CASE (\E status \in {422, 500} : Ends(k, Reply(status, "error"))) /\ UNCHANGED delivered
  <2>1. PICK status \in {422, 500} : Ends(k, Reply(status, "error"))
    BY <1>2
  <2>2. /\ Reply(status, "error") \in Replies
        /\ Reply(status, "error").status \notin 200..299
    BY <2>1, ReplyParts DEF Names
  <2> QED BY <1>0, <1>2, <2>1, <2>2, RefuseRefines
<1> QED BY <1>1, <1>2 DEF Process

LEMMA ConfirmRefines ==
    ASSUME RInv, NEW k \in Attempts, Confirm(k) PROVE Promise!Next
<1>0. VendorOnly /\ UNCHANGED delivered /\ Abstraction(k) = "taken"
  BY DEF Confirm, Abstraction
<1>1. PICK status \in IF config.sender = "smtp" THEN {0, 250} ELSE {0, 200, 500} :
        Ends(k, Reply(status, "taken"))
  BY DEF Confirm
<1>2. config.sender \in {"smtp", "resend"}
  BY ConfigsAssumption DEF RInv, IInv, Types
<1>3. /\ Reply(status, "taken") \in Replies
      /\ Reply(status, "taken").status = status
  BY <1>1, ReplyParts DEF Names, Stages
<1>4. Classify(Reply(status, "taken")) \in {"ok", "temporary"}
  BY <1>1, <1>2, <1>3, ClassOf
<1>5. Promise!Ends(Message, k, Classify(Reply(status, "taken"))) /\ Promise!VendorOnly
  BY <1>0, <1>1, <1>3, EndRefines
<1>6. UNCHANGED Of(delivered, {})
  BY <1>0, OneMessage DEF Of, VendorOnly
<1>7. Promise!Confirm(Message, k) \/ Promise!LoseReply(Message, k)
  BY <1>0, <1>4, <1>5, <1>6, ExchangeOf DEF Promise!Confirm, Promise!LoseReply
<1> QED BY <1>7, ExchangeProgresses


-----------------------------------------------------------------------------
(* Send's return, and the loop *)

\* A call ends: the breaker is told, and Send returns.
LEMMA FinishRefines ==
    ASSUME at = "vendor", NEW result, SendReturns(result),
           UNCHANGED <<fixed, attempt, delivered, cancelled>>
    PROVE  Promise!Finish(Message, result)
<1>1. at' = "returned"
  BY DEF SendReturns
<1>2. Promise!Breaker!Fail(Message) /\ Promise!Breaker!Succeed(Message)
  BY <1>1, OneMessage
  DEF Promise!Breaker!Fail, Promise!Breaker!Succeed, Promise!Breaker!Leave
<1>3. Promise!SendReturns(Message, result)
  BY SendReturnsThere
<1>4. UNCHANGED <<config.sender, Of(attempt, 1), Of(delivered, {}), cancelled>>
  BY OneMessage DEF Of, fixed
<1> QED BY <1>2, <1>3, <1>4 DEF Promise!Finish

\* The exchange of the attempt that returns is forgotten.
LEMMA ForgetRefines ==
    ASSUME RInv, UNCHANGED <<fixed, attempt>>,
           \/ stage[attempt] = "ended" /\ stage' = [stage EXCEPT ![attempt] = "none"]
           \/ stage[attempt] # "ended" /\ UNCHANGED stage
    PROVE  Promise!Forget(Message)
<1>0. attempt \in Attempts /\ reply \in Replies
  BY DEF RInv, IInv, Types
<1>1. Of(attempt, 1)[Message] = attempt
  BY OneMessage DEF Of
<1>2. ASSUME NEW i \in Attempts, i # attempt PROVE Abstraction(i)' = Abstraction(i)
  <2>1. stage[i] # "ended" /\ stage'[i] = stage[i]
    BY <1>2 DEF RInv, IInv, GroundsOfReply, Types
  <2> QED BY <2>1, OthersStay
<1>3. CASE stage[attempt] = "ended" /\ stage' = [stage EXCEPT ![attempt] = "none"]
  <2>1. Abstraction(attempt) \in {"ok", "temporary", "permanent"}
    BY <1>0, <1>3, ClassOf DEF Abstraction
  <2>2. Abstraction(attempt)' = "none"
    BY <1>0, <1>3 DEF Abstraction, RInv, IInv, Types
  <2>3. Promise!Stage(Message, attempt, "none")
    BY <1>0, <1>2, <2>2, StageMoves
  <2> QED BY <1>0, <1>1, <2>1, <2>3, ExchangeOf DEF Promise!Forget, Promise!Results
<1>4. CASE stage[attempt] # "ended" /\ UNCHANGED stage
  <2>1. Abstraction(attempt) \notin {"ok", "temporary", "permanent"}
    BY <1>4 DEF Abstraction
  <2>2. Abstraction(attempt)' = Abstraction(attempt)
    BY <1>0, <1>4, OthersStay
  <2>3. UNCHANGED Of([i \in Attempts |-> Abstraction(i)], [i \in Attempts |-> "none"])
    BY <1>2, <2>2, StagesStay
  <2> QED BY <1>0, <1>1, <2>1, <2>3, ExchangeOf DEF Promise!Forget, Promise!Results
<1> QED BY <1>3, <1>4

LEMMA ReceiveRefines == ASSUME RInv, Receive PROVE Promise!Next
<1>0. /\ UNCHANGED <<fixed, attempt, delivered, cancelled>> /\ attempt \in Attempts
      /\ at = "vendor" /\ stage[attempt] = "ended" /\ reply \in Replies
      /\ SendReturns(Classify(reply)) /\ stage' = [stage EXCEPT ![attempt] = "none"]
  BY DEF Receive, retry, SetStage, RInv, IInv, Types
<1>1. Of(attempt, 1)[Message] = attempt
  BY OneMessage DEF Of
<1>2. Abstraction(attempt) = Classify(reply)
  BY <1>0 DEF Abstraction
<1>3. Promise!Finish(Message, Abstraction(attempt))
  BY <1>0, <1>2, FinishRefines
<1>4. Promise!Forget(Message)
  BY <1>0, ForgetRefines
<1>5. Abstraction(attempt) \in {"ok", "temporary", "permanent"}
  BY <1>0, <1>2, ClassOf
<1>6. Of(CASE at \in Rendering \union {"waiting"} -> "ready"
           [] at \in {"recipient", "channel"}     -> "limits"
           [] OTHER                               -> at, "ready")[Message] = "vendor"
  BY <1>0, OneMessage DEF Of, Rendering
<1>7. Promise!Receive(Message)
  BY <1>0, <1>1, <1>3, <1>4, <1>5, <1>6, ExchangeOf DEF Promise!Receive, Promise!Results
<1> QED BY <1>7, MessageProgresses

LEMMA StopWaitingRefines == ASSUME RInv, StopWaiting PROVE Promise!Next
<1>0. /\ UNCHANGED <<fixed, attempt, delivered, cancelled>> /\ attempt \in Attempts
      /\ at = "vendor" /\ SendReturns("temporary")
      /\ stage' = IF stage[attempt] = "ended"
                  THEN [stage EXCEPT ![attempt] = "none"] ELSE stage
  BY DEF StopWaiting, retry, RInv, IInv, Types
<1>1. Promise!Finish(Message, "temporary")
  BY <1>0, FinishRefines
<1>2. Promise!Forget(Message)
  BY <1>0, ForgetRefines
<1>3. Promise!StopWaiting(Message)
  BY <1>0, <1>1, <1>2, OneMessage DEF Promise!StopWaiting, Of, Rendering
<1> QED BY <1>3, MessageProgresses

LEMMA DecideRefines == ASSUME RInv, Decide PROVE Promise!Next
<1>0. /\ UNCHANGED <<fixed, cancelled, exchange, delivered, outcome>>
      /\ at = "returned" /\ attempt \in Attempts
  BY DEF Decide, exchange, RInv, IInv, Types
<1>1. \A i \in Attempts : Abstraction(i)' = Abstraction(i)
  BY <1>0, OthersStay DEF exchange, RInv, IInv, GroundsOfReply
<1>2. /\ UNCHANGED Promise!vendor
      /\ at' # "vendor" => UNCHANGED Promise!breaker
      /\ UNCHANGED <<config.sender, cancelled, Of(outcome, "temporary")>>
  BY <1>0, <1>1, StagesStay, OneMessage
  DEF Promise!vendor, Promise!breaker, Of, fixed, exchange
<1>3. at' # "vendor"
  BY DEF Decide
<1>4. at' \in {"sent", "gaveup", "waiting"}
  BY DEF Decide
<1>5. UNCHANGED Of(CASE at = "channel"               -> {"recipient"}
                     [] at \in {"breaker", "vendor"} -> {"recipient", "channel"}
                     [] OTHER                        -> {}, {})
  BY <1>0, <1>4, OneMessage DEF Of
<1>6. /\ Of(outcome, "temporary")[Message] = outcome
      /\ Of(attempt, 1)[Message] = attempt
      /\ Of(CASE at \in Rendering \union {"waiting"} -> "ready"
              [] at \in {"recipient", "channel"}     -> "limits"
              [] OTHER                               -> at, "ready")[Message] = "returned"
  BY <1>0, OneMessage DEF Of, Rendering
<1>7. CASE outcome = "ok" /\ at' = "sent" /\ UNCHANGED retry
  <2>1. Promise!Go(Message, "sent") /\ UNCHANGED Of(attempt, 1)
    BY <1>0, <1>7, OneMessage DEF Promise!Go, Of, Rendering, retry
  <2>2. Promise!Decide(Message)
    BY <1>2, <1>3, <1>5, <1>6, <1>7, <2>1 DEF Promise!Decide
  <2> QED BY <2>2, MessageProgresses
<1>8. CASE outcome # "ok" /\ at' = "gaveup" /\ UNCHANGED retry
  <2>1. Promise!Go(Message, "gaveup") /\ UNCHANGED Of(attempt, 1)
    BY <1>0, <1>8, OneMessage DEF Promise!Go, Of, Rendering, retry
  <2>2. Promise!Decide(Message)
    BY <1>2, <1>3, <1>5, <1>6, <1>8, <2>1 DEF Promise!Decide
  <2> QED BY <2>2, MessageProgresses
<1>9. CASE TriesAgain /\ at' = "waiting" /\ attempt' = attempt + 1
  <2>1. Promise!Go(Message, "ready")
    BY <1>0, <1>9, OneMessage DEF Promise!Go, Of, Rendering
  <2>2. Promise!TriesAgain(Message)
    BY <1>6, <1>9 DEF Promise!TriesAgain, TriesAgain
  <2>3. Of(attempt, 1)' = [Of(attempt, 1) EXCEPT ![Message] = attempt + 1]
    BY <1>0, <1>9, OneMessage DEF Of
  <2>4. Promise!Decide(Message)
    BY <1>2, <1>3, <1>5, <1>6, <2>1, <2>2, <2>3 DEF Promise!Decide
  <2> QED BY <2>4, MessageProgresses
<1> QED BY <1>7, <1>8, <1>9 DEF Decide

LEMMA CancelRefines == ASSUME RInv, Cancel PROVE Promise!Next
<1>1. /\ UNCHANGED <<fixed, at, attempt, outcome, delivered>>
      /\ \A i \in Attempts : Abstraction(i)' = Abstraction(i)
  BY OthersStay DEF Cancel, retry, exchange
<1>2. Promise!Cancel
  BY <1>1, StagesStay, OneMessage
  DEF Cancel, Promise!Cancel, Promise!breaker, Promise!vendor, Of, fixed
<1> QED BY <1>2 DEF Promise!Next

LEMMA QuietRefines ==
    ASSUME RInv, Wake \/ RegisterTemplate \/ UNCHANGED vars
    PROVE  UNCHANGED Promise!vars
<1>1. /\ UNCHANGED <<fixed, attempt, cancelled, outcome, exchange, reply>>
      /\ \/ UNCHANGED at
         \/ at = "waiting" /\ at' = "ready"
  BY DEF Wake, RegisterTemplate, vars, retry
<1>2. \A i \in Attempts : Abstraction(i)' = Abstraction(i)
  BY <1>1, OthersStay DEF exchange
<1> QED BY <1>1, <1>2, NothingMoves DEF exchange, Rendering

-----------------------------------------------------------------------------

\* Every step is one of Delivery or a stutter.
LEMMA StepRefines == ASSUME RInv, [Next]_vars PROVE [Promise!Next]_(Promise!vars)
<1>1. ASSUME NEW i \in Attempts, Exchange(i) PROVE [Promise!Next]_(Promise!vars)
  BY <1>1, StageSucceedsRefines, StageFailsRefines, RelayTakesRefines, RequestFailsRefines,
     LookUpKeyRefines, ProcessRefines, ConfirmRefines DEF Exchange
<1> QED BY <1>1, BeginRefines, ExecutePartRefines, ParseAddressesRefines,
           CheckRateLimitRefines, CallRefines, ReceiveRefines, StopWaitingRefines,
           DecideRefines, CancelRefines, QuietRefines DEF Next

\* The initial states are Delivery's.
LEMMA InitRefines == Init => Promise!Init
<1> SUFFICES ASSUME Init PROVE Promise!Init
  OBVIOUS
<1>1. config.sender \in {"smtp", "resend"}
  BY ConfigsAssumption DEF Init
<1>2. Promise!Breaker!Init
  BY DEF Init, Promise!Breaker!Init
<1>3. [i \in Attempts |-> Abstraction(i)] = [i \in Attempts |-> "none"]
  BY DEF Init, Abstraction
<1> QED BY <1>1, <1>2, <1>3 DEF Init, Promise!Init, Of, Rendering, Promise!Attempts, Attempts

\* An email in full, with its contents, sessions, codes and keys, is one message
\* of Delivery, for any messages, dispatchers, attempts and registrations: what
\* DeliveryProofs proves of a message holds of it.
THEOREM EmailImplementsDelivery == Spec => DeliveryImplemented
<1>1. RInv /\ [Next]_vars => [Promise!Next]_(Promise!vars)
  BY StepRefines
<1>2. Spec => Promise!Spec
  BY <1>1, InitRefines, AlwaysRInv, PTL DEF Spec, Promise!Spec
<1> QED BY <1>2 DEF DeliveryImplemented

-----------------------------------------------------------------------------
(* One promise to the caller, of the email itself *)

\* Resend keeps one copy at most of a keyed email.
OneCopy == config.sender = "resend" /\ msg.keyed => \A i, j \in delivered : i = j

\* A copy is made by a relay, or from an unfinished key: then there was none.
LEMMA KeepsOneCopy == ASSUME RInv, OneCopy, [Next]_vars PROVE OneCopy'
<1>1. ASSUME NEW i \in Attempts, RelayTakes(i) PROVE OneCopy'
  <2>1. config.sender = "smtp"
    BY <1>1 DEF RelayTakes, RInv, VendorOfStage, SMTPStages
  <2> QED BY <1>1, <2>1 DEF RelayTakes, VendorOnly, fixed, OneCopy
<1>2. ASSUME NEW i \in Attempts, Process(i) PROVE OneCopy'
  <2>1. config.sender = "resend" /\ msg.keyed => delivered = {}
    BY <1>2 DEF Process, RInv, KeyAccounts
  <2> QED BY <1>2, <2>1 DEF Process, VendorOnly, fixed, OneCopy
<1>3. CASE UNCHANGED <<fixed, delivered>>
  BY <1>3 DEF OneCopy, fixed
<1>4. ASSUME NEW i \in Attempts,
             StageSucceeds(i) \/ StageFails(i) \/ RequestFails(i) \/ LookUpKey(i) \/ Confirm(i)
      PROVE  UNCHANGED <<fixed, delivered>>
  BY <1>4 DEF StageSucceeds, StageFails, RequestFails, LookUpKey, Confirm, VendorOnly
<1>5. CASE \/ Begin \/ ExecutePart \/ ParseAddresses \/ CheckRateLimit \/ Call \/ Receive
           \/ StopWaiting \/ Decide \/ Wake \/ RegisterTemplate \/ Cancel \/ UNCHANGED vars
  <2>1. UNCHANGED <<fixed, delivered>>
    BY <1>5 DEF Begin, ExecutePart, ParseAddresses, CheckRateLimit, Call, Receive,
       StopWaiting, Decide, Wake, RegisterTemplate, Cancel, exchange, vars
  <2> QED BY <1>3, <2>1
<1> QED BY <1>1, <1>2, <1>3, <1>4, <1>5 DEF Next, Exchange

\* The promise counts as this module does.
LEMMA SameCount == ASSUME NEW S PROVE Promise!Cardinality(S) = Cardinality(S)
BY DEF Promise!Cardinality, Cardinality

\* However often a keyed email is sent again, by a caller that was told of a
\* failure, with sessions still open and replies lost, Resend sends it once.
THEOREM KeyedEmailTakenOnce == Spec => []Promise!TakenOnce
<1>1. Init => OneCopy
  BY DEF Init, OneCopy
<1>2. OneCopy => Promise!TakenOnce
  <2> SUFFICES ASSUME OneCopy, config.sender = "resend"
               PROVE  Cardinality(Of(delivered, {})["keyed"]) <= 1
    BY SameCount DEF Promise!TakenOnce
  <2>0. Of(delivered, {})["keyed"] = IF msg.keyed THEN delivered ELSE {}
    BY DEF Of, Message
  <2>1. CASE Of(delivered, {})["keyed"] = {}
    BY <2>1, FS_EmptySet
  <2>2. CASE Of(delivered, {})["keyed"] # {}
    <3>1. \E i : Of(delivered, {})["keyed"] = {i}
      BY <2>0, <2>2 DEF OneCopy
    <3>2. Cardinality(Of(delivered, {})["keyed"]) = 1
      BY <3>1, FS_Singleton
    <3> QED BY <3>2
  <2> QED BY <2>1, <2>2
<1>3. RInv /\ OneCopy /\ [Next]_vars => OneCopy'
  BY KeepsOneCopy
<1> QED BY <1>1, <1>2, <1>3, AlwaysRInv, PTL DEF Spec

=============================================================================
