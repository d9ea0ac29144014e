--------------------------- MODULE EmailSendProofs ---------------------------
(***************************************************************************)
(* Theorems about EmailSend, for any messages, configurations, backoffs and *)
(* numbers of attempts and registrations.                                  *)
(*                                                                         *)
(* What a caller is told rests on the last reply, and a reply on what the  *)
(* vendor holds: GroundsOfReply says what each reply means for the body of *)
(* the attempt that got it, and holds at every moment because a body only  *)
(* changes while there is no reply.                                        *)
(***************************************************************************)
EXTENDS EmailSend, InductionLemmas, TLAPS

Keys    == [state : {"free", "running", "done"}, by : 0..MaxAttempts]
Names   == Stages \union {"error", "timeout", Concurrent, Invalid}
Replies == [status : Int, name : Names]

\* The types the proofs need.
Types == /\ config \in Configs /\ Accepts(config)
         /\ at \in Places
         /\ attempt \in Attempts
         /\ registry \in Nat /\ compiled \in Nat
         /\ rendered \in Seq(Nat)
         /\ body \in [Attempts -> Seq(Nat)]
         /\ stage \in [Attempts -> Stages]
         /\ secured \subseteq Attempts
         /\ reply \in Replies
         /\ key \in Keys
         /\ delivered \subseteq Attempts

\* The parts rendered are all of the version compiled, and so are those of
\* every body.
Whole == /\ \A p \in DOMAIN rendered : rendered[p] = compiled
         /\ \A i \in Attempts : \A p, q \in DOMAIN body[i] : body[i][p] = body[i][q]

\* Where a body is there, and where not yet.
Filled == /\ at = "execute" => Len(rendered) <= 2
          /\ at = "address" => Len(rendered) = 3
          /\ at \in Rendering \union {"waiting"} => body[attempt] = <<>>
          /\ at \in {"recipient", "channel", "breaker", "vendor"} => body[attempt] # <<>>
          /\ \A i \in Attempts : i > attempt => body[i] = <<>>
          /\ \A i \in Attempts : stage[i] # "none" \/ i \in delivered => body[i] # <<>>

\* What the vendor took, an exchange that is confirmed and a key that is done
\* stand for.
Held(i) == \E j \in delivered : body[j] = body[i]
GroundsOfStage == /\ \A i \in Attempts : stage[i] = "taken" => Held(i)
                  /\ key.state = "done" => key.by \in delivered

\* What a reply stands for.
Grounded(r) ==
    /\ r.status \in 200..299 => Held(attempt)
    /\ r.status = 409 /\ r.name = Invalid =>
         \E i \in Attempts : body[i] \notin {<<>>, body[attempt]}

GroundsOfReply ==
    /\ Grounded(reply)
    /\ at \notin {"vendor", "returned", "sent", "gaveup"} => reply.status = 0
    /\ at = "vendor" /\ stage[attempt] # "ended" => reply.status = 0
    /\ \A i \in Attempts : stage[i] = "ended" => at = "vendor" /\ attempt = i

\* What a verdict stands for.
GroundsOfVerdict ==
    /\ at \in {"returned", "gaveup"} /\ reply.status # 0 => outcome = Classify(reply)
    /\ at = "returned" /\ outcome = "ok" => reply.status \in 200..299
    /\ at = "sent" => reply.status \in 200..299

IInv == /\ Types
        /\ Whole
        /\ Filled
        /\ NothingInTheClear
        /\ GroundsOfStage
        /\ GroundsOfReply
        /\ GroundsOfVerdict

-----------------------------------------------------------------------------

\* An attempt's number.
LEMMA AttemptNumbers == \A i : i \in Attempts <=> i \in Nat /\ 1 <= i /\ i <= MaxAttempts
BY BoundsAssumption DEF Attempts

\* A verdict of success comes of a reply of success, and a conflict that is
\* final is one of contents.
LEMMA Verdicts ==
    ASSUME NEW r \in Replies
    PROVE  /\ Classify(r) = "ok" => r.status \in 200..299
           /\ Classify(r) = "permanent" /\ r.status = 409 => r.name = Invalid
<1>1. Classify(r) = "ok" => r.status \in 200..299
  BY DEF Classify
<1>2. ASSUME Classify(r) = "permanent", r.status = 409 PROVE r.name = Invalid
  <2>1. r.status \notin 200..299 /\ r.status \notin 500..599
    BY <1>2
  <2>2. ~resendErrorIsTemporary(r)
    BY <1>2, <2>1 DEF Classify
  <2> QED BY <1>2, <2>2 DEF resendErrorIsTemporary
<1> QED BY <1>1, <1>2

\* (Steps of arithmetic of their own.)
LEMMA RoomForOne == ASSUME NEW n \in Nat, n <= 2, n # 2 PROVE n + 1 <= 2
OBVIOUS

\* A complete body is not the empty one.
LEMMA EmptyIsShort == ASSUME NEW r, Len(r) = 3 PROVE r # <<>>
<1> SUFFICES ASSUME r = <<>> PROVE FALSE
  OBVIOUS
<1>1. Len(<<>>) = 0
  OBVIOUS
<1>2. Len(r) = Len(<<>>)
  BY Zenon
<1>3. 3 = 0
  BY <1>1, <1>2, Zenon
<1> QED BY <1>3, SMT

\* A reply's two parts.
LEMMA ReplyParts ==
    ASSUME NEW status \in Int, NEW name \in Names
    PROVE  /\ Reply(status, name) \in Replies
           /\ Reply(status, name).status = status /\ Reply(status, name).name = name
BY DEF Reply, Replies

\* IInv holds at first.
LEMMA InitIInv == Init => IInv
<1> SUFFICES ASSUME Init PROVE IInv
  OBVIOUS
<1> USE DEF Init
<1>1. Types
  <2>1. 1 \in Attempts /\ 0 \in 0..MaxAttempts
    BY BoundsAssumption DEF Attempts
  <2>2. reply \in Replies
    <3>1. 0 \in Int /\ "none" \in Names
      BY DEF Names, Stages
    <3> QED BY <3>1, ReplyParts
  <2>3. key \in Keys
    BY <2>1 DEF Keys
  <2>4. config \in Configs /\ Accepts(config)
    OBVIOUS
  <2>5. body \in [Attempts -> Seq(Nat)] /\ stage \in [Attempts -> Stages]
    BY DEF Stages
  <2>6. at \in Places /\ secured \subseteq Attempts /\ delivered \subseteq Attempts
    BY DEF Places, Rendering
  <2>7. registry \in Nat /\ compiled \in Nat /\ rendered \in Seq(Nat)
    OBVIOUS
  <2> QED BY <2>1, <2>2, <2>3, <2>4, <2>5, <2>6, <2>7 DEF Types
<1>2. Whole /\ Filled
  BY <1>1 DEF Whole, Filled, Rendering, Types
<1>3. NothingInTheClear /\ GroundsOfStage
  BY DEF NothingInTheClear, GroundsOfStage
<1>4. GroundsOfReply /\ GroundsOfVerdict
  BY DEF GroundsOfReply, Grounded, GroundsOfVerdict, Reply
<1> QED BY <1>1, <1>2, <1>3, <1>4 DEF IInv

-----------------------------------------------------------------------------
(* Rendering *)

\* What steps of Send that leave the exchanges, the bodies and the reply alone
\* keep.
LEMMA SendStep ==
    ASSUME IInv,
           UNCHANGED <<config, attempt, body, stage, secured, key, delivered, reply>>,
           at' \in Places, registry' \in Nat, compiled' \in Nat, rendered' \in Seq(Nat),
           \A p \in DOMAIN rendered' : rendered'[p] = compiled',
           at' = "execute" => Len(rendered') <= 2,
           at' = "address" => Len(rendered') = 3,
           at' \in Rendering \union {"waiting"} => body[attempt] = <<>>,
           at' \in {"recipient", "channel", "breaker"} => body[attempt] # <<>>,
           at' # "vendor", at # "vendor",
           reply.status = 0,
           at' # "sent", at' = "returned" => outcome' # "ok"
    PROVE  IInv'
<1> USE DEF IInv
<1>1. Types'
  BY DEF Types
<1>2. Whole'
  BY DEF Whole
<1>3. Filled'
  BY DEF Filled
<1>4. NothingInTheClear' /\ GroundsOfStage'
  BY DEF NothingInTheClear, TLSMode, GroundsOfStage, Held
<1>5. GroundsOfReply'
  BY DEF GroundsOfReply, Grounded, Held
<1>6. GroundsOfVerdict'
  BY DEF GroundsOfVerdict
<1> QED BY <1>1, <1>2, <1>3, <1>4, <1>5, <1>6

LEMMA BeginStep == ASSUME IInv, Begin PROVE IInv'
<1> USE DEF IInv, Begin, fixed, retry, exchange
<1>1. /\ UNCHANGED <<config, attempt, body, stage, secured, key, delivered, reply, registry>>
      /\ at # "vendor" /\ reply.status = 0 /\ body[attempt] = <<>>
  BY DEF content, GroundsOfReply, Filled, Rendering
<1>2. CASE /\ at' = "returned" /\ outcome' # "ok"
           /\ UNCHANGED <<compiled, rendered>>
  BY <1>1, <1>2, SendStep DEF Types, Whole, Places, Rendering
<1>3. CASE StartRendering
  <2>1. /\ compiled' \in Nat /\ rendered' \in Seq(Nat)
        /\ \A p \in DOMAIN rendered' : rendered'[p] = compiled'
        /\ at' \in {"execute", "address"}
        /\ at' = "execute" => Len(rendered') <= 2
        /\ at' = "address" => Len(rendered') = 3
    <3>1. CASE at' = "address" /\ rendered' = <<0, 0, 0>> /\ compiled' = 0
      BY <3>1
    <3>2. CASE at' = "execute" /\ rendered' = <<>> /\ compiled' \in {0, registry}
      BY <3>2 DEF Types
    <3> QED BY <1>3, <3>1, <3>2 DEF StartRendering
  <2> QED BY <1>1, <2>1, SendStep DEF Types, Places, Rendering
<1> QED BY <1>2, <1>3 DEF SendReturns, content

LEMMA ExecutePartStep == ASSUME IInv, ExecutePart PROVE IInv'
<1> USE DEF IInv, ExecutePart, fixed, retry, exchange
<1>1. /\ UNCHANGED <<config, attempt, body, stage, secured, key, delivered, reply, registry,
                     compiled>>
      /\ at = "execute" /\ at # "vendor" /\ reply.status = 0 /\ body[attempt] = <<>>
      /\ rendered \in Seq(Nat) /\ compiled \in Nat /\ Len(rendered) <= 2
      /\ \A p \in DOMAIN rendered : rendered[p] = compiled
  BY DEF GroundsOfReply, Filled, Rendering, Types, Whole
<1>2. CASE at' = "returned" /\ outcome' = "permanent" /\ UNCHANGED rendered
  BY <1>1, <1>2, SendStep DEF Types, Places, Rendering
<1>3. CASE /\ rendered' = Append(rendered, PartVersion)
           /\ at' = IF Len(rendered) = 2 THEN "address" ELSE "execute"
  <2>1. /\ rendered' \in Seq(Nat)
        /\ Len(rendered') = Len(rendered) + 1
        /\ \A p \in DOMAIN rendered' : rendered'[p] = compiled
    BY <1>1, <1>3 DEF PartVersion
  <2>2. Len(rendered) \in Nat
    BY <1>1
  <2>3. /\ at' \in {"execute", "address"}
        /\ at' = "execute" => Len(rendered') <= 2
        /\ at' = "address" => Len(rendered') = 3
    <3>1. CASE Len(rendered) = 2
      BY <1>3, <2>1, <3>1
    <3>2. CASE Len(rendered) # 2
      <4>1. at' = "execute"
        BY <1>3, <3>2
      <4>2. Len(rendered) <= 2
        BY <1>1
      <4>3. Len(rendered) + 1 <= 2
        BY <4>2, <2>2, <3>2, RoomForOne, Zenon
      <4> QED BY <4>1, <4>3, <2>1
    <3> QED BY <3>1, <3>2
  <2> QED BY <1>1, <2>1, <2>3, SendStep DEF Types, Places, Rendering
<1> QED BY <1>2, <1>3 DEF SendReturns

\* The one step that gives an attempt its body.
LEMMA ParseAddressesStep == ASSUME IInv, ParseAddresses PROVE IInv'
<1> USE DEF IInv, ParseAddresses, fixed, retry, exchange
<1>1. /\ UNCHANGED <<config, attempt, stage, secured, key, delivered, reply, registry>>
      /\ at = "address" /\ reply.status = 0 /\ body[attempt] = <<>>
      /\ compiled' = 0 /\ rendered' = <<>>
      /\ rendered \in Seq(Nat) /\ Len(rendered) = 3
      /\ attempt \in Attempts
  BY DEF GroundsOfReply, Filled, Rendering, Types
<1>2. CASE at' = "returned" /\ outcome' = "permanent" /\ UNCHANGED body
  BY <1>1, <1>2, SendStep DEF Types, Places, Rendering
<1>3. CASE at' = "recipient" /\ body' = [body EXCEPT ![attempt] = rendered]
  <2>0. /\ \A i \in Attempts : i # attempt => body'[i] = body[i]
        /\ body'[attempt] = rendered
    BY <1>1, <1>3 DEF Types
  <2>n. rendered # <<>>
    <3>1. Len(rendered) = 3
      BY <1>1
    <3> QED BY <3>1, EmptyIsShort, Zenon
  <2>1. Types'
    BY <1>1, <1>3 DEF Types, Places
  <2>2. Whole'
    <3>1. \A p, q \in DOMAIN rendered : rendered[p] = rendered[q]
      BY DEF Whole
    <3> QED BY <1>1, <2>0, <3>1 DEF Whole
  <2>3. Filled'
    <3>1. \A i \in Attempts : i > attempt => i # attempt
      BY AttemptNumbers, <1>1
    <3> QED BY <1>1, <1>3, <2>0, <2>n, <3>1 DEF Filled, Rendering
  <2>4. NothingInTheClear'
    BY <1>1 DEF NothingInTheClear, TLSMode
  <2>5. \A j \in delivered : j # attempt /\ j \in Attempts
    BY <1>1 DEF Filled, Types
  <2>6. \A i \in Attempts : stage[i] # "none" => i # attempt
    BY <1>1 DEF Filled
  <2>7. GroundsOfStage'
    BY <1>1, <2>0, <2>5, <2>6 DEF GroundsOfStage, Held
  <2>8. GroundsOfReply'
    BY <1>1, <1>3 DEF GroundsOfReply, Grounded
  <2>9. GroundsOfVerdict'
    BY <1>3 DEF GroundsOfVerdict
  <2> QED BY <2>1, <2>2, <2>3, <2>4, <2>7, <2>8, <2>9
<1> QED BY <1>2, <1>3 DEF SendReturns

LEMMA RegisterTemplateStep == ASSUME IInv, RegisterTemplate PROVE IInv'
<1> USE DEF IInv, RegisterTemplate, fixed, retry, exchange, content
<1>1. Types'
  BY DEF Types
<1>2. Whole' /\ Filled'
  BY DEF Whole, Filled
<1>3. NothingInTheClear'
  BY DEF NothingInTheClear, TLSMode
<1>4. GroundsOfStage' /\ GroundsOfReply' /\ GroundsOfVerdict'
  BY DEF GroundsOfStage, GroundsOfReply, Grounded, Held, GroundsOfVerdict, Classify
<1> QED BY <1>1, <1>2, <1>3, <1>4

-----------------------------------------------------------------------------
(* To the vendor and back *)

LEMMA CheckRateLimitStep == ASSUME IInv, CheckRateLimit PROVE IInv'
<1> USE DEF IInv, CheckRateLimit, fixed, retry, exchange, content
<1>1. /\ UNCHANGED <<config, attempt, body, stage, secured, key, delivered, reply, registry,
                     compiled, rendered>>
      /\ at # "vendor" /\ reply.status = 0 /\ body[attempt] # <<>>
  BY DEF GroundsOfReply, Filled, Rendering
<1>2. CASE at' = "returned" /\ outcome' = "temporary"
  BY <1>1, <1>2, SendStep DEF Types, Whole, Places, Rendering
<1>3. CASE at' \in {"channel", "breaker"}
  BY <1>1, <1>3, SendStep DEF Types, Whole, Places, Rendering
<1> QED BY <1>2, <1>3 DEF SendReturns

LEMMA CallStep == ASSUME IInv, Call PROVE IInv'
<1> USE DEF IInv, Call, fixed, retry, content
<1>1. /\ UNCHANGED <<config, attempt, body, secured, key, delivered, reply, registry,
                     compiled, rendered>>
      /\ at = "breaker" /\ reply.status = 0 /\ body[attempt] # <<>>
      /\ attempt \in Attempts
  BY DEF GroundsOfReply, Filled, Types
<1>2. CASE at' = "returned" /\ outcome' = "temporary" /\ UNCHANGED stage
  BY <1>1, <1>2, SendStep DEF Types, Whole, Places, Rendering
<1>3. CASE at' = "vendor" /\ stage' = [stage EXCEPT ![attempt] =
                                 IF config.sender = "smtp" THEN "dial" ELSE "request"]
  <2>0. /\ \A i \in Attempts : i # attempt => stage'[i] = stage[i]
        /\ stage'[attempt] \in {"dial", "request"}
        /\ stage' \in [Attempts -> Stages]
    BY <1>1, <1>3 DEF Types, Stages, SMTPStages, HTTPStages
  <2>1. Types'
    BY <1>1, <1>3, <2>0 DEF Types, Places
  <2>2. Whole' /\ Filled'
    BY <1>1, <1>3, <2>0 DEF Whole, Filled, Rendering
  <2>3. NothingInTheClear'
    BY <1>1, <2>0 DEF NothingInTheClear, TLSMode
  <2>4. GroundsOfStage'
    BY <1>1, <2>0 DEF GroundsOfStage, Held
  <2>5. GroundsOfReply'
    BY <1>1, <1>3, <2>0 DEF GroundsOfReply, Grounded, Held
  <2>6. GroundsOfVerdict'
    BY <1>3 DEF GroundsOfVerdict
  <2> QED BY <2>1, <2>2, <2>3, <2>4, <2>5, <2>6
<1> QED BY <1>2, <1>3 DEF SendReturns

LEMMA ReceiveStep == ASSUME IInv, Receive PROVE IInv'
<1> USE DEF IInv, Receive, fixed, retry, content
<1>0. /\ UNCHANGED <<config, attempt, body, secured, key, delivered, reply, registry,
                     compiled, rendered>>
      /\ at' = "returned" /\ outcome' = Classify(reply)
      /\ attempt \in Attempts /\ reply \in Replies
      /\ stage' = [stage EXCEPT ![attempt] = "none"]
      /\ at = "vendor"
  BY DEF Types, SendReturns, SetStage
<1>1. /\ \A i \in Attempts : i # attempt => stage'[i] = stage[i]
      /\ stage'[attempt] = "none"
      /\ stage' \in [Attempts -> Stages]
  BY <1>0 DEF Types, Stages
<1>2. Types'
  BY <1>0, <1>1 DEF Types, Places
<1>3. Whole' /\ Filled'
  BY <1>0, <1>1 DEF Whole, Filled, Rendering
<1>4. NothingInTheClear'
  BY <1>0, <1>1 DEF NothingInTheClear, TLSMode
<1>5. GroundsOfStage'
  BY <1>0, <1>1 DEF GroundsOfStage, Held
<1>6. GroundsOfReply'
  BY <1>0, <1>1 DEF GroundsOfReply, Grounded, Held
<1>7. GroundsOfVerdict'
  <2>1. config' = config /\ reply' = reply
    BY <1>0
  <2>2. Classify(reply)' = Classify(reply)
    BY <2>1 DEF Classify, resendErrorIsTemporary
  <2> QED BY <1>0, <2>2, Verdicts DEF GroundsOfVerdict
<1> QED BY <1>2, <1>3, <1>4, <1>5, <1>6, <1>7

LEMMA StopWaitingStep == ASSUME IInv, StopWaiting PROVE IInv'
<1> USE DEF IInv, StopWaiting, fixed, retry, content
<1>0. /\ UNCHANGED <<config, attempt, body, secured, key, delivered, registry,
                     compiled, rendered>>
      /\ at' = "returned" /\ outcome' = "temporary"
      /\ attempt \in Attempts /\ at = "vendor"
      /\ reply' = Reply(0, "timeout")
  BY DEF Types, SendReturns
<1>r. reply' \in Replies /\ reply'.status = 0
  <2>1. 0 \in Int /\ "timeout" \in Names
    BY DEF Names
  <2>2. Reply(0, "timeout") \in Replies /\ Reply(0, "timeout").status = 0
    BY <2>1, ReplyParts
  <2> QED BY <1>0, <2>2
<1>1. /\ \A i \in Attempts : stage'[i] \in {stage[i], "none"}
      /\ stage'[attempt] # "ended"
      /\ stage' \in [Attempts -> Stages]
  BY <1>0 DEF Types, Stages
<1>2. Types'
  BY <1>0, <1>r, <1>1 DEF Types, Places
<1>3. Whole' /\ Filled'
  BY <1>0, <1>1 DEF Whole, Filled, Rendering
<1>4. NothingInTheClear'
  BY <1>0, <1>1 DEF NothingInTheClear, TLSMode
<1>5. GroundsOfStage'
  BY <1>0, <1>1 DEF GroundsOfStage, Held
<1>6. GroundsOfReply'
  <2>1. reply'.status \notin 200..299 /\ reply'.status # 409
    BY <1>r
  <2>2. \A i \in Attempts : stage'[i] # "ended"
    BY <1>0, <1>1 DEF GroundsOfReply
  <2> QED BY <1>0, <1>r, <2>1, <2>2 DEF GroundsOfReply, Grounded
<1>7. GroundsOfVerdict'
  BY <1>0, <1>r DEF GroundsOfVerdict
<1> QED BY <1>2, <1>3, <1>4, <1>5, <1>6, <1>7

-----------------------------------------------------------------------------
(* Exchanges *)

\* What is said of one session by NothingInTheClear.
Covered(i) ==
    i \notin secured =>
        /\ stage[i] \in {"auth", "envelope", "content", "close"}
             => TLSMode \notin {"starttls", "implicit"}
        /\ stage[i] = "auth" /\ TLSMode = "insecure_no_tls" => config.allowInsecureAuth

\* Every step of an exchange: it moves on, or ends with a reply for the Send
\* that waits for it.
LEMMA VendorStep ==
    ASSUME IInv, NEW i \in Attempts, NEW s \in Stages, VendorOnly,
           stage[i] \notin {"none", "ended"},
           stage' = [stage EXCEPT ![i] = s],
           delivered' = delivered \/ delivered' = delivered \union {i},
           key' \in Keys, key'.state = "done" => key'.by \in delivered',
           s = "taken" => \E j \in delivered' : body[j] = body[i],
           secured' \subseteq Attempts, \A j \in secured : j # i => j \in secured',
           Covered(i)',
           \/ reply' = reply /\ s # "ended"
           \/ /\ Awaited(i) /\ s = "ended"
              /\ reply' \in Replies /\ Grounded(reply')
    PROVE  IInv'
<1> USE DEF IInv
<1>0. /\ UNCHANGED <<config, at, attempt, body, registry, compiled, rendered, outcome>>
      /\ delivered \subseteq delivered' /\ delivered' \subseteq Attempts
      /\ stage' \in [Attempts -> Stages]
      /\ \A j \in Attempts : j # i => stage'[j] = stage[j]
      /\ stage'[i] = s
      /\ reply' \in Replies
  BY DEF VendorOnly, fixed, retry, content, Types
<1>1. Types'
  BY <1>0 DEF Types
<1>2. Whole'
  BY <1>0 DEF Whole
<1>3. Filled'
  BY <1>0 DEF Filled
<1>4. NothingInTheClear'
  BY <1>0 DEF NothingInTheClear, TLSMode, Covered
<1>5. GroundsOfStage'
  <2>1. ASSUME NEW j \in Attempts, stage'[j] = "taken" PROVE Held(j)'
    BY <2>1, <1>0 DEF GroundsOfStage, Held
  <2> QED BY <2>1 DEF GroundsOfStage
<1>6. GroundsOfReply'
  <2>1. Grounded(reply)'
    BY <1>0 DEF GroundsOfReply, Grounded, Held
  <2>2. \A j \in Attempts : stage'[j] = "ended" => at' = "vendor" /\ attempt' = j
    BY <1>0 DEF GroundsOfReply, Awaited
  <2>3. at' = "vendor" /\ stage'[attempt'] # "ended" => reply'.status = 0
    BY <1>0 DEF GroundsOfReply, Awaited, Types
  <2>4. at' \notin {"vendor", "returned", "sent", "gaveup"} => reply'.status = 0
    BY <1>0 DEF GroundsOfReply, Awaited
  <2> QED BY <2>1, <2>2, <2>3, <2>4 DEF GroundsOfReply
<1>7. GroundsOfVerdict'
  BY <1>0 DEF GroundsOfVerdict, Awaited, Classify
<1> QED BY <1>1, <1>2, <1>3, <1>4, <1>5, <1>6, <1>7

\* An exchange that ends, with a reply that is grounded.
LEMMA EndStep ==
    ASSUME IInv, NEW i \in Attempts, VendorOnly, NEW r \in Replies, Ends(i, r),
           stage[i] \notin {"none", "ended"},
           delivered' = delivered,
           key' \in Keys, key'.state = "done" => key'.by \in delivered,
           Awaited(i) => Grounded(r)
    PROVE  IInv'
<1> DEFINE s == IF Awaited(i) THEN "ended" ELSE "none"
<1>1. s \in Stages /\ s # "taken" /\ stage' = [stage EXCEPT ![i] = s]
  BY DEF Ends, SetStage, Stages
<1>2. /\ secured' \subseteq Attempts
      /\ \A j \in secured : j # i => j \in secured'
  BY DEF Ends, IInv, Types
<1>3. Covered(i)'
  <2>1. stage'[i] = s
    BY <1>1 DEF IInv, Types
  <2> QED BY <2>1 DEF Covered
<1>4. Grounded(r) => Grounded(r)'
  BY DEF Grounded, Held, VendorOnly, content, retry
<1>5. \/ reply' = reply /\ s # "ended"
      \/ Awaited(i) /\ s = "ended" /\ reply' \in Replies /\ Grounded(reply')
  <2>1. CASE Awaited(i)
    <3>1. reply' = r
      BY <2>1 DEF Ends
    <3> QED BY <2>1, <3>1 DEF Grounded, Held
  <2>2. CASE ~Awaited(i)
    BY <2>2 DEF Ends
  <2> QED BY <2>1, <2>2
<1> HIDE DEF s
<1> QED BY <1>1, <1>2, <1>3, <1>5, VendorStep

LEMMA StageSucceedsStep ==
    ASSUME IInv, NEW i \in Attempts, StageSucceeds(i) PROVE IInv'
<1> DEFINE s == AfterStage(stage[i])
<1>0. /\ stage[i] \in SMTPStages \ {"close"}
      /\ stage' = [stage EXCEPT ![i] = s]
      /\ UNCHANGED <<key, delivered, reply>>
      /\ VendorOnly
  BY DEF StageSucceeds, SetStage
<1>1. s \in SMTPStages /\ s \in Stages /\ s \notin {"taken", "ended"}
  BY <1>0 DEF AfterStage, Credentials, SMTPStages, Stages
<1>2. secured' \subseteq Attempts /\ \A j \in secured : j # i => j \in secured'
  BY DEF IInv, Types, StageSucceeds
<1>3. Covered(i)'
  <2>1. stage'[i] = s /\ config' = config /\ TLSMode' = TLSMode
    BY <1>0 DEF IInv, Types, VendorOnly, fixed, TLSMode
  <2>2. TLSMode = "insecure_no_tls" /\ config.auth => config.allowInsecureAuth
    BY DEF IInv, Types, Accepts, TLSMode
  <2>3. CASE i \in secured'
    BY <2>3 DEF Covered
  <2>4. CASE i \notin secured'
    <3>1. ~Secures(stage[i]) /\ i \notin secured
      BY <2>4 DEF StageSucceeds
    <3>2. CASE stage[i] = "dial"
      <4>1. TLSMode \notin {"starttls", "implicit"} \/ s = "starttls"
        BY <3>1, <3>2 DEF AfterStage, Secures
      <4>2. s = "auth" => config.auth
        BY <3>2 DEF AfterStage, Credentials
      <4> QED BY <2>1, <2>2, <4>1, <4>2 DEF Covered
    <3>3. CASE stage[i] \in {"auth", "envelope", "content"}
      <4>1. TLSMode \notin {"starttls", "implicit"}
        BY <3>1, <3>3 DEF IInv, NothingInTheClear
      <4>2. s # "auth"
        BY <3>3 DEF AfterStage
      <4> QED BY <2>1, <4>1, <4>2 DEF Covered
    <3>4. stage[i] # "starttls"
      BY <3>1 DEF Secures
    <3> QED BY <1>0, <3>2, <3>3, <3>4 DEF SMTPStages
  <2> QED BY <2>3, <2>4
<1>4. key' \in Keys /\ (key'.state = "done" => key'.by \in delivered')
  BY <1>0 DEF IInv, Types, GroundsOfStage
<1>5. stage[i] \notin {"none", "ended"}
  BY <1>0 DEF SMTPStages
<1> HIDE DEF s
<1> QED BY <1>0, <1>1, <1>2, <1>3, <1>4, <1>5, VendorStep

\* Replies that claim nothing.
LEMMA NoClaim ==
    ASSUME NEW status \in {0, 409, 422, 429, 450, 500, 550}, NEW name \in Names,
           name # Invalid
    PROVE  Reply(status, name) \in Replies /\ Grounded(Reply(status, name))
<1>1. status \in Int /\ status \notin 200..299
  OBVIOUS
<1>2. /\ Reply(status, name) \in Replies
      /\ Reply(status, name).status = status /\ Reply(status, name).name = name
  BY <1>1, ReplyParts
<1> QED BY <1>1, <1>2 DEF Grounded

LEMMA StageFailsStep ==
    ASSUME IInv, NEW i \in Attempts, StageFails(i) PROVE IInv'
<1>1. PICK status \in {0, 450, 550} : Ends(i, Reply(status, stage[i]))
  BY DEF StageFails
<1>2. /\ stage[i] \in Names /\ stage[i] # Invalid
      /\ stage[i] \notin {"none", "ended"}
  BY DEF StageFails, Names, Stages, SMTPStages, Invalid
<1>3. Reply(status, stage[i]) \in Replies /\ Grounded(Reply(status, stage[i]))
  BY <1>2, NoClaim
<1>4. delivered' = delivered /\ key' = key /\ VendorOnly
  BY DEF StageFails
<1>5. key' \in Keys /\ (key'.state = "done" => key'.by \in delivered)
  BY <1>4 DEF IInv, Types, GroundsOfStage
<1> QED BY <1>1, <1>2, <1>3, <1>4, <1>5, EndStep

\* The vendor takes a message, or finds it taken.
LEMMA TakenStep ==
    ASSUME IInv, NEW i \in Attempts, VendorOnly, stage[i] \notin {"none", "ended"},
           stage' = [stage EXCEPT ![i] = "taken"],
           delivered' = delivered \/ delivered' = delivered \union {i},
           \E j \in delivered' : body[j] = body[i],
           key' \in Keys, key'.state = "done" => key'.by \in delivered',
           UNCHANGED <<secured, reply>>
    PROVE  IInv'
<1>1. "taken" \in Stages /\ "taken" # "ended"
  BY DEF Stages
<1>2. secured' \subseteq Attempts /\ \A j \in secured : j # i => j \in secured'
  BY DEF IInv, Types
<1>3. Covered(i)'
  <2>1. stage'[i] = "taken"
    BY DEF IInv, Types
  <2> QED BY <2>1 DEF Covered
<1> QED BY <1>1, <1>2, <1>3, VendorStep

LEMMA RelayTakesStep ==
    ASSUME IInv, NEW i \in Attempts, RelayTakes(i) PROVE IInv'
<1>1. /\ stage[i] = "close" /\ VendorOnly
      /\ stage' = [stage EXCEPT ![i] = "taken"]
      /\ delivered' = delivered \union {i}
      /\ UNCHANGED <<secured, key, reply>>
  BY DEF RelayTakes, SetStage
<1>2. key' \in Keys /\ (key'.state = "done" => key'.by \in delivered')
  BY <1>1 DEF IInv, Types, GroundsOfStage
<1> QED BY <1>1, <1>2, TakenStep

LEMMA RequestFailsStep ==
    ASSUME IInv, NEW i \in Attempts, RequestFails(i) PROVE IInv'
<1>1. PICK status \in {0, 422, 429, 500} : Ends(i, Reply(status, "error"))
  BY DEF RequestFails
<1>2. Reply(status, "error") \in Replies /\ Grounded(Reply(status, "error"))
  <2>1. "error" \in Names /\ "error" # Invalid
    BY DEF Names, Invalid
  <2> QED BY <2>1, NoClaim
<1>3. /\ delivered' = delivered /\ key' = key /\ VendorOnly
      /\ stage[i] \notin {"none", "ended"}
  BY DEF RequestFails
<1>4. key' \in Keys /\ (key'.state = "done" => key'.by \in delivered)
  BY <1>3 DEF IInv, Types, GroundsOfStage
<1> QED BY <1>1, <1>2, <1>3, <1>4, EndStep

LEMMA LookUpKeyStep ==
    ASSUME IInv, NEW i \in Attempts, LookUpKey(i) PROVE IInv'
<1>0. stage[i] = "request" /\ VendorOnly /\ delivered' = delivered
  BY DEF LookUpKey
<1>t. /\ key \in Keys /\ (key.state = "done" => key.by \in delivered)
      /\ delivered \subseteq Attempts
      /\ \A j \in delivered : body[j] # <<>>
  BY DEF IInv, Types, GroundsOfStage, Filled
<1>1. CASE /\ stage' = [stage EXCEPT ![i] = "processing"]
           /\ key' = IF msg.keyed THEN [state |-> "running", by |-> i] ELSE key
           /\ UNCHANGED <<secured, reply>>
  <2>1. "processing" \in Stages /\ "processing" \notin {"taken", "ended"}
    BY DEF Stages, HTTPStages
  <2>2. secured' \subseteq Attempts /\ \A j \in secured : j # i => j \in secured'
    BY <1>1 DEF IInv, Types
  <2>3. Covered(i)'
    <3>1. stage'[i] = "processing"
      BY <1>1 DEF IInv, Types
    <3> QED BY <3>1 DEF Covered
  <2>4. key' \in Keys /\ (key'.state = "done" => key'.by \in delivered')
    <3>1. i \in 0..MaxAttempts
      BY BoundsAssumption DEF Attempts
    <3> QED BY <1>0, <1>1, <1>t, <3>1 DEF Keys
  <2> QED BY <1>0, <1>1, <2>1, <2>2, <2>3, <2>4, VendorStep
<1>2. CASE Ends(i, Reply(409, Concurrent)) /\ UNCHANGED key
  <2>1. Concurrent \in Names /\ Concurrent # Invalid
    BY DEF Names, Concurrent, Invalid
  <2>2. Reply(409, Concurrent) \in Replies /\ Grounded(Reply(409, Concurrent))
    BY <2>1, NoClaim
  <2> QED BY <1>0, <1>2, <1>t, <2>2, EndStep
<1>3. CASE /\ key.state = "done" /\ body[key.by] = body[i]
           /\ stage' = [stage EXCEPT ![i] = "taken"]
           /\ UNCHANGED <<secured, key, reply>>
  BY <1>0, <1>3, <1>t, TakenStep
<1>4. CASE /\ key.state = "done" /\ body[key.by] # body[i]
           /\ Ends(i, Reply(409, Invalid)) /\ UNCHANGED key
  <2>1. /\ Reply(409, Invalid) \in Replies
        /\ Reply(409, Invalid).status = 409
    <3>1. 409 \in Int /\ Invalid \in Names
      BY DEF Names
    <3> QED BY <3>1, ReplyParts
  <2>2. Awaited(i) => Grounded(Reply(409, Invalid))
    <3>1. 409 \notin 200..299
      OBVIOUS
    <3>2. key.by \in Attempts /\ body[key.by] \notin {<<>>, body[i]}
      BY <1>4, <1>t
    <3> QED BY <2>1, <3>1, <3>2 DEF Grounded, Awaited
  <2> QED BY <1>0, <1>4, <1>t, <2>1, <2>2, EndStep
<1> QED BY <1>1, <1>2, <1>3, <1>4 DEF LookUpKey, SetStage

LEMMA ProcessStep ==
    ASSUME IInv, NEW i \in Attempts, Process(i) PROVE IInv'
<1>0. stage[i] = "processing" /\ VendorOnly
  BY DEF Process
<1>t. /\ key \in Keys /\ (key.state = "done" => key.by \in delivered)
      /\ i \in 0..MaxAttempts /\ 0 \in 0..MaxAttempts
  BY BoundsAssumption DEF IInv, Types, GroundsOfStage, Attempts
<1>1. CASE /\ stage' = [stage EXCEPT ![i] = "taken"]
           /\ delivered' = delivered \union {i}
           /\ key' = IF msg.keyed THEN [state |-> "done", by |-> i] ELSE key
           /\ UNCHANGED <<secured, reply>>
  <2>1. key' \in Keys /\ (key'.state = "done" => key'.by \in delivered')
    BY <1>1, <1>t DEF Keys
  <2> QED BY <1>0, <1>1, <2>1, TakenStep
<1>2. CASE /\ \E status \in {422, 500} : Ends(i, Reply(status, "error"))
           /\ key' = IF msg.keyed THEN [state |-> "free", by |-> 0] ELSE key
           /\ UNCHANGED delivered
  <2>1. PICK status \in {422, 500} : Ends(i, Reply(status, "error"))
    BY <1>2
  <2>2. Reply(status, "error") \in Replies /\ Grounded(Reply(status, "error"))
    <3>1. "error" \in Names /\ "error" # Invalid
      BY DEF Names, Invalid
    <3> QED BY <3>1, NoClaim
  <2>3. key' \in Keys /\ (key'.state = "done" => key'.by \in delivered)
    BY <1>2, <1>t DEF Keys
  <2> QED BY <1>0, <1>2, <2>1, <2>2, <2>3, EndStep
<1> QED BY <1>1, <1>2 DEF Process, SetStage

LEMMA ConfirmStep ==
    ASSUME IInv, NEW i \in Attempts, Confirm(i) PROVE IInv'
<1>1. PICK status \in {0, 200, 250, 500} : Ends(i, Reply(status, "taken"))
  BY DEF Confirm
<1>2. /\ Reply(status, "taken") \in Replies
      /\ Reply(status, "taken").status # 409
  <2>1. status \in Int /\ "taken" \in Names
    BY DEF Names, Stages
  <2> QED BY <2>1, ReplyParts
<1>3. Awaited(i) => Grounded(Reply(status, "taken"))
  <2>1. Held(i)
    BY DEF Confirm, IInv, GroundsOfStage
  <2> QED BY <1>2, <2>1 DEF Grounded, Awaited
<1>4. /\ delivered' = delivered /\ key' = key /\ VendorOnly
      /\ stage[i] \notin {"none", "ended"}
  BY DEF Confirm
<1>5. key' \in Keys /\ (key'.state = "done" => key'.by \in delivered)
  BY <1>4 DEF IInv, Types, GroundsOfStage
<1> QED BY <1>1, <1>2, <1>3, <1>4, <1>5, EndStep

-----------------------------------------------------------------------------
(* sendWithRetry, and the context *)

LEMMA DecideStep == ASSUME IInv, Decide PROVE IInv'
<1> USE DEF IInv
<1>0. /\ UNCHANGED <<config, registry, compiled, rendered, body, stage, secured, key,
                     delivered, outcome>>
      /\ at = "returned" /\ attempt \in Attempts
      /\ \A i \in Attempts : stage[i] # "ended"
  BY DEF Decide, fixed, content, exchange, Types, GroundsOfReply
<1>1. CASE /\ at' \in {"sent", "gaveup"} /\ UNCHANGED <<attempt, reply>>
           /\ at' = "sent" => outcome = "ok"
  <2>1. Types'
    BY <1>0, <1>1 DEF Types, Places
  <2>2. Whole' /\ Filled'
    BY <1>0, <1>1 DEF Whole, Filled, Rendering
  <2>3. NothingInTheClear' /\ GroundsOfStage'
    BY <1>0 DEF NothingInTheClear, TLSMode, GroundsOfStage, Held
  <2>4. GroundsOfReply'
    BY <1>0, <1>1 DEF GroundsOfReply, Grounded, Held
  <2>5. GroundsOfVerdict'
    <3>1. Classify(reply)' = Classify(reply)
      BY <1>0, <1>1 DEF Classify, resendErrorIsTemporary
    <3> QED BY <1>0, <1>1, <3>1 DEF GroundsOfVerdict
  <2> QED BY <2>1, <2>2, <2>3, <2>4, <2>5
<1>2. CASE /\ at' = "waiting" /\ TriesAgain /\ attempt' = attempt + 1
           /\ reply' = Reply(0, "none")
  <2>1. /\ attempt' \in Attempts /\ attempt' > attempt
        /\ \A i \in Attempts : i > attempt' => i > attempt
    BY <1>0, <1>2, BoundsAssumption DEF TriesAgain, Attempts
  <2>2. reply' \in Replies /\ reply'.status = 0
    <3>1. 0 \in Int /\ "none" \in Names
      BY DEF Names, Stages
    <3>2. Reply(0, "none") \in Replies /\ Reply(0, "none").status = 0
      BY <3>1, ReplyParts
    <3> QED BY <1>2, <3>2
  <2>3. Types'
    BY <1>0, <1>2, <2>1, <2>2 DEF Types, Places
  <2>4. Whole'
    BY <1>0 DEF Whole
  <2>5. Filled'
    BY <1>0, <1>2, <2>1 DEF Filled, Rendering
  <2>6. NothingInTheClear' /\ GroundsOfStage'
    BY <1>0 DEF NothingInTheClear, TLSMode, GroundsOfStage, Held
  <2>7. GroundsOfReply'
    <3>1. reply'.status \notin 200..299 /\ reply'.status # 409
      BY <2>2
    <3> QED BY <1>0, <1>2, <2>2, <3>1 DEF GroundsOfReply, Grounded
  <2>8. GroundsOfVerdict'
    BY <1>2 DEF GroundsOfVerdict
  <2> QED BY <2>3, <2>4, <2>5, <2>6, <2>7, <2>8
<1> QED BY <1>1, <1>2 DEF Decide, retry

LEMMA WakeStep == ASSUME IInv, Wake PROVE IInv'
<1>1. /\ UNCHANGED <<config, attempt, body, stage, secured, key, delivered, reply, registry,
                     compiled, rendered>>
      /\ at = "waiting" /\ at' = "ready"
  BY DEF Wake, fixed, content, exchange
<1>2. /\ reply.status = 0 /\ body[attempt] = <<>>
      /\ \A p \in DOMAIN rendered' : rendered'[p] = compiled'
      /\ registry' \in Nat /\ compiled' \in Nat /\ rendered' \in Seq(Nat)
  BY <1>1 DEF IInv, GroundsOfReply, Filled, Whole, Types
<1> QED BY <1>1, <1>2, SendStep DEF Places, Rendering

LEMMA QuietStep ==
    ASSUME IInv, Cancel \/ UNCHANGED vars PROVE IInv'
<1>1. UNCHANGED <<fixed, registry, at, retry, content, exchange, reply, outcome>>
  BY DEF Cancel, vars
<1> USE <1>1 DEF IInv, fixed, retry, content, exchange
<1>2. Types'
  BY DEF Types
<1>3. Whole' /\ Filled' /\ GroundsOfStage'
  BY DEF Whole, Filled, GroundsOfStage, Held
<1>4. NothingInTheClear'
  BY DEF NothingInTheClear, TLSMode
<1>5. GroundsOfReply'
  BY DEF GroundsOfReply, Grounded, Held
<1>6. GroundsOfVerdict'
  <2>1. Classify(reply)' = Classify(reply)
    BY DEF Classify, resendErrorIsTemporary
  <2> QED BY <2>1 DEF GroundsOfVerdict
<1> QED BY <1>2, <1>3, <1>4, <1>5, <1>6

-----------------------------------------------------------------------------

\* IInv holds in every reachable state.
LEMMA Inductive == Spec => []IInv
<1>1. ASSUME IInv, [Next]_vars PROVE IInv'
  <2>1. ASSUME NEW i \in Attempts, Exchange(i) PROVE IInv'
    BY <1>1, <2>1, StageSucceedsStep, StageFailsStep, RelayTakesStep, RequestFailsStep,
       LookUpKeyStep, ProcessStep, ConfirmStep DEF Exchange
  <2> QED BY <1>1, <2>1, BeginStep, ExecutePartStep, ParseAddressesStep, CheckRateLimitStep,
       CallStep, ReceiveStep, StopWaitingStep, DecideStep, WakeStep, RegisterTemplateStep,
       QuietStep DEF Next
<1> QED BY InitIInv, <1>1, PTL DEF Spec

-----------------------------------------------------------------------------
(* The rest of the type invariant *)

\* Whatever the reply, Send returns one of three results.
LEMMA Outcomes ==
    ASSUME NEW r PROVE Classify(r) \in {"ok", "temporary", "permanent"}
BY DEF Classify

\* (Lengths, again a step of their own.)
LEMMA Lengths ==
    ASSUME NEW r
    PROVE  /\ r = <<>> => Len(r) = 0 /\ Len(r) <= 3
           /\ r = <<0, 0, 0>> => Len(r) = 3 /\ Len(r) <= 3
<1>1. Len(<<>>) = 0 /\ Len(<<0, 0, 0>>) = 3 /\ 0 <= 3 /\ 3 <= 3
  OBVIOUS
<1> QED BY <1>1, Zenon

\* What the other conjuncts of TypeOK say.
Bounded == /\ msg \in Emails
           /\ cancelled \in BOOLEAN
           /\ registry \in 0..MaxVersion /\ compiled \in 0..MaxVersion
           /\ Len(rendered) <= 3
           /\ \A i \in Attempts : Len(body[i]) \in {0, 3}
           /\ reply.status \in Statuses
           /\ outcome \in {"ok", "temporary", "permanent"}
           /\ wait \in Nat

\* An exchange changes the reply alone of these.
LEMMA ExchangeBounded ==
    ASSUME Bounded, NEW i \in Attempts, Exchange(i) PROVE Bounded'
<1>1. VendorOnly
  BY DEF Exchange, StageSucceeds, StageFails, RelayTakes, RequestFails, LookUpKey,
         Process, Confirm
<1>2. reply'.status \in Statuses
  <2>1. \/ UNCHANGED reply
        \/ \E status \in Statuses : \E name : Ends(i, Reply(status, name))
    <3>1. CASE StageFails(i)
      BY <3>1 DEF StageFails, Statuses
    <3>2. CASE RequestFails(i)
      BY <3>2 DEF RequestFails, Statuses
    <3>3. CASE LookUpKey(i)
      BY <3>3 DEF LookUpKey, Statuses
    <3>4. CASE Process(i)
      BY <3>4 DEF Process, Statuses
    <3>5. CASE Confirm(i)
      BY <3>5 DEF Confirm, Statuses
    <3> QED BY <3>1, <3>2, <3>3, <3>4, <3>5 DEF Exchange, StageSucceeds, RelayTakes
  <2> QED BY <2>1 DEF Ends, Reply, Bounded
<1> QED BY <1>1, <1>2 DEF VendorOnly, Bounded, fixed, retry, content

\* The steps that leave the content alone.
LEMMA CallsBounded ==
    ASSUME Bounded,
           \/ CheckRateLimit \/ Call \/ Receive \/ StopWaiting \/ RegisterTemplate
           \/ Cancel \/ Wake \/ UNCHANGED vars
    PROVE  Bounded'
<1> USE DEF Bounded, fixed, retry, content, exchange, SendReturns
<1>1. CASE CheckRateLimit \/ Call
  BY <1>1 DEF CheckRateLimit, Call
<1>2. CASE Receive
  BY <1>2, Outcomes DEF Receive
<1>3. CASE StopWaiting
  BY <1>3 DEF StopWaiting, Reply, Statuses
<1>4. CASE RegisterTemplate
  BY <1>4, BoundsAssumption DEF RegisterTemplate
<1>5. CASE Cancel
  BY <1>5 DEF Cancel
<1>6. CASE Wake \/ UNCHANGED vars
  BY <1>6 DEF Wake, vars
<1> QED BY <1>1, <1>2, <1>3, <1>4, <1>5, <1>6

\* The loop: what it waits is a number.
LEMMA DecideBounded == ASSUME Bounded, Decide PROVE Bounded'
<1>1. wait' \in Nat
  BY DEF Decide, FullJitterBackoff, retry, Bounded
<1>2. reply'.status \in Statuses
  BY DEF Decide, Bounded, Reply, Statuses
<1> QED BY <1>1, <1>2 DEF Decide, Bounded, fixed, content

\* What is rendered, and a body, which is all of it.
LEMMA RenderingBounded ==
    ASSUME IInv, Bounded, Begin \/ ExecutePart \/ ParseAddresses PROVE Bounded'
<1> USE DEF Bounded, fixed, retry, content, exchange, SendReturns
<1>1. CASE Begin
  <2>1. CASE UNCHANGED content
    BY <1>1, <2>1 DEF Begin, StartRendering
  <2>2. CASE StartRendering /\ UNCHANGED <<body, outcome>>
    <3>1. compiled' \in 0..MaxVersion /\ rendered' \in {<<>>, <<0, 0, 0>>}
      BY <2>2, BoundsAssumption DEF StartRendering
    <3>2. Len(rendered') <= 3
      BY <3>1, Lengths, Zenon
    <3> QED BY <1>1, <2>2, <3>1, <3>2 DEF Begin
  <2> QED BY <1>1, <2>1, <2>2 DEF Begin
<1>2. CASE ExecutePart
  <2>1. Len(rendered') <= 3
    <3>1. rendered \in Seq(Nat) /\ Len(rendered) <= 2
      BY <1>2 DEF ExecutePart, IInv, Types, Filled
    <3>2. CASE rendered' = Append(rendered, PartVersion)
      BY <3>1, <3>2
    <3> QED BY <1>2, <3>1, <3>2 DEF ExecutePart
  <2> QED BY <1>2, <2>1 DEF ExecutePart
<1>3. CASE ParseAddresses
  <2>1. Len(rendered') <= 3 /\ compiled' \in 0..MaxVersion
    BY <1>3, BoundsAssumption DEF ParseAddresses
  <2>2. \A i \in Attempts : Len(body'[i]) \in {0, 3}
    <3>1. Len(rendered) = 3 /\ body \in [Attempts -> Seq(Nat)]
      BY <1>3 DEF ParseAddresses, IInv, Types, Filled
    <3>2. ASSUME NEW i \in Attempts PROVE body'[i] = body[i] \/ body'[i] = rendered
      BY <1>3, <3>1 DEF ParseAddresses
    <3> QED BY <3>1, <3>2
  <2> QED BY <1>3, <2>1, <2>2 DEF ParseAddresses
<1> QED BY <1>1, <1>2, <1>3

\* Bounded holds at first.
LEMMA InitBounded == Init => Bounded
<1> SUFFICES ASSUME Init PROVE Bounded
  OBVIOUS
<1>1. rendered = <<>> /\ \A i \in Attempts : body[i] = <<>>
  BY DEF Init
<1>2. Len(rendered) <= 3 /\ \A i \in Attempts : Len(body[i]) = 0
  BY <1>1, Lengths, Zenon
<1>3. /\ msg \in Emails
      /\ registry \in 0..MaxVersion /\ compiled \in 0..MaxVersion
      /\ outcome = "temporary" /\ wait \in Nat
  BY BoundsAssumption DEF Init
<1>4. cancelled \in BOOLEAN
  BY Zenon DEF Init
<1>5. reply.status \in Statuses
  BY DEF Init, Reply, Statuses
<1> QED BY <1>2, <1>3, <1>4, <1>5, Zenon DEF Bounded

-----------------------------------------------------------------------------

\* Every reachable state has its types: no body is less than three parts, and
\* no attempt, version or status is out of its range.
THEOREM TypeCorrect == Spec => []TypeOK
<1>1. IInv /\ Bounded /\ [Next]_vars => Bounded'
  BY ExchangeBounded, CallsBounded, DecideBounded, RenderingBounded DEF Next
<1>2. Spec => []Bounded
  BY InitBounded, <1>1, Inductive, PTL DEF Spec
<1>3. IInv /\ Bounded => TypeOK
  BY DEF IInv, Types, Bounded, TypeOK, Keys
<1> QED BY <1>2, <1>3, Inductive, PTL

\* Whatever earlier attempts left running, taken or lost, an email reported sent
\* is at the vendor as the attempt that reports it rendered it.
THEOREM SentIsAsRendered == Spec => []SentAsRendered
<1>1. ASSUME IInv PROVE SentAsRendered
  <2> SUFFICES ASSUME at = "sent"
               PROVE  \E i \in delivered : body[i] = body[attempt] /\ body[i] # <<>>
    BY DEF SentAsRendered
  <2>1. PICK i \in delivered : body[i] = body[attempt]
    BY <1>1 DEF IInv, GroundsOfReply, GroundsOfVerdict, Grounded, Held
  <2>2. body[i] # <<>>
    BY <1>1 DEF IInv, Types, Filled
  <2> QED BY <2>1, <2>2
<1> QED BY Inductive, <1>1, PTL

\* However registrations fall between the rendering of its parts, no copy of an
\* email mixes two versions of its template.
THEOREM CopiesOfOneVersion == Spec => []CopiesAreWhole
<1>1. IInv => CopiesAreWhole
  BY DEF IInv, CopiesAreWhole, Whole, Types
<1> QED BY Inductive, <1>1, PTL

\* A final conflict at Resend is one of contents, never the message's own
\* earlier attempt.
THEOREM ConflictsAreOfContent == Spec => []NoSelfConflict
<1>1. ASSUME IInv PROVE NoSelfConflict
  <2> SUFFICES ASSUME at \in {"returned", "gaveup"}, outcome = "permanent",
                      reply.status = 409
               PROVE  \E i \in Attempts : body[i] \notin {<<>>, body[attempt]}
    BY DEF NoSelfConflict
  <2>1. outcome = Classify(reply) /\ reply \in Replies
    BY <1>1 DEF IInv, GroundsOfVerdict, Types
  <2>2. reply.name = Invalid
    BY <2>1, Verdicts
  <2> QED BY <1>1, <2>2 DEF IInv, GroundsOfReply, Grounded
<1> QED BY Inductive, <1>1, PTL

\* No session, awaited or abandoned, carries content or credentials over a
\* connection that was to be protected and is not, whatever TLSMode is; nor
\* credentials over one that is plaintext by its name, without AllowInsecureAuth.
THEOREM NeverInTheClear == Spec => []NothingInTheClear
<1>1. IInv => NothingInTheClear
  BY DEF IInv
<1> QED BY Inductive, <1>1, PTL


-----------------------------------------------------------------------------
(* The backoff *)

\* What two's complement makes of a product: no more than it was, and the product
\* itself where that fits.
LEMMA WrapBounds ==
    ASSUME NEW x \in Nat
    PROVE  /\ Wrap(x) \in Int /\ Wrap(x) <= x
           /\ x <= MaxInt => Wrap(x) = x
           /\ x = MaxInt + 1 => Wrap(x) < 0
<1> DEFINE half == 2^(Width - 1)
           full == 2^Width
<1>1. half \in Nat \ {0}
  <2>1. Width - 1 \in Nat
    BY BackoffAssumption
  <2> QED BY <2>1, PowerPositive
<1>2. full = 2 * half
  <2>1. Width - 1 \in Nat /\ (Width - 1) + 1 = Width
    BY BackoffAssumption
  <2>2. 2^((Width - 1) + 1) = 2 * 2^(Width - 1)
    BY <2>1, PowerDoubles
  <2> QED BY <2>1, <2>2, Zenon
<1>3. Wrap(x) = ((x + half) % full) - half /\ MaxInt = half - 1
  BY Zenon DEF Wrap, MaxInt
<1> HIDE DEF half, full
<1> DEFINE m == (x + half) % full
<1>4. full \in Nat \ {0} /\ x + half \in Nat
  BY <1>1, <1>2
<1>5. m \in 0..(full - 1) /\ m <= x + half
  BY <1>4
<1>6. x < half => m = x + half
  BY <1>1, <1>2, <1>4
<1>7. x = half => m = 0
  BY <1>1, <1>2, <1>4
<1> QED BY <1>1, <1>3, <1>5, <1>6, <1>7

\* A product that is positive has positive factors.
LEMMA GrowsWithAttempts ==
    ASSUME NEW base \in Nat \ {0}, NEW n \in Nat
    PROVE  /\ base * 2^n \in Nat /\ 2^n <= base * 2^n
           /\ n >= Width - 2 => 2^(Width - 2) <= base * 2^n
<1>1. 2^n \in Nat \ {0}
  BY PowerPositive
<1>2. \A p \in Nat : base * p \in Nat /\ p <= base * p
  OBVIOUS
<1>3. base * 2^n \in Nat /\ 2^n <= base * 2^n
  BY <1>1, <1>2, Zenon
<1>4. ASSUME n >= Width - 2 PROVE 2^(Width - 2) <= 2^n /\ 2^(Width - 2) \in Nat
  <2>1. Width - 2 \in Nat /\ Width - 2 <= n
    BY <1>4, BackoffAssumption
  <2> QED BY <2>1, PowerMonotonic, PowerPositive
<1>5. \A a, b, c \in Nat : a <= b /\ b <= c => a <= c
  OBVIOUS
<1>6. n >= Width - 2 => 2^(Width - 2) <= base * 2^n
  BY <1>1, <1>3, <1>4, <1>5, Zenon
<1> QED BY <1>3, <1>6, Zenon

\* The largest duration is a number.
LEMMA MaxIntType == MaxInt \in Nat
<1>1. Width - 1 \in Nat
  BY BackoffAssumption
<1>2. \A p \in Nat \ {0} : p - 1 \in Nat
  OBVIOUS
<1> QED BY <1>1, <1>2, PowerPositive, Zenon DEF MaxInt

\* A ceiling is a duration.
LEMMA Ceilings ==
    ASSUME NEW b \in Backoffs
    PROVE  Ceiling(b[2]) \in Nat /\ Ceiling(b[2]) <= MaxInt
<1>1. b[2] \in Int /\ b[2] <= MaxInt /\ DefaultMax \in Nat /\ DefaultMax <= MaxInt
  BY BackoffAssumption, MaxIntType
<1> QED BY <1>1, BackoffAssumption DEF Ceiling

\* The bound is no more than the ceiling, nor than the product, though this wraps
\* and from a certain attempt on is not computed; or it is the one that panics.
LEMMA BoundInRange ==
    ASSUME SaneCeilings, NEW b \in Backoffs, b[1] > 0, NEW n \in Nat
    PROVE  /\ JitterBound(b[1], b[2], n) \in Nat
           /\ JitterBound(b[1], b[2], n) <= b[1] * 2^n \/ JitterBound(b[1], b[2], n) = MaxInt
           /\ JitterBound(b[1], b[2], n) <= Ceiling(b[2])
<1> DEFINE product == b[1] * 2^n
           scaled  == Wrap(product)
           top     == Ceiling(b[2])
           bound   == JitterBound(b[1], b[2], n)
<1> SUFFICES bound \in Nat /\ (bound <= product \/ bound = MaxInt) /\ bound <= top
  OBVIOUS
<1>1. b[1] \in Nat \ {0} /\ MaxInt \in Nat
  BY BackoffAssumption, MaxIntType
<1>2. product \in Nat /\ product > 0
  <2>1. product \in Nat /\ 2^n <= product /\ 2^n \in Nat \ {0}
    BY <1>1, GrowsWithAttempts, PowerPositive
  <2>2. \A p \in Nat \ {0}, x \in Nat : p <= x => x > 0
    OBVIOUS
  <2> QED BY <2>1, <2>2, Zenon
<1>3. top \in Nat /\ top <= MaxInt
  BY Ceilings
<1>4. scaled \in Int /\ scaled <= product /\ (product <= MaxInt => scaled = product)
  BY <1>2, WrapBounds
<1>5. n >= Width - 2 => top <= product \/ top = MaxInt
  <2>1. ASSUME n >= Width - 2, top # MaxInt PROVE top <= product
    <3>1. top <= 2^(Width - 2) /\ 2^(Width - 2) <= product
      BY <1>1, <2>1, GrowsWithAttempts DEF SaneCeilings
    <3>2. 2^(Width - 2) \in Nat
      <4>1. Width - 2 \in Nat
        BY BackoffAssumption
      <4> QED BY <4>1, PowerPositive
    <3>3. \A x, y, z \in Nat : x <= y /\ y <= z => x <= z
      OBVIOUS
    <3> QED BY <1>2, <1>3, <3>1, <3>2, <3>3, Zenon
  <2> QED BY <2>1
<1>6. bound =
        IF n < Width - 2 /\ scaled > 0 /\ scaled < top THEN scaled ELSE top
  BY Zenon DEF JitterBound
<1> HIDE DEF product, scaled, top, bound
<1>7. Width \in Nat
  BY BackoffAssumption
<1>8. CASE n < Width - 2 /\ scaled > 0 /\ scaled < top
  BY <1>2, <1>3, <1>4, <1>6, <1>7, <1>8
<1>9. CASE ~(n < Width - 2 /\ scaled > 0 /\ scaled < top)
  <2>1. top <= product \/ top = MaxInt
    BY <1>1, <1>2, <1>3, <1>4, <1>5, <1>7, <1>9
  <2> QED BY <1>3, <1>6, <1>9, <2>1
<1> QED BY <1>8, <1>9

\* What the last call of FullJitterBackoff was asked, and gave.
AskedOfBackoff ==
    \/ asked = <<0, 0, 0>> /\ wait = 0
    \/ \E b \in Backoffs, n \in Nat :
         asked = <<b[1], b[2], n>> /\ wait \in FullJitterBackoff(b[1], b[2], n)

\* Every wait that FullJitterBackoff may draw is in its range.
LEMMA BackoffInRange ==
    ASSUME SaneCeilings, NEW b \in Backoffs, NEW n \in Nat,
           NEW w \in FullJitterBackoff(b[1], b[2], n)
    PROVE  w \in Nat /\ w <= b[1] * 2^n /\ w <= Ceiling(b[2])
<1>1. CASE b[1] <= 0
  <2>1. b[1] = 0 /\ w = 0
    BY <1>1, BackoffAssumption DEF FullJitterBackoff
  <2>2. \A p \in Nat : 0 <= 0 * p
    OBVIOUS
  <2>3. 2^n \in Nat
    BY PowerPositive
  <2> QED BY <2>1, <2>2, <2>3, Ceilings
<1>2. CASE b[1] > 0
  <2> DEFINE bound   == JitterBound(b[1], b[2], n)
             product == b[1] * 2^n
             top     == Ceiling(b[2])
  <2>1. bound \in Nat /\ (bound <= product \/ bound = MaxInt) /\ bound <= top /\ top \in Nat
    BY <1>2, BoundInRange, Ceilings
  <2>2. product \in Nat
    BY <1>2, GrowsWithAttempts, BackoffAssumption
  <2>3. w \in 0..(Wrap(bound + 1) - 1)
    BY <1>2, BackoffAssumption DEF FullJitterBackoff
  <2> HIDE DEF bound, product, top
  <2>4. /\ Wrap(bound + 1) \in Int /\ Wrap(bound + 1) <= bound + 1
        /\ bound = MaxInt => Wrap(bound + 1) < 0
    <3>1. bound + 1 \in Nat
      BY <2>1
    <3> QED BY <3>1, WrapBounds
  <2>5. w \in Nat /\ w <= bound /\ bound # MaxInt
    BY <2>1, <2>3, <2>4
  <2>6. w <= product /\ w <= top
    BY <2>1, <2>2, <2>5
  <2> QED BY <2>5, <2>6 DEF product, top
<1> QED BY <1>1, <1>2, BackoffAssumption

\* Every wait was drawn for the attempt it is kept with.
LEMMA AskedInductive == Spec => []AskedOfBackoff
<1>1. Init => AskedOfBackoff
  BY DEF Init, AskedOfBackoff
<1>2. ASSUME IInv, AskedOfBackoff, [Next]_vars PROVE AskedOfBackoff'
  <2>1. CASE UNCHANGED <<asked, wait>>
    BY <1>2, <2>1 DEF AskedOfBackoff, FullJitterBackoff, JitterBound, Wrap, Ceiling
  <2>2. CASE asked' = <<0, 0, 0>> /\ wait' = 0
    BY <2>2 DEF AskedOfBackoff
  <2>3. CASE \E b \in Backoffs :
               /\ asked' = <<b[1], b[2], attempt - 1>>
               /\ wait' \in FullJitterBackoff(b[1], b[2], attempt - 1)
    <3>1. attempt - 1 \in Nat
      BY <1>2, BoundsAssumption DEF IInv, Types, Attempts
    <3> QED BY <2>3, <3>1 DEF AskedOfBackoff, FullJitterBackoff, JitterBound, Wrap, Ceiling
  <2>4. CASE Begin \/ ExecutePart \/ ParseAddresses \/ CheckRateLimit \/ Call
    BY <2>1, <2>4 DEF Begin, ExecutePart, ParseAddresses, CheckRateLimit, Call, retry
  <2>5. CASE Receive \/ StopWaiting \/ RegisterTemplate \/ Cancel \/ UNCHANGED vars
    BY <2>1, <2>5 DEF Receive, StopWaiting, RegisterTemplate, Cancel, vars, retry
  <2>6. CASE Decide
    BY <2>1, <2>3, <2>6 DEF Decide, retry
  <2>7. CASE Wake
    BY <2>2, <2>7 DEF Wake
  <2>8. ASSUME NEW i \in Attempts, Exchange(i) PROVE AskedOfBackoff'
    <3>1. VendorOnly
      BY <2>8 DEF Exchange, StageSucceeds, StageFails, RelayTakes, RequestFails, LookUpKey,
                  Process, Confirm
    <3> QED BY <2>1, <3>1 DEF VendorOnly, retry
  <2> QED BY <1>2, <2>4, <2>5, <2>6, <2>7, <2>8 DEF Next
<1> QED BY <1>1, <1>2, Inductive, PTL DEF Spec

\* Where no ceiling is beyond 2^(Width-2), or it is MaxInt, a caller that waits
\* waits as long as is promised, for any base, ceiling and attempt: an overflow of
\* the product, to a negative value or to a small positive one, never makes the
\* wait longer or negative, and one of the bound panics.
THEOREM WaitsInRange == ASSUME SaneCeilings PROVE Spec => []WaitInRange
<1>1. ASSUME AskedOfBackoff PROVE WaitInRange
  <2> DEFINE InRange(w, k) == w >= 0 /\ w <= asked[1] * 2^k /\ w <= Ceiling(asked[2])
  <2>1. CASE asked = <<0, 0, 0>> /\ wait = 0
    <3>1. Ceiling(0) \in Nat
      BY BackoffAssumption, MaxIntType DEF Ceiling
    <3>2. ASSUME NEW k \in Nat PROVE 0 >= 0 /\ 0 <= 0 * 2^k /\ 0 <= Ceiling(0)
      <4>1. \A p \in Nat : 0 <= 0 * p
        OBVIOUS
      <4> QED BY <3>1, <4>1, PowerPositive
    <3>3. InRange(0, 0) /\ \A k \in Nat : InRange(0, k)
      BY <2>1, <3>2
    <3>4. \A k \in 0..Width : FullJitterBackoff(0, 0, k) = {0}
      BY DEF FullJitterBackoff
    <3>5. 0..Width \subseteq Nat
      OBVIOUS
    <3> QED BY <2>1, <3>3, <3>4, <3>5 DEF WaitInRange
  <2>2. ASSUME NEW b \in Backoffs, NEW n \in Nat, asked = <<b[1], b[2], n>>,
               wait \in FullJitterBackoff(b[1], b[2], n)
        PROVE  WaitInRange
    <3>1. asked[1] = b[1] /\ asked[2] = b[2] /\ asked[3] = n
      BY <2>2
    <3>2. ASSUME NEW k \in Nat, NEW w \in FullJitterBackoff(b[1], b[2], k)
          PROVE  InRange(w, k)
      <4>1. w \in Nat /\ w <= b[1] * 2^k /\ w <= Ceiling(b[2])
        BY BackoffInRange
      <4> QED BY <3>1, <4>1
    <3>3. n..Width \subseteq Nat
      OBVIOUS
    <3> QED BY <2>2, <3>1, <3>2, <3>3 DEF WaitInRange
  <2> QED BY <1>1, <2>1, <2>2 DEF AskedOfBackoff
<1> QED BY <1>1, AskedInductive, PTL

=============================================================================
