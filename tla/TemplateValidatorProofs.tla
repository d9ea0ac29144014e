----------------------- MODULE TemplateValidatorProofs -----------------------
(***************************************************************************)
(* For every set of callers and all intervals: the types, that no refusal  *)
(* is groundless, and that claims keep their interval.                     *)
(*                                                                         *)
(* NoGroundlessRefusal is not inductive: a refusal is prepared many steps  *)
(* before, by an answer of Meta's, the list it becomes, and the check that *)
(* asks for a second look.  Evidence says of each of these that Meta has   *)
(* lacked the template.  OneListingPerInterval needs ClaimIsAttempt: every *)
(* claim is recorded as an attempt, so attempts are never older.           *)
(***************************************************************************)
EXTENDS TemplateValidator, TLAPS

Evidence ==
    /\ ~approved => lacked
    /\ list = "without" => lacked
    /\ \A c \in Callers :
         /\ pc[c] = "answered" /\ answer[c] = "without" => lacked
         /\ pc[c] \in {"reclaim", "refused"} => lacked
         /\ /\ pc[c] \in {"refresh", "listing", "answered"}
            /\ purpose[c] = "second"
            => lacked
         /\ pc[c] = "recheck" => list # "none"

ClaimIsAttempt == sinceAttempt <= sinceClaim

IInv == TypeOK /\ Evidence /\ ClaimIsAttempt

LEMMA MinIntervalType == MinInterval \in Nat \ {0}
  BY IntervalsAssumption DEF MinInterval, AtMost

(***************************************************************************)
(* Type correctness.                                                       *)
(***************************************************************************)
LEMMA TypeInit == Init => TypeOK
  <1> SUFFICES ASSUME Init
               PROVE  TypeOK
    OBVIOUS
  <1>1. /\ approved \in BOOLEAN
        /\ lacked \in BOOLEAN
        /\ refreshed \in BOOLEAN
    BY Zenon DEF Init
  <1>2. /\ list \in {"none", "with", "without"}
        /\ sinceFetch \in 0..TTL
        /\ sinceAttempt \in 0..MinInterval
        /\ sinceApproved \in 0..(MinInterval + 1)
        /\ sinceClaim \in 0..MinInterval
    BY IntervalsAssumption, MinIntervalType DEF Init
  <1>3. /\ pc \in [Callers -> Locations]
        /\ purpose \in [Callers -> Purposes]
        /\ answer \in [Callers -> {"with", "without"}]
        /\ promised \subseteq Callers
        /\ entitled \subseteq Callers
    BY DEF Init, Locations, Idle, Purposes
  <1> QED
    BY <1>1, <1>2, <1>3 DEF TypeOK

LEMMA TypeBegin ==
    ASSUME TypeOK, NEW c \in Callers, BeginValidate(c) \/ BeginRefresh(c)
    PROVE  TypeOK'
  <1> USE MinIntervalType DEF TypeOK, Locations, Idle, Purposes, Go
  <1>1. CASE BeginValidate(c)
    <2>1. CASE Claim(c, "due")
      BY <1>1, <2>1 DEF BeginValidate, Claim
    <2>2. CASE NoClaim(c, "check")
      BY <1>1, <2>2 DEF BeginValidate, NoClaim
    <2> QED
      BY <1>1, <2>1, <2>2 DEF BeginValidate
  <1>2. CASE BeginRefresh(c)
    BY <1>2 DEF BeginRefresh
  <1> QED
    BY <1>1, <1>2

LEMMA TypeListing ==
    ASSUME TypeOK, NEW c \in Callers,
           StartListing(c) \/ MetaAnswers(c) \/ Store(c) \/ ListingFails(c)
    PROVE  TypeOK'
  <1> USE MinIntervalType, IntervalsAssumption
      DEF TypeOK, Locations, Idle, Purposes, Go
  <1>1. CASE StartListing(c)
    BY <1>1 DEF StartListing, history, ghosts
  <1>2. CASE MetaAnswers(c)
    BY <1>2 DEF MetaAnswers, history, ghosts
  <1>3. CASE Store(c)
    BY <1>3 DEF Store, Forget
  <1>4. CASE ListingFails(c)
    BY <1>4 DEF ListingFails, Forget
  <1> QED
    BY <1>1, <1>2, <1>3, <1>4

LEMMA TypeVerdict ==
    ASSUME TypeOK, NEW c \in Callers, Check(c) \/ Reclaim(c) \/ Recheck(c)
    PROVE  TypeOK'
  <1> USE MinIntervalType
      DEF TypeOK, Locations, Idle, Purposes, Go, history, ghosts
  <1>1. CASE Check(c)
    BY <1>1 DEF Check
  <1>2. CASE Reclaim(c)
    <2>1. CASE Claim(c, "second")
      BY <1>2, <2>1 DEF Reclaim, Claim
    <2>2. CASE NoClaim(c, "refused")
      BY <1>2, <2>2 DEF Reclaim, NoClaim
    <2> QED
      BY <1>2, <2>1, <2>2 DEF Reclaim
  <1>3. CASE Recheck(c)
    BY <1>3 DEF Recheck
  <1> QED
    BY <1>1, <1>2, <1>3

LEMMA TypeEnvironment ==
    ASSUME TypeOK, Approve \/ Revoke \/ Tick
    PROVE  TypeOK'
  <1> USE MinIntervalType DEF TypeOK, code, ghosts
  <1>1. CASE Approve
    BY <1>1 DEF Approve
  <1>2. CASE Revoke
    <2>1. /\ approved' \in BOOLEAN
          /\ lacked' \in BOOLEAN
          /\ refreshed' \in BOOLEAN
      BY <1>2, Zenon DEF Revoke
    <2>2. /\ sinceApproved' = 0
          /\ promised' = {}
          /\ entitled' = {}
          /\ UNCHANGED <<code, sinceClaim>>
      BY <1>2 DEF Revoke
    <2> QED
      BY <2>1, <2>2
  <1>3. CASE Tick
    BY <1>3, IntervalsAssumption DEF Tick, AtMost
  <1> QED
    BY <1>1, <1>2, <1>3

LEMMA TypeNext == TypeOK /\ [Next]_vars => TypeOK'
  <1> SUFFICES ASSUME TypeOK, [Next]_vars
               PROVE  TypeOK'
    OBVIOUS
  <1>1. CASE UNCHANGED vars
    BY <1>1 DEF TypeOK, vars, code, history, ghosts
  <1> QED
    BY <1>1, TypeBegin, TypeListing, TypeVerdict, TypeEnvironment
    DEF Next, Reliable, Proceed

\* Every reachable state has its types.
THEOREM TypeCorrect == Spec => []TypeOK
  BY TypeInit, TypeNext, PTL DEF Spec

(***************************************************************************)
(* Evidence.                                                               *)
(***************************************************************************)
LEMMA EvidenceBegin ==
    ASSUME TypeOK, Evidence, NEW c \in Callers,
           BeginValidate(c) \/ BeginRefresh(c)
    PROVE  Evidence'
  <1> USE DEF TypeOK, Evidence, Go
  <1>1. CASE BeginValidate(c)
    <2>1. CASE Claim(c, "due")
      BY <1>1, <2>1 DEF BeginValidate, Claim
    <2>2. CASE NoClaim(c, "check")
      BY <1>1, <2>2 DEF BeginValidate, NoClaim
    <2> QED
      BY <1>1, <2>1, <2>2 DEF BeginValidate
  <1>2. CASE BeginRefresh(c)
    BY <1>2 DEF BeginRefresh
  <1> QED
    BY <1>1, <1>2

LEMMA EvidenceListing ==
    ASSUME TypeOK, Evidence, NEW c \in Callers,
           StartListing(c) \/ MetaAnswers(c) \/ Store(c) \/ ListingFails(c)
    PROVE  Evidence'
  <1> USE DEF TypeOK, Evidence, Go, Purposes
  <1>1. CASE StartListing(c)
    BY <1>1 DEF StartListing, history
  <1>2. CASE MetaAnswers(c)
    BY <1>2 DEF MetaAnswers, history
  <1>3. CASE Store(c)
    BY <1>3 DEF Store, Forget
  <1>4. CASE ListingFails(c)
    BY <1>4 DEF ListingFails, Forget
  <1> QED
    BY <1>1, <1>2, <1>3, <1>4

LEMMA EvidenceVerdict ==
    ASSUME TypeOK, Evidence, NEW c \in Callers,
           Check(c) \/ Reclaim(c) \/ Recheck(c)
    PROVE  Evidence'
  <1> USE DEF TypeOK, Evidence, Go, history
  <1>1. CASE Check(c)
    BY <1>1 DEF Check
  <1>2. CASE Reclaim(c)
    <2>1. CASE Claim(c, "second")
      BY <1>2, <2>1 DEF Reclaim, Claim
    <2>2. CASE NoClaim(c, "refused")
      BY <1>2, <2>2 DEF Reclaim, NoClaim
    <2> QED
      BY <1>2, <2>1, <2>2 DEF Reclaim
  <1>3. CASE Recheck(c)
    BY <1>3 DEF Recheck
  <1> QED
    BY <1>1, <1>2, <1>3

LEMMA EvidenceNext == TypeOK /\ Evidence /\ [Next]_vars => Evidence'
  <1> SUFFICES ASSUME TypeOK, Evidence, [Next]_vars
               PROVE  Evidence'
    OBVIOUS
  <1>1. CASE Approve \/ Revoke
    BY <1>1 DEF Approve, Revoke, Evidence, code
  <1>2. CASE Tick
    BY <1>2 DEF Tick, Evidence
  <1>3. CASE UNCHANGED vars
    BY <1>3 DEF Evidence, vars, code, history
  <1> QED
    BY <1>1, <1>2, <1>3, EvidenceBegin, EvidenceListing, EvidenceVerdict
    DEF Next, Reliable, Proceed

(***************************************************************************)
(* The claims.                                                             *)
(***************************************************************************)
LEMMA ClaimNext == TypeOK /\ ClaimIsAttempt /\ [Next]_vars => ClaimIsAttempt'
  <1> SUFFICES ASSUME TypeOK, ClaimIsAttempt, [Next]_vars
               PROVE  ClaimIsAttempt'
    OBVIOUS
  <1>1. CASE sinceAttempt' = 0
    <2>1. sinceClaim' \in Nat
      BY TypeNext DEF TypeOK
    <2> QED
      BY <1>1, <2>1 DEF ClaimIsAttempt
  <1>2. CASE UNCHANGED <<sinceAttempt, sinceClaim>>
    BY <1>2 DEF ClaimIsAttempt
  <1>3. CASE Tick
    BY <1>3, MinIntervalType DEF Tick, AtMost, ClaimIsAttempt, TypeOK
  <1>4. ASSUME NEW c \in Callers,
               BeginValidate(c) \/ BeginRefresh(c) \/ Proceed(c)
                 \/ ListingFails(c)
        PROVE  ClaimIsAttempt'
    BY <1>1, <1>2, <1>4
    DEF BeginValidate, BeginRefresh, Proceed, Check, Reclaim, Recheck, Claim,
        NoClaim, StartListing, MetaAnswers, Store, ListingFails, history
  <1>5. CASE Approve \/ Revoke \/ UNCHANGED vars
    BY <1>2, <1>5 DEF Approve, Revoke, vars, code, history
  <1> QED
    BY <1>3, <1>4, <1>5 DEF Next, Reliable

LEMMA InvInit == Init => IInv
  <1> SUFFICES ASSUME Init
               PROVE  IInv
    OBVIOUS
  <1>1. ~approved => lacked
    BY Zenon DEF Init
  <1>2. Evidence
    BY <1>1 DEF Init, Evidence
  <1>3. ClaimIsAttempt
    BY MinIntervalType DEF Init, ClaimIsAttempt
  <1> QED
    BY <1>2, <1>3, TypeInit DEF IInv

LEMMA InvNext == IInv /\ [Next]_vars => IInv'
  BY TypeNext, EvidenceNext, ClaimNext DEF IInv

\* IInv holds in every reachable state, for any values of the constants.
THEOREM Invariance == Spec => []IInv
  BY InvInit, InvNext, PTL DEF Spec

\* A message of a template Meta has always had is never refused.
THEOREM RefusalsAreGrounded == Spec => []NoGroundlessRefusal
  <1>1. IInv => NoGroundlessRefusal
    BY DEF IInv, Evidence, NoGroundlessRefusal
  <1> QED
    BY <1>1, Invariance, PTL

\* Between two listings that Validate starts, MinInterval passes.
THEOREM ClaimsKeepInterval == Spec => OneListingPerInterval
  <1> DEFINE Claimed == \E c \in Callers : pc[c] # "refresh" /\ pc'[c] = "refresh"
                                            /\ purpose'[c] # "direct"
  <1>1. ASSUME IInv, Next, NEW d \in Callers,
               pc[d] # "refresh", pc'[d] = "refresh", purpose'[d] # "direct"
        PROVE  sinceAttempt >= MinInterval
    <2> USE <1>1 DEF IInv, TypeOK, Go
    <2>1. ASSUME NEW c \in Callers, BeginValidate(c)
          PROVE  sinceAttempt >= MinInterval
      BY <2>1 DEF BeginValidate, Claim, NoClaim
    <2>2. ASSUME NEW c \in Callers, BeginRefresh(c)
          PROVE  sinceAttempt >= MinInterval
      BY <2>2 DEF BeginRefresh
    <2>3. ASSUME NEW c \in Callers, Reclaim(c)
          PROVE  sinceAttempt >= MinInterval
      BY <2>3 DEF Reclaim, Claim, NoClaim
    <2>4. ASSUME NEW c \in Callers,
                 \/ Check(c) \/ Recheck(c) \/ StartListing(c)
                 \/ MetaAnswers(c) \/ Store(c) \/ ListingFails(c)
          PROVE  sinceAttempt >= MinInterval
      BY <2>4 DEF Check, Recheck, StartListing, MetaAnswers, Store,
                  ListingFails, Purposes
    <2>5. CASE Approve \/ Revoke \/ Tick
      BY <2>5 DEF Approve, Revoke, Tick, code
    <2> QED
      BY <2>1, <2>2, <2>3, <2>4, <2>5 DEF Next, Reliable, Proceed
  <1>2. ASSUME IInv, sinceAttempt >= MinInterval
        PROVE  sinceClaim >= MinInterval
    BY <1>2, MinIntervalType DEF IInv, TypeOK, ClaimIsAttempt
  <1>3. IInv /\ [Next]_vars => [Claimed => sinceClaim >= MinInterval]_vars
    BY <1>1, <1>2
  <1>4. Spec => [][Claimed => sinceClaim >= MinInterval]_vars
    BY <1>3, Invariance, PTL DEF Spec
  <1> QED
    BY <1>4 DEF OneListingPerInterval
=============================================================================
