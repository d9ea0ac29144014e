-------------------------- MODULE TemplateValidator --------------------------
(***************************************************************************)
(* src/templatevalidator.whatsapp.go: metaTemplateValidator, which checks  *)
(* WhatsApp messages against a cached listing of the templates Meta has    *)
(* approved.  Any number of goroutines call Validate and Refresh; v.mu is  *)
(* held in claimListing, in the two critical sections of Refresh and in    *)
(* snapshot, never during a listing, so each of these is a step.           *)
(*                                                                         *)
(* One template and the messages that use it.  `approved' is what Meta     *)
(* would list now: the template is approved and the messages fit it.  It   *)
(* may change at any time (an approval, an edit, a revocation).  A list is *)
(* reduced to what checkTemplate, a pure function of a list and a message, *)
(* makes of it: "with" the template, or "without" it.                      *)
(*                                                                         *)
(* Times are differences to now, saturated at the value they are compared  *)
(* with, as in CircuitBreaker.                                             *)
(***************************************************************************)
EXTENDS Integers

CONSTANTS Callers,          \* goroutines that call Validate or Refresh
          TTL,              \* MetaTemplateValidatorDeps.TTL
          ListMinInterval   \* templateListMinInterval

ASSUME IntervalsAssumption == /\ TTL \in Nat \ {0}
                              /\ ListMinInterval \in Nat \ {0}

AtMost(n, limit) == IF n > limit THEN limit ELSE n

\* v.minInterval, as NewMetaTemplateValidator computes it.
MinInterval == AtMost(ListMinInterval, TTL)

VARIABLES
    approved,      \* Meta: the template is approved, and fits the messages
    list,          \* v.templates: "none" (nil), or what it says
    sinceFetch,    \* now - v.fetchedAt, at most TTL
    sinceAttempt,  \* now - v.attemptedAt, at most MinInterval; the zero time
                   \*   is long ago
    pc,            \* where each caller is
    purpose,       \* why it lists: the TTL is over, a refusal wants a second
                   \*   look, or the application called Refresh
    answer         \* the list Meta sent it

\* History variables, read by no guard.
VARIABLES
    lacked,        \* Meta has at some time not had the template
    sinceApproved, \* how long Meta has had it, at most MinInterval + 1
    sinceClaim,    \* since a claim was last granted, at most MinInterval
    promised,      \* callers in a Refresh that began while Meta had the
                   \*   template, as it has had it since
    refreshed,     \* such a Refresh has succeeded
    entitled       \* callers that began to Validate after that

code    == <<list, sinceFetch, sinceAttempt, pc, purpose, answer>>
ghosts  == <<promised, refreshed, entitled>>
history == <<lacked, sinceApproved, sinceClaim, ghosts>>
vars    == <<approved, code, history>>

Idle     == {"idle", "accepted", "unchecked", "refused"}
Locations == Idle \union {"refresh", "listing", "answered",
                          "check", "reclaim", "recheck"}
Purposes == {"due", "second", "direct"}

Go(c, location) == pc' = [pc EXCEPT ![c] = location]

-----------------------------------------------------------------------------

Init == /\ approved \in BOOLEAN
        /\ list = "none"
        /\ sinceFetch = TTL
        /\ sinceAttempt = MinInterval
        /\ pc = [c \in Callers |-> "idle"]
        /\ purpose = [c \in Callers |-> "due"]
        /\ answer = [c \in Callers |-> "without"]
        /\ lacked = ~approved
        /\ sinceApproved = 0
        /\ sinceClaim = MinInterval
        /\ promised = {}
        /\ refreshed = FALSE
        /\ entitled = {}

-----------------------------------------------------------------------------
(* claimListing *)

\* What Validate's first claim calls due.  Mutant: a list never grows old.
DueOnce == list = "none"
Due     == list = "none" \/ sinceFetch >= TTL

\* The claim is granted: no listing started within the last MinInterval.
\* Mutant: the claim leaves attemptedAt for Refresh to set.
ClaimUnrecorded(c, why) ==
    /\ sinceAttempt >= MinInterval
    /\ sinceClaim' = 0
    /\ purpose' = [purpose EXCEPT ![c] = why]
    /\ Go(c, "refresh")
    /\ UNCHANGED sinceAttempt

Claim(c, why) ==
    /\ sinceAttempt >= MinInterval
    /\ sinceAttempt' = 0
    /\ sinceClaim' = 0
    /\ purpose' = [purpose EXCEPT ![c] = why]
    /\ Go(c, "refresh")

NoClaim(c, location) == /\ Go(c, location)
                        /\ UNCHANGED <<purpose, sinceAttempt, sinceClaim>>

-----------------------------------------------------------------------------
(* Validate *)

\* The first claim.
BeginValidate(c) ==
    /\ pc[c] \in Idle
    /\ \/ Due /\ Claim(c, "due")
       \/ /\ ~(Due /\ sinceAttempt >= MinInterval)
          /\ NoClaim(c, "check")
    /\ entitled' = IF refreshed THEN entitled \union {c} ELSE entitled \ {c}
    /\ UNCHANGED <<approved, list, sinceFetch, answer, lacked, sinceApproved,
                   promised, refreshed>>

\* Mutant: no list is a list without the template.
CheckNilRefused(c) ==
    /\ pc[c] = "check"
    /\ Go(c, IF list = "with" THEN "accepted" ELSE "reclaim")
    /\ UNCHANGED <<approved, list, sinceFetch, sinceAttempt, purpose, answer,
                   history>>

\* snapshot and checkTemplate: without a list the message goes through.
Check(c) ==
    /\ pc[c] = "check"
    /\ Go(c, CASE list = "none"    -> "unchecked"
               [] list = "with"    -> "accepted"
               [] list = "without" -> "reclaim")
    /\ UNCHANGED <<approved, list, sinceFetch, sinceAttempt, purpose, answer,
                   history>>

\* A refusal asks for a second look, and stands when it gets none.
Reclaim(c) ==
    /\ pc[c] = "reclaim"
    /\ \/ Claim(c, "second")
       \/ sinceAttempt < MinInterval /\ NoClaim(c, "refused")
    /\ UNCHANGED <<approved, list, sinceFetch, answer, lacked, sinceApproved,
                   ghosts>>

\* After the second look: the snapshot of now, whoever stored it.  A nil map
\* would hold no template.
Recheck(c) ==
    /\ pc[c] = "recheck"
    /\ Go(c, IF list = "with" THEN "accepted" ELSE "refused")
    /\ UNCHANGED <<approved, list, sinceFetch, sinceAttempt, purpose, answer,
                   history>>

-----------------------------------------------------------------------------
(* Refresh *)

\* The application calls Refresh.
BeginRefresh(c) ==
    /\ pc[c] \in Idle
    /\ Go(c, "refresh")
    /\ purpose' = [purpose EXCEPT ![c] = "direct"]
    /\ promised' = IF approved THEN promised \union {c} ELSE promised
    /\ entitled' = entitled \ {c}
    /\ UNCHANGED <<approved, list, sinceFetch, sinceAttempt, answer, lacked,
                   sinceApproved, sinceClaim, refreshed>>

StartListing(c) ==
    /\ pc[c] = "refresh"
    /\ sinceAttempt' = 0
    /\ Go(c, "listing")
    /\ UNCHANGED <<approved, list, sinceFetch, purpose, answer, history>>

\* Mutant: a template of any status is taken over from Meta's answer.
MetaAnswersUnfiltered(c) ==
    /\ pc[c] = "listing"
    /\ answer' = [answer EXCEPT ![c] = IF approved THEN "with" ELSE "pending"]
    /\ Go(c, "answered")
    /\ UNCHANGED <<approved, list, sinceFetch, sinceAttempt, purpose, history>>

\* Meta answers; the answer is not here yet.
MetaAnswers(c) ==
    /\ pc[c] = "listing"
    /\ answer' = [answer EXCEPT ![c] = IF approved THEN "with" ELSE "without"]
    /\ Go(c, "answered")
    /\ UNCHANGED <<approved, list, sinceFetch, sinceAttempt, purpose, history>>

\* The local variable of a listing that is over: keeps the states few.
Forget(c) == answer' = [answer EXCEPT ![c] = "without"]

\* Mutant: a list is only stored where there is none.
StoreOnce(c) ==
    /\ pc[c] = "answered"
    /\ list' = IF list = "none" THEN answer[c] ELSE list
    /\ sinceFetch' = 0
    /\ Go(c, CASE purpose[c] = "due"    -> "check"
               [] purpose[c] = "second" -> "recheck"
               [] purpose[c] = "direct" -> "idle")
    /\ refreshed' = (refreshed \/ c \in promised)
    /\ promised' = promised \ {c}
    /\ Forget(c)
    /\ UNCHANGED <<approved, sinceAttempt, purpose, lacked,
                   sinceApproved, sinceClaim, entitled>>

\* The answer arrives: the list is replaced, whatever it was.
Store(c) ==
    /\ pc[c] = "answered"
    /\ list' = answer[c]
    /\ sinceFetch' = 0
    /\ Go(c, CASE purpose[c] = "due"    -> "check"
               [] purpose[c] = "second" -> "recheck"
               [] purpose[c] = "direct" -> "idle")
    /\ refreshed' = (refreshed \/ c \in promised)
    /\ promised' = promised \ {c}
    /\ Forget(c)
    /\ UNCHANGED <<approved, sinceAttempt, purpose, lacked,
                   sinceApproved, sinceClaim, entitled>>

\* GetApprovedTemplates returns an error (or its ctx ended, or its answer was
\* lost): the list stays, and a second look that failed leaves the refusal.
ListingFails(c) ==
    /\ pc[c] \in {"listing", "answered"}
    /\ Go(c, CASE purpose[c] = "due"    -> "check"
               [] purpose[c] = "second" -> "refused"
               [] purpose[c] = "direct" -> "idle")
    /\ promised' = promised \ {c}
    /\ Forget(c)
    /\ UNCHANGED <<approved, list, sinceFetch, sinceAttempt, purpose, lacked,
                   sinceApproved, sinceClaim, refreshed, entitled>>

-----------------------------------------------------------------------------

\* Meta approves the template; or rejects, edits or deletes it.
Approve == /\ ~approved
           /\ approved' = TRUE
           /\ sinceApproved' = 0
           /\ UNCHANGED <<code, lacked, sinceClaim, ghosts>>

Revoke == /\ approved
          /\ approved' = FALSE
          /\ lacked' = TRUE
          /\ sinceApproved' = 0
          /\ promised' = {}
          /\ refreshed' = FALSE
          /\ entitled' = {}
          /\ UNCHANGED <<code, sinceClaim>>

Tick == /\ sinceFetch' = AtMost(sinceFetch + 1, TTL)
        /\ sinceAttempt' = AtMost(sinceAttempt + 1, MinInterval)
        /\ sinceApproved' = IF approved THEN AtMost(sinceApproved + 1, MinInterval + 1)
                                     ELSE 0
        /\ sinceClaim' = AtMost(sinceClaim + 1, MinInterval)
        /\ UNCHANGED <<approved, list, pc, purpose, answer, lacked, ghosts>>

\* What a caller in a call does next, when its listing does not fail.
Proceed(c) == \/ Check(c)
              \/ Reclaim(c)
              \/ Recheck(c)
              \/ StartListing(c)
              \/ MetaAnswers(c)
              \/ Store(c)

\* The steps when no listing fails, and all of them.
Reliable == \/ \E c \in Callers : BeginValidate(c)
            \/ \E c \in Callers : BeginRefresh(c)
            \/ \E c \in Callers : Proceed(c)
            \/ Approve
            \/ Revoke
            \/ Tick

Next == Reliable \/ \E c \in Callers : ListingFails(c)

Spec         == Init /\ [][Next]_vars
ReliableSpec == Init /\ [][Reliable]_vars

\* Time passes, calls go on (each request to Meta has a timeout), and the
\* application keeps sending.
Fairness == /\ WF_vars(Tick)
            /\ \A c \in Callers :
                 /\ WF_vars(Proceed(c))
                 /\ WF_vars(BeginValidate(c))

FairSpec == Spec /\ Fairness

-----------------------------------------------------------------------------
(* Properties *)

TypeOK == /\ approved \in BOOLEAN
          /\ list \in {"none", "with", "without"}
          /\ sinceFetch \in 0..TTL
          /\ sinceAttempt \in 0..MinInterval
          /\ pc \in [Callers -> Locations]
          /\ purpose \in [Callers -> Purposes]
          /\ answer \in [Callers -> {"with", "without"}]
          /\ lacked \in BOOLEAN
          /\ sinceApproved \in 0..(MinInterval + 1)
          /\ sinceClaim \in 0..MinInterval
          /\ promised \subseteq Callers
          /\ refreshed \in BOOLEAN
          /\ entitled \subseteq Callers

\* A message that Meta would always have taken is never refused, whatever
\* fails or races: not at a cold start, not while another call's first listing
\* is under way, not when listings fail, not in the second look.  (A refusal is
\* a permanent error: the message is not tried again.)
NoGroundlessRefusal == \A c \in Callers : pc[c] = "refused" => lacked

\* Validate starts at most one listing per MinInterval, however many sends
\* come at once and whatever comes of the listings.
OneListingPerInterval ==
    [][(\E c \in Callers : pc[c] # "refresh" /\ pc'[c] = "refresh"
                           /\ purpose'[c] # "direct")
         => sinceClaim >= MinInterval]_vars

ListingsRecover == <>[][~ \E c \in Callers : ListingFails(c)]_vars

\* A template that stays approved is in the end accepted in every call: the
\* listings that were under way when it was approved, and Refresh calls that
\* keep putting off Validate's own listings, do not keep it refused.
ApprovalIsSeen ==
    (ListingsRecover /\ <>[]approved)
      => <>[](\A c \in Callers : pc[c] # "refused")

\* A template that stays revoked is in the end never accepted.
RevocationIsSeen ==
    (ListingsRecover /\ <>[]~approved)
      => <>[](\A c \in Callers : pc[c] # "accepted")

-----------------------------------------------------------------------------
(* What the documentation says, and the code does not do *)

\* interfaces.go: "a template approved or edited since the last listing is
\* refused only for that long", a MinInterval.  A call whose claim is denied
\* because another call's listing is under way refuses on a list of any age.
RefusedOnlyWhileNew ==
    [][approved /\ (\E c \in Callers : pc[c] # "refused" /\ pc'[c] = "refused")
         => sinceApproved <= MinInterval]_vars

\* interfaces.go: "Refresh forces an immediate re-fetch [...] call this right
\* after registering a new template with Meta, instead of waiting out the TTL".
\* A slower listing that Meta answered before overwrites the refreshed list,
\* and the template is refused again.
RefreshTakesEffect == \A c \in entitled : pc[c] # "refused"

=============================================================================
