------------------------------ MODULE CodDelivery ------------------------------
(***************************************************************************)
(* Cash on delivery across the two services: DSH dispatch (Dispatch), the  *)
(* captain wallet in WLT (CaptainWallet), and what runs between them: the  *)
(* acceptance requests, which reserve in WLT, respond in DSH and undo the  *)
(* reservation when the response failed (services/dsh/backend/internal/    *)
(* captain/service.go), and the reconciler, which applies the rows of the  *)
(* financial handoff outbox in WLT and then marks them posted              *)
(* (internal/financialhandoff/service.go).                                 *)
(*                                                                         *)
(* Each step is one transaction of one service.  Several requests, also of *)
(* one captain for one offer, run at once.  A fault ends a request between *)
(* two of its steps: the process stops, or a call times out after it took  *)
(* effect.  The reconciler keeps nothing between its calls but the outcome *)
(* of the last one, so it needs no state except for a release that has     *)
(* been applied and is not yet marked posted.                              *)
(***************************************************************************)
EXTENDS Integers, FiniteSets

CONSTANTS Orders, Captains, Mode, MaxOffers, None,   \* see Dispatch
          Cash, Fee,                                 \* see CaptainWallet
          Opening,     \* Opening[c]: the captain's funded wallet balance
          Requests,    \* acceptance requests in flight at once
          MaxFaults    \* bound on the faults of a behaviour

VARIABLES
  order, payment, target, offer, overdue, assignment, handoff, admission, available,
  offerRelease, assignmentRelease, settlement,                         \* Dispatch
  intent, collectedBy, reservation, event, earning, payout, balance, receivable,  \* CaptainWallet
  request,     \* request[r]: phase of an acceptance request and its offer
  applied,     \* releases applied in WLT and not yet marked posted
  faults       \* faults so far

D == INSTANCE Dispatch

(* Idempotency keys: one per call site and offer. *)
Sites == {"reserve", "undo", "release", "takeback", "finalize"}
Keys == Sites \X D!Offers

W == INSTANCE CaptainWallet WITH Payouts <- {}, TopUps <- {}, MaxBalance <- 0

(* The orders here are those a platform captain delivers for cash: only    *)
(* their acceptance reserves.                                              *)
ASSUME OrdersAssumption ==
  /\ Mode \in [Orders -> {"BTHWANI_CAPTAIN"}]
  /\ Cash \in [Orders -> Nat \ {0}] /\ Fee \in [Orders -> Nat]
  /\ Opening \in [Captains -> Nat]

ASSUME BoundsAssumption == MaxOffers \in Nat /\ MaxFaults \in Nat

ASSUME NoneAssumption ==
  None \notin Orders \cup Captains \cup D!Offers \cup W!Reservation \cup W!Request \cup W!Payout

dispatchVars == <<order, payment, target, offer, overdue, assignment, handoff, admission,
                  available, offerRelease, assignmentRelease, settlement>>
walletVars == <<intent, collectedBy, reservation, event, earning, payout, balance, receivable>>
linkVars == <<request, applied, faults>>
vars == <<dispatchVars, walletVars, linkVars>>

Phases == {"reserving", "responding", "rereading", "releasing"}
Idle == [phase |-> "idle", offer |-> None]

TypeOK ==
  /\ D!TypeOK
  /\ W!TypeOK
  /\ request \in [Requests -> [phase : Phases, offer : D!Offers] \cup {Idle}]
  /\ applied \subseteq {"release", "takeback"} \X D!Offers
  /\ faults \in 0 .. MaxFaults

Init ==
  /\ D!Init
  /\ intent = [o \in Orders |-> "REQUIRES_COLLECTION"]
  /\ collectedBy = [o \in Orders |-> None]
  /\ reservation = [k \in Keys |-> None]
  /\ event = [k \in Keys |-> None]
  /\ earning = [o \in Orders |-> None]
  /\ payout = [p \in {} |-> None]
  /\ balance = Opening
  /\ receivable = 0
  /\ request = [r \in Requests |-> Idle]
  /\ applied = {}
  /\ faults = 0

-----------------------------------------------------------------------------
(* Acceptance requests: RespondToOffer with decision accept. *)

Goto(r, phase) == request' = [request EXCEPT ![r].phase = phase]
Finish(r) == request' = [request EXCEPT ![r] = Idle]

(* captainOfferAcceptancePreflight on the offer just read. *)
StartAccept(r, i) ==
  /\ request[r] = Idle
  /\ offer[i] = "offered" /\ i \notin overdue
  /\ Cash[target[i]] > 0
  /\ request' = [request EXCEPT ![r] = [phase |-> "reserving", offer |-> i]]
  /\ UNCHANGED <<dispatchVars, walletVars, applied, faults>>

(* Only the error of the reserve call is looked at: a replay that answers  *)
(* with a released reservation counts as reserved.                         *)
Reserve(r) ==
  LET i == request[r].offer
      k == <<"reserve", i>>
  IN  /\ request[r].phase = "reserving"
      /\ \/ W!ReserveCaptainCOD(k, target[i], i[1])
         \/ W!ReserveReplays(k, target[i], i[1]) /\ UNCHANGED walletVars
      /\ Goto(r, "responding")
      /\ UNCHANGED <<dispatchVars, applied, faults>>

ReserveRefused(r) ==
  LET i == request[r].offer
      k == <<"reserve", i>>
  IN  /\ request[r].phase = "reserving"
      /\ ~W!CanReserve(k, target[i], i[1])
      /\ ~W!ReserveReplays(k, target[i], i[1])
      /\ Finish(r)
      /\ UNCHANGED <<dispatchVars, walletVars, applied, faults>>

Respond(r) ==
  /\ request[r].phase = "responding"
  /\ D!AcceptCaptainOffer(request[r].offer)
  /\ Finish(r)
  /\ UNCHANGED <<walletVars, applied, faults>>

(* The offer ended, the custody policy refused, or the database failed. *)
RespondRefused(r) ==
  /\ request[r].phase = "responding"
  /\ Goto(r, "rereading")
  /\ UNCHANGED <<dispatchVars, walletVars, applied, faults>>

RereadTrusting(r) ==   \* mutant: leaves an ended offer to its release row
  LET i == request[r].offer
  IN  /\ request[r].phase = "rereading"
      /\ D!Lapsed({i[1]}) = {}
      /\ IF offer[i] # "offered" THEN Finish(r) ELSE Goto(r, "releasing")
      /\ UNCHANGED <<dispatchVars, walletVars, applied, faults>>

Reread(r) ==
  LET i == request[r].offer
  IN  /\ request[r].phase = "rereading"
      /\ D!Lapsed({i[1]}) = {}
      /\ IF offer[i] = "accepted" THEN Finish(r) ELSE Goto(r, "releasing")
      /\ UNCHANGED <<dispatchVars, walletVars, applied, faults>>

(* The caller answers with the error of the response, whatever came of it. *)
ReleaseAfterFailure(r) ==
  LET i == request[r].offer
      k == <<"undo", i>>
      refused == event[k] # None \/ intent[target[i]] = "COLLECTED" \/ ~W!Active(target[i], i[1])
  IN  /\ request[r].phase = "releasing"
      /\ W!ReleaseCaptainCOD(k, target[i], i[1]) \/ (refused /\ UNCHANGED walletVars)
      /\ Finish(r)
      /\ UNCHANGED <<dispatchVars, applied, faults>>

(* The request stops here, or its last call took effect unheard. *)
Fault(r) ==
  /\ request[r] # Idle
  /\ faults < MaxFaults
  /\ faults' = faults + 1
  /\ Finish(r)
  /\ UNCHANGED <<dispatchVars, walletVars, applied>>

-----------------------------------------------------------------------------
(* The reconciler: CAPTAIN_COD_RELEASE. *)

Pending(site, i) ==
  \/ site = "release" /\ offerRelease[i] = "PENDING"
  \/ site = "takeback" /\ assignmentRelease[i] = "PENDING"

NoReservation(o, c) ==
  \A k \in Keys : reservation[k] # None => reservation[k].order # o \/ reservation[k].captain # c

(* 404, no reservation of this captain for this order, counts as done. *)
ApplyRelease(site, i) ==
  LET o == target[i]
      c == i[1]
  IN  /\ Pending(site, i)
      /\ \/ W!ReleaseCaptainCOD(<<site, i>>, o, c)
         \/ /\ W!TransitionReplays(<<site, i>>, "release", o, c) \/ NoReservation(o, c)
            /\ UNCHANGED walletVars
      /\ <<site, i>> \notin applied
      /\ applied' = applied \cup {<<site, i>>}
      /\ UNCHANGED <<dispatchVars, request, faults>>

PostRelease(site, i) ==
  /\ <<site, i>> \in applied
  /\ IF site = "release" THEN D!PostOfferRelease(i) ELSE D!PostAssignmentRelease(i)
  /\ applied' = applied \ {<<site, i>>}
  /\ UNCHANGED <<walletVars, request, faults>>

(* A restart between the two: the row is still pending and is applied again. *)
ReconcilerRestart ==
  /\ applied # {}
  /\ faults < MaxFaults
  /\ faults' = faults + 1
  /\ applied' = {}
  /\ UNCHANGED <<dispatchVars, walletVars, request>>

(* The reconciler: DELIVERY_SETTLEMENT, four idempotent calls in order. *)

EnsureCollectedAtPickup(i) ==   \* mutant: collects before the delivery
  /\ assignment[i] = "in_custody"
  /\ W!CollectPaymentIntent(target[i], i[1])
  /\ UNCHANGED <<dispatchVars, linkVars>>

EnsureCollected(i) ==
  /\ settlement[i] = "PENDING"
  /\ W!CollectPaymentIntent(target[i], i[1])
  /\ UNCHANGED <<dispatchVars, linkVars>>

Collected(i) == intent[target[i]] = "COLLECTED" /\ collectedBy[target[i]] = i[1]

FinalizeEarningLast(i) ==   \* mutant: the last two calls swapped
  /\ settlement[i] = "PENDING"
  /\ Collected(i)
  /\ W!TransitionReplays(<<"finalize", i>>, "finalize", target[i], i[1])
  /\ W!FinalizePartnerOrderEarning(target[i], i[1])
  /\ UNCHANGED <<dispatchVars, linkVars>>

FinalizeEarning(i) ==
  /\ settlement[i] = "PENDING"
  /\ Collected(i)
  /\ W!FinalizePartnerOrderEarning(target[i], i[1])
  /\ UNCHANGED <<dispatchVars, linkVars>>

FinalizeCOD(i) ==
  /\ settlement[i] = "PENDING"
  /\ Collected(i) /\ earning[target[i]] # None
  /\ W!FinalizeCaptainCOD(<<"finalize", i>>, target[i], i[1])
  /\ UNCHANGED <<dispatchVars, linkVars>>

SettledWhenCollected(i) == Collected(i)   \* mutant: posts after the first call

Settled(i) ==
  /\ Collected(i) /\ earning[target[i]] # None
  /\ W!TransitionReplays(<<"finalize", i>>, "finalize", target[i], i[1])

PostSettlement(i) ==
  /\ settlement[i] = "PENDING"
  /\ Settled(i)
  /\ D!PostSettlement(i)
  /\ UNCHANGED <<walletVars, linkVars>>

-----------------------------------------------------------------------------
RequestStep(r) ==
  \/ \E i \in D!Offers : StartAccept(r, i)
  \/ Reserve(r) \/ ReserveRefused(r)
  \/ Respond(r) \/ RespondRefused(r)
  \/ Reread(r) \/ ReleaseAfterFailure(r)
  \/ Fault(r)

Settle(i) == EnsureCollected(i) \/ FinalizeEarning(i) \/ FinalizeCOD(i) \/ PostSettlement(i)

Next ==
  \/ D!Operation /\ UNCHANGED <<walletVars, linkVars>>
  \/ \E r \in Requests : RequestStep(r)
  \/ \E site \in {"release", "takeback"}, i \in D!Offers : ApplyRelease(site, i) \/ PostRelease(site, i)
  \/ ReconcilerRestart
  \/ \E i \in D!Offers : Settle(i)

Spec == Init /\ [][Next]_vars

(* The reconciler runs every five seconds and retries what failed; offers  *)
(* run out of time, and the dispatch worker expires them every 30 seconds. *)
Fairness ==
  /\ \A i \in D!Offers : WF_vars(Settle(i))
  /\ \A i \in D!Offers : WF_vars(D!Elapse(i) /\ UNCHANGED <<walletVars, linkVars>>)
  /\ WF_vars(D!CanonicalizeCaptainOffers(Captains) /\ UNCHANGED <<walletVars, linkVars>>)

FairSpec == Spec /\ Fairness

-----------------------------------------------------------------------------
(* Properties. *)

\* DSH calls an order collected only when WLT has the whole settlement: the
\* cash collected by the deliverer, the fee earned and the cover debited,
\* whatever was retried, interrupted or released too late.
PaidMeansSettled ==
  \A o \in Orders : payment[o] = "COLLECTED" =>
    \E i \in D!Offers :
      /\ target[i] = o /\ assignment[i] = "delivered"
      /\ intent[o] = "COLLECTED" /\ collectedBy[o] = i[1] /\ earning[o] = i[1]
      /\ \E k \in Keys : W!Row(k, o, i[1], "DEBITED")

\* WLT collects cash, credits a fee and debits a wallet only for the captain
\* who delivered: retries and late calls of earlier captains touch nobody else.
OnlyDelivererIsCharged ==
  \A o \in Orders, c \in Captains :
    collectedBy[o] = c \/ earning[o] = c \/ (\E k \in Keys : W!Row(k, o, c, "DEBITED"))
    => \E i \in D!Offers : target[i] = o /\ i[1] = c /\ assignment[i] = "delivered"

\* Claim: what dispatch no longer wants held is reconciled.  A reservation
\* covers its captain for its order, whichever offer took it: while it is
\* active, an offer of that order to that captain is open or being delivered,
\* or a release row or a running request of such an offer will end it.
HoldAccounted ==
  \A i \in D!Offers : W!Row(<<"reserve", i>>, target[i], i[1], "ACTIVE") =>
    \E j \in D!Offers :
      /\ target[j] = target[i] /\ j[1] = i[1]
      /\ \/ offer[j] = "offered"
         \/ assignment[j] \in D!Working \cup {"delivered"}
         \/ offerRelease[j] = "PENDING" \/ assignmentRelease[j] = "PENDING"
         \/ \E r \in Requests : request[r].offer = j

\* That claim holds as long as no request is cut off between its calls: the
\* release after a failed response and the release rows leave no gap.
HoldAccountedUnlessFault == faults = 0 => HoldAccounted

\* Claim: accepting a cash order reserves its cash, so the captain on the way
\* holds cover for it.  (Not kept: see README, Findings.)
AssignmentCovered ==
  \A i \in D!Offers : assignment[i] \in D!Working => W!Active(target[i], i[1])

\* A settlement whose cover survives is carried through, crashes or not.
CoveredDeliverySettles ==
  \A i \in D!Offers :
    settlement[i] = "PENDING" ~>
      settlement[i] = "POSTED" \/ ~ \E s \in {"ACTIVE", "DEBITED"}, k \in Keys : W!Row(k, target[i], i[1], s)

\* No offer stays open for ever: it is answered, superseded or, when its time
\* has passed, expired by the worker, also that of a suspended captain.
OffersEnd == \A i \in D!Offers : offer[i] = "offered" ~> offer[i] # "offered"
=============================================================================
