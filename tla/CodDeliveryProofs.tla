-------------------------- MODULE CodDeliveryProofs ---------------------------
(***************************************************************************)
(* What holds of CodDelivery for any orders, captains, amounts, offers,    *)
(* requests and faults.  The two services bring their own invariants       *)
(* (DispatchProofs, CaptainWalletProofs): each of their actions is an      *)
(* action there, so the proofs here are about what runs between them.      *)
(***************************************************************************)
EXTENDS CodDelivery, TLAPS

DP == INSTANCE DispatchProofs
WP == INSTANCE CaptainWalletProofs WITH Payouts <- {}, TopUps <- {}, MaxBalance <- 0

-----------------------------------------------------------------------------
(* The services under both names. *)

\* The assumptions of the two services follow from those made here.
LEMMA Assumptions ==
  /\ Mode \in [Orders -> DP!Modes] /\ MaxOffers \in Nat
  /\ None \notin Orders \cup Captains
  /\ Cash \in [Orders -> Nat] /\ Fee \in [Orders -> Nat] /\ {} \subseteq Nat \ {0} /\ 0 \in Nat
  /\ None \notin Captains \cup WP!Reservation \cup WP!Request \cup WP!Payout
<1>1. Mode \in [Orders -> DP!Modes]
  BY OrdersAssumption DEF DP!Modes
<1>2. Cash \in [Orders -> Nat]
  BY OrdersAssumption
<1>3. None \notin Captains \cup WP!Reservation \cup WP!Request \cup WP!Payout
  BY NoneAssumption DEF WP!Reservation, WP!Request, WP!Payout, W!Reservation, W!Request, W!Payout
<1> QED BY <1>1, <1>2, <1>3, OrdersAssumption, BoundsAssumption, NoneAssumption

\* An operation of dispatch is the operation DispatchProofs speaks of.
LEMMA SameOperation == ASSUME D!Operation PROVE DP!Operation
  BY DEF D!Cardinality, DP!Cardinality, D!BatchLimit, DP!BatchLimit, D!Offers, DP!Offers,
       D!captainVars, DP!captainVars, D!outbox, DP!outbox, D!Active, DP!Active,
       D!Working, DP!Working, D!Marked, DP!Marked, D!CaptainsOf, DP!CaptainsOf,
       D!Platform, DP!Platform, D!Owing, DP!Owing, D!OpenOn, DP!OpenOn, D!Busy, DP!Busy,
       D!Restored, DP!Restored, D!Enqueued, DP!Enqueued, D!Lapsed, DP!Lapsed,
       D!CanonicalOffer, DP!CanonicalOffer, D!CanonicalAvailable, DP!CanonicalAvailable,
       D!CanonicalRelease, DP!CanonicalRelease, D!Slots, DP!Slots,
       D!DispatchCandidates, DP!DispatchCandidates, D!ReadyForDispatch, DP!ReadyForDispatch,
       D!Elapse, DP!Elapse, D!CanonicalizeCaptainOffers, DP!CanonicalizeCaptainOffers,
       D!Dispatchable, DP!Dispatchable, D!CanOffer, DP!CanOffer,
       D!CreateCaptainDispatchOffer, DP!CreateCaptainDispatchOffer,
       D!CreateStoreCaptainDispatchOffer, DP!CreateStoreCaptainDispatchOffer,
       D!RejectCaptainOffer, DP!RejectCaptainOffer, D!RedispatchOrder, DP!RedispatchOrder,
       D!CanReassign, DP!CanReassign, D!ReassignCaptain, DP!ReassignCaptain,
       D!ConfirmStoreHandoff, DP!ConfirmStoreHandoff,
       D!CompleteCaptainPickup, DP!CompleteCaptainPickup, D!Settling, DP!Settling,
       D!CompleteCaptainAssignment, DP!CompleteCaptainAssignment, D!CanRecover, DP!CanRecover,
       D!RecoverCaptainAssignment, DP!RecoverCaptainAssignment,
       D!SetCaptainAvailability, DP!SetCaptainAvailability,
       D!SuspendCaptainAdmission, DP!SuspendCaptainAdmission, D!CanRestore, DP!CanRestore,
       D!RestoreCaptainAdmission, DP!RestoreCaptainAdmission, D!OfferStep, DP!OfferStep,
       D!CaptainStep, DP!CaptainStep, D!DispatchStep, DP!DispatchStep, D!Operation, DP!Operation

\* So is an acceptance.
LEMMA SameAccept == ASSUME NEW i, D!AcceptCaptainOffer(i) PROVE DP!AcceptCaptainOffer(i)
  BY DEF D!Offers, DP!Offers, D!Active, DP!Active, D!Working, DP!Working, D!Marked, DP!Marked,
       D!CaptainsOf, DP!CaptainsOf, D!Platform, DP!Platform, D!Owing, DP!Owing,
       D!OpenOn, DP!OpenOn, D!Busy, DP!Busy, D!Restored, DP!Restored, D!Enqueued, DP!Enqueued,
       D!Lapsed, DP!Lapsed, D!CanonicalOffer, DP!CanonicalOffer,
       D!CanonicalAvailable, DP!CanonicalAvailable, D!CanonicalRelease, DP!CanonicalRelease,
       D!CanAccept, DP!CanAccept, D!Losers, DP!Losers, D!AcceptCaptainOffer, DP!AcceptCaptainOffer

\* So is marking a row posted.
LEMMA SamePosts ==
  ASSUME NEW i
  PROVE  /\ D!PostOfferRelease(i) => DP!PostOfferRelease(i)
         /\ D!PostAssignmentRelease(i) => DP!PostAssignmentRelease(i)
         /\ D!PostSettlement(i) => DP!PostSettlement(i)
  BY DEF D!PostOfferRelease, DP!PostOfferRelease, D!PostAssignmentRelease, DP!PostAssignmentRelease,
         D!PostSettlement, DP!PostSettlement, D!captainVars, DP!captainVars

\* The tables of dispatch under both names.
LEMMA SameDispatch ==
  /\ D!Offers = DP!Offers /\ D!Working = DP!Working /\ D!Active = DP!Active
  /\ D!Init => DP!Init
  /\ DP!TypeOK => D!TypeOK
  BY DEF D!Offers, DP!Offers, D!Working, DP!Working, D!Active, DP!Active, D!Init, DP!Init,
         D!TypeOK, DP!TypeOK, D!OrderStates, DP!OrderStates, D!Posting, DP!Posting

\* A call of the wallet is the call CaptainWalletProofs speaks of.
LEMMA SameWallet ==
  ASSUME NEW k, NEW o, NEW c
  PROVE  /\ W!ReserveCaptainCOD(k, o, c) => WP!Reserves(k, o, c)
         /\ W!ReleaseCaptainCOD(k, o, c) => WP!ReleaseCaptainCOD(k, o, c)
         /\ W!FinalizeCaptainCOD(k, o, c) => WP!FinalizeCaptainCOD(k, o, c)
         /\ W!CollectPaymentIntent(o, c) => WP!CollectPaymentIntent(o, c)
         /\ W!FinalizePartnerOrderEarning(o, c) => WP!FinalizePartnerOrderEarning(o, c)
<1>1. W!ReserveCaptainCOD(k, o, c) => WP!Reserves(k, o, c)
  BY DEF W!ReserveCaptainCOD, W!CanReserve, W!Active, W!Row, WP!Reserves, WP!Active, WP!Row
<1>2. W!ReleaseCaptainCOD(k, o, c) => WP!ReleaseCaptainCOD(k, o, c)
  BY DEF W!ReleaseCaptainCOD, WP!ReleaseCaptainCOD, W!EndReservation, WP!EndReservation, W!Row, WP!Row
<1>3. W!FinalizeCaptainCOD(k, o, c) => WP!FinalizeCaptainCOD(k, o, c)
  BY DEF W!FinalizeCaptainCOD, WP!FinalizeCaptainCOD, W!CanFinalizeCOD, WP!CanFinalizeCOD,
         W!EndReservation, WP!EndReservation, W!Row, WP!Row
<1>4. /\ W!CollectPaymentIntent(o, c) => WP!CollectPaymentIntent(o, c)
      /\ W!FinalizePartnerOrderEarning(o, c) => WP!FinalizePartnerOrderEarning(o, c)
  BY DEF W!CollectPaymentIntent, WP!CollectPaymentIntent, W!CanCollect, WP!CanCollect,
         W!FinalizePartnerOrderEarning, WP!FinalizePartnerOrderEarning, W!CanFinalizeEarning,
         WP!CanFinalizeEarning, W!Active, WP!Active, W!Row, WP!Row
<1> QED BY <1>1, <1>2, <1>3, <1>4

\* The tables of the wallet under both names.
LEMMA SameTables ==
  /\ W!Reservation = WP!Reservation /\ W!Request = WP!Request /\ W!Payout = WP!Payout
  /\ \A k, o, c, s : W!Row(k, o, c, s) <=> WP!Row(k, o, c, s)
  /\ WP!TypeOK => W!TypeOK
  BY DEF W!Reservation, WP!Reservation, W!Request, WP!Request, W!Payout, WP!Payout, W!Row, WP!Row,
         W!TypeOK, WP!TypeOK

-----------------------------------------------------------------------------
(* Each service keeps its invariant. *)

\* Each service is in a state its own proofs allow.
Services == DP!IInv /\ WP!IInv

\* What is named in a call is an order and a captain.
LEMMA Named ==
  ASSUME Services, NEW i \in D!Offers
  PROVE  /\ offer[i] # "none" => target[i] \in Orders
         /\ settlement[i] = "PENDING" =>
              target[i] \in Orders /\ assignment[i] = "delivered" /\ offer[i] # "none"
         /\ i[1] \in Captains
<1>1. i \in DP!Offers /\ i[1] \in Captains
  BY SameDispatch DEF D!Offers
<1>2. offer[i] # "none" => target[i] \in Orders
  BY <1>1, DP!TargetNamed, Assumptions DEF Services
<1>3. settlement[i] = "PENDING" => target[i] \in Orders /\ assignment[i] = "delivered"
  BY <1>1, DP!SettledDelivered, Assumptions DEF Services
<1>4. settlement[i] = "PENDING" => offer[i] # "none"
  BY <1>1 DEF Services, DP!IInv, DP!Named
<1> QED BY <1>1, <1>2, <1>3, <1>4

\* What no step of dispatch takes back.
DispatchForward ==
  \A i \in D!Offers :
    /\ offer[i] # "none" => target'[i] = target[i] /\ offer'[i] # "none"
    /\ offerRelease[i] # "none" => offerRelease'[i] # "none"
    /\ assignmentRelease[i] # "none" => assignmentRelease'[i] # "none"
    /\ assignment[i] = "delivered" => assignment'[i] = "delivered"

\* A release row waits until it is posted.
RowsWait ==
  \A i \in D!Offers :
    /\ offerRelease[i] = "PENDING" => offerRelease'[i] = "PENDING"
    /\ assignmentRelease[i] = "PENDING" => assignmentRelease'[i] = "PENDING"

\* No offer is accepted in this step.
NobodyAccepts == \A i \in D!Offers : offer'[i] = "accepted" => offer[i] = "accepted"

\* An operation of dispatch.
LEMMA OperationStep ==
  ASSUME Services, D!Operation
  PROVE  /\ DP!IInv' /\ DispatchForward /\ RowsWait /\ NobodyAccepts
         /\ \A i \in D!Offers : settlement'[i] = "POSTED" => settlement[i] = "POSTED"
<1>1. DP!IInv /\ DP!Operation /\ [DP!Next]_(DP!vars)
  BY SameOperation DEF Services, DP!Next
<1>2. DP!IInv'
  BY <1>1, DP!Invariance, Assumptions
<1>3. \A i \in DP!Offers : DP!Onward(i) /\ (offer'[i] = "accepted" => offer[i] = "accepted")
  BY <1>1, DP!OperationOnward, Assumptions
<1>4. \A i \in DP!Offers :
        offer[i] \in {"none", "offered", "accepted", "rejected", "expired", "superseded"}
  BY <1>1 DEF DP!IInv, DP!TypeOK
<1> QED
  BY <1>2, <1>3, <1>4, SameDispatch DEF DP!Onward, DP!Writes, DispatchForward, RowsWait, NobodyAccepts

\* An acceptance.
LEMMA AcceptStep ==
  ASSUME Services, NEW j \in D!Offers, D!AcceptCaptainOffer(j)
  PROVE  /\ DP!IInv' /\ DispatchForward /\ RowsWait
         /\ \A i \in D!Offers : offer'[i] = "accepted" => offer[i] = "accepted" \/ i = j
         /\ offer[j] = "offered" /\ offer'[j] = "accepted"
         /\ assignment'[j] = "assigned" /\ settlement' = settlement
<1>1. DP!IInv /\ j \in DP!Offers /\ DP!AcceptCaptainOffer(j) /\ [DP!Next]_(DP!vars)
  BY SameAccept, SameDispatch DEF Services, DP!Next
<1>2. DP!IInv'
  BY <1>1, DP!Invariance, Assumptions
<1>3. \A i \in DP!Offers :
        DP!Onward(i) /\ (offer'[i] = "accepted" => offer[i] = "accepted" \/ i = j)
  BY <1>1, DP!AcceptOnward, Assumptions
<1>4. \A i \in DP!Offers :
        offer[i] \in {"none", "offered", "accepted", "rejected", "expired", "superseded"}
  BY <1>1 DEF DP!IInv, DP!TypeOK
<1>5. DispatchForward /\ RowsWait
  BY <1>3, <1>4, SameDispatch DEF DP!Onward, DP!Writes, DispatchForward, RowsWait
<1>6. offer[j] = "offered"
  <2>1. DP!CanonicalOffer(Captains)[j] = "offered"
    BY <1>1 DEF DP!AcceptCaptainOffer, DP!CanAccept
  <2> QED BY <1>1, <2>1, SameDispatch DEF DP!CanonicalOffer, DP!Marked
<1>7. offer'[j] = "accepted" /\ assignment'[j] = "assigned" /\ settlement' = settlement
  BY <1>1 DEF DP!AcceptCaptainOffer, DP!Marked
<1> QED BY <1>2, <1>3, <1>5, <1>6, <1>7, SameDispatch

\* Marking a row posted.
LEMMA PostsStep ==
  ASSUME Services, NEW j \in D!Offers,
         D!PostOfferRelease(j) \/ D!PostAssignmentRelease(j) \/ D!PostSettlement(j)
  PROVE  /\ DP!IInv' /\ DispatchForward /\ NobodyAccepts
         /\ UNCHANGED <<target, offer, assignment>>
<1>1. j \in DP!Offers /\ DP!IInv
  BY SameDispatch DEF Services
<1>2. DP!IInv'
  <2>1. CASE D!PostSettlement(j)
    <3>1. [DP!Next]_(DP!vars)
      BY <1>1, <2>1, SamePosts DEF DP!Next
    <3> QED BY <1>1, <3>1, DP!Invariance, Assumptions
  <2>2. CASE D!PostOfferRelease(j) \/ D!PostAssignmentRelease(j)
    BY <1>1, <2>2, SamePosts, DP!PostReleaseStep, Assumptions
  <2> QED BY <2>1, <2>2
<1>3. /\ UNCHANGED <<target, offer, assignment>>
      /\ offerRelease' = offerRelease \/ offerRelease' = [offerRelease EXCEPT ![j] = "POSTED"]
      /\ assignmentRelease' = assignmentRelease
           \/ assignmentRelease' = [assignmentRelease EXCEPT ![j] = "POSTED"]
  BY DEF D!PostOfferRelease, D!PostAssignmentRelease, D!PostSettlement
<1>4. offerRelease \in [D!Offers -> {"none", "PENDING", "POSTED"}]
      /\ assignmentRelease \in [D!Offers -> {"none", "PENDING", "POSTED"}]
  BY <1>1, SameDispatch DEF DP!IInv, DP!TypeOK, DP!Posting
<1> QED BY <1>2, <1>3, <1>4 DEF DispatchForward, NobodyAccepts

\* Dispatch rests.
LEMMA DispatchRests ==
  ASSUME Services, UNCHANGED dispatchVars
  PROVE  DP!IInv' /\ DispatchForward /\ RowsWait /\ NobodyAccepts
<1>1. UNCHANGED DP!vars
  BY DEF dispatchVars, DP!vars, DP!captainVars, DP!outbox
<1>2. DP!IInv'
  BY <1>1, DP!Invariance, Assumptions DEF Services
<1> QED BY <1>2 DEF dispatchVars, DispatchForward, RowsWait, NobodyAccepts

\* What no call of the wallet takes back.
WalletForward ==
  /\ \A o \in Orders : intent[o] = "COLLECTED" => intent'[o] = "COLLECTED" /\ collectedBy'[o] = collectedBy[o]
  /\ \A o \in Orders : earning[o] # None => earning'[o] = earning[o]
  /\ \A k \in Keys : event[k] # None => event'[k] = event[k]
  /\ \A k \in Keys, o \in Orders, c \in Captains : W!Row(k, o, c, "DEBITED") => W!Row(k, o, c, "DEBITED")'

\* No hold comes to life.
NoNewHold ==
  \A k \in Keys, o \in Orders, c \in Captains : W!Row(k, o, c, "ACTIVE")' => W!Row(k, o, c, "ACTIVE")

\* A call under key k, and the one row of (o, c) it ends.
Ends(k, operation, o, c, s) ==
  /\ event[k] = None
  /\ event'[k] = [op |-> operation, order |-> o, captain |-> c]
  /\ \A q \in Keys : q # k => event'[q] = event[q]
  /\ \E r \in Keys :
       /\ W!Row(r, o, c, "ACTIVE") /\ W!Row(r, o, c, s)'
       /\ \A q \in Keys : q # r => reservation'[q] = reservation[q]
  /\ \A q \in Keys : ~W!Row(q, o, c, "ACTIVE")'

\* A reservation uses its key, which was free, and writes no other row.
LEMMA ReserveCall ==
  ASSUME Services, NEW k \in Keys, NEW o \in Orders, NEW c \in Captains, W!ReserveCaptainCOD(k, o, c)
  PROVE  /\ WP!IInv' /\ WalletForward
         /\ event[k] = None /\ event'[k] = [op |-> "reserve", order |-> o, captain |-> c]
         /\ \A q \in Keys : q # k => event'[q] = event[q] /\ reservation'[q] = reservation[q]
         /\ UNCHANGED <<intent, collectedBy, earning>>
<1>1. WP!Reserves(k, o, c) /\ WP!IInv
  BY SameWallet DEF Services
<1>2. WP!IInv'
  BY <1>1, WP!ReserveStep, Assumptions
<1>3. /\ event \in [Keys -> WP!Request \cup {None}] /\ reservation \in [Keys -> WP!Reservation \cup {None}]
      /\ reservation[k] = None
  BY <1>1 DEF WP!IInv, WP!TypeOK, WP!RowHasEvent, WP!Reserves
<1>4. /\ event[k] = None /\ event'[k] = [op |-> "reserve", order |-> o, captain |-> c]
      /\ \A q \in Keys : q # k => event'[q] = event[q] /\ reservation'[q] = reservation[q]
      /\ UNCHANGED <<intent, collectedBy, earning>>
  BY <1>1, <1>3 DEF WP!Reserves
<1>5. WalletForward
  BY <1>3, <1>4 DEF WalletForward, W!Row
<1> QED BY <1>2, <1>4, <1>5

\* A release and a finalize end the one active row of the order and captain.
LEMMA EndCall ==
  ASSUME Services, NEW k \in Keys, NEW o \in Orders, NEW c \in Captains, NEW operation, NEW s,
         \/ operation = "release" /\ s = "RELEASED" /\ W!ReleaseCaptainCOD(k, o, c)
         \/ operation = "finalize" /\ s = "DEBITED" /\ W!FinalizeCaptainCOD(k, o, c)
  PROVE  /\ WP!IInv' /\ WalletForward /\ NoNewHold /\ Ends(k, operation, o, c, s)
         /\ UNCHANGED <<intent, collectedBy, earning>>
<1>1. WP!IInv /\ [WP!Next]_(WP!vars)
  BY SameWallet DEF Services, WP!Next
<1>2. WP!IInv'
  BY <1>1, WP!StepIInv, Assumptions
<1>3. W!EndReservation(k, operation, o, c, s)
  BY DEF W!ReleaseCaptainCOD, W!FinalizeCaptainCOD
<1>4. PICK r \in Keys : W!Row(r, o, c, "ACTIVE") /\ reservation' = [reservation EXCEPT ![r].state = s]
  BY <1>3 DEF W!EndReservation
<1>5. /\ event[k] = None
      /\ event' = [event EXCEPT ![k] = [op |-> operation, order |-> o, captain |-> c]]
      /\ UNCHANGED <<intent, collectedBy, earning>>
  BY <1>3 DEF W!EndReservation
<1>6. event \in [Keys -> WP!Request \cup {None}] /\ reservation \in [Keys -> WP!Reservation \cup {None}]
  BY <1>1 DEF WP!IInv, WP!TypeOK
<1>7. reservation[r] = [order |-> o, captain |-> c, state |-> "ACTIVE"]
  BY <1>4 DEF W!Row
<1>8. /\ reservation'[r] = [order |-> o, captain |-> c, state |-> s]
      /\ \A q \in Keys : q # r => reservation'[q] = reservation[q]
  BY <1>4, <1>6, <1>7
<1>9. s \in {"RELEASED", "DEBITED"}
  OBVIOUS
<1>10. reservation'[r] # None
  BY <1>8, <1>9, Assumptions DEF WP!Reservation
<1>11. \A q \in Keys : ~W!Row(q, o, c, "ACTIVE")'
  <2>1. \A q \in Keys : q # r /\ reservation[q] # None =>
          ~(reservation[q].order = o /\ reservation[q].state # "RELEASED")
    <3>1. WP!ChargedOnce /\ reservation[r] # None
      BY <1>1, <1>4 DEF WP!IInv, W!Row
    <3> QED BY <1>7, <3>1 DEF WP!ChargedOnce
  <2> QED BY <1>8, <1>9, <2>1 DEF W!Row
<1>12. Ends(k, operation, o, c, s)
  BY <1>4, <1>5, <1>6, <1>8, <1>10, <1>11 DEF Ends, W!Row
<1>13. NoNewHold
  BY <1>7, <1>8, <1>9 DEF NoNewHold, W!Row
<1>14. WalletForward
  BY <1>5, <1>6, <1>7, <1>8 DEF WalletForward, W!Row
<1> QED BY <1>2, <1>5, <1>12, <1>13, <1>14

\* A collection names the collector of one order.
LEMMA CollectCall ==
  ASSUME Services, NEW o \in Orders, NEW c \in Captains, W!CollectPaymentIntent(o, c)
  PROVE  /\ WP!IInv' /\ WalletForward /\ NoNewHold
         /\ UNCHANGED <<reservation, event, earning>>
         /\ collectedBy'[o] = c
         /\ \A x \in Orders : x # o => collectedBy'[x] = collectedBy[x] /\ intent'[x] = intent[x]
<1>1. WP!IInv /\ [WP!Next]_(WP!vars) /\ WP!TypeOK
  BY SameWallet DEF Services, WP!Next, WP!IInv
<1>2. WP!IInv'
  BY <1>1, WP!StepIInv, Assumptions
<1>3. /\ intent[o] = "REQUIRES_COLLECTION" /\ intent' = [intent EXCEPT ![o] = "COLLECTED"]
      /\ collectedBy' = [collectedBy EXCEPT ![o] = c]
      /\ UNCHANGED <<reservation, event, earning>>
  BY DEF W!CollectPaymentIntent, W!CanCollect
<1>4. collectedBy \in [Orders -> Captains \cup {None}] /\ DOMAIN intent = Orders
  BY <1>1 DEF WP!TypeOK
<1> QED BY <1>2, <1>3, <1>4 DEF WalletForward, NoNewHold, W!Row

\* An earning names the earner of one order.
LEMMA EarnCall ==
  ASSUME Services, NEW o \in Orders, NEW c \in Captains, W!FinalizePartnerOrderEarning(o, c)
  PROVE  /\ WP!IInv' /\ WalletForward /\ NoNewHold
         /\ UNCHANGED <<intent, collectedBy, reservation, event>>
         /\ earning'[o] = c
         /\ \A x \in Orders : x # o => earning'[x] = earning[x]
<1>1. WP!IInv /\ [WP!Next]_(WP!vars) /\ WP!TypeOK
  BY SameWallet DEF Services, WP!Next, WP!IInv
<1>2. WP!IInv'
  BY <1>1, WP!StepIInv, Assumptions
<1>3. /\ earning[o] = None /\ earning' = [earning EXCEPT ![o] = c]
      /\ UNCHANGED <<intent, collectedBy, reservation, event>>
  BY DEF W!FinalizePartnerOrderEarning, W!CanFinalizeEarning
<1>4. earning \in [Orders -> Captains \cup {None}]
  BY <1>1 DEF WP!TypeOK
<1> QED BY <1>2, <1>3, <1>4 DEF WalletForward, NoNewHold, W!Row

\* The wallet rests.
LEMMA WalletRests ==
  ASSUME Services, UNCHANGED walletVars
  PROVE  WP!IInv' /\ WalletForward /\ NoNewHold
<1>1. UNCHANGED WP!vars /\ WP!IInv
  BY DEF walletVars, WP!vars, Services
<1>2. WP!IInv'
  BY <1>1, WP!StepIInv, Assumptions
<1> QED BY <1>2 DEF walletVars, WalletForward, NoNewHold, W!Row

\* The composition's own variables.
Links ==
  /\ request \in [Requests -> [phase : Phases, offer : D!Offers] \cup {Idle}]
  /\ applied \subseteq {"release", "takeback"} \X D!Offers
  /\ faults \in 0 .. MaxFaults

\* A request names an offer that was made; past the reservation, its key is used.
Requested ==
  \A r \in Requests : request[r] # Idle =>
    /\ offer[request[r].offer] # "none"
    /\ request[r].phase # "reserving" => event[<<"reserve", request[r].offer>>] # None

\* The hold that offer i reserved.
Holds(i) == W!Row(<<"reserve", i>>, target[i], i[1], "ACTIVE")

\* What the used keys tell: who reserved, that an acceptance did, that an
\* undone hold is gone, and that a release was owed.
Recorded ==
  \A i \in D!Offers :
    /\ event[<<"reserve", i>>] # None =>
         offer[i] # "none" /\ event[<<"reserve", i>>] = [op |-> "reserve", order |-> target[i], captain |-> i[1]]
    /\ offer[i] = "accepted" => event[<<"reserve", i>>] # None
    /\ event[<<"undo", i>>] # None => event[<<"reserve", i>>] # None /\ ~Holds(i)
    /\ event[<<"release", i>>] # None => offerRelease[i] # "none"
    /\ event[<<"takeback", i>>] # None => assignmentRelease[i] # "none"

\* A finalize that was carried out has debited the wallet.
Finalized ==
  \A k \in Keys, o \in Orders, c \in Captains :
    event[k] = [op |-> "finalize", order |-> o, captain |-> c] =>
      \E r \in Keys : W!Row(r, o, c, "DEBITED")

\* Only pending releases are being applied.
Applied ==
  \A i \in D!Offers :
    /\ <<"release", i>> \in applied => offerRelease[i] = "PENDING"
    /\ <<"takeback", i>> \in applied => assignmentRelease[i] = "PENDING"

\* WLT has the whole settlement of assignment i.
SettledInWallet(i) ==
  /\ intent[target[i]] = "COLLECTED" /\ collectedBy[target[i]] = i[1] /\ earning[target[i]] = i[1]
  /\ \E k \in Keys : W!Row(k, target[i], i[1], "DEBITED")

\* A settlement marked posted is in WLT whole.
PostedIsSettled == \A i \in D!Offers : settlement[i] = "POSTED" => SettledInWallet(i)

\* The invariant of the composition.
Base ==
  /\ Services /\ Links /\ Requested /\ Recorded /\ Finalized /\ Applied
  /\ OnlyDelivererIsCharged /\ PostedIsSettled

-----------------------------------------------------------------------------
(* Each part is kept by a step that takes nothing back and adds only what  *)
(* the part allows.                                                        *)

\* Requests: each goes on with its offer, or starts on an open one.
LEMMA RequestedKept ==
  ASSUME Base, DispatchForward, WalletForward,
         \A r \in Requests : request'[r] # Idle =>
           \/ /\ request[r] # Idle /\ request'[r].offer = request[r].offer
              /\ request'[r].phase # "reserving" =>
                   request[r].phase # "reserving" \/ event'[<<"reserve", request[r].offer>>] # None
           \/ /\ request'[r].phase = "reserving"
              /\ request'[r].offer \in D!Offers /\ offer[request'[r].offer] # "none"
  PROVE  Requested'
<1> SUFFICES ASSUME NEW r \in Requests, request'[r] # Idle
             PROVE  /\ offer'[request'[r].offer] # "none"
                    /\ request'[r].phase # "reserving" => event'[<<"reserve", request'[r].offer>>] # None
  BY DEF Requested
<1>1. CASE request'[r].phase = "reserving" /\ request'[r].offer \in D!Offers
             /\ offer[request'[r].offer] # "none"
  BY <1>1 DEF DispatchForward
<1>2. CASE request[r] # Idle /\ request'[r].offer = request[r].offer
  <2>1. request[r].offer \in D!Offers
    BY <1>2 DEF Base, Links
  <2>2. <<"reserve", request[r].offer>> \in Keys
    BY <2>1 DEF Keys, Sites
  <2>3. /\ offer[request[r].offer] # "none"
        /\ request[r].phase # "reserving" => event[<<"reserve", request[r].offer>>] # None
    BY <1>2 DEF Base, Requested
  <2>4. event[<<"reserve", request[r].offer>>] # None => event'[<<"reserve", request[r].offer>>] # None
    BY <2>2 DEF WalletForward
  <2>5. offer'[request[r].offer] # "none"
    BY <2>1, <2>3 DEF DispatchForward
  <2> QED BY <1>2, <2>3, <2>4, <2>5
<1> QED BY <1>1, <1>2

\* Keys: each is used for its own offer, and an undone hold stays gone.
LEMMA RecordedKept ==
  ASSUME Base, DispatchForward, WalletForward,
         \A i \in D!Offers :
           /\ event'[<<"reserve", i>>] # event[<<"reserve", i>>] =>
                offer[i] # "none"
                  /\ event'[<<"reserve", i>>] = [op |-> "reserve", order |-> target[i], captain |-> i[1]]
           /\ offer'[i] = "accepted" => offer[i] = "accepted" \/ event[<<"reserve", i>>] # None
           /\ W!Row(<<"reserve", i>>, target[i], i[1], "ACTIVE")' =>
                Holds(i) \/ event[<<"reserve", i>>] = None \/ target'[i] # target[i]
           /\ event'[<<"undo", i>>] # event[<<"undo", i>>] =>
                event[<<"reserve", i>>] # None /\ ~Holds(i)'
           /\ event'[<<"release", i>>] # event[<<"release", i>>] => offerRelease[i] # "none"
           /\ event'[<<"takeback", i>>] # event[<<"takeback", i>>] => assignmentRelease[i] # "none"
  PROVE  Recorded'
<1> SUFFICES ASSUME NEW i \in D!Offers
             PROVE  /\ event'[<<"reserve", i>>] # None =>
                         offer'[i] # "none" /\ event'[<<"reserve", i>>] =
                                  [op |-> "reserve", order |-> target'[i], captain |-> i[1]]
                    /\ offer'[i] = "accepted" => event'[<<"reserve", i>>] # None
                    /\ event'[<<"undo", i>>] # None => event'[<<"reserve", i>>] # None /\ ~Holds(i)'
                    /\ event'[<<"release", i>>] # None => offerRelease'[i] # "none"
                    /\ event'[<<"takeback", i>>] # None => assignmentRelease'[i] # "none"
  BY DEF Recorded
<1>0. <<"reserve", i>> \in Keys /\ <<"undo", i>> \in Keys
  BY DEF Keys, Sites
<1>1. /\ event[<<"reserve", i>>] # None =>
           offer[i] # "none" /\ event[<<"reserve", i>>] = [op |-> "reserve", order |-> target[i], captain |-> i[1]]
      /\ offer[i] = "accepted" => event[<<"reserve", i>>] # None
      /\ event[<<"undo", i>>] # None => event[<<"reserve", i>>] # None /\ ~Holds(i)
      /\ event[<<"release", i>>] # None => offerRelease[i] # "none"
      /\ event[<<"takeback", i>>] # None => assignmentRelease[i] # "none"
  BY DEF Base, Recorded
<1>2. /\ offer[i] # "none" => target'[i] = target[i] /\ offer'[i] # "none"
      /\ offerRelease[i] # "none" => offerRelease'[i] # "none"
      /\ assignmentRelease[i] # "none" => assignmentRelease'[i] # "none"
  BY DEF DispatchForward
<1>3. event[<<"reserve", i>>] # None => event'[<<"reserve", i>>] = event[<<"reserve", i>>]
  BY <1>0 DEF WalletForward
<1>4. Holds(i)' => Holds(i) \/ event[<<"reserve", i>>] = None
  <2>1. CASE offer[i] # "none"
    <3>1. target'[i] = target[i]
      BY <1>2, <2>1
    <3>2. Holds(i)' => W!Row(<<"reserve", i>>, target[i], i[1], "ACTIVE")'
      BY <3>1 DEF Holds, W!Row
    <3> QED BY <3>1, <3>2
  <2> QED BY <1>1, <2>1
<1>5. event'[<<"undo", i>>] # None => event'[<<"reserve", i>>] # None /\ ~Holds(i)'
  BY <1>1, <1>3, <1>4
<1> QED BY <1>1, <1>2, <1>3, <1>5

\* A new finalize event comes with its debited row.
LEMMA FinalizedKept ==
  ASSUME Base, WalletForward,
         \A k \in Keys, o \in Orders, c \in Captains :
           event'[k] = [op |-> "finalize", order |-> o, captain |-> c] =>
             event[k] = event'[k] \/ \E r \in Keys : W!Row(r, o, c, "DEBITED")'
  PROVE  Finalized'
<1> SUFFICES ASSUME NEW k \in Keys, NEW o \in Orders, NEW c \in Captains,
                    event'[k] = [op |-> "finalize", order |-> o, captain |-> c]
             PROVE  \E r \in Keys : W!Row(r, o, c, "DEBITED")'
  BY DEF Finalized
<1>1. CASE event[k] = event'[k]
  <2>1. PICK r \in Keys : W!Row(r, o, c, "DEBITED")
    BY <1>1 DEF Base, Finalized
  <2> QED BY <2>1 DEF WalletForward
<1> QED BY <1>1

\* A new collection, earning or debit is the deliverer's.
LEMMA ChargedKept ==
  ASSUME Base, DispatchForward,
         \A o \in Orders, c \in Captains :
           collectedBy'[o] = c \/ earning'[o] = c \/ (\E k \in Keys : W!Row(k, o, c, "DEBITED")') =>
             \/ collectedBy[o] = c \/ earning[o] = c \/ \E k \in Keys : W!Row(k, o, c, "DEBITED")
             \/ \E i \in D!Offers : target[i] = o /\ i[1] = c /\ assignment[i] = "delivered"
  PROVE  OnlyDelivererIsCharged'
<1> SUFFICES ASSUME NEW o \in Orders, NEW c \in Captains,
                    collectedBy'[o] = c \/ earning'[o] = c \/ (\E k \in Keys : W!Row(k, o, c, "DEBITED")')
             PROVE  \E i \in D!Offers : target'[i] = o /\ i[1] = c /\ assignment'[i] = "delivered"
  BY DEF OnlyDelivererIsCharged
<1>1. PICK i \in D!Offers : target[i] = o /\ i[1] = c /\ assignment[i] = "delivered"
  BY DEF Base, OnlyDelivererIsCharged
<1>2. offer[i] # "none"
  BY <1>1, SameDispatch DEF Base, Services, DP!IInv, DP!Named
<1> QED BY <1>1, <1>2 DEF DispatchForward

\* A row newly posted was pending with its settlement complete.
LEMMA PostedKept ==
  ASSUME Base, DispatchForward, WalletForward,
         \A i \in D!Offers : settlement'[i] = "POSTED" =>
           settlement[i] = "POSTED" \/ (settlement[i] = "PENDING" /\ SettledInWallet(i))
  PROVE  PostedIsSettled'
<1> SUFFICES ASSUME NEW i \in D!Offers, settlement'[i] = "POSTED" PROVE SettledInWallet(i)'
  BY DEF PostedIsSettled
<1>1. SettledInWallet(i) /\ settlement[i] # "none"
  BY DEF Base, PostedIsSettled
<1>2. offer[i] # "none" /\ i[1] \in Captains
  BY <1>1, SameDispatch DEF Base, Services, DP!IInv, DP!Named, D!Offers
<1>3. target[i] \in Orders
  BY <1>2, Named DEF Base
<1>4. target'[i] = target[i]
  BY <1>2 DEF DispatchForward
<1>5. PICK k \in Keys : W!Row(k, target[i], i[1], "DEBITED")
  BY <1>1 DEF SettledInWallet
<1>6. W!Row(k, target[i], i[1], "DEBITED")'
  <2> DEFINE t == target[i]
  <2>1. t \in Orders /\ t' = t /\ W!Row(k, t, i[1], "DEBITED")
    BY <1>3, <1>4, <1>5
  <2> HIDE DEF t
  <2>2. ASSUME NEW o \in Orders, W!Row(k, o, i[1], "DEBITED") PROVE reservation'[k] = reservation[k] /\ reservation[k] # None
    <3>1. W!Row(k, o, i[1], "DEBITED")'
      BY <1>2, <2>2 DEF WalletForward
    <3> QED BY <2>2, <3>1 DEF W!Row
  <2>3. reservation'[k] = reservation[k]
    BY <2>1, <2>2
  <2> QED BY <1>4, <1>5, <2>3 DEF W!Row
<1>7. /\ intent'[target[i]] = "COLLECTED" /\ collectedBy'[target[i]] = i[1]
      /\ earning'[target[i]] = i[1]
  BY <1>1, <1>2, <1>3, Assumptions DEF SettledInWallet, WalletForward
<1> QED BY <1>4, <1>6, <1>7 DEF SettledInWallet

\* Steps of dispatch and of the links alone leave the wallet's parts alone.
LEMMA WalletPartsRest ==
  ASSUME Base, UNCHANGED walletVars, DispatchForward,
         \A i \in D!Offers : offer'[i] = "accepted" => offer[i] = "accepted" \/ event[<<"reserve", i>>] # None
  PROVE  Recorded' /\ Finalized' /\ OnlyDelivererIsCharged'
<1>1. WalletForward /\ UNCHANGED <<reservation, event, collectedBy, earning>>
  BY WalletRests DEF Base, walletVars
<1>2. \A i \in D!Offers : W!Row(<<"reserve", i>>, target[i], i[1], "ACTIVE")' =>
                Holds(i) \/ event[<<"reserve", i>>] = None \/ target'[i] # target[i]
  BY <1>1 DEF Holds, W!Row
<1>3. Recorded'
  BY <1>1, <1>2, RecordedKept
<1>4. Finalized'
  BY <1>1, FinalizedKept
<1>5. OnlyDelivererIsCharged'
  BY <1>1, ChargedKept DEF W!Row
<1> QED BY <1>3, <1>4, <1>5

\* Nothing has happened yet.
LEMMA BaseInit == ASSUME Init PROVE Base
<1>1. DP!IInv
  <2>1. DP!Init
    BY SameDispatch DEF Init
  <2> QED BY <2>1, DP!IInvInit, Assumptions
<1>2. WP!IInv
  <2>1. WP!TypeOK
    BY OrdersAssumption DEF Init, WP!TypeOK
  <2>2. WP!RowHasEvent /\ WP!DebitedIsCollected /\ WP!EarnedIsCollected /\ WP!CollectedCashCovered
        /\ WP!ChargedOnce /\ WP!EarnerIsCollector
    BY DEF Init, WP!RowHasEvent, WP!DebitedIsCollected, WP!EarnedIsCollected, WP!CollectedCashCovered,
           WP!ChargedOnce, WP!EarnerIsCollector
  <2> QED BY <2>1, <2>2 DEF WP!IInv
<1>3. Links /\ Requested /\ Applied
  BY BoundsAssumption DEF Init, Links, Requested, Applied
<1>4. \A i \in D!Offers : \A s \in Sites : <<s, i>> \in Keys
  BY DEF Keys
<1>5. \A i \in D!Offers : \A s \in Sites : event[<<s, i>>] = None
  BY <1>4 DEF Init
<1>6. \A i \in D!Offers : offer[i] = "none" /\ settlement[i] = "none"
  BY DEF Init, D!Init
<1>7. Recorded
  BY <1>5, <1>6 DEF Recorded, Sites
<1>8. Finalized /\ OnlyDelivererIsCharged
  BY NoneAssumption DEF Init, Finalized, OnlyDelivererIsCharged, W!Row, W!Request
<1>9. PostedIsSettled
  BY <1>6 DEF PostedIsSettled
<1> QED BY <1>1, <1>2, <1>3, <1>7, <1>8, <1>9 DEF Base, Services

\* What Base says of one request.
LEMMA Request ==
  ASSUME Base, NEW r \in Requests, request[r] # Idle
  PROVE  /\ request[r] \in [phase : Phases, offer : D!Offers] /\ request[r].offer \in D!Offers
         /\ offer[request[r].offer] # "none"
         /\ target[request[r].offer] \in Orders /\ request[r].offer[1] \in Captains
         /\ request[r].phase # "reserving" => event[<<"reserve", request[r].offer>>] # None
<1>1. request[r] \in [phase : Phases, offer : D!Offers] /\ request[r].offer \in D!Offers
  BY DEF Base, Links
<1>2. /\ offer[request[r].offer] # "none"
      /\ request[r].phase # "reserving" => event[<<"reserve", request[r].offer>>] # None
  BY DEF Base, Requested
<1> QED BY <1>1, <1>2, Named DEF Base

\* A request in a phase is not idle.
LEMMA Running ==
  ASSUME NEW r \in Requests, request[r].phase \in Phases
  PROVE  request[r] # Idle
  BY DEF Idle, Phases

\* A request that goes on keeps its offer; one that ends is idle.
LEMMA GoesOn ==
  ASSUME Base, NEW r \in Requests, request[r] # Idle,
         (\E phase \in Phases : Goto(r, phase)) \/ Finish(r)
  PROVE  /\ request' \in [Requests -> [phase : Phases, offer : D!Offers] \cup {Idle}]
         /\ \A s \in Requests : s # r => request'[s] = request[s]
         /\ request'[r] # Idle => request'[r].offer = request[r].offer
         /\ Finish(r) => request'[r] = Idle
<1>1. request \in [Requests -> [phase : Phases, offer : D!Offers] \cup {Idle}]
      /\ request[r] \in [phase : Phases, offer : D!Offers]
  BY Request DEF Base, Links
<1>2. ASSUME NEW phase \in Phases, Goto(r, phase)
      PROVE  /\ request' \in [Requests -> [phase : Phases, offer : D!Offers] \cup {Idle}]
             /\ \A s \in Requests : s # r => request'[s] = request[s]
             /\ request'[r].offer = request[r].offer
  BY <1>1, <1>2 DEF Goto
<1>3. ASSUME Finish(r)
      PROVE  /\ request' \in [Requests -> [phase : Phases, offer : D!Offers] \cup {Idle}]
             /\ \A s \in Requests : s # r => request'[s] = request[s]
             /\ request'[r] = Idle
  BY <1>1, <1>3 DEF Finish
<1> QED BY <1>2, <1>3

-----------------------------------------------------------------------------
(* Steps of dispatch. *)

\* An operation of dispatch: no call, no acceptance.
LEMMA OperationKeeps ==
  ASSUME Base, D!Operation, UNCHANGED <<walletVars, linkVars>> PROVE Base'
<1>1. /\ DP!IInv' /\ DispatchForward /\ RowsWait /\ NobodyAccepts
      /\ \A i \in D!Offers : settlement'[i] = "POSTED" => settlement[i] = "POSTED"
  BY OperationStep DEF Base
<1>2. WP!IInv' /\ WalletForward
  BY WalletRests DEF Base
<1>3. Recorded' /\ Finalized' /\ OnlyDelivererIsCharged'
  BY <1>1, WalletPartsRest DEF NobodyAccepts
<1>4. PostedIsSettled'
  BY <1>1, <1>2, PostedKept
<1>5. Links' /\ Requested' /\ Applied'
  <2>1. UNCHANGED <<request, applied, faults, event>>
    BY DEF walletVars, linkVars
  <2>2. Links' /\ Applied'
    BY <1>1, <2>1 DEF Base, Links, Applied, RowsWait
  <2>3. Requested'
    BY <1>1, <1>2, <2>1, RequestedKept
  <2> QED BY <2>2, <2>3
<1> QED BY <1>1, <1>2, <1>3, <1>4, <1>5 DEF Base, Services

\* The response of a request accepts an offer whose reservation was made.
LEMMA RespondKeeps ==
  ASSUME Base, NEW r \in Requests, Respond(r) PROVE Base'
<1>0. request[r].phase = "responding" /\ request[r] # Idle /\ D!AcceptCaptainOffer(request[r].offer)
      /\ Finish(r) /\ UNCHANGED <<walletVars, applied, faults>>
  BY Running DEF Respond, Phases
<1>1. request[r].offer \in D!Offers /\ event[<<"reserve", request[r].offer>>] # None
  BY <1>0, Request
<1>2. /\ DP!IInv' /\ DispatchForward /\ RowsWait /\ settlement' = settlement
      /\ \A i \in D!Offers : offer'[i] = "accepted" => offer[i] = "accepted" \/ i = request[r].offer
  BY <1>0, <1>1, AcceptStep DEF Base
<1>3. WP!IInv' /\ WalletForward
  BY <1>0, WalletRests DEF Base
<1>4. Recorded' /\ Finalized' /\ OnlyDelivererIsCharged'
  BY <1>0, <1>1, <1>2, WalletPartsRest
<1>5. PostedIsSettled'
  BY <1>2, <1>3, PostedKept
<1>6. Links' /\ Applied'
  BY <1>0, <1>2, GoesOn DEF Base, Links, Applied, RowsWait
<1>7. Requested'
  BY <1>0, <1>2, <1>3, GoesOn, RequestedKept
<1> QED BY <1>2, <1>3, <1>4, <1>5, <1>6, <1>7 DEF Base, Services

\* The reconciler marks a release posted.
LEMMA PostReleaseKeeps ==
  ASSUME Base, NEW site \in {"release", "takeback"}, NEW j \in D!Offers, PostRelease(site, j)
  PROVE  Base'
<1>0. /\ <<site, j>> \in applied /\ applied' = applied \ {<<site, j>>}
      /\ site = "release" => D!PostOfferRelease(j)
      /\ site = "takeback" => D!PostAssignmentRelease(j)
      /\ UNCHANGED <<walletVars, request, faults>>
  BY DEF PostRelease
<1>1. DP!IInv' /\ DispatchForward /\ NobodyAccepts
  BY <1>0, PostsStep DEF Base
<1>2. WP!IInv' /\ WalletForward /\ event' = event
  BY <1>0, WalletRests DEF Base, walletVars
<1>3. Recorded' /\ Finalized' /\ OnlyDelivererIsCharged'
  BY <1>0, <1>1, WalletPartsRest DEF NobodyAccepts
<1>4. UNCHANGED settlement
  BY <1>0 DEF D!PostOfferRelease, D!PostAssignmentRelease
<1>5. PostedIsSettled'
  BY <1>1, <1>2, <1>4, PostedKept
<1>6. Links'
  BY <1>0 DEF Base, Links
<1>7. Applied'
  <2>1. /\ offerRelease' = IF site = "release" THEN [offerRelease EXCEPT ![j] = "POSTED"] ELSE offerRelease
        /\ assignmentRelease' =
             IF site = "takeback" THEN [assignmentRelease EXCEPT ![j] = "POSTED"] ELSE assignmentRelease
    BY <1>0 DEF D!PostOfferRelease, D!PostAssignmentRelease
  <2>2. DOMAIN offerRelease = D!Offers /\ DOMAIN assignmentRelease = D!Offers
    BY SameDispatch DEF Base, Services, DP!IInv, DP!TypeOK
  <2> QED BY <1>0, <2>1, <2>2 DEF Base, Applied
<1>8. Requested'
  BY <1>0, <1>1, <1>2, RequestedKept
<1> QED BY <1>1, <1>2, <1>3, <1>5, <1>6, <1>7, <1>8 DEF Base, Services

\* The reconciler marks a settlement posted: WLT has all of it.
LEMMA PostSettlementKeeps ==
  ASSUME Base, NEW j \in D!Offers, PostSettlement(j)
  PROVE  Base'
<1>0. settlement[j] = "PENDING" /\ Settled(j) /\ D!PostSettlement(j) /\ UNCHANGED <<walletVars, linkVars>>
  BY DEF PostSettlement
<1>1. DP!IInv' /\ DispatchForward /\ NobodyAccepts
  BY <1>0, PostsStep DEF Base
<1>2. WP!IInv' /\ WalletForward /\ event' = event
  BY <1>0, WalletRests DEF Base, walletVars
<1>3. Recorded' /\ Finalized' /\ OnlyDelivererIsCharged'
  BY <1>0, <1>1, WalletPartsRest DEF NobodyAccepts
<1>4. SettledInWallet(j)
  <2>1. target[j] \in Orders /\ j[1] \in Captains
    BY <1>0, Named DEF Base
  <2>2. intent[target[j]] = "COLLECTED" /\ collectedBy[target[j]] = j[1] /\ earning[target[j]] # None
    BY <1>0 DEF Settled, Collected
  <2>3. earning[target[j]] = j[1]
    <3>1. Cash[target[j]] > 0
      BY <2>1, OrdersAssumption
    <3> QED BY <2>1, <2>2, <3>1 DEF Base, Services, WP!IInv, WP!EarnerIsCollector
  <2>4. \E k \in Keys : W!Row(k, target[j], j[1], "DEBITED")
    <3>1. CASE W!Recorded(<<"finalize", j>>, "finalize", target[j], j[1])
      <4>1. <<"finalize", j>> \in Keys
        BY DEF Keys, Sites
      <4> QED BY <2>1, <3>1, <4>1 DEF W!Recorded, Base, Finalized
    <3>2. CASE ~W!Recorded(<<"finalize", j>>, "finalize", target[j], j[1])
      BY <1>0, <3>2 DEF Settled, W!TransitionReplays
    <3> QED BY <3>1, <3>2
  <2> QED BY <2>2, <2>3, <2>4 DEF SettledInWallet
<1>5. \A i \in D!Offers : settlement'[i] = "POSTED" => settlement[i] = "POSTED" \/ i = j
  <2>1. settlement' = [settlement EXCEPT ![j] = "POSTED"] /\ DOMAIN settlement = D!Offers
    BY <1>0, SameDispatch DEF D!PostSettlement, Base, Services, DP!IInv, DP!TypeOK
  <2> QED BY <2>1
<1>6. PostedIsSettled'
  BY <1>0, <1>1, <1>2, <1>4, <1>5, PostedKept
<1>7. Links' /\ Applied'
  BY <1>0 DEF Base, Links, Applied, linkVars, D!PostSettlement
<1>8. Requested'
  BY <1>0, <1>1, <1>2, RequestedKept DEF linkVars
<1> QED BY <1>1, <1>2, <1>3, <1>6, <1>7, <1>8 DEF Base, Services

-----------------------------------------------------------------------------
(* Steps of the requests and the reconciler that call nobody. *)

\* Requests may start on an open offer, move on and end; releases may be forgotten.
LEMMA LinkStep ==
  ASSUME Base, UNCHANGED <<dispatchVars, walletVars>>, Links', applied' \subseteq applied,
         \A r \in Requests : request'[r] # Idle =>
           \/ /\ request[r] # Idle /\ request'[r].offer = request[r].offer
              /\ request'[r].phase # "reserving" => request[r].phase # "reserving"
           \/ /\ request'[r].phase = "reserving"
              /\ request'[r].offer \in D!Offers /\ offer[request'[r].offer] # "none"
  PROVE  Base'
<1>1. DP!IInv' /\ DispatchForward /\ RowsWait /\ NobodyAccepts
  BY DispatchRests DEF Base
<1>2. WP!IInv' /\ WalletForward
  BY WalletRests DEF Base
<1>3. Recorded' /\ Finalized' /\ OnlyDelivererIsCharged'
  BY <1>1, WalletPartsRest DEF NobodyAccepts
<1>4. UNCHANGED settlement
  BY DEF dispatchVars
<1>5. PostedIsSettled'
  BY <1>1, <1>2, <1>4, PostedKept
<1>6. Applied'
  BY <1>1 DEF Base, Applied, RowsWait
<1>7. Requested'
  BY <1>1, <1>2, RequestedKept
<1> QED BY <1>1, <1>2, <1>3, <1>5, <1>6, <1>7 DEF Base, Services

\* A request starts.
LEMMA StartKeeps ==
  ASSUME Base, NEW r \in Requests, NEW i \in D!Offers, StartAccept(r, i) PROVE Base'
<1>1. /\ request' = [request EXCEPT ![r] = [phase |-> "reserving", offer |-> i]]
      /\ offer[i] # "none" /\ UNCHANGED <<dispatchVars, walletVars, applied, faults>>
  BY DEF StartAccept
<1>2. request \in [Requests -> [phase : Phases, offer : D!Offers] \cup {Idle}]
  BY DEF Base, Links
<1>3. Links'
  BY <1>1, <1>2 DEF Base, Links, Phases
<1> QED BY <1>1, <1>2, <1>3, LinkStep

\* A request that goes on or ends without a call.
LEMMA MovesOn ==
  ASSUME Base, NEW r \in Requests, request[r] # Idle,
         \/ request[r].phase # "reserving" /\ \E phase \in Phases : Goto(r, phase)
         \/ Finish(r),
         applied' = applied, faults' \in 0 .. MaxFaults, UNCHANGED <<dispatchVars, walletVars>>
  PROVE  Base'
<1>1. /\ request' \in [Requests -> [phase : Phases, offer : D!Offers] \cup {Idle}]
      /\ \A s \in Requests : s # r => request'[s] = request[s]
      /\ request'[r] # Idle => request'[r].offer = request[r].offer
      /\ Finish(r) => request'[r] = Idle
  BY GoesOn
<1>2. Links'
  BY <1>1 DEF Base, Links
<1> QED BY <1>1, <1>2, LinkStep

\* A refused reservation, a refused response, the reread and a fault.
LEMMA QuietKeeps ==
  ASSUME Base, NEW r \in Requests,
         ReserveRefused(r) \/ RespondRefused(r) \/ Reread(r) \/ Fault(r)
  PROVE  Base'
<1>0. faults \in 0 .. MaxFaults /\ MaxFaults \in Nat
  BY BoundsAssumption DEF Base, Links
<1>1. CASE ReserveRefused(r)
  <2>1. request[r].phase = "reserving" /\ Finish(r) /\ UNCHANGED <<dispatchVars, walletVars, applied, faults>>
    BY <1>1 DEF ReserveRefused
  <2>2. request[r] # Idle
    BY <2>1, Running DEF Phases
  <2> QED BY <1>0, <2>1, <2>2, MovesOn
<1>2. CASE RespondRefused(r)
  <2>1. /\ request[r].phase = "responding" /\ Goto(r, "rereading")
        /\ UNCHANGED <<dispatchVars, walletVars, applied, faults>>
    BY <1>2 DEF RespondRefused
  <2>2. request[r] # Idle /\ "rereading" \in Phases
    BY <2>1, Running DEF Phases
  <2> QED BY <1>0, <2>1, <2>2, MovesOn
<1>3. CASE Reread(r)
  <2>1. /\ request[r].phase = "rereading" /\ (Finish(r) \/ Goto(r, "releasing"))
        /\ UNCHANGED <<dispatchVars, walletVars, applied, faults>>
    BY <1>3 DEF Reread
  <2>2. request[r] # Idle /\ "releasing" \in Phases
    BY <2>1, Running DEF Phases
  <2> QED BY <1>0, <2>1, <2>2, MovesOn
<1>4. CASE Fault(r)
  <2>1. request[r] # Idle /\ Finish(r) /\ faults < MaxFaults /\ faults' = faults + 1
        /\ UNCHANGED <<dispatchVars, walletVars, applied>>
    BY <1>4 DEF Fault
  <2> QED BY <1>0, <2>1, MovesOn
<1> QED BY <1>1, <1>2, <1>3, <1>4

\* The reconciler restarts.
LEMMA RestartKeeps == ASSUME Base, ReconcilerRestart PROVE Base'
<1>1. faults < MaxFaults /\ faults' = faults + 1 /\ applied' = {}
      /\ UNCHANGED <<dispatchVars, walletVars, request>>
  BY DEF ReconcilerRestart
<1>2. Links'
  BY <1>1, BoundsAssumption DEF Base, Links
<1> QED BY <1>1, <1>2, LinkStep

-----------------------------------------------------------------------------
(* Calls of the wallet. *)

\* What a call leaves to check: its key and its row.
LEMMA CallStep ==
  ASSUME Base, WP!IInv', WalletForward, UNCHANGED dispatchVars,
         Links', \A x \in applied' : x \in applied \/ (\E i \in D!Offers :
                     \/ x = <<"release", i>> /\ offerRelease[i] = "PENDING"
                     \/ x = <<"takeback", i>> /\ assignmentRelease[i] = "PENDING"),
         Recorded', Finalized', OnlyDelivererIsCharged',
         \A r \in Requests : request'[r] # Idle =>
           /\ request[r] # Idle /\ request'[r].offer = request[r].offer
           /\ request'[r].phase # "reserving" =>
                request[r].phase # "reserving" \/ event'[<<"reserve", request[r].offer>>] # None
  PROVE  Base'
<1>1. DP!IInv' /\ DispatchForward /\ RowsWait
  BY DispatchRests DEF Base
<1>2. UNCHANGED <<settlement, offerRelease, assignmentRelease>>
  BY DEF dispatchVars
<1>3. PostedIsSettled'
  BY <1>1, <1>2, PostedKept
<1>4. Applied'
  <2>1. \A i, j \in D!Offers : <<"release", i>> # <<"takeback", j>>
          /\ (<<"release", i>> = <<"release", j>> => i = j)
          /\ (<<"takeback", i>> = <<"takeback", j>> => i = j)
    OBVIOUS
  <2> QED BY <1>2, <2>1 DEF Base, Applied
<1>5. Requested'
  BY <1>1, RequestedKept
<1> QED BY <1>1, <1>3, <1>4, <1>5 DEF Base, Services

\* The reserve call of a request.
LEMMA ReserveKeeps ==
  ASSUME Base, NEW r \in Requests, Reserve(r) PROVE Base'
<1> DEFINE i == request[r].offer
           k == <<"reserve", i>>
<1>0. /\ request[r].phase = "reserving" /\ Goto(r, "responding")
      /\ UNCHANGED <<dispatchVars, applied, faults>>
      /\ \/ W!ReserveCaptainCOD(k, target[i], i[1])
         \/ W!ReserveReplays(k, target[i], i[1]) /\ UNCHANGED walletVars
  BY DEF Reserve
<1>1. request[r] # Idle
  BY <1>0, Running DEF Phases
<1>2. i \in D!Offers /\ k \in Keys /\ offer[i] # "none" /\ target[i] \in Orders /\ i[1] \in Captains
  BY <1>1, Request DEF Keys, Sites
<1>3. "responding" \in Phases
  BY DEF Phases
<1>4. /\ request' \in [Requests -> [phase : Phases, offer : D!Offers] \cup {Idle}]
      /\ \A s \in Requests : s # r => request'[s] = request[s]
      /\ request'[r] # Idle => request'[r].offer = i
  BY <1>0, <1>1, <1>3, GoesOn
<1>5. Links'
  BY <1>0, <1>4 DEF Base, Links
<1>6. \A j \in D!Offers : UNCHANGED <<target[j], offer[j]>>
  BY <1>0 DEF dispatchVars
<1>7. DispatchForward /\ NobodyAccepts
  BY <1>0, DispatchRests DEF Base
<1> HIDE DEF i, k
<1>8. CASE W!ReserveCaptainCOD(k, target[i], i[1])
  <2>1. /\ WP!IInv' /\ WalletForward
        /\ event[k] = None /\ event'[k] = [op |-> "reserve", order |-> target[i], captain |-> i[1]]
        /\ \A q \in Keys : q # k => event'[q] = event[q] /\ reservation'[q] = reservation[q]
        /\ UNCHANGED <<intent, collectedBy, earning>>
    BY <1>2, <1>8, ReserveCall DEF Base
  <2>2. event'[k] # None
    <3>1. event'[k] \in W!Request
      BY <1>2, <2>1 DEF W!Request
    <3> QED BY <3>1, NoneAssumption
  <2>3. Recorded'
    <3>1. \A j \in D!Offers, s \in Sites : <<s, j>> \in Keys
      BY DEF Keys
    <3>2. \A j \in D!Offers : /\ <<"undo", j>> # k /\ <<"release", j>> # k /\ <<"takeback", j>> # k
                              /\ <<"reserve", j>> = k => j = i
      BY DEF k
    <3>3. \A j \in D!Offers : event'[<<"undo", j>>] = event[<<"undo", j>>]
            /\ event'[<<"release", j>>] = event[<<"release", j>>]
            /\ event'[<<"takeback", j>>] = event[<<"takeback", j>>]
      BY <2>1, <3>1, <3>2 DEF Sites
    <3>4. ASSUME NEW j \in D!Offers, event'[<<"reserve", j>>] # event[<<"reserve", j>>]
          PROVE  j = i
      BY <2>1, <3>1, <3>2, <3>4 DEF Sites
    <3>5. \A j \in D!Offers : W!Row(<<"reserve", j>>, target[j], j[1], "ACTIVE")' =>
                Holds(j) \/ event[<<"reserve", j>>] = None \/ target'[j] # target[j]
      BY <2>1, <3>1, <3>2, <1>6 DEF Holds, W!Row, Sites
    <3>6. event'[<<"reserve", i>>] = [op |-> "reserve", order |-> target[i], captain |-> i[1]]
      BY <2>1 DEF k
    <3> QED BY <1>2, <1>7, <2>1, <3>3, <3>4, <3>5, <3>6, RecordedKept DEF NobodyAccepts
  <2>4. Finalized'
    <3>1. ASSUME NEW q \in Keys, NEW o \in Orders, NEW c \in Captains,
                 event'[q] = [op |-> "finalize", order |-> o, captain |-> c]
          PROVE  event[q] = event'[q]
      BY <2>1, <3>1
    <3> QED BY <2>1, <3>1, FinalizedKept
  <2>5. OnlyDelivererIsCharged'
    <3>1. ASSUME NEW q \in Keys, NEW o \in Orders, NEW c \in Captains, W!Row(q, o, c, "DEBITED")'
          PROVE  W!Row(q, o, c, "DEBITED")
      <4>1. q # k
        <5>1. reservation'[k] = [order |-> target[i], captain |-> i[1], state |-> "ACTIVE"]
          <6>1. reservation \in [Keys -> WP!Reservation \cup {None}]
            BY DEF Base, Services, WP!IInv, WP!TypeOK
          <6> QED BY <1>2, <1>8, <6>1 DEF W!ReserveCaptainCOD
        <5> QED BY <3>1, <5>1 DEF W!Row
      <4> QED BY <2>1, <3>1, <4>1 DEF W!Row
    <3> QED BY <1>7, <2>1, <3>1, ChargedKept
  <2>6. \A s \in Requests : request'[s] # Idle =>
           /\ request[s] # Idle /\ request'[s].offer = request[s].offer
           /\ request'[s].phase # "reserving" =>
                request[s].phase # "reserving" \/ event'[<<"reserve", request[s].offer>>] # None
    BY <1>1, <1>4, <2>2 DEF i, k
  <2> QED BY <1>0, <1>5, <2>1, <2>3, <2>4, <2>5, <2>6, CallStep
<1>9. CASE W!ReserveReplays(k, target[i], i[1]) /\ UNCHANGED walletVars
  <2>1. event[k] # None
    <3>1. event[k] \in W!Request
      BY <1>2, <1>9 DEF W!ReserveReplays, W!Recorded, W!Request
    <3> QED BY <3>1, NoneAssumption
  <2>2. WP!IInv' /\ WalletForward /\ event' = event
    BY <1>9, WalletRests DEF Base, walletVars
  <2>3. Recorded' /\ Finalized' /\ OnlyDelivererIsCharged'
    BY <1>7, <1>9, WalletPartsRest DEF NobodyAccepts
  <2>4. \A s \in Requests : request'[s] # Idle =>
           /\ request[s] # Idle /\ request'[s].offer = request[s].offer
           /\ request'[s].phase # "reserving" =>
                request[s].phase # "reserving" \/ event'[<<"reserve", request[s].offer>>] # None
    BY <1>1, <1>4, <2>1, <2>2 DEF i, k
  <2> QED BY <1>0, <1>5, <2>2, <2>3, <2>4, CallStep
<1> QED BY <1>0, <1>8, <1>9

\* A release or finalize call, whoever makes it.
LEMMA EndKeeps ==
  ASSUME Base, NEW site \in Sites, NEW j \in D!Offers, offer[j] # "none", UNCHANGED dispatchVars,
         \/ /\ site = "finalize" /\ assignment[j] = "delivered"
            /\ W!FinalizeCaptainCOD(<<site, j>>, target[j], j[1])
         \/ /\ \/ site = "undo" /\ event[<<"reserve", j>>] # None
               \/ site = "release" /\ offerRelease[j] # "none"
               \/ site = "takeback" /\ assignmentRelease[j] # "none"
            /\ W!ReleaseCaptainCOD(<<site, j>>, target[j], j[1])
  PROVE  WP!IInv' /\ WalletForward /\ Recorded' /\ Finalized' /\ OnlyDelivererIsCharged'
<1> DEFINE k == <<site, j>>
           t == target[j]
           operation == IF site = "finalize" THEN "finalize" ELSE "release"
           s == IF site = "finalize" THEN "DEBITED" ELSE "RELEASED"
<1>0. /\ \/ operation = "release" /\ s = "RELEASED" /\ W!ReleaseCaptainCOD(<<site, j>>, target[j], j[1])
         \/ operation = "finalize" /\ s = "DEBITED" /\ W!FinalizeCaptainCOD(<<site, j>>, target[j], j[1])
      /\ \/ site = "undo" /\ event[<<"reserve", j>>] # None
         \/ site = "release" /\ offerRelease[j] # "none"
         \/ site = "takeback" /\ assignmentRelease[j] # "none"
         \/ site = "finalize" /\ operation = "finalize" /\ assignment[j] = "delivered"
      /\ operation = "finalize" => site = "finalize"
  OBVIOUS
<1> HIDE DEF operation, s
<1> USE <1>0
<1>1. k \in Keys /\ t \in Orders /\ j[1] \in Captains
  BY Named DEF Base, Keys
<1>2. /\ WP!IInv' /\ WalletForward /\ NoNewHold /\ Ends(k, operation, t, j[1], s)
      /\ UNCHANGED <<intent, collectedBy, earning>>
  BY <1>1, EndCall DEF Base
<1>3. DispatchForward /\ NobodyAccepts /\ UNCHANGED target
  BY DispatchRests DEF Base, dispatchVars
<1>4. \A i \in D!Offers, x \in Sites : <<x, i>> \in Keys /\ (<<x, i>> = k <=> x = site /\ i = j)
  BY DEF Keys
<1>5. /\ event'[k] = [op |-> operation, order |-> t, captain |-> j[1]]
      /\ \A q \in Keys : q # k => event'[q] = event[q]
      /\ \A q \in Keys : ~W!Row(q, t, j[1], "ACTIVE")'
  BY <1>2 DEF Ends
<1>6. PICK r \in Keys :
       /\ W!Row(r, t, j[1], "ACTIVE") /\ W!Row(r, t, j[1], s)'
       /\ \A q \in Keys : q # r => reservation'[q] = reservation[q]
  BY <1>2 DEF Ends
<1> HIDE DEF k, t
<1>7. Recorded'
  <2>1. \A i \in D!Offers : event'[<<"reserve", i>>] = event[<<"reserve", i>>]
    BY <1>4, <1>5 DEF Sites
  <2>2. \A i \in D!Offers : W!Row(<<"reserve", i>>, target[i], i[1], "ACTIVE")' =>
                Holds(i) \/ event[<<"reserve", i>>] = None
    <3> SUFFICES ASSUME NEW i \in D!Offers, event[<<"reserve", i>>] # None,
                        W!Row(<<"reserve", i>>, target[i], i[1], "ACTIVE")'
                 PROVE  Holds(i)
      OBVIOUS
    <3>1. <<"reserve", i>> \in Keys /\ i[1] \in Captains /\ target[i] \in Orders
      BY <1>4, Named DEF Sites, Base, Recorded
    <3>2. reservation'[<<"reserve", i>>] # None
            /\ reservation'[<<"reserve", i>>] = [order |-> target[i], captain |-> i[1], state |-> "ACTIVE"]
      BY <1>3 DEF W!Row
    <3>3. \A o \in Orders : o = target[i] => W!Row(<<"reserve", i>>, o, i[1], "ACTIVE")'
      BY <3>2 DEF W!Row
    <3>4. \A o \in Orders : o = target[i] => W!Row(<<"reserve", i>>, o, i[1], "ACTIVE")
      BY <1>2, <3>1, <3>3 DEF NoNewHold
    <3> QED BY <3>1, <3>4 DEF Holds
  <2>3. site = "undo" => ~Holds(j)'
    <3>1. <<"reserve", j>> \in Keys
      BY <1>4 DEF Sites
    <3>2. ~W!Row(<<"reserve", j>>, t, j[1], "ACTIVE")'
      BY <1>5, <3>1
    <3> QED BY <1>3, <3>2 DEF Holds, W!Row, t
  <2>4. \A i \in D!Offers :
           /\ event'[<<"undo", i>>] # event[<<"undo", i>>] => site = "undo" /\ i = j
           /\ event'[<<"release", i>>] # event[<<"release", i>>] => site = "release" /\ i = j
           /\ event'[<<"takeback", i>>] # event[<<"takeback", i>>] => site = "takeback" /\ i = j
    BY <1>4, <1>5 DEF Sites
  <2> QED BY <1>2, <1>3, <2>1, <2>2, <2>3, <2>4, RecordedKept DEF NobodyAccepts
<1>8. Finalized'
  <2>1. ASSUME NEW q \in Keys, NEW o \in Orders, NEW c \in Captains,
               event'[q] = [op |-> "finalize", order |-> o, captain |-> c]
        PROVE  event[q] = event'[q] \/ \E x \in Keys : W!Row(x, o, c, "DEBITED")'
    <3>1. CASE q # k
      BY <1>5, <2>1, <3>1
    <3>2. CASE q = k
      <4>1. operation = "finalize" /\ o = t /\ c = j[1] /\ s = "DEBITED"
        BY <1>5, <2>1, <3>2
      <4>2. reservation'[r] # None /\ reservation'[r] = [order |-> t, captain |-> j[1], state |-> s]
        BY <1>6, <1>3 DEF W!Row, t
      <4>3. W!Row(r, o, c, "DEBITED")'
        BY <4>1, <4>2 DEF W!Row
      <4> QED BY <4>3
    <3> QED BY <3>1, <3>2
  <2> QED BY <1>2, <2>1, FinalizedKept
<1>9. OnlyDelivererIsCharged'
  <2>1. ASSUME NEW q \in Keys, NEW o \in Orders, NEW c \in Captains, W!Row(q, o, c, "DEBITED")'
        PROVE  W!Row(q, o, c, "DEBITED") \/ (target[j] = o /\ j[1] = c /\ assignment[j] = "delivered")
    <3>1. CASE q # r
      BY <1>6, <2>1, <3>1 DEF W!Row
    <3>2. CASE q = r
      <4>1. reservation'[r] = [order |-> t, captain |-> j[1], state |-> s]
        BY <1>6, <1>3 DEF W!Row, t
      <4>2. t = o /\ j[1] = c /\ s = "DEBITED"
        BY <2>1, <3>2, <4>1 DEF W!Row
      <4> QED BY <4>2 DEF t
    <3> QED BY <3>1, <3>2
  <2> QED BY <1>2, <1>3, <2>1, ChargedKept
<1> QED BY <1>2, <1>7, <1>8, <1>9

\* The release after a failed response.
LEMMA UndoKeeps ==
  ASSUME Base, NEW r \in Requests, ReleaseAfterFailure(r) PROVE Base'
<1> DEFINE i == request[r].offer
<1>0. /\ request[r].phase = "releasing" /\ Finish(r) /\ UNCHANGED <<dispatchVars, applied, faults>>
      /\ W!ReleaseCaptainCOD(<<"undo", i>>, target[i], i[1]) \/ UNCHANGED walletVars
  BY DEF ReleaseAfterFailure
<1>1. request[r] # Idle
  BY <1>0, Running DEF Phases
<1>2. i \in D!Offers /\ offer[i] # "none" /\ event[<<"reserve", i>>] # None
  BY <1>0, <1>1, Request
<1>3. CASE UNCHANGED walletVars
  BY <1>0, <1>1, <1>3, MovesOn DEF Base, Links
<1>4. CASE W!ReleaseCaptainCOD(<<"undo", i>>, target[i], i[1])
  <2>1. /\ request' \in [Requests -> [phase : Phases, offer : D!Offers] \cup {Idle}]
        /\ \A s \in Requests : s # r => request'[s] = request[s]
        /\ request'[r] = Idle
    BY <1>0, <1>1, GoesOn
  <2>2. Links'
    BY <1>0, <2>1 DEF Base, Links
  <2>3. "undo" \in Sites
    BY DEF Sites
  <2> HIDE DEF i
  <2>4. WP!IInv' /\ WalletForward /\ Recorded' /\ Finalized' /\ OnlyDelivererIsCharged'
    BY <1>0, <1>2, <1>4, <2>3, EndKeeps
  <2> QED BY <1>0, <2>1, <2>2, <2>4, CallStep
<1> QED BY <1>0, <1>3, <1>4

\* The reconciler applies a release.
LEMMA ApplyKeeps ==
  ASSUME Base, NEW site \in {"release", "takeback"}, NEW i \in D!Offers, ApplyRelease(site, i)
  PROVE  Base'
<1>0. /\ Pending(site, i) /\ applied' = applied \cup {<<site, i>>}
      /\ UNCHANGED <<dispatchVars, request, faults>>
      /\ W!ReleaseCaptainCOD(<<site, i>>, target[i], i[1]) \/ UNCHANGED walletVars
  BY DEF ApplyRelease
<1>1. /\ site = "release" => offerRelease[i] = "PENDING"
      /\ site = "takeback" => assignmentRelease[i] = "PENDING"
      /\ offer[i] # "none"
  BY <1>0, SameDispatch DEF Pending, Base, Services, DP!IInv, DP!Named
<1>2. Links'
  BY <1>0 DEF Base, Links
<1>3. \A x \in applied' : x \in applied \/ (\E j \in D!Offers :
                     \/ x = <<"release", j>> /\ offerRelease[j] = "PENDING"
                     \/ x = <<"takeback", j>> /\ assignmentRelease[j] = "PENDING")
  BY <1>0, <1>1
<1>4. WP!IInv' /\ WalletForward /\ Recorded' /\ Finalized' /\ OnlyDelivererIsCharged'
  <2>1. CASE UNCHANGED walletVars
    <3>1. WP!IInv' /\ WalletForward
      BY <2>1, WalletRests DEF Base
    <3>2. DispatchForward /\ NobodyAccepts
      BY <1>0, DispatchRests DEF Base
    <3> QED BY <2>1, <3>1, <3>2, WalletPartsRest DEF NobodyAccepts
  <2>2. CASE W!ReleaseCaptainCOD(<<site, i>>, target[i], i[1])
    <3>1. site \in Sites
      BY DEF Sites
    <3>2. (site = "release" /\ offerRelease[i] # "none") \/ (site = "takeback" /\ assignmentRelease[i] # "none")
      BY <1>1
    <3> QED BY <1>0, <1>1, <2>2, <3>1, <3>2, EndKeeps
  <2> QED BY <1>0, <2>1, <2>2
<1> QED BY <1>0, <1>2, <1>3, <1>4, CallStep

\* The three calls of a settlement.
LEMMA SettleKeeps ==
  ASSUME Base, NEW i \in D!Offers, EnsureCollected(i) \/ FinalizeEarning(i) \/ FinalizeCOD(i)
  PROVE  Base'
<1> DEFINE t == target[i]
<1>0. settlement[i] = "PENDING" /\ UNCHANGED <<dispatchVars, linkVars>>
  BY DEF EnsureCollected, FinalizeEarning, FinalizeCOD
<1>1. t \in Orders /\ i[1] \in Captains /\ assignment[i] = "delivered" /\ offer[i] # "none"
  BY <1>0, Named DEF Base
<1>2. UNCHANGED <<request, applied, faults>>
  BY <1>0 DEF linkVars
<1>3. Links'
  BY <1>2 DEF Base, Links
<1>4. DispatchForward /\ NobodyAccepts /\ UNCHANGED target
  BY <1>0, DispatchRests DEF Base, dispatchVars
<1>5. ASSUME UNCHANGED <<reservation, event>>, WalletForward,
             \A o \in Orders : o # t => collectedBy'[o] = collectedBy[o] /\ earning'[o] = earning[o],
             \A c \in Captains : collectedBy'[t] = c \/ earning'[t] = c =>
               collectedBy[t] = c \/ earning[t] = c \/ c = i[1]
      PROVE  Recorded' /\ Finalized' /\ OnlyDelivererIsCharged'
  <2>1. \A j \in D!Offers : W!Row(<<"reserve", j>>, target[j], j[1], "ACTIVE")' => Holds(j)
    BY <1>4, <1>5 DEF Holds, W!Row
  <2>2. Recorded'
    BY <1>4, <1>5, <2>1, RecordedKept DEF NobodyAccepts
  <2>3. Finalized'
    BY <1>5, FinalizedKept
  <2>4. \A q \in Keys, o \in Orders, c \in Captains : W!Row(q, o, c, "DEBITED")' => W!Row(q, o, c, "DEBITED")
    BY <1>5 DEF W!Row
  <2>5. OnlyDelivererIsCharged'
    BY <1>1, <1>4, <1>5, <2>4, ChargedKept
  <2> QED BY <2>2, <2>3, <2>5
<1> HIDE DEF t
<1>6. CASE EnsureCollected(i)
  <2>1. W!CollectPaymentIntent(t, i[1])
    BY <1>6 DEF EnsureCollected, t
  <2>2. /\ WP!IInv' /\ WalletForward /\ UNCHANGED <<reservation, event, earning>>
        /\ collectedBy'[t] = i[1] /\ \A o \in Orders : o # t => collectedBy'[o] = collectedBy[o]
    BY <1>1, <2>1, CollectCall DEF Base
  <2>3. Recorded' /\ Finalized' /\ OnlyDelivererIsCharged'
    BY <1>5, <2>2
  <2> QED BY <1>0, <1>2, <1>3, <2>2, <2>3, CallStep
<1>7. CASE FinalizeEarning(i)
  <2>1. W!FinalizePartnerOrderEarning(t, i[1])
    BY <1>7 DEF FinalizeEarning, t
  <2>2. /\ WP!IInv' /\ WalletForward /\ UNCHANGED <<collectedBy, reservation, event>>
        /\ earning'[t] = i[1] /\ \A o \in Orders : o # t => earning'[o] = earning[o]
    BY <1>1, <2>1, EarnCall DEF Base
  <2>3. Recorded' /\ Finalized' /\ OnlyDelivererIsCharged'
    BY <1>5, <2>2
  <2> QED BY <1>0, <1>2, <1>3, <2>2, <2>3, CallStep
<1>8. CASE FinalizeCOD(i)
  <2>1. W!FinalizeCaptainCOD(<<"finalize", i>>, target[i], i[1]) /\ "finalize" \in Sites
    BY <1>8 DEF FinalizeCOD, Sites
  <2>2. WP!IInv' /\ WalletForward /\ Recorded' /\ Finalized' /\ OnlyDelivererIsCharged'
    BY <1>0, <1>1, <2>1, EndKeeps
  <2> QED BY <1>0, <1>2, <1>3, <2>2, CallStep
<1> QED BY <1>6, <1>7, <1>8

\* Every step keeps the invariant.
LEMMA BaseStep == ASSUME Base, [Next]_vars PROVE Base'
<1>1. CASE UNCHANGED vars
  <2>1. UNCHANGED <<dispatchVars, walletVars, request, applied, faults>>
    BY <1>1 DEF vars, linkVars
  <2>2. Links'
    BY <2>1 DEF Base, Links
  <2> QED BY <2>1, <2>2, LinkStep
<1>2. CASE D!Operation /\ UNCHANGED <<walletVars, linkVars>>
  BY <1>2, OperationKeeps
<1>3. ASSUME NEW r \in Requests, RequestStep(r) PROVE Base'
  BY <1>3, StartKeeps, ReserveKeeps, RespondKeeps, UndoKeeps, QuietKeeps DEF RequestStep
<1>4. ASSUME NEW site \in {"release", "takeback"}, NEW i \in D!Offers,
             ApplyRelease(site, i) \/ PostRelease(site, i)
      PROVE  Base'
  BY <1>4, ApplyKeeps, PostReleaseKeeps
<1>5. CASE ReconcilerRestart
  BY <1>5, RestartKeeps
<1>6. ASSUME NEW i \in D!Offers, Settle(i) PROVE Base'
  BY <1>6, SettleKeeps, PostSettlementKeeps DEF Settle
<1> QED BY <1>1, <1>2, <1>3, <1>4, <1>5, <1>6 DEF Next

\* So it holds in every reachable state.
LEMMA Reached == Spec => []Base
<1> QED BY BaseInit, BaseStep, PTL DEF Spec

\* Whatever the requests, the reconciler and the faults do, every table and
\* every request holds values of its own kind.
THEOREM CompositionTypes == Spec => []TypeOK
<1>1. Base => TypeOK
  BY SameDispatch, SameTables DEF Base, Services, DP!IInv, WP!IInv, Links, TypeOK
<1> QED BY <1>1, Reached, PTL

\* Cash is collected, fees are credited and wallets debited only for the
\* captain who delivered, after any retries, late calls and crashes.
THEOREM ChargesDeliverer == Spec => []OnlyDelivererIsCharged
<1>1. Base => OnlyDelivererIsCharged
  BY DEF Base
<1> QED BY <1>1, Reached, PTL

\* An order DSH calls paid has its whole settlement in WLT.
THEOREM PaidIsSettled == Spec => []PaidMeansSettled
<1>1. ASSUME Base, NEW o \in Orders, payment[o] = "COLLECTED"
      PROVE  \E i \in D!Offers :
               /\ target[i] = o /\ assignment[i] = "delivered"
               /\ intent[o] = "COLLECTED" /\ collectedBy[o] = i[1] /\ earning[o] = i[1]
               /\ \E k \in Keys : W!Row(k, o, i[1], "DEBITED")
  <2>1. PICK i \in DP!Offers : target[i] = o /\ settlement[i] = "POSTED" /\ assignment[i] = "delivered"
    BY <1>1 DEF Base, Services, DP!IInv, DP!SettledByDeliverer
  <2>2. i \in D!Offers /\ SettledInWallet(i)
    BY <1>1, <2>1, SameDispatch DEF Base, PostedIsSettled
  <2> QED BY <2>1, <2>2 DEF SettledInWallet
<1>2. Base => PaidMeansSettled
  BY <1>1 DEF PaidMeansSettled
<1> QED BY <1>2, Reached, PTL

-----------------------------------------------------------------------------
(* No hold is forgotten. *)

\* The release row of offer i that site works on will still be carried out.
Owes(site, i) == Pending(site, i) /\ event[<<site, i>>] = None /\ <<site, i>> \notin applied

\* Why the hold of offer i is still there: somebody needs it or will end it.
Kept(i) ==
  \/ offer[i] = "offered"
  \/ assignment[i] \in D!Working \cup {"delivered"}
  \/ Owes("release", i) \/ Owes("takeback", i)
  \/ offer[i] # "accepted" /\ \E r \in Requests : request[r].offer = i

\* Every hold of cash not yet collected has a reason.
HeldFor ==
  \A i \in D!Offers : Holds(i) /\ intent[target[i]] # "COLLECTED" => Kept(i)

\* A hold was reserved under its offer's key, so the offer was made.
LEMMA HoldMade ==
  ASSUME Base, NEW i \in D!Offers, reservation[<<"reserve", i>>] # None
  PROVE  /\ offer[i] # "none" /\ target[i] \in Orders /\ i[1] \in Captains
         /\ event[<<"reserve", i>>] = [op |-> "reserve", order |-> target[i], captain |-> i[1]]
<1>1. <<"reserve", i>> \in Keys
  BY DEF Keys, Sites
<1>2. event[<<"reserve", i>>] # None
  BY <1>1 DEF Base, Services, WP!IInv, WP!RowHasEvent
<1> QED BY <1>2, Named DEF Base, Recorded

\* The release rows of an offer that is open, and of an assignment at work, are
\* yet to be written; when the offer or the assignment ends they are.
LEMMA ReleaseRows ==
  ASSUME Base, NEW i \in D!Offers, offer[i] # "none"
  PROVE  /\ offer[i] \in {"offered", "accepted", "rejected", "expired", "superseded"}
         /\ assignment[i] \in D!Working \cup {"none", "delivered", "reassigned"}
         /\ offer[i] = "accepted" <=> assignment[i] # "none"
         /\ offerRelease[i] # "none" <=> offer[i] \in {"rejected", "expired", "superseded"}
         /\ assignmentRelease[i] # "none" <=> assignment[i] = "reassigned"
<1>1. i \in DP!Offers /\ DP!IInv
  BY SameDispatch DEF Base, Services
<1>2. target[i] \in Orders
  BY Named DEF Base
<1>3. i \in DP!Platform(DP!Offers)
  BY <1>1, <1>2, OrdersAssumption, NoneAssumption DEF DP!Platform
<1>4. /\ offerRelease[i] # "none" <=> offer[i] \in {"rejected", "expired", "superseded"}
      /\ assignmentRelease[i] # "none" <=> assignment[i] = "reassigned"
  BY <1>1, <1>3 DEF DP!IInv, DP!ReleasesOwed
<1>5. offer[i] = "accepted" <=> assignment[i] # "none"
  BY <1>1 DEF DP!IInv, DP!Named
<1>6. /\ offer[i] \in {"offered", "accepted", "rejected", "expired", "superseded"}
      /\ assignment[i] \in D!Working \cup {"none", "delivered", "reassigned"}
  BY <1>1, SameDispatch DEF DP!IInv, DP!TypeOK
<1> QED BY <1>4, <1>5, <1>6

\* A step of dispatch keeps the reason, or leaves a release row behind.
LEMMA ReasonOnward ==
  ASSUME Base, Base', NEW i \in D!Offers, offer[i] # "none", DP!Onward(i), Kept(i),
         UNCHANGED <<event, applied>>,
         offer'[i] = "accepted" => offer[i] = "accepted" \/ assignment'[i] = "assigned",
         (\E r \in Requests : request[r].offer = i) =>
           offer'[i] = "accepted" \/ \E r \in Requests : request'[r].offer = i
  PROVE  Kept(i)'
<1>1. offer'[i] # "none"
  BY DEF DP!Onward
<1>2. /\ offer[i] \in {"offered", "accepted", "rejected", "expired", "superseded"}
      /\ assignment[i] \in D!Working \cup {"none", "delivered", "reassigned"}
      /\ offer[i] = "accepted" <=> assignment[i] # "none"
      /\ offerRelease[i] # "none" <=> offer[i] \in {"rejected", "expired", "superseded"}
      /\ assignmentRelease[i] # "none" <=> assignment[i] = "reassigned"
  BY ReleaseRows
<1>3. /\ offer'[i] \in {"offered", "accepted", "rejected", "expired", "superseded"}
      /\ offer'[i] = "accepted" <=> assignment'[i] # "none"
      /\ offerRelease'[i] # "none" <=> offer'[i] \in {"rejected", "expired", "superseded"}
      /\ assignmentRelease'[i] # "none" <=> assignment'[i] = "reassigned"
  <2>1. i \in DP!Offers /\ DP!IInv'
    BY SameDispatch DEF Base, Services
  <2>2. i \in DP!Platform(DP!Offers)'
    <3>1. target[i] \in Orders /\ target'[i] = target[i]
      BY Named DEF Base, DP!Onward
    <3> QED BY <2>1, <3>1, OrdersAssumption, NoneAssumption DEF DP!Platform
  <2>3. /\ offerRelease'[i] # "none" <=> offer'[i] \in {"rejected", "expired", "superseded"}
        /\ assignmentRelease'[i] # "none" <=> assignment'[i] = "reassigned"
    BY <2>1, <2>2 DEF DP!IInv, DP!ReleasesOwed
  <2>4. offer'[i] = "accepted" <=> assignment'[i] # "none"
    BY <2>1 DEF DP!IInv, DP!Named
  <2>5. offer'[i] \in {"none", "offered", "accepted", "rejected", "expired", "superseded"}
    BY <2>1 DEF DP!IInv, DP!TypeOK
  <2> QED BY <1>1, <2>3, <2>4, <2>5
<1>4. "assigned" \in D!Working
  BY DEF D!Working, D!Active
<1>5. DP!Writes(offerRelease, i) /\ DP!Writes(assignmentRelease, i)
  BY DEF DP!Onward
<1>6. /\ offerRelease[i] = "none" => event[<<"release", i>>] = None /\ <<"release", i>> \notin applied
      /\ assignmentRelease[i] = "none" => event[<<"takeback", i>>] = None /\ <<"takeback", i>> \notin applied
  BY DEF Base, Recorded, Applied
<1>7. CASE offer[i] = "offered"
  <2>1. CASE offer'[i] = "offered"
    BY <2>1 DEF Kept
  <2>2. CASE offer'[i] = "accepted"
    BY <1>4, <1>7, <2>2 DEF Kept
  <2>3. CASE offer'[i] \in {"rejected", "expired", "superseded"}
    <3>1. offerRelease[i] = "none" /\ offerRelease'[i] = "PENDING"
      BY <1>2, <1>3, <1>5, <1>7, <2>3 DEF DP!Writes
    <3> QED BY <1>6, <3>1 DEF Kept, Owes, Pending
  <2> QED BY <1>3, <2>1, <2>2, <2>3
<1>8. CASE assignment[i] \in D!Working
  <2>1. CASE assignment'[i] \in D!Working \cup {"delivered"}
    BY <2>1 DEF Kept
  <2>2. CASE assignment'[i] = "reassigned"
    <3>1. assignmentRelease[i] = "none" /\ assignmentRelease'[i] = "PENDING"
      BY <1>2, <1>3, <1>5, <1>8, <2>2 DEF DP!Writes, D!Working, D!Active
    <3> QED BY <1>6, <3>1 DEF Kept, Owes, Pending
  <2> QED BY <1>8, <2>1, <2>2, SameDispatch DEF DP!Onward
<1>9. CASE assignment[i] = "delivered"
  BY <1>9 DEF Kept, DP!Onward
<1>10. CASE Owes("release", i) \/ Owes("takeback", i)
  BY <1>5, <1>10 DEF Kept, Owes, Pending, DP!Writes
<1>11. CASE offer[i] \in {"rejected", "expired", "superseded"} /\ \E r \in Requests : request[r].offer = i
  <2>1. offer'[i] = offer[i]
    BY <1>11 DEF DP!Onward
  <2> QED BY <1>11, <2>1 DEF Kept
<1> QED BY <1>2, <1>7, <1>8, <1>9, <1>10, <1>11 DEF Kept

\* With the wallet at rest, a hold was there before.
LEMMA HoldRests ==
  ASSUME Base, DispatchForward, UNCHANGED walletVars, NEW i \in D!Offers,
         Holds(i)', intent'[target'[i]] # "COLLECTED"
  PROVE  offer[i] # "none" /\ Holds(i) /\ intent[target[i]] # "COLLECTED"
<1>1. UNCHANGED <<reservation, intent>>
  BY DEF walletVars
<1>2. reservation[<<"reserve", i>>] # None
  BY <1>1 DEF Holds, W!Row
<1>3. offer[i] # "none" /\ target'[i] = target[i]
  BY <1>2, HoldMade DEF DispatchForward
<1> QED BY <1>1, <1>3 DEF Holds, W!Row

\* Operations of dispatch, and the response of a request.
LEMMA OperationHeld ==
  ASSUME Base, Base', HeldFor, D!Operation, UNCHANGED <<walletVars, linkVars>>
  PROVE  HeldFor'
<1>1. \A i \in D!Offers : DP!Onward(i) /\ (offer'[i] = "accepted" => offer[i] = "accepted")
  <2>1. DP!IInv /\ DP!Operation
    BY SameOperation DEF Base, Services
  <2> QED BY <2>1, DP!OperationOnward, Assumptions, SameDispatch
<1>2. DispatchForward
  BY OperationStep DEF Base
<1>3. UNCHANGED <<event, applied, request>>
  BY DEF walletVars, linkVars
<1> SUFFICES ASSUME NEW i \in D!Offers, Holds(i)', intent'[target'[i]] # "COLLECTED"
             PROVE  Kept(i)'
  BY DEF HeldFor
<1>4. offer[i] # "none" /\ Kept(i)
  BY <1>2, HoldRests DEF HeldFor
<1>5. /\ offer'[i] = "accepted" => offer[i] = "accepted" \/ assignment'[i] = "assigned"
      /\ (\E r \in Requests : request[r].offer = i) =>
           offer'[i] = "accepted" \/ \E r \in Requests : request'[r].offer = i
  BY <1>1, <1>3
<1> QED BY <1>1, <1>3, <1>4, <1>5, ReasonOnward

\* What a request that moves on or ends leaves of the others.
LEMMA OthersGoOn ==
  ASSUME Base, NEW r \in Requests, request[r] # Idle,
         (\E phase \in Phases : Goto(r, phase)) \/ Finish(r),
         NEW i, \E s \in Requests : request[s].offer = i
  PROVE  (\E s \in Requests : request'[s].offer = i) \/ (Finish(r) /\ i = request[r].offer)
<1>1. /\ \A s \in Requests : s # r => request'[s] = request[s]
      /\ request'[r] # Idle => request'[r].offer = request[r].offer
  BY GoesOn
<1>2. PICK s \in Requests : request[s].offer = i
  OBVIOUS
<1>3. CASE s # r
  BY <1>1, <1>2, <1>3
<1>4. CASE s = r /\ request'[r] # Idle
  BY <1>1, <1>2, <1>4
<1>5. CASE s = r /\ request'[r] = Idle
  <2>1. ASSUME NEW phase \in Phases, Goto(r, phase) PROVE request'[r] # Idle
    <3>1. request'[r].phase = phase
      BY <2>1, Request DEF Goto, Base, Links
    <3> QED BY <3>1 DEF Idle, Phases
  <2> QED BY <1>2, <1>5, <2>1
<1> QED BY <1>3, <1>4, <1>5

\* The response turns an open offer into an assignment.
LEMMA RespondHeld ==
  ASSUME Base, Base', HeldFor, NEW r \in Requests, Respond(r)
  PROVE  HeldFor'
<1> DEFINE j == request[r].offer
<1>0. request[r].phase = "responding" /\ request[r] # Idle /\ D!AcceptCaptainOffer(j)
      /\ Finish(r) /\ UNCHANGED <<walletVars, applied, faults>>
  BY Running DEF Respond, Phases
<1>1. j \in D!Offers
  BY <1>0, Request
<1>2. /\ DispatchForward /\ offer'[j] = "accepted" /\ assignment'[j] = "assigned"
      /\ \A i \in D!Offers : offer'[i] = "accepted" => offer[i] = "accepted" \/ i = j
  BY <1>0, <1>1, AcceptStep DEF Base
<1>3. \A i \in D!Offers : DP!Onward(i)
  <2>1. DP!IInv /\ j \in DP!Offers /\ DP!AcceptCaptainOffer(j)
    BY <1>0, <1>1, SameAccept, SameDispatch DEF Base, Services
  <2> HIDE DEF j
  <2> QED BY <2>1, DP!AcceptOnward, Assumptions, SameDispatch
<1> SUFFICES ASSUME NEW i \in D!Offers, Holds(i)', intent'[target'[i]] # "COLLECTED"
             PROVE  Kept(i)'
  BY DEF HeldFor
<1>4. offer[i] # "none" /\ Kept(i)
  BY <1>0, <1>2, HoldRests DEF HeldFor
<1>5. offer'[i] = "accepted" => offer[i] = "accepted" \/ assignment'[i] = "assigned"
  BY <1>2
<1>6. (\E s \in Requests : request[s].offer = i) =>
        offer'[i] = "accepted" \/ \E s \in Requests : request'[s].offer = i
  BY <1>0, <1>2, OthersGoOn
<1>7. UNCHANGED <<event, applied>>
  BY <1>0 DEF walletVars
<1> QED BY <1>3, <1>4, <1>5, <1>6, <1>7, ReasonOnward

-----------------------------------------------------------------------------
(* Steps that leave dispatch alone. *)

\* Each hold left is a new one of a running request, or an old one whose
\* reason the step does not take away.
LEMMA RestingHeld ==
  ASSUME Base, HeldFor, UNCHANGED dispatchVars, WalletForward,
         \A i \in D!Offers : Holds(i)' /\ intent'[target[i]] # "COLLECTED" =>
           \/ offer[i] # "accepted" /\ \E r \in Requests : request'[r].offer = i
           \/ /\ Holds(i)
              /\ \A site \in {"release", "takeback"} :
                   Owes(site, i) => event'[<<site, i>>] = None /\ <<site, i>> \notin applied'
              /\ offer[i] # "accepted" /\ (\E r \in Requests : request[r].offer = i) =>
                   \E r \in Requests : request'[r].offer = i
  PROVE  HeldFor'
<1>1. UNCHANGED <<offer, target, assignment, offerRelease, assignmentRelease>>
  BY DEF dispatchVars
<1> SUFFICES ASSUME NEW i \in D!Offers, Holds(i)', intent'[target[i]] # "COLLECTED"
             PROVE  Kept(i)'
  BY <1>1 DEF HeldFor
<1>2. CASE offer[i] # "accepted" /\ \E r \in Requests : request'[r].offer = i
  BY <1>1, <1>2 DEF Kept
<1>3. CASE /\ Holds(i)
           /\ \A site \in {"release", "takeback"} :
                   Owes(site, i) => event'[<<site, i>>] = None /\ <<site, i>> \notin applied'
           /\ offer[i] # "accepted" /\ (\E r \in Requests : request[r].offer = i) =>
                \E r \in Requests : request'[r].offer = i
  <2>1. target[i] \in Orders
    BY <1>3, HoldMade DEF Holds, W!Row
  <2>2. intent[target[i]] # "COLLECTED"
    BY <2>1 DEF WalletForward
  <2>3. Kept(i)
    BY <1>3, <2>2 DEF HeldFor
  <2>4. \A site \in {"release", "takeback"} : Owes(site, i) => Owes(site, i)'
    BY <1>1, <1>3 DEF Owes, Pending
  <2> QED BY <1>1, <1>3, <2>3, <2>4 DEF Kept
<1> QED BY <1>2, <1>3

\* Steps that call nobody.
LEMMA MoveHeld ==
  ASSUME Base, HeldFor, UNCHANGED <<dispatchVars, walletVars, applied>>,
         \A i \in D!Offers : Holds(i) /\ offer[i] # "accepted" /\ (\E r \in Requests : request[r].offer = i) =>
           \E r \in Requests : request'[r].offer = i
  PROVE  HeldFor'
<1>1. WalletForward
  BY WalletRests DEF Base
<1>2. UNCHANGED <<target, reservation, event, intent>>
  BY DEF dispatchVars, walletVars
<1>3. \A i \in D!Offers : Holds(i)' => Holds(i)
  BY <1>2 DEF Holds, W!Row
<1>4. \A i \in D!Offers, site \in {"release", "takeback"} :
        Owes(site, i) => event'[<<site, i>>] = None /\ <<site, i>> \notin applied'
  BY <1>2 DEF Owes
<1> QED BY <1>1, <1>3, <1>4, RestingHeld

\* A request that starts takes no reason away.
LEMMA StartHeld ==
  ASSUME Base, HeldFor, NEW r \in Requests, NEW j \in D!Offers, StartAccept(r, j)
  PROVE  HeldFor'
<1>1. /\ request[r] = Idle /\ request' = [request EXCEPT ![r] = [phase |-> "reserving", offer |-> j]]
      /\ UNCHANGED <<dispatchVars, walletVars, applied>>
  BY DEF StartAccept
<1>2. DOMAIN request = Requests
  BY DEF Base, Links
<1>3. ASSUME NEW i \in D!Offers, NEW s \in Requests, request[s].offer = i
      PROVE  request'[s].offer = i
  <2>1. s # r
    BY <1>1, <1>3, NoneAssumption DEF Idle
  <2> QED BY <1>1, <1>2, <1>3, <2>1
<1> QED BY <1>1, <1>3, MoveHeld

\* A refused reserve call leaves no hold behind it, and a request that finds
\* its offer accepted leaves the hold to the assignment.
LEMMA QuietHeld ==
  ASSUME Base, HeldFor, NEW r \in Requests, ReserveRefused(r) \/ RespondRefused(r) \/ Reread(r)
  PROVE  HeldFor'
<1> DEFINE j == request[r].offer
<1>1. CASE ReserveRefused(r)
  <2>1. /\ request[r].phase = "reserving" /\ Finish(r) /\ UNCHANGED <<dispatchVars, walletVars, applied>>
        /\ ~W!ReserveReplays(<<"reserve", j>>, target[j], j[1])
    BY <1>1 DEF ReserveRefused
  <2>2. request[r] # Idle
    BY <2>1, Running DEF Phases
  <2>3. j \in D!Offers
    BY <2>2, Request
  <2>4. ~Holds(j)
    <3> HIDE DEF j
    <3>1. ASSUME Holds(j) PROVE FALSE
      <4>1. reservation[<<"reserve", j>>] # None
        BY <3>1 DEF Holds, W!Row
      <4> QED BY <2>1, <2>3, <4>1, HoldMade DEF W!ReserveReplays, W!Recorded
    <3> QED BY <3>1
  <2> QED BY <2>1, <2>2, <2>4, OthersGoOn, MoveHeld
<1>2. CASE RespondRefused(r)
  <2>1. /\ request[r].phase = "responding" /\ Goto(r, "rereading")
        /\ UNCHANGED <<dispatchVars, walletVars, applied>>
    BY <1>2 DEF RespondRefused
  <2>2. request[r] # Idle /\ "rereading" \in Phases
    BY <2>1, Running DEF Phases
  <2>3. ~Finish(r)
    <3>1. request'[r].phase = "rereading"
      BY <2>1, <2>2, Request DEF Goto, Base, Links
    <3> QED BY <2>2, <3>1, GoesOn DEF Idle
  <2> QED BY <2>1, <2>2, <2>3, OthersGoOn, MoveHeld
<1>3. CASE Reread(r)
  <2>1. /\ request[r].phase = "rereading"
        /\ Goto(r, "releasing") \/ (offer[j] = "accepted" /\ Finish(r))
        /\ UNCHANGED <<dispatchVars, walletVars, applied>>
    BY <1>3 DEF Reread
  <2>2. request[r] # Idle /\ "releasing" \in Phases
    BY <2>1, Running DEF Phases
  <2>3. CASE Goto(r, "releasing")
    <3>1. ~Finish(r)
      <4>1. request'[r].phase = "releasing"
        BY <2>2, <2>3, Request DEF Goto, Base, Links
      <4> QED BY <2>2, <4>1, GoesOn DEF Idle
    <3> QED BY <2>1, <2>2, <2>3, <3>1, OthersGoOn, MoveHeld
  <2>4. CASE offer[j] = "accepted" /\ Finish(r)
    BY <2>1, <2>2, <2>4, OthersGoOn, MoveHeld
  <2> QED BY <2>1, <2>3, <2>4
<1> QED BY <1>1, <1>2, <1>3

\* A new hold is that of a running request, whose offer is not accepted yet.
LEMMA ReserveHeld ==
  ASSUME Base, HeldFor, NEW r \in Requests, Reserve(r)
  PROVE  HeldFor'
<1> DEFINE j == request[r].offer
           k == <<"reserve", j>>
<1>0. /\ request[r].phase = "reserving" /\ Goto(r, "responding")
      /\ UNCHANGED <<dispatchVars, applied, faults>>
      /\ \/ W!ReserveCaptainCOD(k, target[j], j[1])
         \/ W!ReserveReplays(k, target[j], j[1]) /\ UNCHANGED walletVars
  BY DEF Reserve
<1>1. request[r] # Idle /\ "responding" \in Phases
  BY <1>0, Running DEF Phases
<1>2. j \in D!Offers /\ k \in Keys /\ target[j] \in Orders /\ j[1] \in Captains
  BY <1>1, Request DEF Keys, Sites
<1>3. request'[r].phase = "responding" /\ request'[r].offer = j
  BY <1>0, <1>1, Request DEF Goto, Base, Links
<1>4. ~Finish(r)
  BY <1>1, <1>3, GoesOn DEF Idle
<1>5. \A i \in D!Offers : (\E s \in Requests : request[s].offer = i) => \E s \in Requests : request'[s].offer = i
  BY <1>0, <1>1, <1>4, OthersGoOn
<1>6. CASE W!ReserveReplays(k, target[j], j[1]) /\ UNCHANGED walletVars
  BY <1>0, <1>5, <1>6, MoveHeld
<1>7. CASE W!ReserveCaptainCOD(k, target[j], j[1])
  <2> HIDE DEF j, k
  <2>1. /\ WalletForward /\ event[k] = None
        /\ \A q \in Keys : q # k => event'[q] = event[q] /\ reservation'[q] = reservation[q]
    BY <1>2, <1>7, ReserveCall DEF Base
  <2>2. offer[j] # "accepted"
    BY <1>2, <2>1 DEF Base, Recorded, k
  <2>3. \A i \in D!Offers, site \in Sites : <<site, i>> \in Keys /\ (<<site, i>> = k => site = "reserve" /\ i = j)
    BY DEF Keys, k
  <2>4. ASSUME NEW i \in D!Offers, i # j, Holds(i)' PROVE Holds(i)
    <3>1. reservation'[<<"reserve", i>>] = reservation[<<"reserve", i>>]
      BY <2>1, <2>3, <2>4 DEF Sites
    <3>2. target'[i] = target[i]
      BY <1>0 DEF dispatchVars
    <3> QED BY <2>4, <3>1, <3>2 DEF Holds, W!Row
  <2>5. \A i \in D!Offers, site \in {"release", "takeback"} :
          Owes(site, i) => event'[<<site, i>>] = None /\ <<site, i>> \notin applied'
    BY <1>0, <2>1, <2>3 DEF Owes, Sites
  <2> QED BY <1>0, <1>3, <1>5, <2>1, <2>2, <2>4, <2>5, RestingHeld
<1> QED BY <1>0, <1>6, <1>7

-----------------------------------------------------------------------------
(* Calls that end a hold. *)

\* A release or finalize call ends the hold of its offer and no other reason.
LEMMA EndHeld ==
  ASSUME Base, NEW site \in Sites, NEW j \in D!Offers, target[j] \in Orders, UNCHANGED dispatchVars,
         \/ W!FinalizeCaptainCOD(<<site, j>>, target[j], j[1])
         \/ W!ReleaseCaptainCOD(<<site, j>>, target[j], j[1])
  PROVE  /\ WalletForward /\ ~Holds(j)'
         /\ \A i \in D!Offers : Holds(i)' => Holds(i)
         /\ \A q \in Keys : q # <<site, j>> => event'[q] = event[q]
<1> DEFINE k == <<site, j>>
           t == target[j]
<1>1. k \in Keys /\ j[1] \in Captains
  BY Named DEF Base, Keys
<1>2. PICK operation, s : WalletForward /\ NoNewHold /\ Ends(k, operation, t, j[1], s)
  BY <1>1, EndCall DEF Base
<1>3. \A i \in D!Offers : <<"reserve", i>> \in Keys
  BY DEF Keys, Sites
<1>4. target' = target
  BY DEF dispatchVars
<1>5. ~Holds(j)'
  BY <1>2, <1>3, <1>4 DEF Ends, Holds, W!Row
<1>6. \A q \in Keys : q # k => event'[q] = event[q]
  BY <1>2 DEF Ends
<1>7. ASSUME NEW i \in D!Offers, Holds(i)' PROVE Holds(i)
  <2>2. i[1] \in Captains
    BY Named DEF Base
  <2>3. CASE target[i] \in Orders
    <3> DEFINE u == target[i]
    <3>1. u \in Orders /\ W!Row(<<"reserve", i>>, u, i[1], "ACTIVE")'
      BY <1>4, <1>7, <2>3 DEF Holds, W!Row
    <3> HIDE DEF u
    <3>2. \A o \in Orders : u = o => W!Row(<<"reserve", i>>, o, i[1], "ACTIVE")'
      BY <1>4, <3>1 DEF W!Row, u
    <3>3. W!Row(<<"reserve", i>>, u, i[1], "ACTIVE")
      BY <1>2, <1>3, <2>2, <3>1, <3>2 DEF NoNewHold
    <3> QED BY <3>3 DEF Holds, u
  <2>4. CASE target[i] \notin Orders
    <3>1. reservation[<<"reserve", i>>] = None
      BY <2>4, HoldMade
    <3> QED BY <1>2, <1>3, <1>7, <3>1 DEF Ends, Holds, W!Row
  <2> QED BY <2>3, <2>4
<1> QED BY <1>2, <1>5, <1>6, <1>7

\* A request that ends with a release leaves no uncollected hold of its offer.
LEMMA UndoHeld ==
  ASSUME Base, HeldFor, NEW r \in Requests, ReleaseAfterFailure(r)
  PROVE  HeldFor'
<1>j. PICK j : j = request[r].offer
  OBVIOUS
<1>0. /\ request[r].phase = "releasing" /\ Finish(r) /\ UNCHANGED <<dispatchVars, applied, faults>>
      /\ \/ W!ReleaseCaptainCOD(<<"undo", j>>, target[j], j[1])
         \/ /\ event[<<"undo", j>>] # None \/ intent[target[j]] = "COLLECTED" \/ ~W!Active(target[j], j[1])
            /\ UNCHANGED walletVars
  BY <1>j DEF ReleaseAfterFailure
<1>1. request[r] # Idle
  BY <1>0, Running DEF Phases
<1>2. j \in D!Offers /\ target[j] \in Orders
  BY <1>j, <1>1, Request
<1>3. \A i \in D!Offers : (\E s \in Requests : request[s].offer = i) =>
        i = j \/ \E s \in Requests : request'[s].offer = i
  BY <1>j, <1>0, <1>1, OthersGoOn
<1>4. UNCHANGED <<target, applied>>
  BY <1>0 DEF dispatchVars
<1>5. CASE W!ReleaseCaptainCOD(<<"undo", j>>, target[j], j[1])
  <2>1. "undo" \in Sites /\ UNCHANGED dispatchVars
    BY <1>0 DEF Sites
  <2>2. /\ WalletForward /\ ~Holds(j)'
        /\ \A i \in D!Offers : Holds(i)' => Holds(i)
        /\ \A q \in Keys : q # <<"undo", j>> => event'[q] = event[q]
    BY <1>2, <1>5, <2>1, EndHeld
  <2>3. \A i \in D!Offers, site \in {"release", "takeback"} :
          Owes(site, i) => event'[<<site, i>>] = None /\ <<site, i>> \notin applied'
    <3>1. \A i \in D!Offers, site \in {"release", "takeback"} : <<site, i>> \in Keys /\ <<site, i>> # <<"undo", j>>
      BY DEF Keys, Sites
    <3> QED BY <1>4, <2>2, <3>1 DEF Owes
  <2> QED BY <1>3, <2>1, <2>2, <2>3, RestingHeld
<1>6. CASE /\ event[<<"undo", j>>] # None \/ intent[target[j]] = "COLLECTED" \/ ~W!Active(target[j], j[1])
           /\ UNCHANGED walletVars
  <2>1. WalletForward /\ UNCHANGED <<reservation, event, intent>>
    BY <1>6, WalletRests DEF Base, walletVars
  <2>2. Holds(j) => intent'[target[j]] = "COLLECTED"
    <3>1. event[<<"undo", j>>] # None => ~Holds(j)
      BY <1>2 DEF Base, Recorded
    <3>2. ~W!Active(target[j], j[1]) => ~Holds(j)
      <4>1. <<"reserve", j>> \in Keys
        BY <1>2 DEF Keys, Sites
      <4> QED BY <4>1 DEF W!Active, Holds
    <3>3. event[<<"undo", j>>] # None \/ intent[target[j]] = "COLLECTED" \/ ~W!Active(target[j], j[1])
      BY <1>6
    <3> QED BY <2>1, <3>1, <3>2, <3>3
  <2>3. \A i \in D!Offers : Holds(i)' => Holds(i)
    BY <1>4, <2>1 DEF Holds, W!Row
  <2>4. \A i \in D!Offers, site \in {"release", "takeback"} :
          Owes(site, i) => event'[<<site, i>>] = None /\ <<site, i>> \notin applied'
    BY <1>4, <2>1 DEF Owes
  <2> QED BY <1>0, <1>3, <2>1, <2>2, <2>3, <2>4, RestingHeld
<1> QED BY <1>0, <1>5, <1>6

\* An applied release, or one that found nothing to release, leaves no hold of its offer.
LEMMA ApplyHeld ==
  ASSUME Base, HeldFor, NEW site \in {"release", "takeback"}, NEW j \in D!Offers, ApplyRelease(site, j)
  PROVE  HeldFor'
<1>0. /\ Pending(site, j) /\ applied' = applied \cup {<<site, j>>}
      /\ UNCHANGED <<dispatchVars, request, faults>>
      /\ \/ W!ReleaseCaptainCOD(<<site, j>>, target[j], j[1])
         \/ /\ W!TransitionReplays(<<site, j>>, "release", target[j], j[1]) \/ NoReservation(target[j], j[1])
            /\ UNCHANGED walletVars
  BY DEF ApplyRelease
<1>1. target[j] \in Orders
  <2>1. offer[j] # "none"
    BY <1>0, SameDispatch DEF Pending, Base, Services, DP!IInv, DP!Named
  <2> QED BY <2>1, Named DEF Base
<1>2. UNCHANGED <<target, request>>
  BY <1>0 DEF dispatchVars
<1>3. <<"reserve", j>> \in Keys /\ site \in Sites
  BY DEF Keys, Sites
<1>4. CASE W!ReleaseCaptainCOD(<<site, j>>, target[j], j[1])
  <2>1. /\ WalletForward /\ ~Holds(j)'
        /\ \A i \in D!Offers : Holds(i)' => Holds(i)
        /\ \A q \in Keys : q # <<site, j>> => event'[q] = event[q]
    BY <1>0, <1>1, <1>3, <1>4, EndHeld
  <2>2. \A i \in D!Offers, x \in {"release", "takeback"} :
          i # j /\ Owes(x, i) => event'[<<x, i>>] = None /\ <<x, i>> \notin applied'
    <3>1. \A i \in D!Offers, x \in {"release", "takeback"} : i # j => <<x, i>> \in Keys /\ <<x, i>> # <<site, j>>
      BY DEF Keys, Sites
    <3> QED BY <1>0, <2>1, <3>1 DEF Owes
  <2> QED BY <1>0, <1>2, <2>1, <2>2, RestingHeld
<1>5. CASE UNCHANGED walletVars /\ Holds(j)
  <2>1. W!Active(target[j], j[1]) /\ ~NoReservation(target[j], j[1])
    BY <1>3, <1>5 DEF W!Active, Holds, W!Row, NoReservation
  <2>2. event[<<site, j>>] # None
    <3>1. CASE W!ReleaseCaptainCOD(<<site, j>>, target[j], j[1])
      <4>1. ~Holds(j)'
        BY <1>0, <1>1, <1>3, <3>1, EndHeld
      <4> QED BY <1>2, <1>5, <4>1 DEF walletVars, Holds, W!Row
    <3>2. CASE W!Recorded(<<site, j>>, "release", target[j], j[1])
      <4>1. j[1] \in Captains
        BY Named DEF Base
      <4>2. event[<<site, j>>] \in W!Request
        BY <1>1, <3>2, <4>1 DEF W!Recorded, W!Request
      <4> QED BY <4>2, NoneAssumption
    <3> QED BY <1>0, <2>1, <3>1, <3>2 DEF W!TransitionReplays
  <2>3. WalletForward /\ UNCHANGED <<reservation, event, intent>>
    BY <1>5, WalletRests DEF Base, walletVars
  <2>4. \A i \in D!Offers : Holds(i)' => Holds(i)
    BY <1>2, <2>3 DEF Holds, W!Row
  <2>5. \A i \in D!Offers, x \in {"release", "takeback"} :
          Owes(x, i) => event'[<<x, i>>] = None /\ <<x, i>> \notin applied'
    BY <1>0, <2>2, <2>3 DEF Owes
  <2> QED BY <1>0, <1>2, <2>3, <2>4, <2>5, RestingHeld
<1>6. CASE UNCHANGED walletVars /\ ~Holds(j)
  <2>1. WalletForward /\ UNCHANGED <<reservation, event, intent>>
    BY <1>6, WalletRests DEF Base, walletVars
  <2>2. \A i \in D!Offers : Holds(i)' => Holds(i) /\ i # j
    BY <1>2, <1>6, <2>1 DEF Holds, W!Row
  <2>3. \A i \in D!Offers, x \in {"release", "takeback"} :
          i # j /\ Owes(x, i) => event'[<<x, i>>] = None /\ <<x, i>> \notin applied'
    BY <1>0, <2>1 DEF Owes
  <2> QED BY <1>0, <1>2, <2>1, <2>2, <2>3, RestingHeld
<1> QED BY <1>0, <1>4, <1>5, <1>6

-----------------------------------------------------------------------------
(* The reconciler's other steps. *)

\* A posted release was applied before, so it was no longer a reason.
LEMMA PostReleaseHeld ==
  ASSUME Base, HeldFor, NEW site \in {"release", "takeback"}, NEW j \in D!Offers, PostRelease(site, j)
  PROVE  HeldFor'
<1>0. /\ <<site, j>> \in applied /\ applied' = applied \ {<<site, j>>}
      /\ IF site = "release" THEN D!PostOfferRelease(j) ELSE D!PostAssignmentRelease(j)
      /\ UNCHANGED <<walletVars, request, faults>>
  BY DEF PostRelease
<1>1. DispatchForward /\ UNCHANGED <<target, offer, assignment>>
  BY <1>0, PostsStep DEF Base
<1>2. UNCHANGED <<event, intent, request>>
  BY <1>0 DEF walletVars
<1>3. DOMAIN offerRelease = D!Offers /\ DOMAIN assignmentRelease = D!Offers
  BY SameDispatch DEF Base, Services, DP!IInv, DP!TypeOK
<1>4. ASSUME NEW i \in D!Offers, NEW x \in {"release", "takeback"}, Owes(x, i) PROVE Owes(x, i)'
  <2>1. <<x, i>> # <<site, j>>
    BY <1>0, <1>4 DEF Owes
  <2>2. Pending(x, i)'
    <3>1. CASE x = "release"
      BY <1>0, <1>3, <1>4, <2>1, <3>1 DEF Owes, Pending, D!PostOfferRelease, D!PostAssignmentRelease
    <3>2. CASE x = "takeback"
      BY <1>0, <1>3, <1>4, <2>1, <3>2 DEF Owes, Pending, D!PostOfferRelease, D!PostAssignmentRelease
    <3> QED BY <3>1, <3>2
  <2> QED BY <1>0, <1>2, <1>4, <2>2 DEF Owes
<1> SUFFICES ASSUME NEW i \in D!Offers, Holds(i)', intent'[target'[i]] # "COLLECTED"
             PROVE  Kept(i)'
  BY DEF HeldFor
<1>5. Kept(i)
  BY <1>0, <1>1, HoldRests DEF HeldFor
<1> QED BY <1>1, <1>2, <1>4, <1>5 DEF Kept

\* Collecting, earning and debiting take no reason away.
LEMMA SettleHeld ==
  ASSUME Base, HeldFor, NEW j \in D!Offers, EnsureCollected(j) \/ FinalizeEarning(j) \/ FinalizeCOD(j)
  PROVE  HeldFor'
<1>0. settlement[j] = "PENDING" /\ UNCHANGED <<dispatchVars, request, applied>>
  BY DEF EnsureCollected, FinalizeEarning, FinalizeCOD, linkVars
<1>1. target[j] \in Orders /\ j[1] \in Captains
  BY <1>0, Named DEF Base
<1>2. UNCHANGED target
  BY <1>0 DEF dispatchVars
<1>3. ASSUME WalletForward, \A i \in D!Offers : Holds(i)' => Holds(i),
             \A i \in D!Offers, x \in {"release", "takeback"} : event'[<<x, i>>] = event[<<x, i>>]
      PROVE  HeldFor'
  <2>1. \A i \in D!Offers, x \in {"release", "takeback"} :
          Owes(x, i) => event'[<<x, i>>] = None /\ <<x, i>> \notin applied'
    BY <1>0, <1>3 DEF Owes
  <2> QED BY <1>0, <1>3, <2>1, RestingHeld
<1>4. CASE EnsureCollected(j)
  <2>1. WalletForward /\ UNCHANGED <<reservation, event>>
    BY <1>1, <1>4, CollectCall DEF Base, EnsureCollected
  <2>2. \A i \in D!Offers : Holds(i)' => Holds(i)
    BY <1>2, <2>1 DEF Holds, W!Row
  <2> QED BY <1>3, <2>1, <2>2
<1>5. CASE FinalizeEarning(j)
  <2>1. WalletForward /\ UNCHANGED <<reservation, event>>
    BY <1>1, <1>5, EarnCall DEF Base, FinalizeEarning
  <2>2. \A i \in D!Offers : Holds(i)' => Holds(i)
    BY <1>2, <2>1 DEF Holds, W!Row
  <2> QED BY <1>3, <2>1, <2>2
<1>6. CASE FinalizeCOD(j)
  <2>1. "finalize" \in Sites /\ W!FinalizeCaptainCOD(<<"finalize", j>>, target[j], j[1])
    BY <1>6 DEF FinalizeCOD, Sites
  <2>2. /\ WalletForward /\ \A i \in D!Offers : Holds(i)' => Holds(i)
        /\ \A q \in Keys : q # <<"finalize", j>> => event'[q] = event[q]
    BY <1>0, <1>1, <2>1, EndHeld
  <2>3. \A i \in D!Offers, x \in {"release", "takeback"} : <<x, i>> \in Keys /\ <<x, i>> # <<"finalize", j>>
    BY DEF Keys, Sites
  <2> QED BY <1>3, <2>2, <2>3
<1> QED BY <1>4, <1>5, <1>6

\* Marking a settlement posted takes no reason away.
LEMMA PostSettlementHeld ==
  ASSUME Base, HeldFor, NEW j \in D!Offers, PostSettlement(j)
  PROVE  HeldFor'
<1>1. /\ UNCHANGED <<walletVars, linkVars>>
      /\ UNCHANGED <<offer, target, assignment, offerRelease, assignmentRelease>>
  BY DEF PostSettlement, D!PostSettlement, D!captainVars
<1>2. UNCHANGED <<reservation, event, intent, request, applied>>
  BY <1>1 DEF walletVars, linkVars
<1>3. \A i \in D!Offers : /\ Holds(i)' => Holds(i)
                          /\ Kept(i) => Kept(i)'
  BY <1>1, <1>2 DEF Holds, W!Row, Kept, Owes, Pending
<1> QED BY <1>1, <1>2, <1>3 DEF HeldFor

\* As long as there was no fault, no hold is forgotten.
HoldInv == Base /\ (faults = 0 => HeldFor)

\* At first nothing is held.
LEMMA HoldInit == ASSUME Init PROVE HoldInv
<1>1. \A i \in D!Offers : ~Holds(i)
  <2>1. \A i \in D!Offers : <<"reserve", i>> \in Keys
    BY DEF Keys, Sites
  <2> QED BY <2>1 DEF Init, Holds, W!Row
<1> QED BY <1>1, BaseInit DEF HoldInv, HeldFor

\* Every step without a fault keeps the reasons.
LEMMA HoldStep == ASSUME HoldInv, [Next]_vars PROVE HoldInv'
<1>1. Base'
  BY BaseStep DEF HoldInv
<1> SUFFICES ASSUME faults' = 0 PROVE HeldFor'
  BY <1>1 DEF HoldInv
<1>2. faults \in Nat /\ Base
  BY BoundsAssumption DEF HoldInv, Base, Links
<1>3. ASSUME faults' = faults PROVE HeldFor
  BY <1>3 DEF HoldInv
<1>4. CASE UNCHANGED vars
  <2>1. UNCHANGED <<dispatchVars, walletVars, request, applied, faults>>
    BY <1>4 DEF vars, linkVars
  <2> QED BY <1>2, <1>3, <2>1, MoveHeld
<1>5. CASE D!Operation /\ UNCHANGED <<walletVars, linkVars>>
  <2>1. faults' = faults
    BY <1>5 DEF linkVars
  <2> QED BY <1>1, <1>2, <1>3, <1>5, <2>1, OperationHeld
<1>6. ASSUME NEW r \in Requests, RequestStep(r) PROVE HeldFor'
  <2>1. ASSUME NEW i \in D!Offers, StartAccept(r, i) PROVE HeldFor'
    BY <1>2, <1>3, <2>1, StartHeld DEF StartAccept
  <2>2. CASE Reserve(r)
    BY <1>2, <1>3, <2>2, ReserveHeld DEF Reserve
  <2>3. CASE ReserveRefused(r) \/ RespondRefused(r) \/ Reread(r)
    <3>1. faults' = faults
      BY <2>3 DEF ReserveRefused, RespondRefused, Reread
    <3> QED BY <1>2, <1>3, <2>3, <3>1, QuietHeld
  <2>4. CASE Respond(r)
    BY <1>1, <1>2, <1>3, <2>4, RespondHeld DEF Respond
  <2>5. CASE ReleaseAfterFailure(r)
    BY <1>2, <1>3, <2>5, UndoHeld DEF ReleaseAfterFailure
  <2>6. ~Fault(r)
    BY <1>2 DEF Fault
  <2> QED BY <1>6, <2>1, <2>2, <2>3, <2>4, <2>5, <2>6 DEF RequestStep
<1>7. ASSUME NEW site \in {"release", "takeback"}, NEW i \in D!Offers,
             ApplyRelease(site, i) \/ PostRelease(site, i)
      PROVE  HeldFor'
  <2>1. faults' = faults
    BY <1>7 DEF ApplyRelease, PostRelease
  <2> QED BY <1>2, <1>3, <1>7, <2>1, ApplyHeld, PostReleaseHeld
<1>8. ~ReconcilerRestart
  BY <1>2 DEF ReconcilerRestart
<1>9. ASSUME NEW i \in D!Offers, Settle(i) PROVE HeldFor'
  <2>1. faults' = faults
    BY <1>9 DEF Settle, EnsureCollected, FinalizeEarning, FinalizeCOD, PostSettlement, linkVars
  <2> QED BY <1>2, <1>3, <1>9, <2>1, SettleHeld, PostSettlementHeld DEF Settle
<1> QED BY <1>4, <1>5, <1>6, <1>7, <1>8, <1>9 DEF Next

\* What is held is reconciled: an order's hold on a captain is never left with
\* nobody to use or end it, unless a request was cut off between its calls.
THEOREM HoldsAccounted == Spec => []HoldAccountedUnlessFault
<1>1. ASSUME Base, HeldFor, NEW i \in D!Offers, W!Row(<<"reserve", i>>, target[i], i[1], "ACTIVE")
      PROVE  \E j \in D!Offers :
               /\ target[j] = target[i] /\ j[1] = i[1]
               /\ \/ offer[j] = "offered"
                  \/ assignment[j] \in D!Working \cup {"delivered"}
                  \/ offerRelease[j] = "PENDING" \/ assignmentRelease[j] = "PENDING"
                  \/ \E r \in Requests : request[r].offer = j
  <2>1. target[i] \in Orders /\ <<"reserve", i>> \in Keys
    BY <1>1, HoldMade DEF W!Row, Keys, Sites
  <2>2. CASE intent[target[i]] # "COLLECTED"
    <3>1. Kept(i)
      BY <1>1, <2>2 DEF HeldFor, Holds
    <3> QED BY <3>1 DEF Kept, Owes, Pending
  <2>3. CASE intent[target[i]] = "COLLECTED"
    <3>1. PICK k \in Keys : \/ W!Row(k, target[i], collectedBy[target[i]], "ACTIVE")
                            \/ W!Row(k, target[i], collectedBy[target[i]], "DEBITED")
      <4>1. Cash[target[i]] > 0
        BY <2>1, OrdersAssumption
      <4> QED BY <1>1, <2>1, <2>3, <4>1, SameTables DEF Base, Services, WP!IInv, WP!CollectedCashCovered
    <3>2. k = <<"reserve", i>>
      <4>1. WP!ChargedOnce
        BY <1>1 DEF Base, Services, WP!IInv
      <4> QED BY <1>1, <2>1, <3>1, <4>1 DEF WP!ChargedOnce, W!Row
    <3>3. collectedBy[target[i]] = i[1] /\ i[1] \in Captains
      BY <1>1, <3>1, <3>2, Named DEF Base, W!Row
    <3> QED BY <1>1, <2>1, <3>3 DEF Base, OnlyDelivererIsCharged
  <2> QED BY <2>2, <2>3
<1>2. HoldInv => HoldAccountedUnlessFault
  BY <1>1 DEF HoldInv, HoldAccountedUnlessFault, HoldAccounted
<1> QED BY <1>2, HoldInit, HoldStep, PTL DEF Spec

-----------------------------------------------------------------------------
(* The money of the wallet, whatever runs between the services. *)

\* The sums of the wallet under both names.
LEMMA SameSums ==
  /\ \A c : W!Available(c) = WP!Available(c)
  /\ W!NeverOverdrawn = WP!NeverOverdrawn
  /\ W!ReceivableIsUndebitedCash = WP!ReceivableIsUndebitedCash
<1>1. \A c : W!Available(c) = WP!Available(c)
  BY DEF W!Available, WP!Available, W!Held, WP!Held, W!HeldCash, WP!HeldCash, W!PayoutSum, WP!PayoutSum,
         W!ActiveKeys, WP!ActiveKeys, W!HeldPayouts, WP!HeldPayouts, W!Row, WP!Row,
         W!SumFunction, WP!SumFunction, W!SumFunctionOnSet, WP!SumFunctionOnSet,
         W!FoldFunctionOnSet, WP!FoldFunctionOnSet, W!MapThenFoldSet, WP!MapThenFoldSet
<1>2. W!ReceivableIsUndebitedCash = WP!ReceivableIsUndebitedCash
  BY DEF W!ReceivableIsUndebitedCash, WP!ReceivableIsUndebitedCash, W!Row, WP!Row,
         W!SumFunctionOnSet, WP!SumFunctionOnSet, W!FoldFunctionOnSet, WP!FoldFunctionOnSet,
         W!MapThenFoldSet, WP!MapThenFoldSet
<1> QED BY <1>1, <1>2 DEF W!NeverOverdrawn, WP!NeverOverdrawn

\* A reservation, with the look at the available balance.
LEMMA SameReserve ==
  ASSUME NEW k, NEW o, NEW c, W!ReserveCaptainCOD(k, o, c) PROVE WP!ReserveCaptainCOD(k, o, c)
BY SameSums DEF W!ReserveCaptainCOD, W!CanReserve, W!Active, W!Row,
                WP!ReserveCaptainCOD, WP!CanReserve, WP!Active, WP!Row

\* A call for an order and a captain is a step of the wallet.
LEMMA CallServed ==
  ASSUME NEW k \in Keys, NEW o \in Orders, NEW c \in Captains,
         \/ W!ReserveCaptainCOD(k, o, c) \/ W!ReleaseCaptainCOD(k, o, c) \/ W!FinalizeCaptainCOD(k, o, c)
         \/ W!CollectPaymentIntent(o, c) \/ W!FinalizePartnerOrderEarning(o, c)
  PROVE  WP!Next
BY SameReserve, SameWallet DEF WP!Next

\* Whatever the composition does, the wallet takes a step of its own or rests.
LEMMA WalletServed ==
  ASSUME Base, [Next]_vars PROVE WP!Next \/ UNCHANGED walletVars
<1>1. CASE UNCHANGED vars
  BY <1>1 DEF vars
<1>2. ASSUME NEW r \in Requests, RequestStep(r) PROVE WP!Next \/ UNCHANGED walletVars
  <2> DEFINE i == request[r].offer
  <2>1. ASSUME request[r].phase \in Phases, NEW site \in Sites
        PROVE  <<site, i>> \in Keys /\ target[i] \in Orders /\ i[1] \in Captains
    BY <2>1, Running, Request DEF Keys
  <2>2. CASE Reserve(r)
    <3>1. "reserve" \in Sites /\ request[r].phase \in Phases
      BY <2>2 DEF Reserve, Sites, Phases
    <3> QED BY <2>1, <2>2, <3>1, CallServed DEF Reserve
  <2>3. CASE ReleaseAfterFailure(r)
    <3>1. "undo" \in Sites /\ request[r].phase \in Phases
      BY <2>3 DEF ReleaseAfterFailure, Sites, Phases
    <3> QED BY <2>1, <2>3, <3>1, CallServed DEF ReleaseAfterFailure
  <2> QED BY <1>2, <2>2, <2>3 DEF RequestStep, StartAccept, ReserveRefused, Respond, RespondRefused, Reread, Fault
<1>3. ASSUME NEW site \in {"release", "takeback"}, NEW i \in D!Offers, ApplyRelease(site, i) \/ PostRelease(site, i)
      PROVE  WP!Next \/ UNCHANGED walletVars
  <2>1. CASE ApplyRelease(site, i)
    <3>1. offer[i] # "none"
      BY <2>1, SameDispatch DEF ApplyRelease, Pending, Base, Services, DP!IInv, DP!Named
    <3>2. <<site, i>> \in Keys /\ target[i] \in Orders /\ i[1] \in Captains
      BY <3>1, Named DEF Base, Keys, Sites
    <3> QED BY <2>1, <3>2, CallServed DEF ApplyRelease
  <2> QED BY <1>3, <2>1 DEF PostRelease
<1>4. ASSUME NEW i \in D!Offers, Settle(i) PROVE WP!Next \/ UNCHANGED walletVars
  <2>1. settlement[i] = "PENDING"
    BY <1>4 DEF Settle, EnsureCollected, FinalizeEarning, FinalizeCOD, PostSettlement
  <2>2. <<"finalize", i>> \in Keys /\ target[i] \in Orders /\ i[1] \in Captains
    BY <2>1, Named DEF Base, Keys, Sites
  <2> QED BY <1>4, <2>2, CallServed DEF Settle, EnsureCollected, FinalizeEarning, FinalizeCOD, PostSettlement
<1> QED BY <1>1, <1>2, <1>3, <1>4 DEF Next, ReconcilerRestart

\* The opening balances are the only money at first.
LEMMA MoneyAtFirst == ASSUME Init PROVE WP!MoneyInv
<1>1. /\ {k \in Keys : reservation[k] # None} = {}
      /\ {o \in Orders : earning[o] # None} = {}
      /\ receivable = 0
      /\ \A c \in Captains : balance[c] \in Nat
  BY OrdersAssumption DEF Init
<1>2. WP!FiniteTables /\ WP!DebitedIsEarned
  <2>1. WP!IsFiniteSet({}) /\ {p \in {} : payout[p] # None} = {}
    <3>1. WP!IsFiniteSet({})
      BY WP!FS_EmptySet, Assumptions
    <3>2. {p \in {} : payout[p] # None} = {}
      OBVIOUS
    <3> QED BY <3>1, <3>2
  <2>2. WP!DebitedIsEarned
    BY <1>1 DEF WP!DebitedIsEarned
  <2> QED BY <1>1, <2>1, <2>2 DEF WP!FiniteTables
<1>3. WP!Owed = {}
  BY <1>1 DEF WP!Owed
<1>4. WP!ReceivableIsUndebitedCash
  BY <1>1, <1>3, WP!SumEmpty, WP!BooksAre, Assumptions
<1>5. ASSUME NEW c \in Captains
      PROVE  WP!HeldCash(c) = 0 /\ WP!PayoutSum(WP!HeldPayouts(c)) = 0
             /\ WP!PayoutSum(WP!PaidPayouts(c)) = 0 /\ WP!Earned(c) = 0
  <2>1. /\ WP!ActiveKeys(c) = {} /\ WP!HeldPayouts(c) = {} /\ WP!PaidPayouts(c) = {}
        /\ {o \in Orders : earning[o] = c} = {}
    BY <1>1, Assumptions DEF WP!ActiveKeys, WP!HeldPayouts, WP!PaidPayouts, WP!Row
  <2>2. WP!CoverSum(reservation, {}) = 0 /\ WP!AmountSum(payout, {}) = 0 /\ WP!SumFunctionOnSet(Fee, {}) = 0
    BY WP!FS_EmptySet, WP!CoverSumIs, WP!PayoutSumIs, WP!SumEmpty, Assumptions
  <2> QED BY <2>1, <2>2 DEF WP!HeldCash, WP!CoverSum, WP!PayoutSum, WP!AmountSum, WP!Earned
<1>6. WP!NeverOverdrawn /\ WP!OnlyEarningsPaidOut
  BY <1>1, <1>5 DEF WP!NeverOverdrawn, WP!OnlyEarningsPaidOut, WP!Available, WP!Held
<1> QED BY <1>2, <1>4, <1>6 DEF WP!MoneyInv

\* The money invariants of the wallet go with the invariant of the composition.
LEMMA MoneyStep == ASSUME Base, WP!MoneyInv, [Next]_vars PROVE WP!MoneyInv'
<1>1. [WP!Next]_(WP!vars) /\ WP!IInv
  BY WalletServed DEF Base, Services, walletVars, WP!vars
<1> QED BY <1>1, WP!StepMoney, Assumptions

\* Whatever offers, refusals, retries, late releases and faults interleave, no
\* captain holds cover beyond the wallet, and the cash receivable is the cash of
\* the orders earned and not yet debited.
THEOREM MoneyKept == Spec => [](W!NeverOverdrawn /\ W!ReceivableIsUndebitedCash)
<1>1. Init => Base /\ WP!MoneyInv
  BY BaseInit, MoneyAtFirst
<1>2. Base /\ WP!MoneyInv /\ [Next]_vars => (Base /\ WP!MoneyInv)'
  BY BaseStep, MoneyStep
<1>3. WP!MoneyInv => W!NeverOverdrawn /\ W!ReceivableIsUndebitedCash
  BY SameSums DEF WP!MoneyInv
<1> QED BY <1>1, <1>2, <1>3, PTL DEF Spec

-----------------------------------------------------------------------------
(* The chain of custody, whatever runs between the services. *)

\* Whatever the composition does, custody moves as dispatch moves it or rests.
LEMMA CustodyServed == ASSUME Base, [Next]_vars PROVE DP!CustodyStep
<1>1. ASSUME UNCHANGED <<target, assignment>> PROVE DP!CustodyStep
  BY <1>1 DEF DP!CustodyStep, DP!Bound
<1>2. ASSUME UNCHANGED dispatchVars PROVE DP!CustodyStep
  BY <1>1, <1>2 DEF dispatchVars
<1>3. ASSUME DP!Next PROVE DP!CustodyStep
  BY <1>3, DP!EveryStep, Assumptions DEF Base, Services
<1>4. CASE D!Operation
  BY <1>3, <1>4, SameOperation DEF DP!Next
<1>5. ASSUME NEW r \in Requests, RequestStep(r) PROVE DP!CustodyStep
  <2>1. CASE Respond(r)
    <3>1. request[r].offer \in DP!Offers
      BY <2>1, Running, Request, SameDispatch DEF Respond, Phases
    <3> QED BY <1>3, <2>1, <3>1, SameAccept DEF Respond, DP!Next
  <2> QED BY <1>2, <1>5, <2>1 DEF RequestStep, StartAccept, Reserve, ReserveRefused, RespondRefused,
                                  Reread, ReleaseAfterFailure, Fault
<1>6. ASSUME NEW site \in {"release", "takeback"}, NEW i \in D!Offers, ApplyRelease(site, i) \/ PostRelease(site, i)
      PROVE  DP!CustodyStep
  <2>1. CASE PostRelease(site, i)
    BY <1>1, <2>1 DEF PostRelease, D!PostOfferRelease, D!PostAssignmentRelease
  <2> QED BY <1>2, <1>6, <2>1 DEF ApplyRelease
<1>7. ASSUME NEW i \in D!Offers, Settle(i) PROVE DP!CustodyStep
  <2>1. CASE PostSettlement(i)
    BY <1>1, <2>1 DEF PostSettlement, D!PostSettlement
  <2> QED BY <1>2, <1>7, <2>1 DEF Settle, EnsureCollected, FinalizeEarning, FinalizeCOD
<1> QED BY <1>2, <1>4, <1>5, <1>6, <1>7 DEF Next, ReconcilerRestart, vars

\* The chain of custody under both names.
LEMMA SameCustody ==
  /\ DP!Custody!Init => D!Custody!Init
  /\ [DP!Custody!Next]_(DP!Custody!vars) => [D!Custody!Next]_(D!Custody!vars)
<1> USE DEF D!Live, DP!Live, D!StageOf, DP!StageOf, D!Offers, DP!Offers,
            D!Working, DP!Working, D!Active, DP!Active
<1>1. DP!Custody!Init => D!Custody!Init
  BY SMTT(60) DEF D!Custody!Init, DP!Custody!Init
<1>2. D!Custody!vars = DP!Custody!vars
  BY SMTT(60) DEF D!Custody!vars, DP!Custody!vars
<1>3. D!Custody!vars' = DP!Custody!vars'
  BY SMTT(60) DEF D!Custody!vars, DP!Custody!vars
<1>4. ASSUME NEW o, NEW c PROVE DP!Custody!Assign(o, c) => D!Custody!Assign(o, c)
  BY SMTT(60) DEF D!Custody!Assign, DP!Custody!Assign, D!Custody!Free, DP!Custody!Free
<1>5. ASSUME NEW o PROVE DP!Custody!TakeBack(o) => D!Custody!TakeBack(o)
  BY SMTT(60) DEF D!Custody!TakeBack, DP!Custody!TakeBack
<1>6. ASSUME NEW o, NEW from, NEW to PROVE DP!Custody!Move(o, from, to) => D!Custody!Move(o, from, to)
  BY SMTT(60) DEF D!Custody!Move, DP!Custody!Move
<1>7. DP!Custody!Next => D!Custody!Next
  BY <1>4, <1>5, <1>6 DEF D!Custody!Next, DP!Custody!Next
<1> QED BY <1>1, <1>2, <1>3, <1>7

\* Over requests that are cut off, late releases and retried settlements too,
\* dispatch implements OrderCustody: orders have one captain, captains one order.
THEOREM CustodyKept == Spec => D!CustodyChain
<1>1. Init => DP!Custody!Init
  <2> SUFFICES ASSUME Init PROVE DP!Custody!Init
    OBVIOUS
  <2>1. DP!Init
    BY SameDispatch DEF Init
  <2>2. \A o \in Orders : DP!Live(o) = {}
    BY <2>1 DEF DP!Init, DP!Live, DP!Working, DP!Active
  <2> QED BY <2>2 DEF DP!Custody!Init
<1>2. Base /\ [Next]_vars => [DP!Custody!Next]_(DP!Custody!vars)
  <2>1. (UNCHANGED DP!Custodian) => UNCHANGED DP!Custody!vars
    BY DEF DP!Custodian, DP!Holder, DP!Stage, DP!Serving, DP!Custody!vars
  <2>2. Base /\ [Next]_vars => [DP!Custody!Next]_(DP!Custodian)
    BY CustodyServed, DP!CustodyStepRefines, Assumptions DEF Base, Services
  <2> QED BY <2>1, <2>2
<1>3. Spec => D!Custody!Spec
  BY <1>1, <1>2, SameCustody, Reached, PTL DEF Spec, D!Custody!Spec
<1> QED BY <1>3 DEF D!CustodyChain

\* The promises each service makes alone it keeps here: offers, assignments and
\* release rows agree over requests cut off between two calls, and whatever
\* the reconciler sends again, collected cash has one cover, the collector's.
THEOREM ServicesKept ==
  Spec => [](/\ D!OrderAgreesWithAssignment /\ D!OfferClaimsCaptain /\ D!NoOfferOnTakenOrder
             /\ D!ReleasesOwed /\ D!SettledByDeliverer
             /\ W!CollectedCashCovered /\ W!ChargedOnce /\ W!EarnerIsCollector)
<1>1. DP!IInv => /\ D!OrderAgreesWithAssignment /\ D!OfferClaimsCaptain /\ D!NoOfferOnTakenOrder
                 /\ D!ReleasesOwed /\ D!SettledByDeliverer
  <2> SUFFICES ASSUME DP!IInv
               PROVE  /\ D!OrderAgreesWithAssignment /\ D!OfferClaimsCaptain /\ D!NoOfferOnTakenOrder
                      /\ D!ReleasesOwed /\ D!SettledByDeliverer
    OBVIOUS
  <2> USE DEF DP!IInv, D!Offers, DP!Offers, D!Working, DP!Working, D!Active, DP!Active
  <2>1. D!OrderAgreesWithAssignment
    BY DEF D!OrderAgreesWithAssignment, DP!OrderAgreesWithAssignment, D!Live, DP!Live
  <2>2. D!OfferClaimsCaptain
    BY DEF D!OfferClaimsCaptain, DP!OfferClaimsCaptain, D!Platform, DP!Platform
  <2>3. D!NoOfferOnTakenOrder
    BY DEF D!NoOfferOnTakenOrder, DP!NoOfferOnTakenOrder
  <2>4. D!ReleasesOwed
    BY DEF D!ReleasesOwed, DP!ReleasesOwed, D!Platform, DP!Platform
  <2>5. D!SettledByDeliverer
    BY DEF D!SettledByDeliverer, DP!SettledByDeliverer, D!Cardinality, DP!Cardinality
  <2> QED BY <2>1, <2>2, <2>3, <2>4, <2>5
<1>2. WP!IInv => W!CollectedCashCovered /\ W!ChargedOnce /\ W!EarnerIsCollector
  BY DEF WP!IInv, W!CollectedCashCovered, WP!CollectedCashCovered, W!ChargedOnce, WP!ChargedOnce,
         W!EarnerIsCollector, WP!EarnerIsCollector, W!Row, WP!Row
<1>3. Base => DP!IInv /\ WP!IInv
  BY DEF Base, Services
<1> QED BY <1>1, <1>2, <1>3, Reached, PTL

-----------------------------------------------------------------------------
(* A settlement goes on: what liveness rests on, short of ENABLED. *)

\* One of the four calls of the reconciler for assignment i will be accepted.
CanSettle(i) ==
  LET o == target[i]
      c == i[1]
  IN  \/ W!CanCollect(o, c)
      \/ Collected(i) /\ W!CanFinalizeEarning(o, c)
      \/ /\ Collected(i) /\ earning[o] # None /\ W!CanFinalizeCOD(o, c)
         /\ event[<<"finalize", i>>] = None /\ W!Active(o, c)
      \/ Settled(i)

Covered(i) == \E s \in {"ACTIVE", "DEBITED"}, k \in Keys : W!Row(k, target[i], i[1], s)

\* The calls of the settlement of i that have taken effect.
Done(i) ==
  {call \in {"collected", "earned", "debited", "posted"} :
     \/ call = "collected" /\ intent[target[i]] = "COLLECTED"
     \/ call = "earned" /\ earning[target[i]] # None
     \/ call = "debited" /\ \E k \in Keys : W!Row(k, target[i], i[1], "DEBITED")
     \/ call = "posted" /\ settlement[i] = "POSTED"}

\* The finalize key of an assignment is used for its own order and captain.
FinalizeKeys ==
  \A i \in D!Offers : event[<<"finalize", i>>] # None =>
    /\ offer[i] # "none"
    /\ event[<<"finalize", i>>] = [op |-> "finalize", order |-> target[i], captain |-> i[1]]

\* No intent is cancelled here.
IntentsOpen == \A o \in Orders : intent[o] \in {"REQUIRES_COLLECTION", "COLLECTED"}

\* What a step may do to these.
StepEffect ==
  /\ DispatchForward /\ WalletForward
  /\ \A o \in Orders : intent'[o] = intent[o] \/ intent'[o] = "COLLECTED"
  /\ \A i \in D!Offers :
       \/ event'[<<"finalize", i>>] = event[<<"finalize", i>>]
       \/ /\ offer[i] # "none"
          /\ event'[<<"finalize", i>>] = [op |-> "finalize", order |-> target[i], captain |-> i[1]]

\* A step of dispatch or of the links.
LEMMA WalletIdle ==
  ASSUME Base, UNCHANGED walletVars, DispatchForward PROVE StepEffect
BY WalletRests DEF Base, StepEffect, walletVars

\* A call under a key of another site.
LEMMA OtherKey ==
  ASSUME Base, NEW site \in Sites \ {"finalize"}, NEW j \in D!Offers,
         \A q \in Keys : q # <<site, j>> => event'[q] = event[q],
         UNCHANGED <<dispatchVars, intent>>, WalletForward
  PROVE  StepEffect
<1>1. DispatchForward
  BY DispatchRests DEF Base
<1>2. \A i \in D!Offers : <<"finalize", i>> \in Keys /\ <<"finalize", i>> # <<site, j>>
  BY DEF Keys, Sites
<1> QED BY <1>1, <1>2 DEF StepEffect

LEMMA Effect == ASSUME Base, [Next]_vars PROVE StepEffect
<1>1. ASSUME UNCHANGED <<dispatchVars, walletVars>> PROVE StepEffect
  BY <1>1, DispatchRests, WalletIdle DEF Base
<1>2. CASE D!Operation /\ UNCHANGED <<walletVars, linkVars>>
  BY <1>2, OperationStep, WalletIdle DEF Base
<1>3. ASSUME NEW r \in Requests, RequestStep(r) PROVE StepEffect
  <2> DEFINE i == request[r].offer
  <2>1. ASSUME request[r].phase \in Phases
        PROVE  i \in D!Offers /\ target[i] \in Orders /\ i[1] \in Captains
               /\ <<"reserve", i>> \in Keys /\ <<"undo", i>> \in Keys
    BY <2>1, Running, Request DEF Keys, Sites
  <2>2. CASE Reserve(r)
    <3>1. request[r].phase \in Phases /\ UNCHANGED dispatchVars
      BY <2>2 DEF Reserve, Phases
    <3>2. CASE UNCHANGED walletVars
      BY <1>1, <3>1, <3>2
    <3>3. CASE W!ReserveCaptainCOD(<<"reserve", i>>, target[i], i[1])
      <4>1. /\ WalletForward /\ UNCHANGED intent
            /\ \A q \in Keys : q # <<"reserve", i>> => event'[q] = event[q]
        BY <2>1, <3>1, <3>3, ReserveCall DEF Base
      <4>2. "reserve" \in Sites \ {"finalize"}
        BY DEF Sites
      <4> QED BY <2>1, <3>1, <4>1, <4>2, OtherKey
    <3> QED BY <2>2, <3>2, <3>3 DEF Reserve
  <2>3. CASE ReleaseAfterFailure(r)
    <3>1. request[r].phase \in Phases /\ UNCHANGED dispatchVars
      BY <2>3 DEF ReleaseAfterFailure, Phases
    <3>2. CASE UNCHANGED walletVars
      BY <1>1, <3>1, <3>2
    <3>3. CASE W!ReleaseCaptainCOD(<<"undo", i>>, target[i], i[1])
      <4>1. WalletForward /\ Ends(<<"undo", i>>, "release", target[i], i[1], "RELEASED") /\ UNCHANGED intent
        BY <2>1, <3>1, <3>3, EndCall DEF Base
      <4>2. "undo" \in Sites \ {"finalize"} /\ \A q \in Keys : q # <<"undo", i>> => event'[q] = event[q]
        BY <4>1 DEF Sites, Ends
      <4> QED BY <2>1, <3>1, <4>1, <4>2, OtherKey
    <3> QED BY <2>3, <3>2, <3>3 DEF ReleaseAfterFailure
  <2>4. CASE Respond(r)
    <3>1. request[r].phase \in Phases /\ D!AcceptCaptainOffer(i) /\ UNCHANGED walletVars
      BY <2>4 DEF Respond, Phases
    <3> QED BY <2>1, <3>1, AcceptStep, WalletIdle DEF Base
  <2>5. CASE ~(Reserve(r) \/ ReleaseAfterFailure(r) \/ Respond(r))
    <3>1. UNCHANGED <<dispatchVars, walletVars>>
      BY <1>3, <2>5 DEF RequestStep, StartAccept, ReserveRefused, RespondRefused, Reread, Fault
    <3> QED BY <1>1, <3>1
  <2> QED BY <2>2, <2>3, <2>4, <2>5
<1>4. ASSUME NEW site \in {"release", "takeback"}, NEW i \in D!Offers, ApplyRelease(site, i) PROVE StepEffect
  <2>1. Pending(site, i) /\ UNCHANGED dispatchVars
    BY <1>4 DEF ApplyRelease
  <2>2. offer[i] # "none"
    BY <2>1, SameDispatch DEF Pending, Base, Services, DP!IInv, DP!Named
  <2>3. <<site, i>> \in Keys /\ site \in Sites \ {"finalize"} /\ target[i] \in Orders /\ i[1] \in Captains
    BY <2>2, Named DEF Base, Keys, Sites
  <2>4. CASE UNCHANGED walletVars
    BY <1>1, <2>1, <2>4
  <2>5. CASE W!ReleaseCaptainCOD(<<site, i>>, target[i], i[1])
    <3>1. WalletForward /\ Ends(<<site, i>>, "release", target[i], i[1], "RELEASED") /\ UNCHANGED intent
      BY <2>3, <2>5, EndCall DEF Base
    <3>2. \A q \in Keys : q # <<site, i>> => event'[q] = event[q]
      BY <3>1 DEF Ends
    <3> QED BY <2>1, <2>3, <3>1, <3>2, OtherKey
  <2> QED BY <1>4, <2>4, <2>5 DEF ApplyRelease
<1>5. ASSUME NEW site \in {"release", "takeback"}, NEW i \in D!Offers, PostRelease(site, i) PROVE StepEffect
  <2>1. (D!PostOfferRelease(i) \/ D!PostAssignmentRelease(i)) /\ UNCHANGED walletVars
    BY <1>5 DEF PostRelease
  <2> QED BY <2>1, PostsStep, WalletIdle DEF Base
<1>6. ASSUME NEW i \in D!Offers, Settle(i) PROVE StepEffect
  <2>1. settlement[i] = "PENDING"
    BY <1>6 DEF Settle, EnsureCollected, FinalizeEarning, FinalizeCOD, PostSettlement
  <2>2. /\ <<"finalize", i>> \in Keys /\ target[i] \in Orders /\ i[1] \in Captains
        /\ offer[i] # "none"
    BY <2>1, Named DEF Base, Keys, Sites
  <2>3. ASSUME UNCHANGED dispatchVars PROVE DispatchForward
    BY <2>3, DispatchRests DEF Base
  <2>4. CASE EnsureCollected(i)
    <3>1. W!CollectPaymentIntent(target[i], i[1]) /\ UNCHANGED dispatchVars
      BY <2>4 DEF EnsureCollected
    <3>2. /\ WalletForward /\ UNCHANGED event
          /\ \A x \in Orders : x # target[i] => intent'[x] = intent[x]
      BY <2>2, <3>1, CollectCall DEF Base
    <3>3. intent'[target[i]] = "COLLECTED"
      <4>1. DOMAIN intent = Orders
        BY DEF Base, Services, WP!IInv, WP!TypeOK
      <4> QED BY <2>2, <3>1, <4>1 DEF W!CollectPaymentIntent
    <3> QED BY <2>3, <3>1, <3>2, <3>3 DEF StepEffect
  <2>5. CASE FinalizeEarning(i)
    <3>1. W!FinalizePartnerOrderEarning(target[i], i[1]) /\ UNCHANGED dispatchVars
      BY <2>5 DEF FinalizeEarning
    <3>2. WalletForward /\ UNCHANGED <<event, intent>>
      BY <2>2, <3>1, EarnCall DEF Base
    <3> QED BY <2>3, <3>1, <3>2 DEF StepEffect
  <2>6. CASE FinalizeCOD(i)
    <3>1. W!FinalizeCaptainCOD(<<"finalize", i>>, target[i], i[1]) /\ UNCHANGED dispatchVars
      BY <2>6 DEF FinalizeCOD
    <3>2. WalletForward /\ Ends(<<"finalize", i>>, "finalize", target[i], i[1], "DEBITED") /\ UNCHANGED intent
      BY <2>2, <3>1, EndCall DEF Base
    <3>3. /\ event'[<<"finalize", i>>] = [op |-> "finalize", order |-> target[i], captain |-> i[1]]
          /\ \A q \in Keys : q # <<"finalize", i>> => event'[q] = event[q]
      BY <3>2 DEF Ends
    <3>4. \A j \in D!Offers : <<"finalize", j>> \in Keys /\ (<<"finalize", j>> = <<"finalize", i>> => j = i)
      BY DEF Keys, Sites
    <3>5. \A j \in D!Offers :
            j # i => event'[<<"finalize", j>>] = event[<<"finalize", j>>]
      BY <3>3, <3>4
    <3> QED BY <2>2, <2>3, <3>1, <3>2, <3>3, <3>5 DEF StepEffect
  <2>7. CASE PostSettlement(i)
    <3>1. D!PostSettlement(i) /\ UNCHANGED walletVars
      BY <2>7 DEF PostSettlement
    <3> QED BY <3>1, PostsStep, WalletIdle DEF Base
  <2> QED BY <1>6, <2>4, <2>5, <2>6, <2>7 DEF Settle
<1>7. CASE ReconcilerRestart \/ UNCHANGED vars
  BY <1>1, <1>7 DEF ReconcilerRestart, vars
<1> QED BY <1>2, <1>3, <1>4, <1>5, <1>6, <1>7 DEF Next

SettleInv == Base /\ WP!MoneyInv /\ FinalizeKeys /\ IntentsOpen

LEMMA SettleInit == ASSUME Init PROVE SettleInv
<1>1. \A i \in D!Offers : <<"finalize", i>> \in Keys
  BY DEF Keys, Sites
<1> QED BY <1>1, BaseInit, MoneyAtFirst DEF Init, SettleInv, FinalizeKeys, IntentsOpen

LEMMA SettleStep == ASSUME SettleInv, [Next]_vars PROVE SettleInv' /\ StepEffect
<1>1. Base' /\ WP!MoneyInv' /\ StepEffect
  BY BaseStep, MoneyStep, Effect DEF SettleInv
<1>2. IntentsOpen'
  BY <1>1 DEF SettleInv, IntentsOpen, StepEffect
<1>3. FinalizeKeys'
  BY <1>1 DEF SettleInv, FinalizeKeys, StepEffect, DispatchForward
<1> QED BY <1>1, <1>2, <1>3 DEF SettleInv

\* A delivery whose cover survives can always be settled further: whatever was
\* retried, crashed or released late, WLT accepts the next call of the reconciler.
THEOREM SettlementProceeds ==
  Spec => [](\A i \in D!Offers : settlement[i] = "PENDING" /\ Covered(i) => CanSettle(i))
<1>1. ASSUME SettleInv, NEW i \in D!Offers, settlement[i] = "PENDING", Covered(i) PROVE CanSettle(i)
  <2> DEFINE o == target[i]
             c == i[1]
  <2>1. o \in Orders /\ c \in Captains /\ Cash[o] > 0 /\ Cash[o] # 0 /\ <<"finalize", i>> \in Keys
    BY <1>1, Named, OrdersAssumption DEF SettleInv, Base, Keys, Sites
  <2>2. WP!IInv /\ WP!DebitedIsEarned /\ Base
    BY <1>1 DEF SettleInv, Base, Services, WP!MoneyInv
  <2>3. PICK k \in Keys : W!Row(k, o, c, "ACTIVE") \/ W!Row(k, o, c, "DEBITED")
    BY <1>1 DEF Covered
  <2>4. /\ reservation[k] # None /\ reservation[k].order = o /\ reservation[k].captain = c
        /\ reservation[k].state # "RELEASED"
        /\ reservation[k].state = "DEBITED" <=> W!Row(k, o, c, "DEBITED")
        /\ reservation[k].state = "ACTIVE" <=> W!Row(k, o, c, "ACTIVE")
    BY <2>3 DEF W!Row
  <2>5. \A q \in Keys, d \in Captains : W!Row(q, o, d, "ACTIVE") \/ W!Row(q, o, d, "DEBITED") => q = k /\ d = c
    BY <2>2, <2>3, <2>4 DEF W!Row, WP!IInv, WP!ChargedOnce
  <2> HIDE DEF o, c
  <2>6. CASE intent[o] # "COLLECTED"
    <3>1. intent[o] = "REQUIRES_COLLECTION"
      BY <1>1, <2>1, <2>6 DEF SettleInv, IntentsOpen
    <3>2. W!Row(k, o, c, "ACTIVE")
      BY <2>2, <2>3, <2>4, <2>6 DEF WP!IInv, WP!DebitedIsCollected
    <3>3. W!CanCollect(o, c)
      BY <2>1, <3>1, <3>2 DEF W!CanCollect, W!Active
    <3> QED BY <3>3 DEF CanSettle, o, c
  <2>7. CASE intent[o] = "COLLECTED"
    <3>1. collectedBy[o] = c
      <4>1. collectedBy[o] \in Captains
            /\ \E q \in Keys : W!Row(q, o, collectedBy[o], "ACTIVE") \/ W!Row(q, o, collectedBy[o], "DEBITED")
        BY <2>1, <2>2, <2>7, SameTables DEF WP!IInv, WP!CollectedCashCovered
      <4> QED BY <2>5, <4>1
    <3>2. Collected(i)
      BY <2>7, <3>1 DEF Collected, o, c
    <3>3. CASE earning[o] = None
      <4>1. W!Row(k, o, c, "ACTIVE")
        BY <2>2, <2>3, <2>4, <3>3 DEF WP!DebitedIsEarned
      <4>2. W!CanFinalizeEarning(o, c)
        BY <2>7, <3>1, <3>3, <4>1 DEF W!CanFinalizeEarning, W!Active
      <4> QED BY <3>2, <4>2 DEF CanSettle, o, c
    <3>4. CASE earning[o] # None /\ W!Row(k, o, c, "ACTIVE")
      <4>1. W!CanFinalizeCOD(o, c) /\ W!Active(o, c)
        BY <2>1, <2>2, <2>7, <3>1, <3>4 DEF W!CanFinalizeCOD, W!Active, WP!IInv, WP!EarnerIsCollector
      <4>2. event[<<"finalize", i>>] = None
        <5> SUFFICES ASSUME event[<<"finalize", i>>] # None PROVE FALSE
          OBVIOUS
        <5>1. event[<<"finalize", i>>] = [op |-> "finalize", order |-> o, captain |-> c]
          BY <1>1 DEF SettleInv, FinalizeKeys, o, c
        <5>2. PICK r \in Keys : W!Row(r, o, c, "DEBITED")
          BY <2>1, <2>2, <5>1 DEF Base, Finalized
        <5>3. r = k
          BY <2>1, <2>5, <5>2
        <5> QED BY <3>4, <5>2, <5>3 DEF W!Row
      <4> QED BY <3>2, <3>4, <4>1, <4>2 DEF CanSettle, o, c
    <3>5. CASE earning[o] # None /\ W!Row(k, o, c, "DEBITED")
      <4>1. ~W!Active(o, c)
        <5>1. ~W!Row(k, o, c, "ACTIVE")
          BY <3>5 DEF W!Row
        <5> QED BY <2>1, <2>5, <5>1 DEF W!Active
      <4>2. W!TransitionReplays(<<"finalize", i>>, "finalize", o, c)
        <5>1. CASE event[<<"finalize", i>>] = None
          BY <2>7, <3>5, <4>1, <5>1 DEF W!TransitionReplays
        <5>2. CASE event[<<"finalize", i>>] # None
          BY <1>1, <5>2 DEF SettleInv, FinalizeKeys, W!TransitionReplays, W!Recorded, o, c
        <5> QED BY <5>1, <5>2
      <4> QED BY <3>2, <3>5, <4>2 DEF CanSettle, Settled, o, c
    <3> QED BY <2>3, <3>3, <3>4, <3>5
  <2> QED BY <2>6, <2>7
<1>2. SettleInv => \A i \in D!Offers : settlement[i] = "PENDING" /\ Covered(i) => CanSettle(i)
  BY <1>1
<1> QED BY <1>2, SettleInit, SettleStep, PTL DEF Spec

\* No step undoes a call of a pending settlement, and each of the reconciler's
\* four calls does one more: after at most four of them the row is posted.
THEOREM SettlementOnward ==
  Spec => [][\A i \in D!Offers : settlement[i] = "PENDING" =>
               /\ Done(i) \subseteq Done(i)'
               /\ Settle(i) => Done(i)' # Done(i)]_vars
<1>1. ASSUME SettleInv, Next, NEW i \in D!Offers, settlement[i] = "PENDING"
      PROVE  Done(i) \subseteq Done(i)' /\ (Settle(i) => Done(i)' # Done(i))
  <2>1. StepEffect /\ Base /\ WP!IInv
    BY <1>1, SettleStep DEF SettleInv, Base, Services
  <2>2. target[i] \in Orders /\ i[1] \in Captains /\ target'[i] = target[i] /\ <<"finalize", i>> \in Keys
    BY <1>1, <2>1, Named DEF Base, StepEffect, DispatchForward, Keys, Sites
  <2> DEFINE o == target[i]
             c == i[1]
  <2>3. /\ "collected" \in Done(i) <=> intent[o] = "COLLECTED"
        /\ "earned" \in Done(i) <=> earning[o] # None
        /\ "debited" \in Done(i) <=> \E k \in Keys : W!Row(k, o, c, "DEBITED")
        /\ "posted" \notin Done(i)
        /\ Done(i) \subseteq {"collected", "earned", "debited", "posted"}
    BY <1>1 DEF Done
  <2>4. /\ "collected" \in Done(i)' <=> intent'[o] = "COLLECTED"
        /\ "earned" \in Done(i)' <=> earning'[o] # None
        /\ "debited" \in Done(i)' <=> \E k \in Keys : W!Row(k, o, c, "DEBITED")'
        /\ "posted" \in Done(i)' <=> settlement'[i] = "POSTED"
    BY <2>2 DEF Done
  <2>5. (\E k \in Keys : W!Row(k, o, c, "DEBITED")) => \E k \in Keys : W!Row(k, o, c, "DEBITED")'
    <3> SUFFICES ASSUME NEW k \in Keys, W!Row(k, o, c, "DEBITED") PROVE W!Row(k, o, c, "DEBITED")'
      OBVIOUS
    <3>1. ASSUME NEW x \in Orders, W!Row(k, x, c, "DEBITED") PROVE reservation'[k] = reservation[k]
      BY <2>1, <2>2, <3>1 DEF StepEffect, WalletForward, W!Row
    <3>2. reservation'[k] = reservation[k]
      BY <2>2, <3>1
    <3> QED BY <2>2, <3>2 DEF W!Row
  <2>6. Done(i) \subseteq Done(i)'
    <3>1. intent[o] = "COLLECTED" => intent'[o] = "COLLECTED"
      BY <2>1, <2>2 DEF StepEffect, WalletForward
    <3>2. earning[o] # None => earning'[o] # None
      BY <2>1, <2>2 DEF StepEffect, WalletForward
    <3>3. "debited" \in Done(i) => "debited" \in Done(i)'
      BY <2>2, <2>3, <2>4, <2>5 DEF W!Row
    <3> QED BY <2>3, <2>4, <3>1, <3>2, <3>3
  <2>7. ASSUME Settle(i) PROVE Done(i)' # Done(i)
    <3>1. CASE EnsureCollected(i)
      <4>1. W!CollectPaymentIntent(o, c)
        BY <3>1 DEF EnsureCollected
      <4>2. intent[o] # "COLLECTED"
        BY <4>1 DEF W!CollectPaymentIntent, W!CanCollect
      <4>3. intent' = [intent EXCEPT ![o] = "COLLECTED"] /\ DOMAIN intent = Orders
        BY <2>1, <4>1 DEF W!CollectPaymentIntent, WP!IInv, WP!TypeOK
      <4> QED BY <2>2, <2>3, <2>4, <4>2, <4>3
    <3>2. CASE FinalizeEarning(i)
      <4>1. W!FinalizePartnerOrderEarning(o, c)
        BY <3>2 DEF FinalizeEarning
      <4>2. earning[o] = None
        BY <4>1 DEF W!FinalizePartnerOrderEarning, W!CanFinalizeEarning
      <4>3. earning'[o] = c
        BY <2>1, <2>2, <4>1, EarnCall DEF Base
      <4> QED BY <2>2, <2>3, <2>4, <4>2, <4>3, NoneAssumption
    <3>3. CASE FinalizeCOD(i)
      <4>1. W!FinalizeCaptainCOD(<<"finalize", i>>, o, c)
        BY <3>3 DEF FinalizeCOD
      <4>2. Ends(<<"finalize", i>>, "finalize", o, c, "DEBITED")
        BY <2>1, <2>2, <4>1, EndCall DEF Base
      <4>3. PICK r \in Keys : W!Row(r, o, c, "ACTIVE") /\ W!Row(r, o, c, "DEBITED")'
        BY <4>2 DEF Ends
      <4>4. \A k \in Keys : ~W!Row(k, o, c, "DEBITED")
        BY <2>1, <4>3 DEF W!Row, WP!IInv, WP!ChargedOnce
      <4>5. W!Row(r, o, c, "DEBITED")'
        BY <2>2, <4>3 DEF W!Row
      <4> QED BY <2>3, <2>4, <4>4, <4>5
    <3>4. CASE PostSettlement(i)
      <4>1. settlement' = [settlement EXCEPT ![i] = "POSTED"]
        BY <3>4 DEF PostSettlement, D!PostSettlement
      <4>2. DOMAIN settlement = D!Offers
        BY <2>1, SameDispatch DEF Base, Services, DP!IInv, DP!TypeOK
      <4> QED BY <2>3, <2>4, <4>1, <4>2
    <3> QED BY <2>7, <3>1, <3>2, <3>3, <3>4 DEF Settle
  <2> QED BY <2>6, <2>7
<1>2. SettleInv /\ [Next]_vars =>
        [\A i \in D!Offers : settlement[i] = "PENDING" =>
               /\ Done(i) \subseteq Done(i)'
               /\ Settle(i) => Done(i)' # Done(i)]_vars
  BY <1>1
<1>3. Spec => []SettleInv
  BY SettleInit, SettleStep, PTL DEF Spec
<1> QED BY <1>2, <1>3, PTL DEF Spec
================================================================================
