-------------------------------- MODULE Dispatch --------------------------------
(***************************************************************************)
(* Captain dispatch in DSH, the delivery service: offers, assignments,     *)
(* store handoffs, captain admission and availability, and the rows of the *)
(* financial handoff outbox that dispatch writes.  Sources: services/dsh/  *)
(* backend/internal/storage/postgres/{captain_dispatch_offers,captain,     *)
(* captain_assignment_mutations,captain_admission,financial_handoff}.go.   *)
(*                                                                         *)
(* Every action is one transaction; a transaction that returns an error    *)
(* rolls back, the expiry of offers it began with included, and is a       *)
(* stuttering step.  An offer is named <<captain, n>>: the n-th offer made *)
(* to that captain.  An assignment and its handoff carry the name of the   *)
(* accepted offer (accepted_offer_id is UNIQUE).  Dispatch presence, the   *)
(* wallet preflight and the goods custody policy only narrow the choice of *)
(* candidates or refuse an acceptance, and are left open.                  *)
(***************************************************************************)
EXTENDS Naturals, FiniteSets

CONSTANTS Orders, Captains,
          Mode,        \* Mode[o]: fulfillment_mode of the order
          MaxOffers,   \* bound on the offers made to one captain
          None         \* no order, or no captain

Modes == {"BTHWANI_CAPTAIN", "PARTNER_CAPTAIN"}

ASSUME ModeAssumption == Mode \in [Orders -> Modes]
ASSUME MaxOffersAssumption == MaxOffers \in Nat
ASSUME NoneAssumption == None \notin Orders \cup Captains

BatchLimit == 3        \* offers of one dispatch batch

Offers == Captains \X (1 .. MaxOffers)

VARIABLES
  order,              \* state of the order, from PREPARING on
  payment,            \* payment_state kept on the order
  target,             \* target[i]: order of offer i
  offer,              \* state of offer i, "none" before it exists
  overdue,            \* offers whose expires_at has passed
  assignment,         \* state of the assignment made from offer i
  handoff,            \* state of its store handoff
  admission,          \* standing eligibility of a captain
  available,          \* availability_state = 'available'
  offerRelease,       \* outbox row CAPTAIN_COD_RELEASE with source_ref offer i
  assignmentRelease,  \* the same with source_ref the assignment of offer i
  settlement          \* outbox row DELIVERY_SETTLEMENT of that assignment

captainVars == <<admission, available>>
outbox == <<offerRelease, assignmentRelease, settlement>>
vars == <<order, payment, target, offer, overdue, assignment, handoff, captainVars, outbox>>

OrderStates == {"PREPARING", "READY_FOR_DISPATCH", "CAPTAIN_ASSIGNED", "IN_CUSTODY",
                "DELIVERED", "DELIVERY_FAILED"}
Active  == {"assigned", "in_custody"}            \* the unique indexes
Working == Active \cup {"delivery_failed"}       \* goods still with the captain
Posting == {"none", "PENDING", "POSTED"}         \* FAILED is retried: PENDING

TypeOK ==
  /\ order \in [Orders -> OrderStates]
  /\ payment \in [Orders -> {"REQUIRES_COLLECTION", "COLLECTED"}]
  /\ target \in [Offers -> Orders \cup {None}]
  /\ offer \in [Offers -> {"none", "offered", "accepted", "rejected", "expired", "superseded"}]
  /\ overdue \subseteq Offers
  /\ assignment \in [Offers -> Working \cup {"none", "delivered", "reassigned"}]
  /\ handoff \in [Offers -> {"none", "pending", "store_confirmed", "completed", "superseded"}]
  /\ admission \in [Captains -> {"eligible", "suspended"}]
  /\ available \in [Captains -> BOOLEAN]
  /\ offerRelease \in [Offers -> Posting]
  /\ assignmentRelease \in [Offers -> Posting]
  /\ settlement \in [Offers -> Posting]

-----------------------------------------------------------------------------
(* Shared steps of the transactions.  of, av and as are the values of      *)
(* offer, available and assignment at that point of the transaction.       *)

Marked(f, S, s) == [i \in Offers |-> IF i \in S THEN s ELSE f[i]]

CaptainsOf(S) == {i[1] : i \in S}
Platform(S) == {i \in S : target[i] # None /\ Mode[target[i]] = "BTHWANI_CAPTAIN"}
Owing(S) == {i \in S : target[i] # None /\ payment[target[i]] = "REQUIRES_COLLECTION"}
OpenOn(o, of) == {i \in Offers : of[i] = "offered" /\ target[i] = o}

BusyUnlessFailed(c, of, as) ==   \* mutant: forgets that failed goods stay with the captain
  \E i \in Offers : i[1] = c /\ (of[i] = "offered" \/ as[i] \in Active)

Busy(c, of, as) ==
  \E i \in Offers : i[1] = c /\ (of[i] = "offered" \/ as[i] \in Working)

(* restoreCaptainAvailabilityTx for each captain of cs. *)
Restored(av, cs, of, as) ==
  [c \in Captains |-> av[c] \/ (c \in cs /\ admission[c] = "eligible" /\ ~Busy(c, of, as))]

(* enqueueFinancialHandoffTx for each source of S; a row is never rewritten. *)
Enqueued(rows, S) == [i \in Offers |-> IF i \in S /\ rows[i] = "none" THEN "PENDING" ELSE rows[i]]

(* canonicalizeCaptainOffersTx: what it leaves for the captains cs. *)
LapsedOfEligible(cs) ==   \* mutant: skips captains who are suspended
  {i \in Offers : offer[i] = "offered" /\ i \in overdue /\ i[1] \in cs /\ admission[i[1]] = "eligible"}

Lapsed(cs) == {i \in Offers : offer[i] = "offered" /\ i \in overdue /\ i[1] \in cs}
CanonicalOffer(cs) == Marked(offer, Lapsed(cs), "expired")
CanonicalAvailableKept(cs) == available   \* mutant: expiry does not restore availability

CanonicalAvailable(cs) ==
  Restored(available, CaptainsOf(Platform(Lapsed(cs))), CanonicalOffer(cs), assignment)

CanonicalReleaseKept(cs) == offerRelease   \* mutant: expiry does not owe a release

CanonicalRelease(cs) == Enqueued(offerRelease, Platform(Owing(Lapsed(cs))))

(* The next offer of each captain of cs. *)
Slots(cs) ==
  {i \in Offers : i[1] \in cs /\ offer[i] = "none"
                  /\ \A j \in Offers : j[1] = i[1] /\ j[2] < i[2] => offer[j] # "none"}

(* dispatchCaptainCandidatesTx: one offer of o to each captain of cs. *)
DispatchCandidates(o, cs, of, av, as) ==
  /\ cs # {} /\ Cardinality(cs) <= BatchLimit
  /\ CaptainsOf(Slots(cs)) = cs
  /\ \A c \in cs : admission[c] = "eligible" /\ av[c] /\ ~Busy(c, of, as)
  /\ offer' = Marked(of, Slots(cs), "offered")
  /\ target' = Marked(target, Slots(cs), o)
  /\ available' = [c \in Captains |-> av[c] /\ c \notin cs]

-----------------------------------------------------------------------------
Init ==
  /\ order = [o \in Orders |-> "PREPARING"]
  /\ payment = [o \in Orders |-> "REQUIRES_COLLECTION"]
  /\ target = [i \in Offers |-> None]
  /\ offer = [i \in Offers |-> "none"]
  /\ overdue = {}
  /\ assignment = [i \in Offers |-> "none"]
  /\ handoff = [i \in Offers |-> "none"]
  /\ admission = [c \in Captains |-> "eligible"]
  /\ available = [c \in Captains |-> FALSE]
  /\ offerRelease = [i \in Offers |-> "none"]
  /\ assignmentRelease = [i \in Offers |-> "none"]
  /\ settlement = [i \in Offers |-> "none"]

ReadyForDispatch(o) ==
  /\ order[o] = "PREPARING"
  /\ order' = [order EXCEPT ![o] = "READY_FOR_DISPATCH"]
  /\ UNCHANGED <<payment, target, offer, overdue, assignment, handoff, captainVars, outbox>>

(* expires_at of an open offer passes. *)
Elapse(i) ==
  /\ offer[i] = "offered" /\ i \notin overdue
  /\ overdue' = overdue \cup {i}
  /\ UNCHANGED <<order, payment, target, offer, assignment, handoff, captainVars, outbox>>

(* The dispatch worker, a read of an offer, and a response that finds its  *)
(* offer expired all commit the expiry alone.                              *)
CanonicalizeCaptainOffers(cs) ==
  /\ Lapsed(cs) # {}
  /\ offer' = CanonicalOffer(cs)
  /\ available' = CanonicalAvailable(cs)
  /\ offerRelease' = CanonicalRelease(cs)
  /\ UNCHANGED <<order, payment, target, overdue, assignment, handoff, admission,
                 assignmentRelease, settlement>>

-----------------------------------------------------------------------------
(* Offers. *)

Dispatchable(o) == order[o] = "READY_FOR_DISPATCH" /\ Mode[o] = "BTHWANI_CAPTAIN"

CanOffer(o) == Dispatchable(o) /\ OpenOn(o, CanonicalOffer(Captains)) = {}

CreateCaptainDispatchOffer(o, cs) ==
  /\ CanOffer(o)
  /\ DispatchCandidates(o, cs, CanonicalOffer(Captains), CanonicalAvailable(Captains), assignment)
  /\ offerRelease' = CanonicalRelease(Captains)
  /\ UNCHANGED <<order, payment, overdue, assignment, handoff, admission,
                 assignmentRelease, settlement>>

(* The store offers its own order to one of its captains. *)
CreateStoreCaptainDispatchOffer(o, c) ==
  /\ order[o] = "READY_FOR_DISPATCH"
  /\ Mode[o] = "PARTNER_CAPTAIN"
  /\ OpenOn(o, CanonicalOffer({c})) = {}
  /\ admission[c] = "eligible"
  /\ ~Busy(c, CanonicalOffer({c}), assignment)
  /\ Slots({c}) # {}
  /\ offer' = Marked(CanonicalOffer({c}), Slots({c}), "offered")
  /\ target' = Marked(target, Slots({c}), o)
  /\ available' = CanonicalAvailable({c})
  /\ offerRelease' = CanonicalRelease({c})
  /\ UNCHANGED <<order, payment, overdue, assignment, handoff, admission,
                 assignmentRelease, settlement>>

RejectCaptainOffer(i) ==
  LET of == Marked(CanonicalOffer(Captains), {i}, "rejected")
  IN  /\ CanonicalOffer(Captains)[i] = "offered"
      /\ offer' = of
      /\ available' = Restored(CanonicalAvailable(Captains), CaptainsOf(Platform({i})), of, assignment)
      /\ offerRelease' = Enqueued(CanonicalRelease(Captains), Platform(Owing({i})))
      /\ UNCHANGED <<order, payment, target, overdue, assignment, handoff, admission,
                     assignmentRelease, settlement>>

CanAccept(i) ==
  /\ CanonicalOffer(Captains)[i] = "offered"
  /\ order[target[i]] = "READY_FOR_DISPATCH"
  /\ admission[i[1]] = "eligible"
  /\ \A j \in Offers :
       /\ j[1] = i[1] => assignment[j] \notin Working
       /\ target[j] = target[i] => assignment[j] \notin Active

NoLosers(i) == {}   \* mutant: acceptance leaves the competing offers open

(* The first acceptance wins: the other open offers of the order lose. *)
Losers(i) ==
  IF Platform({i}) = {} THEN {} ELSE OpenOn(target[i], CanonicalOffer(Captains)) \ {i}

AcceptCaptainOffer(i) ==
  LET losers == Losers(i)
      of == Marked(Marked(CanonicalOffer(Captains), losers, "superseded"), {i}, "accepted")
      as == Marked(assignment, {i}, "assigned")
      av == Restored(CanonicalAvailable(Captains), CaptainsOf(losers), of, as)
  IN  /\ CanAccept(i)
      /\ offer' = of
      /\ assignment' = as
      /\ handoff' = Marked(handoff, {i}, "pending")
      /\ order' = [order EXCEPT ![target[i]] = "CAPTAIN_ASSIGNED"]
      /\ available' = [c \in Captains |-> av[c] /\ c \notin CaptainsOf(Platform({i}))]
      /\ offerRelease' = Enqueued(CanonicalRelease(Captains), Owing(losers))
      /\ UNCHANGED <<payment, target, overdue, admission, assignmentRelease, settlement>>

-----------------------------------------------------------------------------
(* Reassignment before pickup. *)

(* No assignment yet: the whole batch is superseded; one of its captains,  *)
(* the earliest offered, is excluded from the next one.                    *)
RedispatchOrder(o, cs) ==
  LET open == OpenOn(o, CanonicalOffer(Captains))
      of == Marked(CanonicalOffer(Captains), open, "superseded")
      av == Restored(CanonicalAvailable(Captains), CaptainsOf(open), of, assignment)
  IN  /\ order[o] = "READY_FOR_DISPATCH"
      /\ Mode[o] = "BTHWANI_CAPTAIN"
      /\ \A i \in Offers : target[i] = o => assignment[i] \notin Active
      /\ open # {} => ~(CaptainsOf(open) \subseteq cs)
      /\ DispatchCandidates(o, cs, of, av, assignment)
      /\ offerRelease' = Enqueued(CanonicalRelease(Captains), Owing(open))
      /\ UNCHANGED <<order, payment, overdue, assignment, handoff, admission,
                     assignmentRelease, settlement>>

CanReassignAnyTime(i) ==   \* mutant: does not look at custody
  /\ assignment[i] \in Active
  /\ Mode[target[i]] = "BTHWANI_CAPTAIN"
  /\ payment[target[i]] = "REQUIRES_COLLECTION"

CanReassign(i) ==
  /\ assignment[i] = "assigned"
  /\ order[target[i]] \in {"READY_FOR_DISPATCH", "CAPTAIN_ASSIGNED"}
  /\ Mode[target[i]] = "BTHWANI_CAPTAIN"
  /\ payment[target[i]] = "REQUIRES_COLLECTION"

(* The order is taken from the captain of assignment i and offered anew. *)
ReassignCaptain(i, cs) ==
  LET o == target[i]
      open == OpenOn(o, CanonicalOffer(Captains))
      of == Marked(CanonicalOffer(Captains), open, "superseded")
      as == Marked(assignment, {i}, "reassigned")
      av == Restored(CanonicalAvailable(Captains), CaptainsOf(open) \cup {i[1]}, of, as)
  IN  /\ CanReassign(i)
      /\ i[1] \notin cs
      /\ DispatchCandidates(o, cs, of, av, as)
      /\ assignment' = as
      /\ handoff' = Marked(handoff, {i}, "superseded")
      /\ order' = [order EXCEPT ![o] = "READY_FOR_DISPATCH"]
      /\ offerRelease' = Enqueued(CanonicalRelease(Captains), Owing(open))
      /\ assignmentRelease' = Enqueued(assignmentRelease, {i})
      /\ UNCHANGED <<payment, overdue, admission, settlement>>

-----------------------------------------------------------------------------
(* From the store to the customer. *)

ConfirmStoreHandoff(i) ==
  /\ assignment[i] = "assigned" /\ handoff[i] = "pending"
  /\ handoff' = [handoff EXCEPT ![i] = "store_confirmed"]
  /\ UNCHANGED <<order, payment, target, offer, overdue, assignment, captainVars, outbox>>

PickupWithoutOrder(i) ==   \* mutant: pickup does not move the order
  /\ assignment[i] = "assigned" /\ handoff[i] = "store_confirmed"
  /\ order[target[i]] = "CAPTAIN_ASSIGNED"
  /\ handoff' = [handoff EXCEPT ![i] = "completed"]
  /\ assignment' = [assignment EXCEPT ![i] = "in_custody"]
  /\ UNCHANGED <<order, payment, target, offer, overdue, captainVars, outbox>>

CompleteCaptainPickup(i) ==
  /\ assignment[i] = "assigned" /\ handoff[i] = "store_confirmed"
  /\ order[target[i]] = "CAPTAIN_ASSIGNED"
  /\ handoff' = [handoff EXCEPT ![i] = "completed"]
  /\ assignment' = [assignment EXCEPT ![i] = "in_custody"]
  /\ order' = [order EXCEPT ![target[i]] = "IN_CUSTODY"]
  /\ UNCHANGED <<payment, target, offer, overdue, captainVars, outbox>>

SettlingAlways(i, result) == Platform(Owing({i}))   \* mutant: settles failed attempts too

(* A store captain's cash goes to the store, a platform captain's to WLT. *)
Settling(i, result) == IF result = "delivered" THEN Platform(Owing({i})) ELSE {}

CompleteCaptainAssignment(i, result) ==
  /\ assignment[i] = "in_custody" /\ handoff[i] = "completed"
  /\ order[target[i]] = "IN_CUSTODY"
  /\ assignment' = [assignment EXCEPT ![i] = result]
  /\ order' = [order EXCEPT ![target[i]] = IF result = "delivered" THEN "DELIVERED" ELSE "DELIVERY_FAILED"]
  /\ settlement' = Enqueued(settlement, Settling(i, result))
  /\ UNCHANGED <<payment, target, offer, overdue, handoff, captainVars, offerRelease, assignmentRelease>>

CanRecoverDelivered(i) ==   \* mutant: looks at the handoff alone
  /\ assignment[i] \in {"delivery_failed", "delivered"} /\ handoff[i] = "completed"
  /\ \A j \in Offers : j[1] = i[1] /\ j # i => assignment[j] \notin Active
  /\ Platform({i}) # {} => admission[i[1]] = "eligible"

CanRecover(i) ==
  /\ assignment[i] = "delivery_failed" /\ handoff[i] = "completed"
  /\ order[target[i]] = "DELIVERY_FAILED"
  /\ \A j \in Offers : j[1] = i[1] /\ j # i => assignment[j] \notin Active
  /\ Platform({i}) # {} => admission[i[1]] = "eligible"

RecoverCaptainAssignment(i) ==
  /\ CanRecover(i)
  /\ assignment' = [assignment EXCEPT ![i] = "in_custody"]
  /\ order' = [order EXCEPT ![target[i]] = "IN_CUSTODY"]
  /\ available' = [c \in Captains |-> available[c] /\ c \notin CaptainsOf(Platform({i}))]
  /\ UNCHANGED <<payment, target, offer, overdue, handoff, admission, outbox>>

-----------------------------------------------------------------------------
(* Availability and admission. *)

(* The admission version sent with the request refuses it when expiring    *)
(* the captain's offer has just changed the availability.                  *)
SetCaptainAvailability(c, wanted) ==
  /\ admission[c] = "eligible"
  /\ CanonicalAvailable({c})[c] = available[c]
  /\ wanted => ~Busy(c, CanonicalOffer({c}), assignment)
  /\ offer' = CanonicalOffer({c})
  /\ available' = [available EXCEPT ![c] = wanted]
  /\ offerRelease' = CanonicalRelease({c})
  /\ UNCHANGED <<order, payment, target, overdue, assignment, handoff, admission,
                 assignmentRelease, settlement>>

(* The open offer is read before the admission row is locked: an offer     *)
(* that another transaction commits in between is missed (seen = {}).      *)
SuspendCaptainAdmission(c, seen) ==
  LET mine == {i \in Offers : i[1] = c}
      open == {i \in mine : CanonicalOffer({c})[i] = "offered"}
      held == {i \in mine : assignment[i] = "assigned"}
  IN  /\ \A i \in mine : assignment[i] # "in_custody"
      /\ seen \subseteq open
      /\ offer' = Marked(CanonicalOffer({c}), seen, "superseded")
      /\ assignment' = Marked(assignment, held, "reassigned")
      /\ handoff' = Marked(handoff, held, "superseded")
      /\ order' = [o \in Orders |-> IF order[o] = "CAPTAIN_ASSIGNED" /\ \E i \in held : target[i] = o
                                    THEN "READY_FOR_DISPATCH" ELSE order[o]]
      /\ offerRelease' = Enqueued(CanonicalRelease({c}), Owing(seen))
      /\ assignmentRelease' = Enqueued(assignmentRelease, Owing(held))
      /\ admission' = [admission EXCEPT ![c] = "suspended"]
      /\ available' = [available EXCEPT ![c] = FALSE]
      /\ UNCHANGED <<payment, target, overdue, settlement>>

CanRestore(c) ==
  admission[c] = "suspended" => ~Busy(c, CanonicalOffer({c}), assignment)

RestoreCaptainAdmission(c) ==
  /\ CanRestore(c)
  /\ offer' = CanonicalOffer({c})
  /\ offerRelease' = CanonicalRelease({c})
  /\ admission' = [admission EXCEPT ![c] = "eligible"]
  /\ available' = [available EXCEPT ![c] = FALSE]
  /\ UNCHANGED <<order, payment, target, overdue, assignment, handoff,
                 assignmentRelease, settlement>>

-----------------------------------------------------------------------------
(* The reconciler has applied a row in WLT: MarkFinancialHandoffPosted. *)

PostOfferRelease(i) ==
  /\ offerRelease[i] = "PENDING"
  /\ offerRelease' = [offerRelease EXCEPT ![i] = "POSTED"]
  /\ UNCHANGED <<order, payment, target, offer, overdue, assignment, handoff, captainVars,
                 assignmentRelease, settlement>>

PostAssignmentRelease(i) ==
  /\ assignmentRelease[i] = "PENDING"
  /\ assignmentRelease' = [assignmentRelease EXCEPT ![i] = "POSTED"]
  /\ UNCHANGED <<order, payment, target, offer, overdue, assignment, handoff, captainVars,
                 offerRelease, settlement>>

PostSettlement(i) ==
  /\ settlement[i] = "PENDING"
  /\ settlement' = [settlement EXCEPT ![i] = "POSTED"]
  /\ payment' = [payment EXCEPT ![target[i]] = "COLLECTED"]
  /\ UNCHANGED <<order, target, offer, overdue, assignment, handoff, captainVars,
                 offerRelease, assignmentRelease>>
-----------------------------------------------------------------------------
OfferStep(i) ==
  \/ Elapse(i) \/ RejectCaptainOffer(i)
  \/ ConfirmStoreHandoff(i) \/ CompleteCaptainPickup(i) \/ RecoverCaptainAssignment(i)
  \/ \E result \in {"delivered", "delivery_failed"} : CompleteCaptainAssignment(i, result)

CaptainStep(c) ==
  \/ \E wanted \in BOOLEAN : SetCaptainAvailability(c, wanted)
  \/ \E seen \in SUBSET {i \in Offers : i[1] = c} : SuspendCaptainAdmission(c, seen)
  \/ RestoreCaptainAdmission(c)

DispatchStep(o, cs) ==
  \/ CreateCaptainDispatchOffer(o, cs)
  \/ RedispatchOrder(o, cs)
  \/ \E c \in cs : CreateStoreCaptainDispatchOffer(o, c)

(* The operations that involve DSH alone. *)
Operation ==
  \/ \E o \in Orders : ReadyForDispatch(o)
  \/ \E cs \in {Captains} \cup {{c} : c \in Captains} : CanonicalizeCaptainOffers(cs)
  \/ \E o \in Orders, cs \in SUBSET Captains : DispatchStep(o, cs)
  \/ \E i \in Offers, cs \in SUBSET Captains : ReassignCaptain(i, cs)
  \/ \E i \in Offers : OfferStep(i)
  \/ \E c \in Captains : CaptainStep(c)

(* Dispatch never reads its release rows back: posting them is left to the *)
(* composition with WLT.                                                   *)
Next == Operation \/ \E i \in Offers : AcceptCaptainOffer(i) \/ PostSettlement(i)

Spec == Init /\ [][Next]_vars

-----------------------------------------------------------------------------
(* Properties. *)

Live(o) == {i \in Offers : target[i] = o /\ assignment[i] \in Working \cup {"delivered"}}

\* The order, its assignment and the store handoff tell one story: whoever
\* moves one of the three (acceptance, reassignment, suspension, pickup,
\* completion, recovery) moves all of them, and an order never has two
\* captains at a time.
OrderAgreesWithAssignment ==
  \A o \in Orders :
    /\ order[o] \in {"PREPARING", "READY_FOR_DISPATCH"} <=> Live(o) = {}
    /\ \A i \in Live(o) :
         /\ Live(o) = {i}
         /\ <<order[o], assignment[i], handoff[i]>> \in
              {<<"CAPTAIN_ASSIGNED", "assigned", "pending">>,
               <<"CAPTAIN_ASSIGNED", "assigned", "store_confirmed">>,
               <<"IN_CUSTODY", "in_custody", "completed">>,
               <<"DELIVERED", "delivered", "completed">>,
               <<"DELIVERY_FAILED", "delivery_failed", "completed">>}

\* An offer claims its captain alone: a captain with an open offer has no
\* other open offer and no goods, and is not in the platform pool while the
\* offer is a platform one.
OfferClaimsCaptain ==
  \A i \in Offers : offer[i] = "offered" =>
    /\ \A j \in Offers : j[1] = i[1] /\ j # i => offer[j] # "offered" /\ assignment[j] \notin Working
    /\ i \in Platform(Offers) => ~available[i[1]]

\* Losing offers do not outlive the assignment: an order that a captain has
\* taken has no open offer, so a late acceptance finds nothing to accept.
NoOfferOnTakenOrder ==
  \A i \in Offers : offer[i] = "offered" => order[target[i]] = "READY_FOR_DISPATCH"

\* Dispatch owes WLT one release for every platform offer that ended without
\* an acceptance and for every platform assignment taken back, and none for
\* an offer or assignment that still stands.
ReleasesOwed ==
  \A i \in Platform(Offers) :
    /\ offerRelease[i] # "none" <=> offer[i] \in {"rejected", "expired", "superseded"}
    /\ assignmentRelease[i] # "none" <=> assignment[i] = "reassigned"

\* One settlement per delivered platform order, for the captain who delivered
\* it; DSH calls the payment collected exactly when that settlement is posted.
SettledByDeliverer ==
  \A o \in Orders :
    LET rows == {i \in Offers : target[i] = o /\ settlement[i] # "none"}
    IN  /\ Cardinality(rows) <= 1
        /\ \A i \in rows : assignment[i] = "delivered"
        /\ Mode[o] = "BTHWANI_CAPTAIN" /\ order[o] = "DELIVERED" => rows # {}
        /\ payment[o] = "COLLECTED" <=> \E i \in rows : settlement[i] = "POSTED"

\* Goods change hands only at the store and at the door: from pickup to
\* delivery no operation gives the order to another captain or reopens it.
CustodyStays ==
  [][\A i \in Offers : assignment[i] \in {"in_custody", "delivery_failed"} =>
       /\ assignment'[i] \in {"in_custody", "delivery_failed", "delivered"}
       /\ order'[target[i]] \in {"IN_CUSTODY", "DELIVERY_FAILED", "DELIVERED"}]_vars

\* Dispatch implements OrderCustody: whatever offers, suspensions, retries and
\* reassignments interleave, each order is served by one captain, each captain
\* by one order at a time, and custody moves only at the store and at the door.
StageOf(i) == [assigned |-> "assigned", in_custody |-> "carried",
               delivery_failed |-> "failed", delivered |-> "done"][assignment[i]]

Custody == INSTANCE OrderCustody WITH
  holder <- [o \in Orders |-> IF Live(o) = {} THEN None ELSE (CHOOSE i \in Live(o) : TRUE)[1]],
  stage <- [o \in Orders |-> IF Live(o) = {} THEN "waiting" ELSE StageOf(CHOOSE i \in Live(o) : TRUE)]

CustodyChain == Custody!Spec

\* An eligible captain whose platform offer ends unaccepted is back in the
\* pool in the same transaction, unless the offer made way for a new one to
\* the same captain or the operator is readmitting (which switches off).
EndedOfferFreesCaptain ==
  [][\A i \in Platform(Offers) :
       /\ offer[i] = "offered"
       /\ offer'[i] \in {"rejected", "expired", "superseded"}
       /\ admission[i[1]] = "eligible" /\ admission'[i[1]] = "eligible"
       /\ \A j \in Offers : j[1] = i[1] => offer'[j] # "offered"
       => available'[i[1]] \/ RestoreCaptainAdmission(i[1])]_vars

\* Claim: suspension releases the captain's offers.  (An offer committed
\* between the two reads of the suspension survives it.)
SuspendedHoldsNoOffer == \A i \in Offers : offer[i] = "offered" => admission[i[1]] = "eligible"

\* Claim: a failed delivery keeps a resume path.  (A captain suspended after
\* a failed delivery can neither recover it nor be readmitted.)
FailedDeliveryResumable ==
  \A i \in Offers : assignment[i] = "delivery_failed" => CanRecover(i) \/ CanRestore(i[1])
=============================================================================
