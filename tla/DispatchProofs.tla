----------------------------- MODULE DispatchProofs -----------------------------
(***************************************************************************)
(* What holds of Dispatch for every set of orders and captains, every      *)
(* fulfillment mode and any number of offers: the invariants of the        *)
(* dispatch run, its two action properties, and the refinement of          *)
(* OrderCustody.  The inductive invariant IInv adds to the checked ones    *)
(* what the foreign keys and the unique indexes keep (Named, OneLoad) and  *)
(* that a store offers an order to one captain at a time.                  *)
(*                                                                         *)
(* Most transactions do the same things to the offers in different orders: *)
(* they expire some, end some, accept one, make new ones.  Moves, Releases *)
(* and Pool say what such a transaction leaves behind, the ...Kept lemmas  *)
(* what follows for each part of IInv, and the ...Step lemmas show that    *)
(* each operation is such a transaction.                                   *)
(***************************************************************************)
EXTENDS Dispatch, FiniteSetTheorems, TLAPS

OfferStates == {"none", "offered", "accepted", "rejected", "expired", "superseded"}
Ended == {"rejected", "expired", "superseded"}

\* What the tables know of each other: an offer has an order, an accepted
\* one an assignment, and nothing is owed for an offer never made.
Named ==
  \A i \in Offers :
    /\ offer[i] = "none" <=> target[i] = None
    /\ offer[i] = "accepted" <=> assignment[i] # "none"
    /\ offer[i] = "none" =>
         offerRelease[i] = "none" /\ assignmentRelease[i] = "none" /\ settlement[i] = "none"

\* A store offers its order to one captain at a time.
OneStoreOffer ==
  \A i, j \in Offers :
    /\ offer[i] = "offered" /\ offer[j] = "offered"
    /\ target[i] = target[j] /\ Mode[target[i]] = "PARTNER_CAPTAIN"
    => i = j

\* A captain works on one assignment at a time.
OneLoad ==
  \A i, j \in Offers :
    i[1] = j[1] /\ assignment[i] \in Working /\ assignment[j] \in Working => i = j

IInv ==
  /\ TypeOK /\ Named /\ OneStoreOffer /\ OneLoad
  /\ OrderAgreesWithAssignment /\ OfferClaimsCaptain /\ NoOfferOnTakenOrder
  /\ ReleasesOwed /\ SettledByDeliverer

-----------------------------------------------------------------------------
\* An offer is its captain and its number.
LEMMA OfferNames ==
  ASSUME NEW i \in Offers, NEW j \in Offers
  PROVE  /\ i[1] \in Captains /\ i[2] \in 1..MaxOffers
         /\ i[1] = j[1] /\ i[2] = j[2] => i = j
  BY DEF Offers

\* A named order is an order.
LEMMA TargetNamed ==
  ASSUME IInv, NEW i \in Offers
  PROVE  offer[i] # "none" \/ assignment[i] # "none" => target[i] \in Orders /\ target[i] # None
  BY NoneAssumption DEF IInv, TypeOK, Named

\* What OrderAgreesWithAssignment says of one assignment.
LEMMA LiveAgrees ==
  ASSUME IInv, NEW i \in Offers, assignment[i] \in Working \cup {"delivered"}
  PROVE  /\ target[i] \in Orders
         /\ assignment[i] = "assigned" =>
              order[target[i]] = "CAPTAIN_ASSIGNED" /\ handoff[i] \in {"pending", "store_confirmed"}
         /\ assignment[i] = "in_custody" => order[target[i]] = "IN_CUSTODY" /\ handoff[i] = "completed"
         /\ assignment[i] = "delivered" => order[target[i]] = "DELIVERED" /\ handoff[i] = "completed"
         /\ assignment[i] = "delivery_failed" =>
              order[target[i]] = "DELIVERY_FAILED" /\ handoff[i] = "completed"
         /\ \A j \in Offers :
              target[j] = target[i] /\ assignment[j] \in Working \cup {"delivered"} => j = i
<1>1. target[i] \in Orders
  BY TargetNamed DEF Working, Active
<1>2. i \in Live(target[i])
  BY DEF Live
<1>3. /\ Live(target[i]) = {i}
      /\ <<order[target[i]], assignment[i], handoff[i]>> \in
              {<<"CAPTAIN_ASSIGNED", "assigned", "pending">>,
               <<"CAPTAIN_ASSIGNED", "assigned", "store_confirmed">>,
               <<"IN_CUSTODY", "in_custody", "completed">>,
               <<"DELIVERED", "delivered", "completed">>,
               <<"DELIVERY_FAILED", "delivery_failed", "completed">>}
  BY <1>1, <1>2 DEF IInv, OrderAgreesWithAssignment
<1>4. \A j \in Offers :
        target[j] = target[i] /\ assignment[j] \in Working \cup {"delivered"} => j = i
  BY <1>3 DEF Live
<1> QED BY <1>1, <1>3, <1>4

\* Only a delivered order is paid.
LEMMA Unpaid ==
  ASSUME IInv, NEW o \in Orders, order[o] # "DELIVERED"
  PROVE  payment[o] = "REQUIRES_COLLECTION"
<1> SUFFICES ASSUME payment[o] = "COLLECTED" PROVE FALSE
  BY DEF IInv, TypeOK
<1>1. PICK i \in Offers : target[i] = o /\ settlement[i] # "none" /\ assignment[i] = "delivered"
  BY DEF IInv, SettledByDeliverer
<1> QED BY <1>1, LiveAgrees

\* A release is owed for any platform offer that still stands.
LEMMA StandingOwes ==
  ASSUME IInv, NEW i \in Offers, offer[i] = "offered"
  PROVE  target[i] \in Orders /\ target[i] # None /\ i \in Owing(Offers)
<1>1. target[i] \in Orders /\ target[i] # None
  BY TargetNamed
<1>2. order[target[i]] = "READY_FOR_DISPATCH"
  BY DEF IInv, NoOfferOnTakenOrder
<1> QED BY <1>1, <1>2, Unpaid DEF Owing

\* The expiry that precedes a transaction, row by row.
LEMMA Expiry ==
  ASSUME IInv, NEW cs \in SUBSET Captains
  PROVE  /\ Lapsed(cs) \subseteq Offers /\ \A i \in Lapsed(cs) : offer[i] = "offered" /\ i[1] \in cs
         /\ CanonicalOffer(cs) \in [Offers -> OfferStates]
         /\ \A i \in Offers : CanonicalOffer(cs)[i] = IF i \in Lapsed(cs) THEN "expired" ELSE offer[i]
         /\ CanonicalAvailable(cs) \in [Captains -> BOOLEAN]
         /\ \A c \in Captains :
              /\ available[c] => CanonicalAvailable(cs)[c]
              /\ CanonicalAvailable(cs)[c] =>
                   available[c] \/ \A j \in Offers : j[1] = c => CanonicalOffer(cs)[j] # "offered"
         /\ CanonicalRelease(cs) \in [Offers -> Posting]
         /\ \A i \in Offers :
              CanonicalRelease(cs)[i] # "none" <=> offerRelease[i] # "none" \/ i \in Platform(Lapsed(cs))
<1>1. offer \in [Offers -> OfferStates] /\ available \in [Captains -> BOOLEAN]
      /\ offerRelease \in [Offers -> Posting]
  BY DEF IInv, TypeOK, OfferStates
<1>2. Lapsed(cs) \subseteq Offers /\ \A i \in Lapsed(cs) : offer[i] = "offered" /\ i[1] \in cs
  BY DEF Lapsed
<1>3. /\ CanonicalOffer(cs) \in [Offers -> OfferStates]
      /\ \A i \in Offers : CanonicalOffer(cs)[i] = IF i \in Lapsed(cs) THEN "expired" ELSE offer[i]
  BY <1>1, <1>2 DEF CanonicalOffer, Marked, OfferStates
<1>4. /\ CanonicalAvailable(cs) \in [Captains -> BOOLEAN]
      /\ \A c \in Captains :
           /\ available[c] => CanonicalAvailable(cs)[c]
           /\ CanonicalAvailable(cs)[c] => available[c] \/ ~Busy(c, CanonicalOffer(cs), assignment)
  BY <1>1 DEF CanonicalAvailable, Restored
<1>5. \A c \in Captains : ~Busy(c, CanonicalOffer(cs), assignment) =>
        \A j \in Offers : j[1] = c => CanonicalOffer(cs)[j] # "offered"
  BY DEF Busy
<1>6. Platform(Owing(Lapsed(cs))) = Platform(Lapsed(cs))
  BY <1>2, StandingOwes DEF Platform, Owing
<1>7. /\ CanonicalRelease(cs) \in [Offers -> Posting]
      /\ \A i \in Offers :
           CanonicalRelease(cs)[i] # "none" <=> offerRelease[i] # "none" \/ i \in Platform(Lapsed(cs))
  BY <1>1, <1>6 DEF CanonicalRelease, Enqueued, Posting
<1> QED BY <1>2, <1>3, <1>4, <1>5, <1>7

\* A captain has at most one next offer.
LEMMA NextOffers ==
  ASSUME IInv, NEW cs
  PROVE  /\ Slots(cs) \subseteq Offers /\ \A i \in Slots(cs) : offer[i] = "none" /\ i[1] \in cs
         /\ \A i, j \in Slots(cs) : i[1] = j[1] => i = j
<1>1. Slots(cs) \subseteq Offers /\ \A i \in Slots(cs) : offer[i] = "none" /\ i[1] \in cs
  BY DEF Slots
<1>2. ASSUME NEW i \in Slots(cs), NEW j \in Slots(cs), i[1] = j[1] PROVE i = j
  <2>1. ~(j[2] < i[2]) /\ ~(i[2] < j[2])
    BY <1>1, <1>2 DEF Slots
  <2>2. i[2] \in Nat /\ j[2] \in Nat
    BY <1>1, OfferNames, MaxOffersAssumption
  <2> QED BY <1>1, <1>2, <2>1, <2>2, OfferNames
<1> QED BY <1>1, <1>2

-----------------------------------------------------------------------------
(* What a transaction does to the offers: lost ones end, won ones are      *)
(* accepted, new ones are made on order o.                                 *)

Moves(lost, won, new, o) ==
  /\ offer' \in [Offers -> OfferStates] /\ target' \in [Offers -> Orders \cup {None}]
  /\ \A i \in Offers :
       /\ i \in lost => offer[i] = "offered" /\ offer'[i] \in Ended
       /\ i \in won => offer[i] = "offered" /\ offer'[i] = "accepted"
       /\ i \in new => offer[i] = "none" /\ offer'[i] = "offered" /\ target'[i] = o
       /\ i \notin lost \cup won \cup new => offer'[i] = offer[i]
       /\ i \notin new => target'[i] = target[i]

\* The release rows it writes.
Releases(lost) ==
  /\ offerRelease' \in [Offers -> Posting]
  /\ \A i \in Offers :
       /\ offerRelease[i] # "none" \/ (i \in lost /\ i \in Platform(Offers)) => offerRelease'[i] # "none"
       /\ offerRelease'[i] # "none" => offerRelease[i] # "none" \/ i \in lost

\* Who enters the pool has no offer left; who gets a platform offer is not
\* in it, has no other offer and no goods.
Pool(new) ==
  /\ available' \in [Captains -> BOOLEAN]
  /\ \A c \in Captains :
       available'[c] => available[c] \/ \A j \in Offers \ new : j[1] = c => offer'[j] # "offered"
  /\ \A i \in new, j \in Offers :
       /\ i \in Platform(Offers)' => ~available'[i[1]]
       /\ j[1] = i[1] /\ j # i => offer'[j] # "offered"
       /\ j[1] = i[1] => assignment'[j] \notin Working

\* Offers stay named.
LEMMA NamedKept ==
  ASSUME IInv, NEW lost, NEW won, NEW new, NEW o,
         Moves(lost, won, new, o), Releases(lost), new # {} => o \in Orders,
         \A i \in Offers :
           /\ assignment'[i] # "none" <=> assignment[i] # "none" \/ i \in won
           /\ assignmentRelease'[i] = assignmentRelease[i] \/ assignment[i] # "none"
           /\ settlement'[i] = settlement[i] \/ assignment[i] # "none"
  PROVE  Named'
<1> SUFFICES ASSUME NEW i \in Offers
             PROVE  /\ offer'[i] = "none" <=> target'[i] = None
                    /\ offer'[i] = "accepted" <=> assignment'[i] # "none"
                    /\ offer'[i] = "none" => /\ offerRelease'[i] = "none"
                                             /\ assignmentRelease'[i] = "none"
                                             /\ settlement'[i] = "none"
  BY DEF Named
<1>1. /\ offer[i] = "none" <=> target[i] = None
      /\ offer[i] = "accepted" <=> assignment[i] # "none"
      /\ offer[i] = "none" => /\ offerRelease[i] = "none" /\ assignmentRelease[i] = "none"
                              /\ settlement[i] = "none"
  BY DEF IInv, Named
<1>2. /\ i \in lost => offer[i] = "offered" /\ offer'[i] \in Ended
      /\ i \in won => offer[i] = "offered" /\ offer'[i] = "accepted"
      /\ i \in new => offer[i] = "none" /\ offer'[i] = "offered" /\ target'[i] = o
      /\ i \notin lost \cup won \cup new => offer'[i] = offer[i]
      /\ i \notin new => target'[i] = target[i]
  BY DEF Moves
<1>3. offerRelease'[i] # "none" => offerRelease[i] # "none" \/ i \in lost
  BY DEF Releases
<1> QED BY <1>1, <1>2, <1>3, NoneAssumption DEF Ended

\* Offers claim their captains.
LEMMA ClaimsKept ==
  ASSUME IInv, NEW lost, NEW won, NEW new, NEW o,
         Moves(lost, won, new, o), Pool(new), \A i, j \in new : i[1] = j[1] => i = j,
         \A j \in Offers : assignment'[j] \in Working => assignment[j] \in Working \/ j \in won
  PROVE  OfferClaimsCaptain'
<1> SUFFICES ASSUME NEW i \in Offers, offer'[i] = "offered"
             PROVE  /\ \A j \in Offers : j[1] = i[1] /\ j # i =>
                         offer'[j] # "offered" /\ assignment'[j] \notin Working
                    /\ i \in Platform(Offers)' => ~available'[i[1]]
  BY DEF OfferClaimsCaptain
<1>1. i[1] \in Captains
  BY OfferNames
<1>2. CASE i \in new
  BY <1>2 DEF Pool
<1>3. CASE i \notin new
  <2>1. offer[i] = "offered" /\ i \notin won /\ target'[i] = target[i]
    BY <1>3 DEF Moves, Ended
  <2>2. /\ \A j \in Offers : j[1] = i[1] /\ j # i => offer[j] # "offered" /\ assignment[j] \notin Working
        /\ i \in Platform(Offers) => ~available[i[1]]
    BY <2>1 DEF IInv, OfferClaimsCaptain
  <2>3. i \in Platform(Offers)' => i \in Platform(Offers)
    BY <2>1 DEF Platform
  <2>4. i \in Platform(Offers)' => ~available'[i[1]]
    BY <1>1, <2>2, <2>3 DEF Pool
  <2>5. ASSUME NEW j \in Offers, j[1] = i[1], j # i
        PROVE  offer'[j] # "offered" /\ assignment'[j] \notin Working
    <3>1. offer[j] # "offered" /\ assignment[j] \notin Working
      BY <2>2, <2>5
    <3>2. j \notin won
      BY <3>1 DEF Moves
    <3>3. offer'[j] = "offered" => j \in new
      BY <3>1 DEF Moves, Ended
    <3>4. j \notin new
      BY <2>5 DEF Pool
    <3> QED BY <3>1, <3>2, <3>3, <3>4
  <2> QED BY <2>4, <2>5
<1> QED BY <1>2, <1>3

\* No open offer on a taken order.
LEMMA NoOfferKept ==
  ASSUME IInv, NEW lost, NEW won, NEW new, NEW o,
         Moves(lost, won, new, o), new # {} => order'[o] = "READY_FOR_DISPATCH",
         \A i \in Offers : offer[i] = "offered" /\ i \notin lost \cup won =>
                             order'[target[i]] = "READY_FOR_DISPATCH"
  PROVE  NoOfferOnTakenOrder'
  BY DEF Moves, Ended, NoOfferOnTakenOrder

\* One open offer on a store's order.
LEMMA StoreOfferKept ==
  ASSUME IInv, NEW lost, NEW won, NEW new, NEW o,
         Moves(lost, won, new, o),
         Mode[o] = "PARTNER_CAPTAIN" =>
           /\ \A i, j \in new : i = j
           /\ new # {} => \A i \in Offers : offer[i] = "offered" /\ i \notin lost \cup won => target[i] # o
  PROVE  OneStoreOffer'
<1> SUFFICES ASSUME NEW i \in Offers, NEW j \in Offers, offer'[i] = "offered", offer'[j] = "offered",
                    target'[i] = target'[j], Mode[target'[i]] = "PARTNER_CAPTAIN"
             PROVE  i = j
  BY DEF OneStoreOffer
<1>1. ASSUME NEW k \in Offers, offer'[k] = "offered", k \notin new
      PROVE  offer[k] = "offered" /\ k \notin lost \cup won /\ target'[k] = target[k]
  BY <1>1 DEF Moves, Ended
<1>2. \A k \in new : k \in Offers => target'[k] = o
  BY DEF Moves
<1>3. CASE i \in new /\ j \in new
  BY <1>2, <1>3
<1>4. CASE i \notin new /\ j \notin new
  BY <1>1, <1>4 DEF IInv, OneStoreOffer
<1>5. CASE i \in new /\ j \notin new
  BY <1>1, <1>2, <1>5
<1>6. CASE i \notin new /\ j \in new
  BY <1>1, <1>2, <1>6
<1> QED BY <1>3, <1>4, <1>5, <1>6

\* Releases stay owed, no more and no less.
LEMMA ReleasesKept ==
  ASSUME IInv, NEW lost, NEW won, NEW new, NEW o,
         Moves(lost, won, new, o), Releases(lost),
         \A i \in Offers :
           /\ i \in new => assignmentRelease'[i] = assignmentRelease[i] /\ assignment'[i] = assignment[i]
           /\ i \in Platform(Offers) /\ i \notin new =>
                (assignmentRelease'[i] # "none" <=> assignment'[i] = "reassigned")
  PROVE  ReleasesOwed'
<1> SUFFICES ASSUME NEW i \in Platform(Offers)'
             PROVE  /\ offerRelease'[i] # "none" <=> offer'[i] \in Ended
                    /\ assignmentRelease'[i] # "none" <=> assignment'[i] = "reassigned"
  BY DEF ReleasesOwed, Ended
<1>1. i \in Offers
  BY DEF Platform
<1>2. CASE i \in new
  <2>1. offer[i] = "none" /\ offer'[i] = "offered"
    BY <1>1, <1>2 DEF Moves
  <2>2. i \notin lost
    BY <1>1, <2>1 DEF Moves
  <2>3. offerRelease[i] = "none" /\ assignmentRelease[i] = "none" /\ assignment[i] = "none"
    BY <1>1, <2>1 DEF IInv, Named
  <2>4. offerRelease'[i] = "none"
    BY <1>1, <2>2, <2>3 DEF Releases
  <2> QED BY <1>1, <1>2, <2>1, <2>3, <2>4 DEF Ended
<1>3. CASE i \notin new
  <2>1. i \in Platform(Offers)
    BY <1>1, <1>3 DEF Moves, Platform
  <2>2. offerRelease[i] # "none" <=> offer[i] \in Ended
    BY <2>1 DEF IInv, ReleasesOwed, Ended
  <2>3. offer'[i] \in Ended <=> offer[i] \in Ended \/ i \in lost
    BY <1>1, <1>3 DEF Moves, Ended
  <2>4. offerRelease'[i] # "none" <=> offerRelease[i] # "none" \/ i \in lost
    BY <1>1, <2>1 DEF Releases
  <2> QED BY <1>1, <1>3, <2>1, <2>2, <2>3, <2>4
<1> QED BY <1>2, <1>3

\* Orders and assignments agree after a transaction that only moves offers.
LEMMA AgreesKept ==
  ASSUME IInv, NEW lost, NEW new, NEW o,
         Moves(lost, {}, new, o), UNCHANGED <<order, assignment, handoff>>
  PROVE  OrderAgreesWithAssignment' /\ OneLoad' /\ \A p \in Orders : Live(p)' = Live(p)
<1>1. ASSUME NEW p \in Orders PROVE Live(p)' = Live(p)
  <2>1. ASSUME NEW i \in Offers, assignment[i] # "none" PROVE target'[i] = target[i]
    <3>1. offer[i] # "none"
      BY <2>1 DEF IInv, Named
    <3> QED BY <3>1 DEF Moves
  <2>2. "none" \notin Working \cup {"delivered"}
    BY DEF Working, Active
  <2> QED BY <2>1, <2>2 DEF Live
<1>2. OrderAgreesWithAssignment'
  BY <1>1 DEF IInv, OrderAgreesWithAssignment
<1>3. OneLoad'
  BY DEF IInv, OneLoad
<1> QED BY <1>1, <1>2, <1>3

\* Settlements after a transaction that writes none.
LEMMA SettledKept ==
  ASSUME IInv, UNCHANGED <<payment, settlement>>,
         \A i \in Offers : settlement[i] # "none" => target'[i] = target[i] /\ assignment'[i] = assignment[i],
         \A o \in Orders : order'[o] = "DELIVERED" => order[o] = "DELIVERED"
  PROVE  SettledByDeliverer'
<1> SUFFICES ASSUME NEW o \in Orders
             PROVE  LET rows == {i \in Offers : target'[i] = o /\ settlement'[i] # "none"}
                    IN  /\ Cardinality(rows) <= 1
                        /\ \A i \in rows : assignment'[i] = "delivered"
                        /\ Mode[o] = "BTHWANI_CAPTAIN" /\ order'[o] = "DELIVERED" => rows # {}
                        /\ payment'[o] = "COLLECTED" <=> \E i \in rows : settlement'[i] = "POSTED"
  BY DEF SettledByDeliverer
<1> DEFINE rows == {i \in Offers : target[i] = o /\ settlement[i] # "none"}
<1>1. /\ Cardinality(rows) <= 1
      /\ \A i \in rows : assignment[i] = "delivered"
      /\ Mode[o] = "BTHWANI_CAPTAIN" /\ order[o] = "DELIVERED" => rows # {}
      /\ payment[o] = "COLLECTED" <=> \E i \in rows : settlement[i] = "POSTED"
  BY DEF IInv, SettledByDeliverer
<1>2. {i \in Offers : target'[i] = o /\ settlement'[i] # "none"} = rows
  OBVIOUS
<1>3. \A i \in rows : assignment'[i] = assignment[i]
  OBVIOUS
<1> HIDE DEF rows
<1> QED BY <1>1, <1>2, <1>3

-----------------------------------------------------------------------------
(* The transactions that only move offers. *)

\* Such a transaction preserves the invariant.
LEMMA OffersStep ==
  ASSUME IInv, NEW lost, NEW new, NEW o,
         Moves(lost, {}, new, o), Releases(lost), Pool(new), \A i, j \in new : i[1] = j[1] => i = j,
         UNCHANGED <<order, payment, assignment, handoff, assignmentRelease, settlement>>,
         overdue' \subseteq Offers, admission' \in [Captains -> {"eligible", "suspended"}],
         new \subseteq Offers, new # {} => o \in Orders /\ order[o] = "READY_FOR_DISPATCH",
         Mode[o] = "PARTNER_CAPTAIN" =>
           /\ \A i, j \in new : i = j
           /\ new # {} => \A i \in Offers : offer[i] = "offered" /\ i \notin lost => target[i] # o
  PROVE  IInv'
<1>1. TypeOK'
  BY DEF IInv, TypeOK, Moves, Releases, Pool, OfferStates
<1>2. Named'
  BY NamedKept
<1>3. OfferClaimsCaptain'
  BY ClaimsKept
<1>4. NoOfferOnTakenOrder'
  <2>1. \A i \in Offers : offer[i] = "offered" => order'[target[i]] = "READY_FOR_DISPATCH"
    BY DEF IInv, NoOfferOnTakenOrder
  <2> QED BY <2>1, NoOfferKept
<1>5. OneStoreOffer'
  BY StoreOfferKept
<1>6. ReleasesOwed'
  <2>1. \A i \in Platform(Offers) : assignmentRelease[i] # "none" <=> assignment[i] = "reassigned"
    BY DEF IInv, ReleasesOwed
  <2> QED BY <2>1, ReleasesKept
<1>7. OrderAgreesWithAssignment' /\ OneLoad'
  BY AgreesKept
<1>8. SettledByDeliverer'
  <2>1. \A i \in Offers : settlement[i] # "none" => target'[i] = target[i]
    BY DEF Moves, IInv, Named
  <2> QED BY <2>1, SettledKept
<1> QED BY <1>1, <1>2, <1>3, <1>4, <1>5, <1>6, <1>7, <1>8 DEF IInv

\* A batch of offers to the captains cs, when the offers of lost have ended
\* earlier in the transaction.
LEMMA BatchMoves ==
  ASSUME IInv, NEW o \in Orders, NEW cs \in SUBSET Captains, NEW lost,
         NEW of \in [Offers -> OfferStates], NEW av \in [Captains -> BOOLEAN],
         DispatchCandidates(o, cs, of, av, assignment'),
         \A i \in Offers : /\ i \in lost => offer[i] = "offered" /\ of[i] \in Ended
                           /\ i \notin lost => of[i] = offer[i],
         \A c \in Captains :
           av[c] => available[c] \/ \A j \in Offers : j[1] = c => of[j] # "offered"
  PROVE  Moves(lost, {}, Slots(cs), o) /\ Pool(Slots(cs))
<1> DEFINE new == Slots(cs)
<1>1. /\ new \subseteq Offers /\ \A i \in new : offer[i] = "none" /\ i[1] \in cs
      /\ \A i, j \in new : i[1] = j[1] => i = j
  BY NextOffers
<1>2. /\ offer' = Marked(of, new, "offered") /\ target' = Marked(target, new, o)
      /\ available' = [c \in Captains |-> av[c] /\ c \notin cs]
      /\ \A c \in cs : ~Busy(c, of, assignment')
  BY DEF DispatchCandidates
<1> HIDE DEF new
<1>3. target \in [Offers -> Orders \cup {None}]
  BY DEF IInv, TypeOK
<1>4. \A i \in Offers : offer'[i] = IF i \in new THEN "offered" ELSE of[i]
  BY <1>2 DEF Marked
<1>5. Moves(lost, {}, new, o)
  <2>1. offer' \in [Offers -> OfferStates]
    BY <1>2 DEF Marked, OfferStates
  <2>2. /\ target' \in [Offers -> Orders \cup {None}]
        /\ \A i \in Offers : target'[i] = IF i \in new THEN o ELSE target[i]
    BY <1>2, <1>3 DEF Marked
  <2>3. \A i \in lost : i \in Offers => i \notin new
    BY <1>1
  <2> QED BY <1>1, <1>4, <2>1, <2>2, <2>3 DEF Moves
<1>6. \A i \in new, j \in Offers : j[1] = i[1] => of[j] # "offered" /\ assignment'[j] \notin Working
  BY <1>1, <1>2 DEF Busy
<1>7. Pool(new)
  <2>1. available' \in [Captains -> BOOLEAN]
    BY <1>2
  <2>2. ASSUME NEW c \in Captains, available'[c]
        PROVE  available[c] \/ \A j \in Offers \ new : j[1] = c => offer'[j] # "offered"
    BY <1>2, <1>4, <2>2
  <2>3. ASSUME NEW i \in new, NEW j \in Offers
        PROVE  /\ ~available'[i[1]]
               /\ j[1] = i[1] /\ j # i => offer'[j] # "offered"
    BY <1>1, <1>2, <1>4, <1>6, OfferNames
  <2> QED BY <1>6, <2>1, <2>2, <2>3 DEF Pool
<1> QED BY <1>5, <1>7 DEF new

\* The release rows of an expiry alone.
LEMMA ExpiryReleases ==
  ASSUME IInv, NEW cs \in SUBSET Captains, offerRelease' = CanonicalRelease(cs)
  PROVE  Releases(Lapsed(cs))
<1>1. /\ Lapsed(cs) \subseteq Offers
      /\ CanonicalRelease(cs) \in [Offers -> Posting]
      /\ \A i \in Offers :
           CanonicalRelease(cs)[i] # "none" <=> offerRelease[i] # "none" \/ i \in Platform(Lapsed(cs))
  BY Expiry
<1>2. \A i \in Offers : i \in Platform(Lapsed(cs)) <=> i \in Lapsed(cs) /\ i \in Platform(Offers)
  BY <1>1 DEF Platform
<1> QED BY <1>1, <1>2 DEF Releases

\* Rows enqueued for the offers of lost after an expiry.
LEMMA LaterReleases ==
  ASSUME IInv, NEW cs \in SUBSET Captains, NEW lost \in SUBSET Offers,
         \A i \in lost : offer[i] = "offered",
         \/ offerRelease' = Enqueued(CanonicalRelease(cs), Owing(lost))
         \/ offerRelease' = Enqueued(CanonicalRelease(cs), Platform(Owing(lost)))
  PROVE  Releases(Lapsed(cs) \cup lost)
<1>1. /\ Lapsed(cs) \subseteq Offers
      /\ CanonicalRelease(cs) \in [Offers -> Posting]
      /\ \A i \in Offers :
           CanonicalRelease(cs)[i] # "none" <=> offerRelease[i] # "none" \/ i \in Platform(Lapsed(cs))
  BY Expiry
<1>2. Owing(lost) = lost
  BY StandingOwes DEF Owing
<1>3. /\ offerRelease' \in [Offers -> Posting]
      /\ \A i \in Offers :
           /\ CanonicalRelease(cs)[i] # "none" \/ i \in Platform(lost) => offerRelease'[i] # "none"
           /\ offerRelease'[i] # "none" => CanonicalRelease(cs)[i] # "none" \/ i \in lost
  <2>1. PICK S : offerRelease' = Enqueued(CanonicalRelease(cs), S) /\ (S = lost \/ S = Platform(lost))
    BY <1>2
  <2>2. Platform(lost) \subseteq lost
    BY DEF Platform
  <2> QED BY <1>1, <2>1, <2>2 DEF Enqueued, Posting
<1>4. \A i \in Offers : /\ i \in Platform(Lapsed(cs)) <=> i \in Lapsed(cs) /\ i \in Platform(Offers)
                        /\ i \in Platform(lost) <=> i \in lost /\ i \in Platform(Offers)
  BY <1>1 DEF Platform
<1> QED BY <1>1, <1>3, <1>4 DEF Releases

\* The expiry committed alone.
LEMMA CanonicalizeStep ==
  ASSUME IInv, NEW cs \in SUBSET Captains, CanonicalizeCaptainOffers(cs)
  PROVE  IInv'
<1>1. /\ offer' = CanonicalOffer(cs) /\ available' = CanonicalAvailable(cs)
      /\ offerRelease' = CanonicalRelease(cs)
      /\ UNCHANGED <<order, payment, target, overdue, assignment, handoff, admission,
                     assignmentRelease, settlement>>
  BY DEF CanonicalizeCaptainOffers
<1>2. Releases(Lapsed(cs))
  BY <1>1, ExpiryReleases
<1>3. Moves(Lapsed(cs), {}, {}, None)
  BY <1>1, Expiry DEF Moves, Ended, IInv, TypeOK
<1>4. Pool({})
  BY <1>1, Expiry DEF Pool
<1> QED BY <1>1, <1>2, <1>3, <1>4, OffersStep DEF IInv, TypeOK

\* A batch of platform offers.
LEMMA CreateStep ==
  ASSUME IInv, NEW o \in Orders, NEW cs \in SUBSET Captains, CreateCaptainDispatchOffer(o, cs)
  PROVE  IInv'
<1>1. /\ order[o] = "READY_FOR_DISPATCH" /\ Mode[o] = "BTHWANI_CAPTAIN"
      /\ DispatchCandidates(o, cs, CanonicalOffer(Captains), CanonicalAvailable(Captains), assignment)
      /\ offerRelease' = CanonicalRelease(Captains)
      /\ UNCHANGED <<order, payment, overdue, assignment, handoff, admission,
                     assignmentRelease, settlement>>
  BY DEF CreateCaptainDispatchOffer, CanOffer, Dispatchable
<1>2. Releases(Lapsed(Captains))
  BY <1>1, ExpiryReleases
<1>3. Moves(Lapsed(Captains), {}, Slots(cs), o) /\ Pool(Slots(cs))
  <2>1. /\ CanonicalOffer(Captains) \in [Offers -> OfferStates]
        /\ CanonicalAvailable(Captains) \in [Captains -> BOOLEAN]
        /\ \A i \in Offers :
             /\ i \in Lapsed(Captains) => offer[i] = "offered" /\ CanonicalOffer(Captains)[i] \in Ended
             /\ i \notin Lapsed(Captains) => CanonicalOffer(Captains)[i] = offer[i]
        /\ \A c \in Captains : CanonicalAvailable(Captains)[c] =>
             available[c] \/ \A j \in Offers : j[1] = c => CanonicalOffer(Captains)[j] # "offered"
    BY Expiry DEF Ended
  <2>2. DispatchCandidates(o, cs, CanonicalOffer(Captains), CanonicalAvailable(Captains), assignment')
    BY <1>1
  <2> QED BY <2>1, <2>2, BatchMoves
<1> QED BY <1>1, <1>2, <1>3, NextOffers, OffersStep DEF IInv, TypeOK

\* The offer of a store to its captain.
LEMMA CreateStoreStep ==
  ASSUME IInv, NEW o \in Orders, NEW c \in Captains, CreateStoreCaptainDispatchOffer(o, c)
  PROVE  IInv'
<1> DEFINE new == Slots({c})
<1>0. {c} \in SUBSET Captains
  OBVIOUS
<1>1. /\ order[o] = "READY_FOR_DISPATCH" /\ Mode[o] = "PARTNER_CAPTAIN"
      /\ OpenOn(o, CanonicalOffer({c})) = {} /\ ~Busy(c, CanonicalOffer({c}), assignment)
      /\ offer' = Marked(CanonicalOffer({c}), new, "offered")
      /\ target' = Marked(target, new, o)
      /\ available' = CanonicalAvailable({c})
      /\ offerRelease' = CanonicalRelease({c})
      /\ UNCHANGED <<order, payment, overdue, assignment, handoff, admission,
                     assignmentRelease, settlement>>
  BY DEF CreateStoreCaptainDispatchOffer
<1>2. Releases(Lapsed({c}))
  BY <1>0, <1>1, ExpiryReleases
<1>3. /\ new \subseteq Offers /\ \A i \in new : offer[i] = "none" /\ i[1] = c
      /\ \A i, j \in new : i = j
  <2>1. /\ new \subseteq Offers /\ \A i \in new : offer[i] = "none" /\ i[1] \in {c}
        /\ \A i, j \in new : i[1] = j[1] => i = j
    BY NextOffers
  <2> QED BY <2>1
<1>e. /\ \A i \in Lapsed({c}) : offer[i] = "offered"
      /\ CanonicalOffer({c}) \in [Offers -> OfferStates]
      /\ \A i \in Offers : CanonicalOffer({c})[i] = IF i \in Lapsed({c}) THEN "expired" ELSE offer[i]
  BY <1>0, Expiry
<1>f. CanonicalAvailable({c}) \in [Captains -> BOOLEAN]
  BY <1>0, Expiry
<1>g. ASSUME NEW d \in Captains, CanonicalAvailable({c})[d]
      PROVE  available[d] \/ \A j \in Offers : j[1] = d => CanonicalOffer({c})[j] # "offered"
  BY <1>0, <1>g, Expiry, Zenon
<1> HIDE DEF new
<1>4. \A i \in Offers : offer'[i] = IF i \in new THEN "offered" ELSE CanonicalOffer({c})[i]
  BY <1>1 DEF Marked
<1>5. Moves(Lapsed({c}), {}, new, o)
  <2>1. offer' \in [Offers -> OfferStates]
    BY <1>1, <1>e DEF Marked, OfferStates
  <2>2. /\ target' \in [Offers -> Orders \cup {None}]
        /\ \A i \in Offers : target'[i] = IF i \in new THEN o ELSE target[i]
    BY <1>1 DEF Marked, IInv, TypeOK
  <2> QED BY <1>3, <1>4, <1>e, <2>1, <2>2 DEF Moves, Ended
<1>6. \A j \in Offers : j[1] = c => CanonicalOffer({c})[j] # "offered" /\ assignment[j] \notin Working
  BY <1>1 DEF Busy
<1>7. Pool(new)
  <2>1. \A i \in new : i \notin Platform(Offers)'
    BY <1>1, <1>3, <1>5 DEF Moves, Platform
  <2>2. \A i \in new, j \in Offers : j[1] = i[1] =>
          /\ j # i => offer'[j] # "offered"
          /\ assignment'[j] \notin Working
    BY <1>1, <1>3, <1>4, <1>6
  <2>3. \A d \in Captains : available'[d] =>
          available[d] \/ \A j \in Offers \ new : j[1] = d => offer'[j] # "offered"
    BY <1>1, <1>4, <1>g
  <2> QED BY <1>1, <1>f, <2>1, <2>2, <2>3 DEF Pool
<1>8. \A i \in Offers : offer[i] = "offered" /\ i \notin Lapsed({c}) => target[i] # o
  BY <1>1, <1>e DEF OpenOn
<1>9. \A i, j \in new : i[1] = j[1] => i = j
  BY <1>3
<1> QED BY <1>1, <1>2, <1>3, <1>5, <1>7, <1>8, <1>9, OffersStep DEF IInv, TypeOK

\* A refusal.
LEMMA RejectStep ==
  ASSUME IInv, NEW i \in Offers, RejectCaptainOffer(i)
  PROVE  IInv'
<1> DEFINE of == Marked(CanonicalOffer(Captains), {i}, "rejected")
           lost == Lapsed(Captains) \cup {i}
<1>1. /\ CanonicalOffer(Captains)[i] = "offered" /\ offer' = of
      /\ available' = Restored(CanonicalAvailable(Captains), CaptainsOf(Platform({i})), of, assignment)
      /\ offerRelease' = Enqueued(CanonicalRelease(Captains), Platform(Owing({i})))
      /\ UNCHANGED <<order, payment, target, overdue, assignment, handoff, admission,
                     assignmentRelease, settlement>>
  BY DEF RejectCaptainOffer
<1>2. offer[i] = "offered" /\ i \notin Lapsed(Captains)
  BY <1>1, Expiry
<1>3. Releases(lost)
  BY <1>1, <1>2, LaterReleases
<1>4. Moves(lost, {}, {}, None)
  BY <1>1, <1>2, Expiry DEF Moves, Ended, IInv, TypeOK, Marked, OfferStates
<1>5. Pool({})
  <2>1. /\ available' \in [Captains -> BOOLEAN]
        /\ \A c \in Captains :
             available'[c] => CanonicalAvailable(Captains)[c] \/ ~Busy(c, offer', assignment)
    BY <1>1, Expiry DEF Restored
  <2>2. \A j \in Offers : offer'[j] = "offered" => CanonicalOffer(Captains)[j] = "offered"
    BY <1>1 DEF Marked
  <2> QED BY <2>1, <2>2, Expiry DEF Pool, Busy
<1> QED BY <1>1, <1>3, <1>4, <1>5, OffersStep DEF IInv, TypeOK

\* The next batch, when the last one is superseded.
LEMMA RedispatchStep ==
  ASSUME IInv, NEW o \in Orders, NEW cs \in SUBSET Captains, RedispatchOrder(o, cs)
  PROVE  IInv'
<1> DEFINE open == OpenOn(o, CanonicalOffer(Captains))
           of == Marked(CanonicalOffer(Captains), open, "superseded")
           av == Restored(CanonicalAvailable(Captains), CaptainsOf(open), of, assignment)
           lost == Lapsed(Captains) \cup open
<1>1. /\ order[o] = "READY_FOR_DISPATCH" /\ Mode[o] = "BTHWANI_CAPTAIN"
      /\ DispatchCandidates(o, cs, of, av, assignment)
      /\ offerRelease' = Enqueued(CanonicalRelease(Captains), Owing(open))
      /\ UNCHANGED <<order, payment, overdue, assignment, handoff, admission,
                     assignmentRelease, settlement>>
  BY DEF RedispatchOrder
<1>2. open \subseteq Offers /\ \A i \in open : offer[i] = "offered" /\ i \notin Lapsed(Captains)
  BY Expiry DEF OpenOn
<1>3. Releases(lost)
  BY <1>1, <1>2, LaterReleases
<1>4. /\ of \in [Offers -> OfferStates] /\ av \in [Captains -> BOOLEAN]
      /\ \A i \in Offers : /\ i \in lost => offer[i] = "offered" /\ of[i] \in Ended
                           /\ i \notin lost => of[i] = offer[i]
  BY <1>2, Expiry DEF Marked, Restored, Ended, OfferStates
<1>5. \A j \in Offers : of[j] = "offered" => CanonicalOffer(Captains)[j] = "offered"
  BY DEF Marked
<1>6. \A c \in Captains : av[c] => available[c] \/ \A j \in Offers : j[1] = c => of[j] # "offered"
  BY <1>5, Expiry DEF Restored, Busy
<1> HIDE DEF open, of, av
<1>7. Moves(lost, {}, Slots(cs), o) /\ Pool(Slots(cs))
  BY <1>1, <1>4, <1>6, BatchMoves
<1> QED BY <1>1, <1>3, <1>7, NextOffers, OffersStep DEF IInv, TypeOK

\* A captain goes on or off duty.
LEMMA AvailabilityStep ==
  ASSUME IInv, NEW c \in Captains, NEW wanted \in BOOLEAN, SetCaptainAvailability(c, wanted)
  PROVE  IInv'
<1>0. {c} \in SUBSET Captains
  OBVIOUS
<1>1. /\ wanted => ~Busy(c, CanonicalOffer({c}), assignment)
      /\ offer' = CanonicalOffer({c}) /\ available' = [available EXCEPT ![c] = wanted]
      /\ offerRelease' = CanonicalRelease({c})
      /\ UNCHANGED <<order, payment, target, overdue, assignment, handoff, admission,
                     assignmentRelease, settlement>>
  BY DEF SetCaptainAvailability
<1>2. Releases(Lapsed({c}))
  BY <1>0, <1>1, ExpiryReleases
<1>3. Moves(Lapsed({c}), {}, {}, None)
  BY <1>0, <1>1, Expiry DEF Moves, Ended, IInv, TypeOK
<1>4. Pool({})
  BY <1>1 DEF Pool, Busy, IInv, TypeOK
<1> QED BY <1>1, <1>2, <1>3, <1>4, OffersStep DEF IInv, TypeOK

\* A captain is readmitted.
LEMMA ReadmissionStep ==
  ASSUME IInv, NEW c \in Captains, RestoreCaptainAdmission(c)
  PROVE  IInv'
<1>0. {c} \in SUBSET Captains
  OBVIOUS
<1>1. /\ offer' = CanonicalOffer({c}) /\ available' = [available EXCEPT ![c] = FALSE]
      /\ admission' = [admission EXCEPT ![c] = "eligible"]
      /\ offerRelease' = CanonicalRelease({c})
      /\ UNCHANGED <<order, payment, target, overdue, assignment, handoff,
                     assignmentRelease, settlement>>
  BY DEF RestoreCaptainAdmission
<1>2. Releases(Lapsed({c}))
  BY <1>0, <1>1, ExpiryReleases
<1>3. Moves(Lapsed({c}), {}, {}, None)
  BY <1>0, <1>1, Expiry DEF Moves, Ended, IInv, TypeOK
<1>4. Pool({})
  BY <1>1 DEF Pool, IInv, TypeOK
<1> QED BY <1>1, <1>2, <1>3, <1>4, OffersStep DEF IInv, TypeOK

\* An offer runs out of time.
LEMMA ElapseStep ==
  ASSUME IInv, NEW i \in Offers, Elapse(i)
  PROVE  IInv'
<1>1. /\ overdue' = overdue \cup {i}
      /\ UNCHANGED <<order, payment, target, offer, assignment, handoff, captainVars, outbox>>
  BY DEF Elapse
<1>2. Moves({}, {}, {}, None) /\ Releases({}) /\ Pool({})
  BY <1>1 DEF Moves, Releases, Pool, IInv, TypeOK, OfferStates, captainVars, outbox
<1> QED BY <1>1, <1>2, OffersStep DEF IInv, TypeOK, captainVars, outbox

-----------------------------------------------------------------------------
(* The transactions that move assignments. *)

\* A settlement belongs to a delivered assignment.
LEMMA SettledDelivered ==
  ASSUME IInv, NEW i \in Offers, settlement[i] # "none"
  PROVE  target[i] \in Orders /\ assignment[i] = "delivered"
<1>1. target[i] \in Orders
  BY NoneAssumption DEF IInv, TypeOK, Named
<1> DEFINE rows == {j \in Offers : target[j] = target[i] /\ settlement[j] # "none"}
<1>2. \A j \in rows : assignment[j] = "delivered"
  BY <1>1 DEF IInv, SettledByDeliverer
<1>3. i \in rows
  OBVIOUS
<1> QED BY <1>1, <1>2, <1>3

\* Acceptance.
LEMMA AcceptStep ==
  ASSUME IInv, NEW i \in Offers, AcceptCaptainOffer(i)
  PROVE  IInv'
<1> DEFINE losers == Losers(i)
           of == Marked(Marked(CanonicalOffer(Captains), losers, "superseded"), {i}, "accepted")
           as == Marked(assignment, {i}, "assigned")
           av == Restored(CanonicalAvailable(Captains), CaptainsOf(losers), of, as)
           lost == Lapsed(Captains) \cup losers
           t == target[i]
<1>1. /\ CanAccept(i) /\ offer' = of /\ assignment' = as
      /\ handoff' = Marked(handoff, {i}, "pending")
      /\ order' = [order EXCEPT ![t] = "CAPTAIN_ASSIGNED"]
      /\ available' = [c \in Captains |-> av[c] /\ c \notin CaptainsOf(Platform({i}))]
      /\ offerRelease' = Enqueued(CanonicalRelease(Captains), Owing(losers))
      /\ UNCHANGED <<payment, target, overdue, admission, assignmentRelease, settlement>>
  BY DEF AcceptCaptainOffer
<1>2. /\ CanonicalOffer(Captains)[i] = "offered" /\ order[t] = "READY_FOR_DISPATCH"
      /\ \A j \in Offers : j[1] = i[1] => assignment[j] \notin Working
  BY <1>1 DEF CanAccept
<1>3. /\ offer[i] = "offered" /\ i \notin Lapsed(Captains)
      /\ t \in Orders /\ t # None /\ assignment[i] = "none"
  BY <1>2, Expiry, TargetNamed, StandingOwes DEF IInv, Named
<1>4. losers \subseteq Offers /\ i \notin losers /\ \A j \in losers : offer[j] = "offered" /\ target[j] = t
  BY Expiry DEF Losers, OpenOn
<1>5. \A j \in Offers : offer[j] = "offered" /\ target[j] = t /\ j # i => j \in lost
  <2>1. CASE Platform({i}) # {}
    BY <2>1, Expiry DEF Losers, OpenOn
  <2>2. CASE Platform({i}) = {}
    <3>1. Mode[t] = "PARTNER_CAPTAIN"
      BY <1>3, <2>2, ModeAssumption DEF Platform, Modes
    <3> QED BY <1>3, <3>1 DEF IInv, OneStoreOffer
  <2> QED BY <2>1, <2>2
<1>6. Releases(lost)
  BY <1>1, <1>4, LaterReleases
<1> HIDE DEF losers
<1>7. Moves(lost, {i}, {}, None)
  <2>1. offer' \in [Offers -> OfferStates]
    BY <1>1, Expiry DEF Marked, OfferStates
  <2>2. \A j \in Offers : offer'[j] = IF j = i THEN "accepted" ELSE IF j \in losers THEN "superseded"
                                      ELSE CanonicalOffer(Captains)[j]
    BY <1>1 DEF Marked
  <2>3. \A j \in Offers : CanonicalOffer(Captains)[j] = IF j \in Lapsed(Captains) THEN "expired" ELSE offer[j]
    BY Expiry
  <2>4. \A j \in Lapsed(Captains) : offer[j] = "offered"
    BY Expiry
  <2>5. target' = target /\ target \in [Offers -> Orders \cup {None}]
    BY <1>1 DEF IInv, TypeOK
  <2>6. \A j \in Offers : j \in lost => offer[j] = "offered" /\ offer'[j] \in Ended
    BY <1>3, <1>4, <2>2, <2>3, <2>4 DEF Ended
  <2>7. \A j \in Offers : j \notin lost \cup {i} => offer'[j] = offer[j]
    BY <2>2, <2>3
  <2> QED BY <1>3, <2>1, <2>2, <2>5, <2>6, <2>7 DEF Moves
<1>8. \A j \in Offers : assignment'[j] = IF j = i THEN "assigned" ELSE assignment[j]
  BY <1>1 DEF Marked
<1>9. "assigned" \in Working /\ "none" \notin Working /\ "none" # "delivered"
  BY DEF Working, Active
<1>10. available' \in [Captains -> BOOLEAN]
  BY <1>1
<1>11. Pool({})
  <2>1. \A j \in Offers : offer'[j] = "offered" => CanonicalOffer(Captains)[j] = "offered"
    BY <1>1 DEF Marked
  <2>2. \A c \in Captains : available'[c] => CanonicalAvailable(Captains)[c] \/ ~Busy(c, offer', assignment')
    BY <1>1 DEF Restored
  <2> QED BY <1>10, <2>1, <2>2, Expiry DEF Pool, Busy
<1>12. TypeOK'
  <2>1. assignment' \in [Offers -> Working \cup {"none", "delivered", "reassigned"}]
    BY <1>1, <1>9 DEF Marked, IInv, TypeOK
  <2>2. handoff' \in [Offers -> {"none", "pending", "store_confirmed", "completed", "superseded"}]
    BY <1>1 DEF Marked, IInv, TypeOK
  <2>3. order' \in [Orders -> OrderStates]
    BY <1>1 DEF OrderStates, IInv, TypeOK
  <2> QED BY <1>1, <1>6, <1>7, <1>10, <2>1, <2>2, <2>3 DEF IInv, TypeOK, Moves, Releases, OfferStates
<1>13. Named'
  BY <1>1, <1>6, <1>7, <1>8, NamedKept
<1>14. OfferClaimsCaptain'
  BY <1>7, <1>8, <1>11, ClaimsKept
<1>15. NoOfferOnTakenOrder'
  <2>1. \A j \in Offers : offer[j] = "offered" /\ j \notin lost \cup {i} =>
          order'[target[j]] = "READY_FOR_DISPATCH"
    BY <1>1, <1>5, StandingOwes DEF IInv, TypeOK, NoOfferOnTakenOrder
  <2> QED BY <1>7, <2>1, NoOfferKept
<1>16. OneStoreOffer'
  BY <1>7, StoreOfferKept
<1>17. ReleasesOwed'
  <2>1. \A j \in Platform(Offers) : assignmentRelease[j] # "none" <=> assignment[j] = "reassigned"
    BY DEF IInv, ReleasesOwed
  <2>2. \A j \in Platform(Offers) : assignmentRelease'[j] # "none" <=> assignment'[j] = "reassigned"
    BY <1>1, <1>3, <1>8, <2>1 DEF Platform
  <2> QED BY <1>6, <1>7, <2>2, ReleasesKept
<1>18. OrderAgreesWithAssignment'
  <2>1. Live(t) = {} /\ \A p \in Orders : Live(p) \subseteq Offers
    BY <1>2, <1>3 DEF IInv, OrderAgreesWithAssignment, Live
  <2>3. \A p \in Orders : p # t => Live(p)' = Live(p)
    BY <1>1, <1>3, <1>8, <1>9 DEF Live
  <2>4. <<order'[t], assignment'[i], handoff'[i]>> = <<"CAPTAIN_ASSIGNED", "assigned", "pending">>
    BY <1>1, <1>3, <1>8 DEF Marked, IInv, TypeOK
  <2>5. ASSUME NEW p \in Orders, p # t
        PROVE  /\ order'[p] = order[p] /\ i \notin Live(p)
               /\ \A j \in Live(p) : assignment'[j] = assignment[j] /\ handoff'[j] = handoff[j]
    BY <1>1, <1>8, <2>5 DEF Live, Marked, IInv, TypeOK
  <2>6. ASSUME NEW p \in Orders
        PROVE  /\ order'[p] \in {"PREPARING", "READY_FOR_DISPATCH"} <=> Live(p)' = {}
               /\ \A j \in Live(p)' :
                  /\ Live(p)' = {j}
                  /\ <<order'[p], assignment'[j], handoff'[j]>> \in
                       {<<"CAPTAIN_ASSIGNED", "assigned", "pending">>,
                        <<"CAPTAIN_ASSIGNED", "assigned", "store_confirmed">>,
                        <<"IN_CUSTODY", "in_custody", "completed">>,
                        <<"DELIVERED", "delivered", "completed">>,
                        <<"DELIVERY_FAILED", "delivery_failed", "completed">>}
    <3>1. CASE p = t
      <4>1. Live(p) = {}
        BY <2>1, <3>1
      <4>2. Live(p)' = {i}
        BY <1>1, <1>8, <1>9, <3>1, <4>1 DEF Live
      <4> QED BY <2>4, <3>1, <4>2
    <3>2. CASE p # t
      BY <2>3, <2>5, <3>2 DEF IInv, OrderAgreesWithAssignment
    <3> QED BY <3>1, <3>2
  <2> QED BY <2>6 DEF OrderAgreesWithAssignment
<1>19. OneLoad'
  BY <1>2, <1>8 DEF IInv, OneLoad
<1>20. SettledByDeliverer'
  <2>1. \A j \in Offers : settlement[j] # "none" => j # i
    BY <1>3 DEF IInv, SettledByDeliverer
  <2>2. \A p \in Orders : order'[p] = "DELIVERED" => order[p] = "DELIVERED"
    BY <1>1, <1>3 DEF IInv, TypeOK
  <2> QED BY <1>1, <1>8, <2>1, <2>2, SettledKept
<1> QED BY <1>12, <1>13, <1>14, <1>15, <1>16, <1>17, <1>18, <1>19, <1>20 DEF IInv

\* Assignments taken back before pickup: the orders are up for dispatch again.
LEMMA TakenBack ==
  ASSUME IInv, NEW S \in SUBSET Offers, \A i \in S : assignment[i] = "assigned",
         assignment' = Marked(assignment, S, "reassigned"),
         handoff' = Marked(handoff, S, "superseded"),
         \A i \in Offers : assignment[i] # "none" => target'[i] = target[i],
         order' \in [Orders -> OrderStates],
         \A o \in Orders : order'[o] = IF \E i \in S : target[i] = o THEN "READY_FOR_DISPATCH" ELSE order[o]
  PROVE  /\ OrderAgreesWithAssignment' /\ OneLoad'
         /\ \A o \in Orders : Live(o)' = IF \E i \in S : target[i] = o THEN {} ELSE Live(o)
<1>1. \A j \in Offers : /\ assignment'[j] = IF j \in S THEN "reassigned" ELSE assignment[j]
                        /\ handoff'[j] = IF j \in S THEN "superseded" ELSE handoff[j]
  BY DEF Marked
<1>2. "assigned" \in Working /\ "none" \notin Working \cup {"delivered"}
      /\ "reassigned" \notin Working \cup {"delivered"}
  BY DEF Working, Active
<1>3. \A o \in Orders : Live(o)' = Live(o) \ S
  <2>1. \A o \in Orders, j \in Offers : j \in Live(o)' <=> j \in Live(o) /\ j \notin S
    BY <1>1, <1>2 DEF Live
  <2>2. \A o \in Orders : Live(o)' \subseteq Offers /\ Live(o) \subseteq Offers
    BY DEF Live
  <2> QED BY <2>1, <2>2
<1>4. ASSUME NEW o \in Orders, NEW i \in S, target[i] = o PROVE Live(o)' = {}
  <2>1. i \in Live(o)
    BY <1>2, <1>4 DEF Live
  <2>2. Live(o) = {i}
    BY <2>1 DEF IInv, OrderAgreesWithAssignment
  <2> QED BY <1>3, <1>4, <2>2
<1>5. ASSUME NEW o \in Orders, \A i \in S : target[i] # o PROVE Live(o)' = Live(o)
  BY <1>3, <1>5 DEF Live
<1>6. OrderAgreesWithAssignment'
  <2> SUFFICES ASSUME NEW o \in Orders
               PROVE  /\ order'[o] \in {"PREPARING", "READY_FOR_DISPATCH"} <=> Live(o)' = {}
                      /\ \A i \in Live(o)' :
                         /\ Live(o)' = {i}
                         /\ <<order'[o], assignment'[i], handoff'[i]>> \in
                              {<<"CAPTAIN_ASSIGNED", "assigned", "pending">>,
                               <<"CAPTAIN_ASSIGNED", "assigned", "store_confirmed">>,
                               <<"IN_CUSTODY", "in_custody", "completed">>,
                               <<"DELIVERED", "delivered", "completed">>,
                               <<"DELIVERY_FAILED", "delivery_failed", "completed">>}
    BY DEF OrderAgreesWithAssignment
  <2>1. CASE \E i \in S : target[i] = o
    BY <1>4, <2>1
  <2>2. CASE \A i \in S : target[i] # o
    <3>1. /\ Live(o)' = Live(o) /\ order'[o] = order[o]
          /\ \A i \in Live(o) : assignment'[i] = assignment[i] /\ handoff'[i] = handoff[i]
      BY <1>1, <1>5, <2>2 DEF Live
    <3> QED BY <3>1 DEF IInv, OrderAgreesWithAssignment
  <2> QED BY <2>1, <2>2
<1>7. OneLoad'
  BY <1>1, <1>2 DEF IInv, OneLoad
<1> QED BY <1>4, <1>5, <1>6, <1>7

\* The order is taken from its captain and offered anew.
LEMMA ReassignStep ==
  ASSUME IInv, NEW i \in Offers, NEW cs \in SUBSET Captains, ReassignCaptain(i, cs)
  PROVE  IInv'
<1> DEFINE o == target[i]
           open == OpenOn(o, CanonicalOffer(Captains))
           of == Marked(CanonicalOffer(Captains), open, "superseded")
           as == Marked(assignment, {i}, "reassigned")
           av == Restored(CanonicalAvailable(Captains), CaptainsOf(open) \cup {i[1]}, of, as)
           lost == Lapsed(Captains) \cup open
           new == Slots(cs)
<1>1. /\ CanReassign(i) /\ DispatchCandidates(o, cs, of, av, as)
      /\ assignment' = as /\ handoff' = Marked(handoff, {i}, "superseded")
      /\ order' = [order EXCEPT ![o] = "READY_FOR_DISPATCH"]
      /\ offerRelease' = Enqueued(CanonicalRelease(Captains), Owing(open))
      /\ assignmentRelease' = Enqueued(assignmentRelease, {i})
      /\ UNCHANGED <<payment, overdue, admission, settlement>>
  BY DEF ReassignCaptain
<1>2. /\ assignment[i] = "assigned" /\ Mode[o] = "BTHWANI_CAPTAIN" /\ o \in Orders
      /\ order[o] = "CAPTAIN_ASSIGNED" /\ offer[i] = "accepted"
  BY <1>1, LiveAgrees DEF CanReassign, Working, Active, IInv, Named
<1>3. open \subseteq Offers /\ \A j \in open : offer[j] = "offered" /\ j \notin Lapsed(Captains)
  BY Expiry DEF OpenOn
<1>4. Releases(lost)
  BY <1>1, <1>3, LaterReleases
<1>5. /\ of \in [Offers -> OfferStates] /\ av \in [Captains -> BOOLEAN]
      /\ \A j \in Offers : /\ j \in lost => offer[j] = "offered" /\ of[j] \in Ended
                           /\ j \notin lost => of[j] = offer[j]
  BY <1>3, Expiry DEF Marked, Restored, Ended, OfferStates
<1>6. \A j \in Offers : of[j] = "offered" => CanonicalOffer(Captains)[j] = "offered"
  BY DEF Marked
<1>7. \A c \in Captains : av[c] => available[c] \/ \A j \in Offers : j[1] = c => of[j] # "offered"
  BY <1>6, Expiry DEF Restored, Busy
<1>8. \A j \in Offers : assignment'[j] = IF j = i THEN "reassigned" ELSE assignment[j]
  BY <1>1 DEF Marked
<1>9. "reassigned" \notin Working /\ "assigned" \in Working
  BY DEF Working, Active
<1>10. DispatchCandidates(o, cs, of, av, assignment')
  BY <1>1
<1> HIDE DEF open, of, av, lost
<1>11. Moves(lost, {}, new, o) /\ Pool(new)
  <2> HIDE DEF o
  <2> QED BY <1>2, <1>5, <1>7, <1>10, BatchMoves
<1>12. /\ new \subseteq Offers /\ \A j \in new : offer[j] = "none"
       /\ \A j, k \in new : j[1] = k[1] => j = k
  BY NextOffers
<1> HIDE DEF new, lost
<1>13. \A j \in Offers : assignment[j] # "none" => target'[j] = target[j] /\ j \notin new
  BY <1>11, <1>12 DEF Moves, IInv, Named
<1>14. order' \in [Orders -> OrderStates]
  BY <1>1 DEF OrderStates, IInv, TypeOK
<1>15. /\ assignmentRelease' \in [Offers -> Posting]
       /\ \A j \in Offers : /\ j # i => assignmentRelease'[j] = assignmentRelease[j]
                            /\ assignmentRelease'[i] # "none"
  BY <1>1 DEF Enqueued, Posting, IInv, TypeOK
<1>16. TypeOK'
  <2>1. assignment' \in [Offers -> Working \cup {"none", "delivered", "reassigned"}]
    BY <1>1 DEF Marked, IInv, TypeOK
  <2>2. handoff' \in [Offers -> {"none", "pending", "store_confirmed", "completed", "superseded"}]
    BY <1>1 DEF Marked, IInv, TypeOK
  <2> QED BY <1>1, <1>4, <1>11, <1>14, <1>15, <2>1, <2>2
          DEF IInv, TypeOK, Moves, Releases, Pool, OfferStates
<1>17. Named'
  BY <1>1, <1>2, <1>4, <1>8, <1>11, <1>15, NamedKept
<1>18. OfferClaimsCaptain'
  BY <1>8, <1>9, <1>11, <1>12, ClaimsKept
<1>19. NoOfferOnTakenOrder'
  <2>1. \A j \in Offers : offer[j] = "offered" => order'[target[j]] = "READY_FOR_DISPATCH"
    BY <1>1, <1>2, StandingOwes DEF IInv, TypeOK, NoOfferOnTakenOrder
  <2>2. order'[o] = "READY_FOR_DISPATCH"
    BY <1>1, <1>2 DEF IInv, TypeOK
  <2> QED BY <1>11, <2>1, <2>2, NoOfferKept
<1>20. OneStoreOffer'
  BY <1>2, <1>11, StoreOfferKept
<1>21. ReleasesOwed'
  <2>1. \A j \in Platform(Offers) : assignmentRelease[j] # "none" <=> assignment[j] = "reassigned"
    BY DEF IInv, ReleasesOwed
  <2>2. \A j \in Platform(Offers) : assignmentRelease'[j] # "none" <=> assignment'[j] = "reassigned"
    BY <1>8, <1>15, <2>1 DEF Platform
  <2>3. i \notin new
    BY <1>2, <1>12
  <2> QED BY <1>4, <1>8, <1>11, <1>15, <2>2, <2>3, ReleasesKept
<1>22. OrderAgreesWithAssignment' /\ OneLoad'
  <2>1. \A p \in Orders : order'[p] = IF \E j \in {i} : target[j] = p THEN "READY_FOR_DISPATCH" ELSE order[p]
    BY <1>1, <1>2 DEF IInv, TypeOK
  <2> QED BY <1>1, <1>2, <1>13, <1>14, <2>1, TakenBack
<1>23. SettledByDeliverer'
  <2>1. \A j \in Offers : settlement[j] # "none" => j # i /\ target'[j] = target[j]
    <3> SUFFICES ASSUME NEW j \in Offers, settlement[j] # "none"
                 PROVE  j # i /\ target'[j] = target[j]
      OBVIOUS
    <3>2. assignment[j] = "delivered"
      BY SettledDelivered
    <3> QED BY <1>2, <1>13, <3>2
  <2>2. \A p \in Orders : order'[p] = "DELIVERED" => order[p] = "DELIVERED"
    BY <1>1, <1>2 DEF IInv, TypeOK
  <2> QED BY <1>1, <1>8, <2>1, <2>2, SettledKept
<1> QED BY <1>16, <1>17, <1>18, <1>19, <1>20, <1>21, <1>22, <1>23 DEF IInv

\* Suspension takes back what the captain has not picked up.
LEMMA SuspendStep ==
  ASSUME IInv, NEW c \in Captains, NEW seen \in SUBSET {i \in Offers : i[1] = c},
         SuspendCaptainAdmission(c, seen)
  PROVE  IInv'
<1> DEFINE held == {i \in Offers : i[1] = c /\ assignment[i] = "assigned"}
           lost == Lapsed({c}) \cup seen
<1>0. {c} \in SUBSET Captains
  OBVIOUS
<1>1. /\ \A i \in seen : CanonicalOffer({c})[i] = "offered"
      /\ offer' = Marked(CanonicalOffer({c}), seen, "superseded")
      /\ assignment' = Marked(assignment, held, "reassigned")
      /\ handoff' = Marked(handoff, held, "superseded")
      /\ order' = [o \in Orders |-> IF order[o] = "CAPTAIN_ASSIGNED" /\ \E i \in held : target[i] = o
                                    THEN "READY_FOR_DISPATCH" ELSE order[o]]
      /\ offerRelease' = Enqueued(CanonicalRelease({c}), Owing(seen))
      /\ assignmentRelease' = Enqueued(assignmentRelease, Owing(held))
      /\ admission' = [admission EXCEPT ![c] = "suspended"]
      /\ available' = [available EXCEPT ![c] = FALSE]
      /\ UNCHANGED <<payment, target, overdue, settlement>>
  <2>1. held = {i \in {i \in Offers : i[1] = c} : assignment[i] = "assigned"}
    OBVIOUS
  <2> HIDE DEF held
  <2> QED BY <2>1 DEF SuspendCaptainAdmission
<1>2. held \subseteq Offers /\ \A i \in held : assignment[i] = "assigned"
  OBVIOUS
<1> HIDE DEF held
<1>3. \A i \in held : target[i] \in Orders /\ target[i] # None /\ order[target[i]] = "CAPTAIN_ASSIGNED"
  <2> SUFFICES ASSUME NEW i \in held
               PROVE  target[i] \in Orders /\ target[i] # None /\ order[target[i]] = "CAPTAIN_ASSIGNED"
    OBVIOUS
  <2>1. i \in Offers /\ assignment[i] = "assigned" /\ assignment[i] \in Working \cup {"delivered"}
    BY <1>2 DEF Working, Active
  <2>2. target[i] \in Orders /\ order[target[i]] = "CAPTAIN_ASSIGNED"
    BY <2>1, LiveAgrees
  <2> QED BY <2>2, NoneAssumption
<1>4. Owing(held) = held
  BY <1>2, <1>3, Unpaid DEF Owing
<1>5. /\ \A i \in Lapsed({c}) : offer[i] = "offered"
      /\ CanonicalOffer({c}) \in [Offers -> OfferStates]
      /\ \A i \in Offers : CanonicalOffer({c})[i] = IF i \in Lapsed({c}) THEN "expired" ELSE offer[i]
  BY <1>0, Expiry
<1>6. seen \in SUBSET Offers /\ \A i \in seen : offer[i] = "offered"
  BY <1>1, <1>5
<1>7. Releases(lost)
  BY <1>0, <1>1, <1>6, LaterReleases
<1>8. Moves(lost, {}, {}, None)
  <2>1. offer' \in [Offers -> OfferStates]
    BY <1>1, <1>5 DEF Marked, OfferStates
  <2>2. \A i \in Offers : offer'[i] = IF i \in seen THEN "superseded" ELSE CanonicalOffer({c})[i]
    BY <1>1 DEF Marked
  <2>3. \A i \in Offers : i \in lost => offer[i] = "offered" /\ offer'[i] \in Ended
    BY <1>5, <1>6, <2>2 DEF Ended
  <2>4. \A i \in Offers : i \notin lost => offer'[i] = offer[i]
    BY <1>5, <2>2
  <2>5. target' = target /\ target \in [Offers -> Orders \cup {None}]
    BY <1>1 DEF IInv, TypeOK
  <2> QED BY <2>1, <2>3, <2>4, <2>5 DEF Moves
<1> HIDE DEF lost
<1>9. Pool({})
  BY <1>1 DEF Pool, IInv, TypeOK
<1>10. \A i \in Offers : assignment'[i] = IF i \in held THEN "reassigned" ELSE assignment[i]
  BY <1>1 DEF Marked
<1>11. /\ order' \in [Orders -> OrderStates]
       /\ \A o \in Orders :
            order'[o] = IF \E i \in held : target[i] = o THEN "READY_FOR_DISPATCH" ELSE order[o]
  BY <1>1, <1>3 DEF OrderStates, IInv, TypeOK
<1>12. /\ assignmentRelease' \in [Offers -> Posting]
       /\ \A i \in Offers : /\ i \notin held => assignmentRelease'[i] = assignmentRelease[i]
                            /\ i \in held => assignmentRelease'[i] # "none"
  BY <1>1, <1>4 DEF Enqueued, Posting, IInv, TypeOK
<1>13. TypeOK'
  <2>1. assignment' \in [Offers -> Working \cup {"none", "delivered", "reassigned"}]
    BY <1>1 DEF Marked, IInv, TypeOK
  <2>2. handoff' \in [Offers -> {"none", "pending", "store_confirmed", "completed", "superseded"}]
    BY <1>1 DEF Marked, IInv, TypeOK
  <2>3. admission' \in [Captains -> {"eligible", "suspended"}]
    BY <1>1 DEF IInv, TypeOK
  <2> QED BY <1>1, <1>7, <1>8, <1>9, <1>11, <1>12, <2>1, <2>2, <2>3
          DEF IInv, TypeOK, Moves, Releases, Pool, OfferStates
<1>14. Named'
  BY <1>1, <1>2, <1>7, <1>8, <1>10, <1>12, NamedKept
<1>15. OfferClaimsCaptain'
  <2>1. "reassigned" \notin Working
    BY DEF Working, Active
  <2> QED BY <1>8, <1>9, <1>10, <2>1, ClaimsKept
<1>16. NoOfferOnTakenOrder'
  <2>1. \A j \in Offers : offer[j] = "offered" => order'[target[j]] = "READY_FOR_DISPATCH"
    BY <1>11, StandingOwes DEF IInv, NoOfferOnTakenOrder
  <2> QED BY <1>8, <2>1, NoOfferKept
<1>17. OneStoreOffer'
  BY <1>8, StoreOfferKept
<1>18. ReleasesOwed'
  <2>1. \A j \in Platform(Offers) : assignmentRelease[j] # "none" <=> assignment[j] = "reassigned"
    BY DEF IInv, ReleasesOwed
  <2>2. \A j \in Platform(Offers) : assignmentRelease'[j] # "none" <=> assignment'[j] = "reassigned"
    BY <1>10, <1>12, <2>1 DEF Platform
  <2> QED BY <1>7, <1>8, <2>2, ReleasesKept
<1>19. OrderAgreesWithAssignment' /\ OneLoad'
  BY <1>1, <1>2, <1>11, TakenBack
<1>20. SettledByDeliverer'
  <2>1. \A j \in Offers : settlement[j] # "none" => j \notin held
    BY <1>2, SettledDelivered
  <2>2. \A p \in Orders : order'[p] = "DELIVERED" => order[p] = "DELIVERED"
    BY <1>11
  <2> QED BY <1>1, <1>10, <2>1, <2>2, SettledKept
<1> QED BY <1>13, <1>14, <1>15, <1>16, <1>17, <1>18, <1>19, <1>20 DEF IInv

-----------------------------------------------------------------------------
(* The transactions that move one assignment and its order together. *)

Stories == {<<"CAPTAIN_ASSIGNED", "assigned", "pending">>,
            <<"CAPTAIN_ASSIGNED", "assigned", "store_confirmed">>,
            <<"IN_CUSTODY", "in_custody", "completed">>,
            <<"DELIVERED", "delivered", "completed">>,
            <<"DELIVERY_FAILED", "delivery_failed", "completed">>}

\* Assignment i, its handoff and its order move to a story together.
MovedTo(i, s, a, h) ==
  /\ assignment' = [assignment EXCEPT ![i] = a]
  /\ handoff' = [handoff EXCEPT ![i] = h]
  /\ order' = [order EXCEPT ![target[i]] = s]
  /\ UNCHANGED <<target, offer, overdue, admission, offerRelease, assignmentRelease>>

\* Such a move keeps all but the settlements.
LEMMA OneMove ==
  ASSUME IInv, NEW i \in Offers, assignment[i] \in Working,
         NEW s, NEW a, NEW h, <<s, a, h>> \in Stories, MovedTo(i, s, a, h),
         available' \in [Captains -> BOOLEAN], \A c \in Captains : available'[c] => available[c],
         payment' \in [Orders -> {"REQUIRES_COLLECTION", "COLLECTED"}],
         settlement' \in [Offers -> Posting],
         \A j \in Offers : settlement'[j] = settlement[j] \/ assignment[j] # "none"
  PROVE  /\ TypeOK' /\ Named' /\ OneStoreOffer' /\ OneLoad' /\ OrderAgreesWithAssignment'
         /\ OfferClaimsCaptain' /\ NoOfferOnTakenOrder' /\ ReleasesOwed'
<1> DEFINE t == target[i]
<1>1. /\ s \in OrderStates /\ a \in Working \cup {"delivered"} /\ s \notin {"PREPARING", "READY_FOR_DISPATCH"}
      /\ h \in {"pending", "store_confirmed", "completed"}
  BY DEF Stories, OrderStates, Working, Active
<1>2. t \in Orders /\ assignment[i] # "none" /\ assignment[i] # "reassigned"
      /\ a # "none" /\ a # "reassigned"
  BY <1>1, LiveAgrees DEF Working, Active
<1>3. /\ assignment \in [Offers -> Working \cup {"none", "delivered", "reassigned"}]
      /\ handoff \in [Offers -> {"none", "pending", "store_confirmed", "completed", "superseded"}]
      /\ order \in [Orders -> OrderStates]
  BY DEF IInv, TypeOK
<1>4. /\ \A j \in Offers : assignment'[j] = IF j = i THEN a ELSE assignment[j]
      /\ \A j \in Offers : handoff'[j] = IF j = i THEN h ELSE handoff[j]
      /\ \A p \in Orders : order'[p] = IF p = t THEN s ELSE order[p]
      /\ UNCHANGED <<target, offer, overdue, admission, offerRelease, assignmentRelease>>
  BY <1>3 DEF MovedTo
<1>5. TypeOK'
  <2>1. assignment' \in [Offers -> Working \cup {"none", "delivered", "reassigned"}]
    BY <1>1, <1>3 DEF MovedTo
  <2>2. handoff' \in [Offers -> {"none", "pending", "store_confirmed", "completed", "superseded"}]
    BY <1>1, <1>3 DEF MovedTo
  <2>3. order' \in [Orders -> OrderStates]
    BY <1>1, <1>3 DEF MovedTo
  <2> QED BY <1>4, <2>1, <2>2, <2>3 DEF IInv, TypeOK
<1>6. Moves({}, {}, {}, None) /\ Releases({})
  BY <1>4 DEF Moves, Releases, IInv, TypeOK, OfferStates
<1>7. Pool({})
  BY DEF Pool
<1>8. Named'
  BY <1>2, <1>4, <1>6, NamedKept
<1>9. OfferClaimsCaptain'
  BY <1>4, <1>6, <1>7, ClaimsKept
<1>10. Live(t) = {i} /\ order[t] # "READY_FOR_DISPATCH"
  <2>1. i \in Live(t)
    BY DEF Live
  <2>2. Live(t) = {i}
    BY <1>2, <2>1 DEF IInv, OrderAgreesWithAssignment
  <2> QED BY <1>2, <2>2 DEF IInv, OrderAgreesWithAssignment
<1>11. NoOfferOnTakenOrder'
  <2>1. \A j \in Offers : offer[j] = "offered" => order'[target[j]] = "READY_FOR_DISPATCH"
    BY <1>4, <1>10, StandingOwes DEF IInv, NoOfferOnTakenOrder
  <2> QED BY <1>6, <2>1, NoOfferKept
<1>12. OneStoreOffer'
  BY <1>6, StoreOfferKept
<1>13. ReleasesOwed'
  <2>1. \A j \in Platform(Offers) : assignmentRelease[j] # "none" <=> assignment[j] = "reassigned"
    BY DEF IInv, ReleasesOwed
  <2>2. \A j \in Platform(Offers) : assignmentRelease'[j] # "none" <=> assignment'[j] = "reassigned"
    BY <1>2, <1>4, <2>1 DEF Platform
  <2> QED BY <1>6, <2>2, ReleasesKept
<1>14. OneLoad'
  BY <1>4 DEF IInv, OneLoad
<1>15. OrderAgreesWithAssignment'
  <2>1. ASSUME NEW p \in Orders PROVE Live(p)' = Live(p)
    <3>1. \A j \in Offers : assignment'[j] \in Working \cup {"delivered"} <=>
                            assignment[j] \in Working \cup {"delivered"}
      BY <1>1, <1>4
    <3> QED BY <1>4, <3>1 DEF Live
  <2>2. ASSUME NEW p \in Orders
        PROVE  /\ order'[p] \in {"PREPARING", "READY_FOR_DISPATCH"} <=> Live(p)' = {}
               /\ \A j \in Live(p)' : Live(p)' = {j} /\ <<order'[p], assignment'[j], handoff'[j]>> \in Stories
    <3>1. CASE p = t
      <4>1. Live(p)' = {i}
        BY <1>10, <2>1, <3>1
      <4>2. order'[p] = s /\ assignment'[i] = a /\ handoff'[i] = h
        BY <1>4, <3>1
      <4> QED BY <1>1, <4>1, <4>2
    <3>2. CASE p # t
      <4>1. order'[p] = order[p]
        BY <1>4, <3>2
      <4>2. \A j \in Live(p) : j \in Offers /\ j # i
        BY <3>2 DEF Live
      <4>3. \A j \in Live(p) : assignment'[j] = assignment[j] /\ handoff'[j] = handoff[j]
        BY <1>4, <4>2
      <4>4. /\ order[p] \in {"PREPARING", "READY_FOR_DISPATCH"} <=> Live(p) = {}
            /\ \A j \in Live(p) : Live(p) = {j} /\ <<order[p], assignment[j], handoff[j]>> \in Stories
        BY DEF IInv, OrderAgreesWithAssignment, Stories
      <4> QED BY <2>1, <4>1, <4>3, <4>4
    <3> QED BY <3>1, <3>2
  <2> QED BY <2>2 DEF OrderAgreesWithAssignment, Stories
<1> QED BY <1>5, <1>8, <1>9, <1>11, <1>12, <1>13, <1>14, <1>15

\* A move that neither delivers nor writes a settlement keeps them all.
LEMMA UnsettledMove ==
  ASSUME IInv, NEW i \in Offers, assignment[i] \in Working,
         NEW s, NEW a, NEW h, <<s, a, h>> \in Stories, s # "DELIVERED", MovedTo(i, s, a, h),
         available' \in [Captains -> BOOLEAN], \A c \in Captains : available'[c] => available[c],
         UNCHANGED <<payment, settlement>>
  PROVE  IInv'
<1>1. /\ TypeOK' /\ Named' /\ OneStoreOffer' /\ OneLoad' /\ OrderAgreesWithAssignment'
      /\ OfferClaimsCaptain' /\ NoOfferOnTakenOrder' /\ ReleasesOwed'
  BY OneMove DEF IInv, TypeOK
<1>2. SettledByDeliverer'
  <2>1. \A j \in Offers : settlement[j] # "none" => j # i
    BY SettledDelivered DEF Working, Active
  <2>2. /\ \A j \in Offers : j # i => assignment'[j] = assignment[j]
        /\ target' = target
    BY DEF MovedTo, IInv, TypeOK
  <2>3. \A o \in Orders : order'[o] = "DELIVERED" => order[o] = "DELIVERED"
    BY DEF MovedTo, IInv, TypeOK
  <2> QED BY <2>1, <2>2, <2>3, SettledKept
<1> QED BY <1>1, <1>2 DEF IInv

\* A map that is given its own value at a point is unchanged.
LEMMA ExceptSame ==
  ASSUME NEW S, NEW T, NEW f \in [S -> T], NEW x
  PROVE  [f EXCEPT ![x] = f[x]] = f
  OBVIOUS

\* The store hands the goods over.
LEMMA ConfirmStep ==
  ASSUME IInv, NEW i \in Offers, ConfirmStoreHandoff(i)
  PROVE  IInv'
<1>1. /\ assignment[i] = "assigned" /\ handoff' = [handoff EXCEPT ![i] = "store_confirmed"]
      /\ UNCHANGED <<order, payment, target, offer, overdue, assignment, captainVars, outbox>>
  BY DEF ConfirmStoreHandoff
<1>2. assignment[i] \in Working /\ order[target[i]] = "CAPTAIN_ASSIGNED"
  BY <1>1, LiveAgrees DEF Working, Active
<1>3. /\ [assignment EXCEPT ![i] = assignment[i]] = assignment
      /\ [order EXCEPT ![target[i]] = order[target[i]]] = order
  BY ExceptSame DEF IInv, TypeOK
<1>4. MovedTo(i, "CAPTAIN_ASSIGNED", "assigned", "store_confirmed")
  BY <1>1, <1>2, <1>3 DEF MovedTo, captainVars, outbox
<1>5. <<"CAPTAIN_ASSIGNED", "assigned", "store_confirmed">> \in Stories
  BY DEF Stories
<1>6. available' = available /\ available \in [Captains -> BOOLEAN] /\ UNCHANGED <<payment, settlement>>
  BY <1>1 DEF IInv, TypeOK, captainVars, outbox
<1> QED BY <1>2, <1>4, <1>5, <1>6, UnsettledMove

\* The captain has the goods.
LEMMA PickupStep ==
  ASSUME IInv, NEW i \in Offers, CompleteCaptainPickup(i)
  PROVE  IInv'
<1>1. MovedTo(i, "IN_CUSTODY", "in_custody", "completed")
  BY DEF CompleteCaptainPickup, MovedTo, captainVars, outbox
<1>2. assignment[i] \in Working
  BY DEF CompleteCaptainPickup, Working, Active
<1>3. <<"IN_CUSTODY", "in_custody", "completed">> \in Stories
  BY DEF Stories
<1>4. available' = available /\ available \in [Captains -> BOOLEAN] /\ UNCHANGED <<payment, settlement>>
  BY DEF CompleteCaptainPickup, IInv, TypeOK, captainVars, outbox
<1> QED BY <1>1, <1>2, <1>3, <1>4, UnsettledMove

\* A failed delivery is taken up again.
LEMMA RecoverStep ==
  ASSUME IInv, NEW i \in Offers, RecoverCaptainAssignment(i)
  PROVE  IInv'
<1>1. /\ assignment[i] = "delivery_failed" /\ handoff[i] = "completed"
      /\ assignment' = [assignment EXCEPT ![i] = "in_custody"]
      /\ order' = [order EXCEPT ![target[i]] = "IN_CUSTODY"]
      /\ available' = [c \in Captains |-> available[c] /\ c \notin CaptainsOf(Platform({i}))]
      /\ UNCHANGED <<payment, target, offer, overdue, handoff, admission, outbox>>
  BY DEF RecoverCaptainAssignment, CanRecover
<1>2. [handoff EXCEPT ![i] = "completed"] = handoff
  BY <1>1, ExceptSame DEF IInv, TypeOK
<1>3. MovedTo(i, "IN_CUSTODY", "in_custody", "completed")
  BY <1>1, <1>2 DEF MovedTo, outbox
<1>4. assignment[i] \in Working
  BY <1>1 DEF Working
<1>5. <<"IN_CUSTODY", "in_custody", "completed">> \in Stories
  BY DEF Stories
<1>6. /\ available' \in [Captains -> BOOLEAN]
      /\ \A c \in Captains : available'[c] => available[c]
  BY <1>1
<1> QED BY <1>1, <1>3, <1>4, <1>5, <1>6, UnsettledMove DEF outbox

\* Delivery settles the order once, for its deliverer.
LEMMA CompleteStep ==
  ASSUME IInv, NEW i \in Offers, NEW result \in {"delivered", "delivery_failed"},
         CompleteCaptainAssignment(i, result)
  PROVE  IInv'
<1> DEFINE s == IF result = "delivered" THEN "DELIVERED" ELSE "DELIVERY_FAILED"
           t == target[i]
<1>1. /\ assignment[i] = "in_custody" /\ handoff[i] = "completed" /\ order[t] = "IN_CUSTODY"
      /\ assignment' = [assignment EXCEPT ![i] = result]
      /\ order' = [order EXCEPT ![t] = s]
      /\ settlement' = Enqueued(settlement, Settling(i, result))
      /\ UNCHANGED <<payment, target, offer, overdue, handoff, captainVars, offerRelease, assignmentRelease>>
  BY DEF CompleteCaptainAssignment
<1>2. [handoff EXCEPT ![i] = "completed"] = handoff
  BY <1>1, ExceptSame DEF IInv, TypeOK
<1>3. MovedTo(i, s, result, "completed")
  BY <1>1, <1>2 DEF MovedTo, captainVars
<1>4. assignment[i] \in Working /\ t \in Orders /\ t # None
  BY <1>1, TargetNamed DEF Working, Active
<1>5. <<s, result, "completed">> \in Stories
  BY DEF Stories
<1>6. available' = available /\ available \in [Captains -> BOOLEAN] /\ UNCHANGED payment
  BY <1>1 DEF IInv, TypeOK, captainVars
<1> HIDE DEF s
<1>7. CASE result = "delivery_failed"
  <2>1. settlement' = settlement
    BY <1>1, <1>7 DEF Settling, Enqueued, IInv, TypeOK
  <2>2. s # "DELIVERED"
    BY <1>7 DEF s
  <2> QED BY <1>3, <1>4, <1>5, <1>6, <2>1, <2>2, UnsettledMove
<1>8. CASE result = "delivered"
  <2>1. s = "DELIVERED" /\ settlement' = Enqueued(settlement, Platform(Owing({i})))
    BY <1>1, <1>8 DEF s, Settling
  <2>2. i \in Platform(Owing({i})) <=> Mode[t] = "BTHWANI_CAPTAIN"
    BY <1>1, <1>4, Unpaid DEF Platform, Owing
  <2>3. Platform(Owing({i})) \subseteq {i}
    BY DEF Platform, Owing
  <2>4. \A j \in Offers : settlement[j] # "none" => target[j] # t /\ j # i
    <3> SUFFICES ASSUME NEW j \in Offers, settlement[j] # "none", target[j] = t PROVE FALSE
      OBVIOUS
    <3>1. assignment[j] = "delivered"
      BY SettledDelivered
    <3>2. order[t] = "DELIVERED"
      BY <3>1, LiveAgrees
    <3> QED BY <1>1, <3>2
  <2>5. /\ settlement' \in [Offers -> Posting]
        /\ \A j \in Offers : j # i => settlement'[j] = settlement[j]
        /\ settlement'[i] = IF Mode[t] = "BTHWANI_CAPTAIN" THEN "PENDING" ELSE "none"
    BY <2>1, <2>2, <2>3, <2>4 DEF Enqueued, Posting, IInv, TypeOK
  <2>6. /\ TypeOK' /\ Named' /\ OneStoreOffer' /\ OneLoad' /\ OrderAgreesWithAssignment'
        /\ OfferClaimsCaptain' /\ NoOfferOnTakenOrder' /\ ReleasesOwed'
    <3>1. \A j \in Offers : settlement'[j] = settlement[j] \/ assignment[j] # "none"
      BY <1>1, <2>5
    <3>2. \A c \in Captains : available'[c] => available[c]
      BY <1>6
    <3>3. payment' \in [Orders -> {"REQUIRES_COLLECTION", "COLLECTED"}]
      BY <1>6 DEF IInv, TypeOK
    <3> QED BY <1>3, <1>4, <1>5, <1>6, <2>5, <3>1, <3>2, <3>3, OneMove
  <2>7. SettledByDeliverer'
    <3> DEFINE rows(o) == {j \in Offers : target[j] = o /\ settlement[j] # "none"}
    <3>1. ASSUME NEW o \in Orders
          PROVE  /\ Cardinality(rows(o)) <= 1
                 /\ \A j \in rows(o) : assignment[j] = "delivered"
                 /\ Mode[o] = "BTHWANI_CAPTAIN" /\ order[o] = "DELIVERED" => rows(o) # {}
                 /\ payment[o] = "COLLECTED" <=> \E j \in rows(o) : settlement[j] = "POSTED"
      BY DEF IInv, SettledByDeliverer
    <3>2. \A o \in Orders : o # t => rows(o)' = rows(o)
      BY <1>1, <2>5
    <3>3. rows(t)' = IF Mode[t] = "BTHWANI_CAPTAIN" THEN {i} ELSE {}
      BY <1>1, <2>4, <2>5
    <3>4. /\ \A j \in Offers : j # i => assignment'[j] = assignment[j]
          /\ assignment'[i] = "delivered"
          /\ \A o \in Orders : o # t => order'[o] = order[o]
          /\ payment[t] = "REQUIRES_COLLECTION"
      BY <1>1, <1>4, <1>8, Unpaid DEF IInv, TypeOK
    <3>5. ASSUME NEW o \in Orders
          PROVE  /\ Cardinality(rows(o)') <= 1
                 /\ \A j \in rows(o)' : assignment'[j] = "delivered"
                 /\ Mode[o] = "BTHWANI_CAPTAIN" /\ order'[o] = "DELIVERED" => rows(o)' # {}
                 /\ payment'[o] = "COLLECTED" <=> \E j \in rows(o)' : settlement'[j] = "POSTED"
      <4>1. CASE o = t
        <5>1. rows(o)' = IF Mode[t] = "BTHWANI_CAPTAIN" THEN {i} ELSE {}
          BY <1>1, <3>3, <4>1
        <5>2. Cardinality({}) = 0 /\ Cardinality({i}) = 1
          BY FS_EmptySet, FS_Singleton
        <5> HIDE DEF rows
        <5> QED BY <1>6, <2>5, <3>4, <4>1, <5>1, <5>2
      <4>2. CASE o # t
        <5>1. \A j \in rows(o) : j \in Offers /\ j # i
          BY <4>2
        <5>2. rows(o)' = rows(o)
          BY <3>2, <4>2
        <5> HIDE DEF rows
        <5> QED BY <1>6, <2>5, <3>1, <3>4, <4>2, <5>1, <5>2
      <4> QED BY <4>1, <4>2
    <3> QED BY <3>5 DEF SettledByDeliverer
  <2> QED BY <2>6, <2>7 DEF IInv
<1> QED BY <1>7, <1>8

\* The store has prepared the order.
LEMMA ReadyStep ==
  ASSUME IInv, NEW o \in Orders, ReadyForDispatch(o)
  PROVE  IInv'
<1>1. /\ order[o] = "PREPARING" /\ order' = [order EXCEPT ![o] = "READY_FOR_DISPATCH"]
      /\ UNCHANGED <<payment, target, offer, overdue, assignment, handoff, captainVars, outbox>>
  BY DEF ReadyForDispatch
<1>2. TypeOK'
  BY <1>1 DEF IInv, TypeOK, OrderStates, captainVars, outbox
<1>3. Named' /\ OneStoreOffer' /\ OneLoad' /\ OfferClaimsCaptain' /\ ReleasesOwed'
  BY <1>1 DEF IInv, Named, OneStoreOffer, OneLoad, OfferClaimsCaptain, ReleasesOwed, Platform,
              captainVars, outbox
<1>4. \A p \in Orders : order'[p] = IF p = o THEN "READY_FOR_DISPATCH" ELSE order[p]
  BY <1>1 DEF IInv, TypeOK
<1>5. NoOfferOnTakenOrder'
  BY <1>1, <1>4, StandingOwes DEF IInv, NoOfferOnTakenOrder
<1>6. OrderAgreesWithAssignment'
  <2>1. \A p \in Orders : Live(p)' = Live(p)
    BY <1>1 DEF Live
  <2>2. \A p \in Orders : order'[p] = order[p] \/ Live(p) = {}
    BY <1>1, <1>4 DEF IInv, OrderAgreesWithAssignment
  <2> QED BY <1>1, <1>4, <2>1, <2>2 DEF IInv, OrderAgreesWithAssignment
<1>7. SettledByDeliverer'
  BY <1>1, <1>4, SettledKept DEF outbox
<1> QED BY <1>2, <1>3, <1>5, <1>6, <1>7 DEF IInv

\* Posting the settlement collects the payment of its order.
LEMMA PostStep ==
  ASSUME IInv, NEW i \in Offers, PostSettlement(i)
  PROVE  IInv'
<1> DEFINE t == target[i]
<1>1. /\ settlement[i] = "PENDING" /\ settlement' = [settlement EXCEPT ![i] = "POSTED"]
      /\ payment' = [payment EXCEPT ![t] = "COLLECTED"]
      /\ UNCHANGED <<order, target, offer, overdue, assignment, handoff, captainVars,
                     offerRelease, assignmentRelease>>
  BY DEF PostSettlement
<1>2. t \in Orders /\ assignment[i] = "delivered"
  BY <1>1, SettledDelivered
<1>3. /\ settlement \in [Offers -> Posting] /\ settlement' \in [Offers -> Posting]
      /\ payment \in [Orders -> {"REQUIRES_COLLECTION", "COLLECTED"}]
      /\ payment' \in [Orders -> {"REQUIRES_COLLECTION", "COLLECTED"}]
  BY <1>1 DEF Posting, IInv, TypeOK
<1>4. /\ \A j \in Offers : settlement'[j] = IF j = i THEN "POSTED" ELSE settlement[j]
      /\ \A o \in Orders : payment'[o] = IF o = t THEN "COLLECTED" ELSE payment[o]
  BY <1>1, <1>3
<1>5. TypeOK'
  BY <1>1, <1>3 DEF IInv, TypeOK, captainVars
<1>6. Named' /\ OneStoreOffer' /\ OneLoad' /\ OfferClaimsCaptain' /\ ReleasesOwed' /\ NoOfferOnTakenOrder'
  BY <1>1, <1>2, <1>4 DEF IInv, Named, OneStoreOffer, OneLoad, OfferClaimsCaptain, ReleasesOwed,
                          NoOfferOnTakenOrder, Platform, captainVars
<1>7. OrderAgreesWithAssignment'
  <2>1. \A p \in Orders : Live(p)' = Live(p)
    BY <1>1 DEF Live
  <2> QED BY <1>1, <2>1 DEF IInv, OrderAgreesWithAssignment
<1>8. SettledByDeliverer'
  <2> DEFINE rows(o) == {j \in Offers : target[j] = o /\ settlement[j] # "none"}
  <2>1. ASSUME NEW o \in Orders
        PROVE  /\ Cardinality(rows(o)) <= 1
               /\ \A j \in rows(o) : assignment[j] = "delivered"
               /\ Mode[o] = "BTHWANI_CAPTAIN" /\ order[o] = "DELIVERED" => rows(o) # {}
               /\ payment[o] = "COLLECTED" <=> \E j \in rows(o) : settlement[j] = "POSTED"
    BY DEF IInv, SettledByDeliverer
  <2>2. \A o \in Orders : rows(o)' = rows(o)
    BY <1>1, <1>4
  <2>3. \A o \in Orders : (i \in rows(o) <=> o = t) /\ rows(o) \subseteq Offers
    BY <1>1
  <2> HIDE DEF rows
  <2>4. ASSUME NEW o \in Orders
        PROVE  /\ Cardinality(rows(o)') <= 1
               /\ \A j \in rows(o)' : assignment'[j] = "delivered"
               /\ Mode[o] = "BTHWANI_CAPTAIN" /\ order'[o] = "DELIVERED" => rows(o)' # {}
               /\ payment'[o] = "COLLECTED" <=> \E j \in rows(o)' : settlement'[j] = "POSTED"
    <3>1. payment'[o] = "COLLECTED" <=> \E j \in rows(o) : settlement'[j] = "POSTED"
      BY <1>4, <2>1, <2>3
    <3>2. UNCHANGED <<order, assignment>>
      BY <1>1
    <3> QED BY <2>1, <2>2, <3>1, <3>2
  <2>5. \A o \in Orders : rows(o)' = {j \in Offers : target'[j] = o /\ settlement'[j] # "none"}
    BY DEF rows
  <2> QED BY <2>4, <2>5 DEF SettledByDeliverer
<1> QED BY <1>5, <1>6, <1>7, <1>8 DEF IInv

\* The invariant holds at first.
LEMMA IInvInit == ASSUME Init PROVE IInv
<1>1. TypeOK /\ Named /\ OneStoreOffer
  BY DEF Init, TypeOK, Named, OneStoreOffer, OrderStates, Posting, Working, Active
<1>2. \A o \in Orders : Live(o) = {}
  BY DEF Init, Live, Working, Active
<1>3. OneLoad /\ OrderAgreesWithAssignment /\ OfferClaimsCaptain /\ NoOfferOnTakenOrder
  BY <1>2 DEF Init, OneLoad, OrderAgreesWithAssignment, OfferClaimsCaptain, NoOfferOnTakenOrder,
              Working, Active
<1>4. ReleasesOwed
  BY DEF Init, ReleasesOwed, Platform
<1>5. SettledByDeliverer
  <2>1. \A o \in Orders : {i \in Offers : target[i] = o /\ settlement[i] # "none"} = {}
    BY DEF Init
  <2>2. Cardinality({}) = 0
    BY FS_EmptySet
  <2>3. \A o \in Orders : order[o] = "PREPARING" /\ payment[o] = "REQUIRES_COLLECTION"
    BY DEF Init
  <2> QED BY <2>1, <2>2, <2>3 DEF SettledByDeliverer
<1> QED BY <1>1, <1>3, <1>4, <1>5 DEF IInv

\* Every step preserves it.
LEMMA Invariance == ASSUME IInv, [Next]_vars PROVE IInv'
<1>1. CASE UNCHANGED vars
  <2>1. UNCHANGED <<order, payment, target, offer, overdue, assignment, handoff, admission, available,
                    offerRelease, assignmentRelease, settlement>>
    BY <1>1 DEF vars, captainVars, outbox
  <2>2. TypeOK' /\ Named' /\ OneStoreOffer' /\ OneLoad'
    BY <2>1 DEF IInv, TypeOK, Named, OneStoreOffer, OneLoad
  <2>3. OrderAgreesWithAssignment' /\ OfferClaimsCaptain' /\ NoOfferOnTakenOrder' /\ ReleasesOwed'
    BY <2>1 DEF IInv, OrderAgreesWithAssignment, OfferClaimsCaptain, NoOfferOnTakenOrder, ReleasesOwed,
                Live, Platform
  <2>4. SettledByDeliverer'
    BY <2>1, SettledKept DEF IInv
  <2> QED BY <2>2, <2>3, <2>4 DEF IInv
<1>2. ASSUME NEW o \in Orders, ReadyForDispatch(o) PROVE IInv'
  BY <1>2, ReadyStep
<1>3. ASSUME NEW cs \in {Captains} \cup {{c} : c \in Captains}, CanonicalizeCaptainOffers(cs) PROVE IInv'
  <2>1. cs \in SUBSET Captains
    OBVIOUS
  <2> QED BY <1>3, <2>1, CanonicalizeStep
<1>4. ASSUME NEW o \in Orders, NEW cs \in SUBSET Captains, DispatchStep(o, cs) PROVE IInv'
  <2>1. CASE CreateCaptainDispatchOffer(o, cs)
    BY <2>1, CreateStep
  <2>2. CASE RedispatchOrder(o, cs)
    BY <2>2, RedispatchStep
  <2>3. ASSUME NEW c \in cs, CreateStoreCaptainDispatchOffer(o, c) PROVE IInv'
    BY <2>3, CreateStoreStep
  <2> QED BY <1>4, <2>1, <2>2, <2>3 DEF DispatchStep
<1>5. ASSUME NEW i \in Offers, NEW cs \in SUBSET Captains, ReassignCaptain(i, cs) PROVE IInv'
  BY <1>5, ReassignStep
<1>6. ASSUME NEW i \in Offers, OfferStep(i) PROVE IInv'
  <2>1. CASE Elapse(i)
    BY <2>1, ElapseStep
  <2>2. CASE RejectCaptainOffer(i)
    BY <2>2, RejectStep
  <2>3. CASE ConfirmStoreHandoff(i)
    BY <2>3, ConfirmStep
  <2>4. CASE CompleteCaptainPickup(i)
    BY <2>4, PickupStep
  <2>5. CASE RecoverCaptainAssignment(i)
    BY <2>5, RecoverStep
  <2>6. ASSUME NEW result \in {"delivered", "delivery_failed"}, CompleteCaptainAssignment(i, result)
        PROVE  IInv'
    BY <2>6, CompleteStep
  <2> QED BY <1>6, <2>1, <2>2, <2>3, <2>4, <2>5, <2>6 DEF OfferStep
<1>7. ASSUME NEW c \in Captains, CaptainStep(c) PROVE IInv'
  <2>1. ASSUME NEW wanted \in BOOLEAN, SetCaptainAvailability(c, wanted) PROVE IInv'
    BY <2>1, AvailabilityStep
  <2>2. ASSUME NEW seen \in SUBSET {i \in Offers : i[1] = c}, SuspendCaptainAdmission(c, seen) PROVE IInv'
    BY <2>2, SuspendStep
  <2>3. CASE RestoreCaptainAdmission(c)
    BY <2>3, ReadmissionStep
  <2> QED BY <1>7, <2>1, <2>2, <2>3 DEF CaptainStep
<1>8. ASSUME NEW i \in Offers, AcceptCaptainOffer(i) PROVE IInv'
  BY <1>8, AcceptStep
<1>9. ASSUME NEW i \in Offers, PostSettlement(i) PROVE IInv'
  BY <1>9, PostStep
<1>10. ASSUME Operation PROVE IInv'
  BY <1>2, <1>3, <1>4, <1>5, <1>6, <1>7, <1>10 DEF Operation
<1>11. ASSUME Next PROVE IInv'
  BY <1>8, <1>9, <1>10, <1>11 DEF Next
<1> QED BY <1>1, <1>11

-----------------------------------------------------------------------------
\* The inductive invariant holds in every reachable state.
LEMMA Reached == Spec => []IInv
<1> QED BY IInvInit, Invariance, PTL DEF Spec

\* Whatever the transactions interleave to, every table of dispatch holds
\* values of its own kind.
THEOREM DispatchTypes == Spec => []TypeOK
<1>1. IInv => TypeOK
  BY DEF IInv
<1> QED BY <1>1, Reached, PTL

\* Order, assignment and store handoff tell one story, and an order never
\* has two captains, however offers, suspensions and reassignments interleave.
THEOREM OrdersAgree == Spec => []OrderAgreesWithAssignment
<1>1. IInv => OrderAgreesWithAssignment
  BY DEF IInv
<1> QED BY <1>1, Reached, PTL

\* An open offer has its captain to itself, and keeps him out of the pool
\* when it is a platform offer.
THEOREM OffersClaim == Spec => []OfferClaimsCaptain
<1>1. IInv => OfferClaimsCaptain
  BY DEF IInv
<1> QED BY <1>1, Reached, PTL

\* No open offer outlives the acceptance of its order.
THEOREM NoLateOffer == Spec => []NoOfferOnTakenOrder
<1>1. IInv => NoOfferOnTakenOrder
  BY DEF IInv
<1> QED BY <1>1, Reached, PTL

\* The outbox owes WLT a release for each platform offer that ended and each
\* assignment taken back, and for no other.
THEOREM ReleasesAlwaysOwed == Spec => []ReleasesOwed
<1>1. IInv => ReleasesOwed
  BY DEF IInv
<1> QED BY <1>1, Reached, PTL

\* A delivered platform order is settled once, for the captain who delivered.
THEOREM SettledOnce == Spec => []SettledByDeliverer
<1>1. IInv => SettledByDeliverer
  BY DEF IInv
<1> QED BY <1>1, Reached, PTL

-----------------------------------------------------------------------------
(* What a step does to the custody of the goods. *)

\* Offers that became assignments keep their order.
Bound == \A i \in Offers : assignment[i] # "none" => target'[i] = target[i]

Given(i) ==      \* the order of offer i, which nobody serves, is given to its captain
  /\ offer[i] = "offered" /\ target'[i] = target[i] /\ Live(target[i]) = {}
  /\ \A j \in Offers : j[1] = i[1] => assignment[j] \notin Working
  /\ assignment' = Marked(assignment, {i}, "assigned")

TakenFrom(S) ==  \* the assignment in S, if any, is taken back
  /\ \A i, j \in S : i = j
  /\ \A i \in S : assignment[i] = "assigned"
  /\ assignment' = Marked(assignment, S, "reassigned")

Carried(i, from, to) ==
  /\ <<from, to>> \in {<<"assigned", "in_custody">>, <<"in_custody", "delivered">>,
                      <<"in_custody", "delivery_failed">>, <<"delivery_failed", "in_custody">>}
  /\ assignment[i] = from
  /\ assignment' = [assignment EXCEPT ![i] = to]

CustodyStep ==
  /\ Bound
  /\ \/ UNCHANGED assignment
     \/ \E i \in Offers : Given(i)
     \/ \E S \in SUBSET Offers : TakenFrom(S)
     \/ \E i \in Offers, from, to \in Working \cup {"delivered"} : Carried(i, from, to)

\* A new offer is not an assignment.
LEMMA BatchBound ==
  ASSUME IInv, NEW cs, NEW o, target' = Marked(target, Slots(cs), o)
  PROVE  Bound
<1>1. \A i \in Offers : assignment[i] # "none" => i \notin Slots(cs)
  BY NextOffers DEF IInv, Named
<1> QED BY <1>1 DEF Bound, Marked

\* Every operation is one of these.
LEMMA EveryStep == ASSUME IInv, Next PROVE CustodyStep
<1>0. ASSUME UNCHANGED <<target, assignment>> PROVE CustodyStep
  BY <1>0 DEF CustodyStep, Bound
<1>1. ASSUME NEW o \in Orders, ReadyForDispatch(o) PROVE CustodyStep
  BY <1>0, <1>1 DEF ReadyForDispatch
<1>2. ASSUME NEW cs \in {Captains} \cup {{c} : c \in Captains}, CanonicalizeCaptainOffers(cs)
      PROVE  CustodyStep
  BY <1>0, <1>2 DEF CanonicalizeCaptainOffers
<1>3. ASSUME NEW o \in Orders, NEW cs \in SUBSET Captains, DispatchStep(o, cs) PROVE CustodyStep
  <2>1. ASSUME NEW s, target' = Marked(target, Slots(s), o), UNCHANGED assignment PROVE CustodyStep
    BY <2>1, BatchBound DEF CustodyStep
  <2>2. CASE CreateCaptainDispatchOffer(o, cs)
    BY <2>1, <2>2 DEF CreateCaptainDispatchOffer, DispatchCandidates
  <2>3. CASE RedispatchOrder(o, cs)
    BY <2>1, <2>3 DEF RedispatchOrder, DispatchCandidates
  <2>4. ASSUME NEW c \in cs, CreateStoreCaptainDispatchOffer(o, c) PROVE CustodyStep
    BY <2>1, <2>4 DEF CreateStoreCaptainDispatchOffer
  <2> QED BY <1>3, <2>2, <2>3, <2>4 DEF DispatchStep
<1>4. ASSUME NEW i \in Offers, NEW cs \in SUBSET Captains, ReassignCaptain(i, cs) PROVE CustodyStep
  <2>1. /\ target' = Marked(target, Slots(cs), target[i])
        /\ assignment[i] = "assigned" /\ assignment' = Marked(assignment, {i}, "reassigned")
    BY <1>4 DEF ReassignCaptain, DispatchCandidates, CanReassign
  <2>2. TakenFrom({i})
    BY <2>1 DEF TakenFrom
  <2>3. {i} \in SUBSET Offers
    OBVIOUS
  <2> QED BY <2>1, <2>2, <2>3, BatchBound DEF CustodyStep
<1>5. ASSUME NEW i \in Offers, OfferStep(i) PROVE CustodyStep
  <2>1. CASE Elapse(i)
    BY <1>0, <2>1 DEF Elapse
  <2>2. CASE RejectCaptainOffer(i)
    BY <1>0, <2>2 DEF RejectCaptainOffer
  <2>3. CASE ConfirmStoreHandoff(i)
    BY <1>0, <2>3 DEF ConfirmStoreHandoff
  <2>4. ASSUME NEW from \in Working \cup {"delivered"}, NEW to \in Working \cup {"delivered"},
               target' = target, Carried(i, from, to)
        PROVE  CustodyStep
    BY <2>4 DEF CustodyStep, Bound
  <2>5. {"assigned", "in_custody", "delivery_failed", "delivered"} \subseteq Working \cup {"delivered"}
    BY DEF Working, Active
  <2>6. CASE CompleteCaptainPickup(i)
    <3>1. target' = target /\ Carried(i, "assigned", "in_custody")
      BY <2>6 DEF CompleteCaptainPickup, Carried
    <3> QED BY <2>4, <2>5, <3>1
  <2>7. CASE RecoverCaptainAssignment(i)
    <3>1. target' = target /\ Carried(i, "delivery_failed", "in_custody")
      BY <2>7 DEF RecoverCaptainAssignment, CanRecover, Carried
    <3> QED BY <2>4, <2>5, <3>1
  <2>8. ASSUME NEW result \in {"delivered", "delivery_failed"}, CompleteCaptainAssignment(i, result)
        PROVE  CustodyStep
    <3>1. target' = target /\ Carried(i, "in_custody", result)
      BY <2>8 DEF CompleteCaptainAssignment, Carried
    <3> QED BY <2>4, <2>5, <3>1
  <2> QED BY <1>5, <2>1, <2>2, <2>3, <2>6, <2>7, <2>8 DEF OfferStep
<1>6. ASSUME NEW c \in Captains, CaptainStep(c) PROVE CustodyStep
  <2>1. ASSUME NEW wanted \in BOOLEAN, SetCaptainAvailability(c, wanted) PROVE CustodyStep
    BY <1>0, <2>1 DEF SetCaptainAvailability
  <2>2. ASSUME NEW seen \in SUBSET {i \in Offers : i[1] = c}, SuspendCaptainAdmission(c, seen)
        PROVE  CustodyStep
    <3> DEFINE held == {i \in Offers : i[1] = c /\ assignment[i] = "assigned"}
    <3>1. assignment' = Marked(assignment, held, "reassigned") /\ target' = target
      <4>1. held = {i \in {i \in Offers : i[1] = c} : assignment[i] = "assigned"}
        OBVIOUS
      <4> HIDE DEF held
      <4> QED BY <2>2, <4>1 DEF SuspendCaptainAdmission
    <3>2. \A i, j \in held : i = j
      BY DEF IInv, OneLoad, Working, Active
    <3>3. held \in SUBSET Offers /\ TakenFrom(held)
      BY <3>1, <3>2 DEF TakenFrom
    <3> HIDE DEF held
    <3> QED BY <3>1, <3>3 DEF CustodyStep, Bound
  <2>3. CASE RestoreCaptainAdmission(c)
    BY <1>0, <2>3 DEF RestoreCaptainAdmission
  <2> QED BY <1>6, <2>1, <2>2, <2>3 DEF CaptainStep
<1>7. ASSUME NEW i \in Offers, AcceptCaptainOffer(i) PROVE CustodyStep
  <2>1. /\ CanAccept(i) /\ target' = target
        /\ assignment' = Marked(assignment, {i}, "assigned")
    BY <1>7 DEF AcceptCaptainOffer
  <2>2. /\ CanonicalOffer(Captains)[i] = "offered" /\ order[target[i]] = "READY_FOR_DISPATCH"
        /\ \A j \in Offers : j[1] = i[1] => assignment[j] \notin Working
    BY <2>1 DEF CanAccept
  <2>3. offer[i] = "offered" /\ target[i] \in Orders
    BY <2>2, Expiry, TargetNamed
  <2>4. Live(target[i]) = {}
    BY <2>2, <2>3 DEF IInv, OrderAgreesWithAssignment
  <2> QED BY <2>1, <2>2, <2>3, <2>4 DEF CustodyStep, Bound, Given
<1>8. ASSUME NEW i \in Offers, PostSettlement(i) PROVE CustodyStep
  BY <1>0, <1>8 DEF PostSettlement
<1>9. ASSUME Operation PROVE CustodyStep
  BY <1>1, <1>2, <1>3, <1>4, <1>5, <1>6, <1>9 DEF Operation
<1> QED BY <1>7, <1>8, <1>9 DEF Next

\* What a custody step leaves of one assignment.
LEMMA AssignmentAfter ==
  ASSUME IInv, CustodyStep, NEW i \in Offers,
         assignment[i] \in {"in_custody", "delivery_failed"}
  PROVE  /\ target'[i] = target[i]
         /\ assignment'[i] \in {"in_custody", "delivery_failed", "delivered"}
<1>1. target'[i] = target[i]
  BY DEF CustodyStep, Bound
<1>2. assignment \in [Offers -> Working \cup {"none", "delivered", "reassigned"}]
  BY DEF IInv, TypeOK
<1>3. CASE UNCHANGED assignment
  BY <1>1, <1>3
<1>4. ASSUME NEW j \in Offers, Given(j) PROVE assignment'[i] = assignment[i]
  <2>1. i # j
    BY <1>4 DEF Given, IInv, Named
  <2> QED BY <1>4, <2>1 DEF Given, Marked
<1>5. ASSUME NEW S \in SUBSET Offers, TakenFrom(S) PROVE assignment'[i] = assignment[i]
  BY <1>5 DEF TakenFrom, Marked
<1>6. ASSUME NEW j \in Offers, NEW from, NEW to, Carried(j, from, to)
      PROVE  assignment'[i] \in {"in_custody", "delivery_failed", "delivered"}
  BY <1>2, <1>6 DEF Carried
<1> QED BY <1>1, <1>3, <1>4, <1>5, <1>6 DEF CustodyStep

\* Goods change hands only at the store and at the door.
THEOREM CustodyStaysAlways == Spec => CustodyStays
<1> DEFINE Stays(i) == assignment[i] \in {"in_custody", "delivery_failed"} =>
              /\ assignment'[i] \in {"in_custody", "delivery_failed", "delivered"}
              /\ order'[target[i]] \in {"IN_CUSTODY", "DELIVERY_FAILED", "DELIVERED"}
<1>1. IInv /\ IInv' /\ [Next]_vars => [\A i \in Offers : Stays(i)]_vars
  <2> SUFFICES ASSUME IInv, IInv', Next, NEW i \in Offers, assignment[i] \in {"in_custody", "delivery_failed"}
               PROVE  /\ assignment'[i] \in {"in_custody", "delivery_failed", "delivered"}
                      /\ order'[target[i]] \in {"IN_CUSTODY", "DELIVERY_FAILED", "DELIVERED"}
    OBVIOUS
  <2>1. /\ target'[i] = target[i]
        /\ assignment'[i] \in {"in_custody", "delivery_failed", "delivered"}
    BY EveryStep, AssignmentAfter
  <2>2. target[i] \in Orders
    BY TargetNamed
  <2>3. \A o \in Orders : \A j \in Live(o)' :
          <<order'[o], assignment'[j], handoff'[j]>> \in
              {<<"CAPTAIN_ASSIGNED", "assigned", "pending">>,
               <<"CAPTAIN_ASSIGNED", "assigned", "store_confirmed">>,
               <<"IN_CUSTODY", "in_custody", "completed">>,
               <<"DELIVERED", "delivered", "completed">>,
               <<"DELIVERY_FAILED", "delivery_failed", "completed">>}
    BY DEF IInv, OrderAgreesWithAssignment
  <2>4. \A o \in Orders : target[i] = o => i \in Live(o)'
    BY <2>1 DEF Live, Working, Active
  <2> QED BY <2>1, <2>2, <2>3, <2>4
<1>2. Spec => [][\A i \in Offers : Stays(i)]_vars
  BY <1>1, Reached, PTL DEF Spec
<1> QED BY <1>2 DEF CustodyStays

-----------------------------------------------------------------------------
(* Whoever loses a platform offer returns to the pool. *)

\* An eligible captain whose platform offer has ended is free.
LEMMA RestoreFrees ==
  ASSUME IInv, NEW i \in Platform(Offers), offer[i] = "offered", admission[i[1]] = "eligible",
         NEW av, NEW cs, NEW of, NEW as, i[1] \in cs, of[i] # "offered",
         \A j \in Offers : /\ of[j] = "offered" => offer[j] = "offered"
                           /\ as[j] \in Working /\ j[1] = i[1] => assignment[j] \in Working
  PROVE  Restored(av, cs, of, as)[i[1]]
<1>1. i \in Offers /\ i[1] \in Captains
  BY OfferNames DEF Platform
<1>2. \A j \in Offers : j[1] = i[1] /\ j # i => offer[j] # "offered" /\ assignment[j] \notin Working
  BY <1>1 DEF IInv, OfferClaimsCaptain
<1>3. assignment[i] \notin Working
  BY <1>1 DEF IInv, Named, Working, Active
<1>4. ~Busy(i[1], of, as)
  BY <1>2, <1>3 DEF Busy
<1> QED BY <1>1, <1>4 DEF Restored

\* Restoring never takes a captain out of the pool.
LEMMA RestoreKeeps ==
  ASSUME NEW c \in Captains, NEW av, av[c], NEW cs, NEW of, NEW as
  PROVE  Restored(av, cs, of, as)[c]
  BY DEF Restored

\* The expiry frees its captains.
LEMMA ExpiryFrees ==
  ASSUME IInv, NEW cs \in SUBSET Captains, NEW i \in Platform(Offers), i \in Lapsed(cs),
         admission[i[1]] = "eligible"
  PROVE  CanonicalAvailable(cs)[i[1]]
<1>1. i \in Offers /\ offer[i] = "offered" /\ i \in Platform(Lapsed(cs))
  BY DEF Platform, Lapsed
<1>2. i[1] \in CaptainsOf(Platform(Lapsed(cs)))
  BY <1>1 DEF CaptainsOf
<1>3. \A j \in Offers : CanonicalOffer(cs)[j] = IF j \in Lapsed(cs) THEN "expired" ELSE offer[j]
  BY Expiry
<1> QED BY <1>1, <1>2, <1>3, RestoreFrees DEF CanonicalAvailable

\* What EndedOfferFreesCaptain asks of a step, for one offer.
LostFreely(i) ==
  /\ offer[i] = "offered" /\ offer'[i] \in Ended
  /\ admission[i[1]] = "eligible" /\ admission'[i[1]] = "eligible"
  /\ \A j \in Offers : j[1] = i[1] => offer'[j] # "offered"

\* A captain who gets an offer of the next batch does have one.
LEMMA NotInBatch ==
  ASSUME NEW o, NEW cs \in SUBSET Captains, NEW of, NEW av, NEW as, DispatchCandidates(o, cs, of, av, as),
         NEW c \in Captains, \A j \in Offers : j[1] = c => offer'[j] # "offered"
  PROVE  c \notin cs
<1>1. CaptainsOf(Slots(cs)) = cs /\ offer' = Marked(of, Slots(cs), "offered")
  BY DEF DispatchCandidates
<1>2. \A j \in Slots(cs) : j \in Offers /\ offer'[j] = "offered"
  BY <1>1 DEF Marked, Slots
<1> QED BY <1>1, <1>2 DEF CaptainsOf

\* Expiry, then more offers ended, then the captains of those restored.
LEMMA LaterFrees ==
  ASSUME IInv, NEW i \in Platform(Offers), offer[i] = "offered", admission[i[1]] = "eligible",
         NEW more, NEW back, NEW of, NEW as,
         CaptainsOf(Platform(more)) \subseteq back,
         i \in Lapsed(Captains) \cup more,
         \A j \in Offers : of[j] = "offered" => CanonicalOffer(Captains)[j] = "offered" /\ j \notin more,
         \A j \in Offers : as[j] \in Working /\ j[1] = i[1] => assignment[j] \in Working
  PROVE  Restored(CanonicalAvailable(Captains), back, of, as)[i[1]]
<1>1. i \in Offers /\ i[1] \in Captains
  BY OfferNames DEF Platform
<1>2. CASE i \in Lapsed(Captains)
  <2>1. CanonicalAvailable(Captains)[i[1]]
    BY <1>2, ExpiryFrees
  <2> QED BY <1>1, <2>1, RestoreKeeps
<1>3. CASE i \in more
  <2>1. i[1] \in CaptainsOf(Platform(more))
    BY <1>3 DEF Platform, CaptainsOf
  <2>2. \A j \in Offers : CanonicalOffer(Captains)[j] = "offered" => offer[j] = "offered"
    BY Expiry
  <2> QED BY <1>1, <1>3, <2>1, <2>2, RestoreFrees
<1> QED BY <1>2, <1>3

\* Every operation frees them.
LEMMA StepFrees ==
  ASSUME IInv, Next, NEW i \in Platform(Offers), LostFreely(i)
  PROVE  available'[i[1]] \/ RestoreCaptainAdmission(i[1])
<1> DEFINE c == i[1]
           Freed == available'[c] \/ RestoreCaptainAdmission(c)
<1>1. /\ i \in Offers /\ c \in Captains /\ offer[i] = "offered" /\ offer'[i] \in Ended
      /\ admission[c] = "eligible" /\ admission'[c] = "eligible"
      /\ \A j \in Offers : j[1] = c => offer'[j] # "offered"
  BY OfferNames DEF Platform, LostFreely
<1>2. ASSUME UNCHANGED offer PROVE FALSE
  BY <1>1, <1>2 DEF Ended
<1>3. \A j \in Offers :
        CanonicalOffer(Captains)[j] = IF j \in Lapsed(Captains) THEN "expired" ELSE offer[j]
  BY Expiry
<1>4. ASSUME NEW cs \in SUBSET Captains,
             \A j \in Offers : offer[j] # "none" => offer'[j] = CanonicalOffer(cs)[j]
      PROVE  i \in Lapsed(cs) /\ CanonicalAvailable(cs)[c]
  <2>1. offer'[i] = IF i \in Lapsed(cs) THEN "expired" ELSE offer[i]
    BY <1>1, <1>4, Expiry
  <2>2. i \in Lapsed(cs)
    BY <1>1, <2>1 DEF Ended
  <2> QED BY <1>1, <2>2, ExpiryFrees
<1>5. ASSUME NEW cs \in {Captains} \cup {{d} : d \in Captains}, CanonicalizeCaptainOffers(cs) PROVE Freed
  <2>1. cs \in SUBSET Captains
    OBVIOUS
  <2>2. offer' = CanonicalOffer(cs) /\ available' = CanonicalAvailable(cs)
    BY <1>5 DEF CanonicalizeCaptainOffers
  <2> QED BY <1>4, <2>1, <2>2
<1>6. ASSUME NEW o, NEW cs \in SUBSET Captains, NEW of, NEW av, NEW as,
             DispatchCandidates(o, cs, of, av, as), av[c]
      PROVE  Freed
  <2>1. c \notin cs
    BY <1>1, <1>6, NotInBatch
  <2> QED BY <1>1, <1>6, <2>1 DEF DispatchCandidates
<1>7. ASSUME NEW o, NEW cs \in SUBSET Captains, NEW of, NEW av, NEW as,
             DispatchCandidates(o, cs, of, av, as)
      PROVE  offer'[i] = of[i]
  <2>1. i \notin Slots(cs)
    BY <1>1 DEF Slots
  <2> QED BY <1>1, <1>7, <2>1 DEF DispatchCandidates, Marked
<1>8. ASSUME NEW o \in Orders, NEW cs \in SUBSET Captains, CreateCaptainDispatchOffer(o, cs) PROVE Freed
  <2>1. DispatchCandidates(o, cs, CanonicalOffer(Captains), CanonicalAvailable(Captains), assignment)
    BY <1>8 DEF CreateCaptainDispatchOffer
  <2>2. offer'[i] = CanonicalOffer(Captains)[i]
    BY <1>7, <2>1
  <2>3. i \in Lapsed(Captains)
    BY <1>1, <1>3, <2>2 DEF Ended
  <2>4. CanonicalAvailable(Captains)[c]
    BY <1>1, <2>3, ExpiryFrees
  <2> QED BY <1>6, <2>1, <2>4
<1>9. ASSUME NEW o \in Orders, NEW d \in Captains, CreateStoreCaptainDispatchOffer(o, d) PROVE Freed
  <2>1. /\ offer' = Marked(CanonicalOffer({d}), Slots({d}), "offered")
        /\ available' = CanonicalAvailable({d})
    BY <1>9 DEF CreateStoreCaptainDispatchOffer
  <2>2. \A j \in Offers : offer[j] # "none" => offer'[j] = CanonicalOffer({d})[j]
    BY <2>1 DEF Marked, Slots
  <2>3. {d} \in SUBSET Captains
    OBVIOUS
  <2> QED BY <1>4, <2>1, <2>2, <2>3
<1>10. ASSUME NEW o \in Orders, NEW cs \in SUBSET Captains, NEW as, NEW more, NEW back,
              more = OpenOn(o, CanonicalOffer(Captains)),
              CaptainsOf(more) \subseteq back,
              \A j \in Offers : as[j] \in Working => assignment[j] \in Working,
              DispatchCandidates(o, cs, Marked(CanonicalOffer(Captains), more, "superseded"),
                Restored(CanonicalAvailable(Captains), back,
                         Marked(CanonicalOffer(Captains), more, "superseded"), as), as)
       PROVE  Freed
  <2> DEFINE of == Marked(CanonicalOffer(Captains), more, "superseded")
  <2>1. \A j \in Offers : of[j] = IF j \in more THEN "superseded" ELSE CanonicalOffer(Captains)[j]
    BY DEF Marked
  <2>2. offer'[i] = of[i]
    BY <1>7, <1>10
  <2>3. i \in Lapsed(Captains) \cup more
    BY <1>1, <1>3, <2>1, <2>2 DEF Ended
  <2>4. CaptainsOf(Platform(more)) \subseteq back
    BY <1>10 DEF Platform, CaptainsOf
  <2>5. \A j \in Offers : of[j] = "offered" => CanonicalOffer(Captains)[j] = "offered" /\ j \notin more
    BY <2>1
  <2> HIDE DEF of
  <2>6. Restored(CanonicalAvailable(Captains), back, of, as)[c]
    BY <1>1, <1>10, <2>3, <2>4, <2>5, LaterFrees
  <2> QED BY <1>6, <1>10, <2>6 DEF of
<1>11. ASSUME NEW o \in Orders, NEW cs \in SUBSET Captains, RedispatchOrder(o, cs) PROVE Freed
  BY <1>10, <1>11 DEF RedispatchOrder
<1>12. ASSUME NEW k \in Offers, NEW cs \in SUBSET Captains, ReassignCaptain(k, cs) PROVE Freed
  <2>1. target[k] \in Orders
    BY <1>12, TargetNamed DEF ReassignCaptain, CanReassign
  <2>2. \A j \in Offers : Marked(assignment, {k}, "reassigned")[j] \in Working => assignment[j] \in Working
    BY DEF Marked, Working, Active
  <2> QED BY <1>10, <1>12, <2>1, <2>2 DEF ReassignCaptain
<1>13. ASSUME NEW k \in Offers, RejectCaptainOffer(k) PROVE Freed
  <2> DEFINE of == Marked(CanonicalOffer(Captains), {k}, "rejected")
  <2>1. /\ offer' = of
        /\ available' = Restored(CanonicalAvailable(Captains), CaptainsOf(Platform({k})), of, assignment)
    BY <1>13 DEF RejectCaptainOffer
  <2>2. \A j \in Offers : of[j] = IF j \in {k} THEN "rejected" ELSE CanonicalOffer(Captains)[j]
    BY DEF Marked
  <2> HIDE DEF of
  <2>3. i \in Lapsed(Captains) \cup {k}
    BY <1>1, <1>3, <2>1, <2>2 DEF Ended
  <2>4. Restored(CanonicalAvailable(Captains), CaptainsOf(Platform({k})), of, assignment)[c]
    BY <1>1, <2>2, <2>3, LaterFrees
  <2> QED BY <2>1, <2>4
<1>14. ASSUME NEW k \in Offers, AcceptCaptainOffer(k) PROVE Freed
  <2> DEFINE more == Losers(k)
             of == Marked(Marked(CanonicalOffer(Captains), more, "superseded"), {k}, "accepted")
             as == Marked(assignment, {k}, "assigned")
             av == Restored(CanonicalAvailable(Captains), CaptainsOf(more), of, as)
  <2>1. /\ CanAccept(k) /\ offer' = of
        /\ available' = [d \in Captains |-> av[d] /\ d \notin CaptainsOf(Platform({k}))]
    BY <1>14 DEF AcceptCaptainOffer
  <2>2. CanonicalOffer(Captains)[k] = "offered"
    BY <2>1 DEF CanAccept
  <2>3. offer[k] = "offered"
    BY <1>3, <2>2
  <2>4. offer'[k] = "accepted"
    BY <2>1 DEF Marked
  <2>5. k[1] # c
    BY <1>1, <2>3, <2>4 DEF IInv, OfferClaimsCaptain, Ended
  <2>6. /\ \A j \in Offers : of[j] = "offered" => CanonicalOffer(Captains)[j] = "offered" /\ j \notin more
        /\ i \notin more => of[i] = CanonicalOffer(Captains)[i]
    <3>1. \A j \in Offers : of[j] = IF j \in {k} THEN "accepted" ELSE
                                    IF j \in more THEN "superseded" ELSE CanonicalOffer(Captains)[j]
      BY DEF Marked
    <3> HIDE DEF of, more
    <3> QED BY <1>1, <2>5, <3>1
  <2>7. \A j \in Offers : as[j] \in Working /\ j[1] = c => assignment[j] \in Working
    <3>1. \A j \in Offers : as[j] = IF j \in {k} THEN "assigned" ELSE assignment[j]
      BY DEF Marked
    <3> HIDE DEF as
    <3> QED BY <2>5, <3>1
  <2>8. CaptainsOf(Platform(more)) \subseteq CaptainsOf(more)
    BY DEF CaptainsOf, Platform
  <2>9. c \notin CaptainsOf(Platform({k}))
    BY <2>5 DEF CaptainsOf, Platform
  <2> HIDE DEF more, of, as
  <2>10. i \in Lapsed(Captains) \cup more
    BY <1>1, <1>3, <2>1, <2>6 DEF Ended
  <2>11. av[c]
    BY <1>1, <2>6, <2>7, <2>8, <2>10, LaterFrees
  <2> QED BY <1>1, <2>1, <2>9, <2>11
<1>15. ASSUME NEW d \in Captains, CaptainStep(d) PROVE Freed
  <2>0. {d} \in SUBSET Captains
    OBVIOUS
  <2>1. ASSUME NEW wanted \in BOOLEAN, SetCaptainAvailability(d, wanted) PROVE Freed
    <3>1. /\ CanonicalAvailable({d})[d] = available[d] /\ offer' = CanonicalOffer({d})
      BY <2>1 DEF SetCaptainAvailability
    <3>2. i \in Lapsed({d}) /\ CanonicalAvailable({d})[c]
      BY <1>4, <2>0, <3>1
    <3>3. c = d
      BY <3>2 DEF Lapsed
    <3>4. ~available[c]
      BY <1>1 DEF IInv, OfferClaimsCaptain
    <3> QED BY <3>1, <3>2, <3>3, <3>4
  <2>2. ASSUME NEW seen \in SUBSET {j \in Offers : j[1] = d}, SuspendCaptainAdmission(d, seen) PROVE Freed
    <3>1. /\ offer' = Marked(CanonicalOffer({d}), seen, "superseded")
          /\ admission' = [admission EXCEPT ![d] = "suspended"]
      BY <2>2 DEF SuspendCaptainAdmission
    <3>2. c # d
      BY <1>1, <3>1 DEF IInv, TypeOK
    <3>3. i \notin seen /\ i \notin Lapsed({d})
      BY <3>2 DEF Lapsed
    <3>4. CanonicalOffer({d})[i] = offer[i]
      BY <1>1, <3>3 DEF CanonicalOffer, Marked
    <3>5. offer'[i] = offer[i]
      BY <1>1, <3>1, <3>3, <3>4 DEF Marked
    <3> QED BY <1>1, <3>5 DEF Ended
  <2>3. CASE RestoreCaptainAdmission(d)
    <3>1. i \in Lapsed({d})
      BY <1>4, <2>0, <2>3 DEF RestoreCaptainAdmission
    <3>2. c = d
      BY <3>1 DEF Lapsed
    <3> QED BY <2>3, <3>2
  <2> QED BY <1>15, <2>1, <2>2, <2>3 DEF CaptainStep
<1>16. ASSUME NEW o \in Orders, NEW cs \in SUBSET Captains, DispatchStep(o, cs) PROVE Freed
  BY <1>8, <1>9, <1>11, <1>16 DEF DispatchStep
<1>17. ASSUME NEW k \in Offers, OfferStep(k) PROVE Freed
  BY <1>2, <1>13, <1>17 DEF OfferStep, Elapse, ConfirmStoreHandoff, CompleteCaptainPickup,
     RecoverCaptainAssignment, CompleteCaptainAssignment
<1>18. ASSUME NEW o \in Orders, ReadyForDispatch(o) PROVE Freed
  BY <1>2, <1>18 DEF ReadyForDispatch
<1>19. ASSUME NEW k \in Offers, PostSettlement(k) PROVE Freed
  BY <1>2, <1>19 DEF PostSettlement
<1>20. ASSUME Operation PROVE Freed
  BY <1>5, <1>12, <1>15, <1>16, <1>17, <1>18, <1>20 DEF Operation
<1> QED BY <1>14, <1>19, <1>20 DEF Next

\* An eligible captain whose platform offer ends unaccepted is in the pool.
THEOREM EndedOfferFrees == Spec => EndedOfferFreesCaptain
<1> DEFINE Frees(i) == /\ offer[i] = "offered"
                       /\ offer'[i] \in {"rejected", "expired", "superseded"}
                       /\ admission[i[1]] = "eligible" /\ admission'[i[1]] = "eligible"
                       /\ \A j \in Offers : j[1] = i[1] => offer'[j] # "offered"
                       => available'[i[1]] \/ RestoreCaptainAdmission(i[1])
<1>1. IInv /\ [Next]_vars => [\A i \in Platform(Offers) : Frees(i)]_vars
  <2> SUFFICES ASSUME IInv, Next, NEW i \in Platform(Offers) PROVE Frees(i)
    OBVIOUS
  <2> QED BY StepFrees DEF LostFreely, Ended
<1>2. Spec => [][\A i \in Platform(Offers) : Frees(i)]_vars
  BY <1>1, Reached, PTL DEF Spec
<1> QED BY <1>2 DEF EndedOfferFreesCaptain

-----------------------------------------------------------------------------
(* Dispatch implements OrderCustody. *)

Serving(o) == CHOOSE i \in Live(o) : TRUE
Holder == [o \in Orders |-> IF Live(o) = {} THEN None ELSE Serving(o)[1]]
Stage == [o \in Orders |-> IF Live(o) = {} THEN "waiting" ELSE StageOf(Serving(o))]

\* The captain and the stage that a state shows for each order.
LEMMA Shown ==
  ASSUME NEW o \in Orders
  PROVE  /\ Live(o) = {} => Holder[o] = None /\ Stage[o] = "waiting"
         /\ \A i : Live(o) = {i} => Holder[o] = i[1] /\ Stage[o] = StageOf(i)
<1>1. \A i : Live(o) = {i} => Serving(o) = i
  BY DEF Serving
<1> QED BY <1>1 DEF Holder, Stage

\* The same after a step.
LEMMA ShownNext ==
  ASSUME NEW o \in Orders
  PROVE  /\ Live(o)' = {} => Holder'[o] = None /\ Stage'[o] = "waiting"
         /\ \A i : Live(o)' = {i} => Holder'[o] = i[1] /\ Stage'[o] = StageOf(i)'
<1>1. \A i : Live(o)' = {i} => Serving(o)' = i
  BY DEF Serving
<1> QED BY <1>1 DEF Holder, Stage, StageOf

\* The stage of each state of an assignment.
LEMMA Stages ==
  ASSUME NEW i
  PROVE  /\ assignment[i] = "assigned" => StageOf(i) = "assigned"
         /\ assignment[i] = "in_custody" => StageOf(i) = "carried"
         /\ assignment[i] = "delivery_failed" => StageOf(i) = "failed"
         /\ assignment[i] = "delivered" => StageOf(i) = "done"
         /\ assignment'[i] = "assigned" => StageOf(i)' = "assigned"
         /\ assignment'[i] = "in_custody" => StageOf(i)' = "carried"
         /\ assignment'[i] = "delivery_failed" => StageOf(i)' = "failed"
         /\ assignment'[i] = "delivered" => StageOf(i)' = "done"
  BY DEF StageOf

\* An order has one assignment at most.
LEMMA OneServes ==
  ASSUME IInv, NEW o \in Orders
  PROVE  /\ Live(o) \subseteq Offers
         /\ Live(o) = {} \/ \E i \in Live(o) : Live(o) = {i}
  BY DEF IInv, OrderAgreesWithAssignment, Live

\* An order whose assignment does not change shows the same.
LEMMA SameShown ==
  ASSUME IInv, NEW o \in Orders, Live(o)' = Live(o), \A i \in Live(o) : assignment'[i] = assignment[i]
  PROVE  Holder'[o] = Holder[o] /\ Stage'[o] = Stage[o]
<1>1. CASE Live(o) = {}
  BY <1>1, Shown, ShownNext
<1>2. ASSUME NEW i \in Live(o), Live(o) = {i} PROVE Holder'[o] = Holder[o] /\ Stage'[o] = Stage[o]
  <2>1. StageOf(i)' = StageOf(i)
    BY DEF StageOf
  <2> QED BY <1>2, <2>1, Shown, ShownNext
<1> QED BY <1>1, <1>2, OneServes

\* Functions on the orders that agree everywhere, or but at one order.
LEMMA Extends ==
  /\ \A f, g : /\ f = [o \in Orders |-> f[o]] /\ g = [o \in Orders |-> g[o]]
               /\ \A o \in Orders : g[o] = f[o]
               => g = f
  /\ \A f, g, v : \A t \in Orders :
       /\ f = [o \in Orders |-> f[o]] /\ g = [o \in Orders |-> g[o]]
       /\ g[t] = v /\ \A o \in Orders : o # t => g[o] = f[o]
       => g = [f EXCEPT ![t] = v]
<1>1. ASSUME NEW f, NEW g, f = [o \in Orders |-> f[o]], g = [o \in Orders |-> g[o]],
             \A o \in Orders : g[o] = f[o]
      PROVE  g = f
  BY <1>1
<1>2. ASSUME NEW f, NEW g, NEW v, NEW t \in Orders,
             f = [o \in Orders |-> f[o]], g = [o \in Orders |-> g[o]],
             g[t] = v, \A o \in Orders : o # t => g[o] = f[o]
      PROVE  g = [f EXCEPT ![t] = v]
  <2> DEFINE h == [f EXCEPT ![t] = v]
  <2>1. h = [o \in Orders |-> h[o]] /\ \A o \in Orders : h[o] = g[o]
    BY <1>2
  <2> HIDE DEF h
  <2>2. g = h
    BY <1>1, <1>2, <2>1
  <2> QED BY <2>2 DEF h
<1> QED BY <1>1, <1>2

\* What a state shows is a function of the orders.
LEMMA ShownIsFunction ==
  /\ Holder = [o \in Orders |-> Holder[o]] /\ Stage = [o \in Orders |-> Stage[o]]
  /\ Holder' = [o \in Orders |-> Holder'[o]] /\ Stage' = [o \in Orders |-> Stage'[o]]
  BY DEF Holder, Stage

\* The assignments of the orders after each kind of step.
LEMMA QuietLive ==
  ASSUME IInv, Bound, UNCHANGED assignment
  PROVE  \A o \in Orders : Live(o)' = Live(o)
<1>1. "none" \notin Working \cup {"delivered"}
  BY DEF Working, Active
<1> QED BY <1>1 DEF Bound, Live

\* After an acceptance.
LEMMA GivenLive ==
  ASSUME IInv, Bound, NEW i \in Offers, Given(i)
  PROVE  /\ target[i] \in Orders
         /\ assignment'[i] = "assigned"
         /\ \A j \in Offers : j # i => assignment'[j] = assignment[j]
         /\ \A o \in Orders : Live(o)' = IF o = target[i] THEN {i} ELSE Live(o)
<1>1. "none" \notin Working \cup {"delivered"} /\ "assigned" \in Working
  BY DEF Working, Active
<1>2. target[i] \in Orders /\ assignment[i] = "none"
  BY TargetNamed DEF Given, IInv, Named
<1>3. \A j \in Offers : assignment'[j] = IF j = i THEN "assigned" ELSE assignment[j]
  BY DEF Given, Marked
<1>4. \A o \in Orders, j \in Offers :
        j \in Live(o)' <=> IF j = i THEN o = target[i] ELSE j \in Live(o)
  BY <1>1, <1>2, <1>3 DEF Bound, Given, Live
<1>5. \A o \in Orders : Live(o)' \subseteq Offers /\ Live(o) \subseteq Offers
  BY DEF Live
<1>6. Live(target[i]) = {} /\ \A o \in Orders : i \notin Live(o)
  BY <1>1, <1>2 DEF Given, Live
<1> QED BY <1>2, <1>3, <1>4, <1>5, <1>6

\* After an assignment is taken back.
LEMMA TakenLive ==
  ASSUME IInv, Bound, NEW i \in Offers, TakenFrom({i})
  PROVE  /\ target[i] \in Orders
         /\ \A j \in Offers : j # i => assignment'[j] = assignment[j]
         /\ \A o \in Orders : Live(o)' = IF o = target[i] THEN {} ELSE Live(o)
<1>1. /\ "none" \notin Working \cup {"delivered"} /\ "assigned" \in Working
      /\ "reassigned" \notin Working \cup {"delivered"}
  BY DEF Working, Active
<1>2. assignment[i] = "assigned"
  BY DEF TakenFrom
<1>3. target[i] \in Orders
  BY <1>2, TargetNamed
<1>4. \A j \in Offers : assignment'[j] = IF j = i THEN "reassigned" ELSE assignment[j]
  BY DEF TakenFrom, Marked
<1>5. \A o \in Orders, j \in Offers : j \in Live(o)' <=> j \in Live(o) /\ j # i
  BY <1>1, <1>4 DEF Bound, Live
<1>6. \A o \in Orders : Live(o)' \subseteq Offers /\ Live(o) \subseteq Offers
  BY DEF Live
<1>7. i \in Live(target[i]) /\ \A o \in Orders : i \in Live(o) => o = target[i]
  BY <1>1, <1>2 DEF Live
<1>8. Live(target[i]) = {i}
  BY <1>3, <1>7 DEF IInv, OrderAgreesWithAssignment
<1> QED BY <1>3, <1>4, <1>5, <1>6, <1>7, <1>8

\* After a move of the goods.
LEMMA CarriedLive ==
  ASSUME IInv, Bound, NEW i \in Offers, NEW from, NEW to, Carried(i, from, to)
  PROVE  /\ target[i] \in Orders /\ Live(target[i]) = {i}
         /\ assignment'[i] = to
         /\ \A j \in Offers : j # i => assignment'[j] = assignment[j]
         /\ \A o \in Orders : Live(o)' = Live(o)
<1>1. /\ "none" \notin Working \cup {"delivered"}
      /\ {from, to} \subseteq Working \cup {"delivered"} /\ assignment[i] = from
  BY DEF Carried, Working, Active
<1>2. target[i] \in Orders
  BY <1>1, TargetNamed
<1>3. /\ assignment'[i] = to
      /\ \A j \in Offers : j # i => assignment'[j] = assignment[j]
  BY DEF Carried, IInv, TypeOK
<1>4. \A o \in Orders : Live(o)' = Live(o)
  BY <1>1, <1>3 DEF Bound, Live
<1>5. i \in Live(target[i])
  BY <1>1 DEF Live
<1>6. Live(target[i]) = {i}
  BY <1>2, <1>5 DEF IInv, OrderAgreesWithAssignment
<1> QED BY <1>2, <1>3, <1>4, <1>6

\* A captain without goods is free.
LEMMA FreeCaptain ==
  ASSUME IInv, NEW c \in Captains, \A j \in Offers : j[1] = c => assignment[j] \notin Working
  PROVE  \A o \in Orders : Holder[o] = c => Stage[o] = "done"
<1> SUFFICES ASSUME NEW o \in Orders, Holder[o] = c PROVE Stage[o] = "done"
  OBVIOUS
<1>1. Live(o) # {}
  BY Shown, NoneAssumption
<1>2. PICK i \in Live(o) : Live(o) = {i} /\ i \in Offers
  BY <1>1, OneServes
<1>3. i[1] = c /\ Stage[o] = StageOf(i)
  BY <1>2, Shown
<1>4. assignment[i] = "delivered"
  BY <1>2, <1>3 DEF Live
<1> QED BY <1>3, <1>4, Stages

Custodian == <<Holder, Stage>>

\* Each kind of custody step is one of OrderCustody, or shows nothing.
LEMMA CustodyStepRefines ==
  ASSUME IInv, CustodyStep
  PROVE  [Custody!Next]_Custodian
<1>0. Bound
  BY DEF CustodyStep
<1>1. ASSUME UNCHANGED assignment PROVE UNCHANGED Custodian
  <2>1. \A o \in Orders : Holder'[o] = Holder[o] /\ Stage'[o] = Stage[o]
    BY <1>0, <1>1, QuietLive, SameShown
  <2> QED BY <2>1, Extends, ShownIsFunction DEF Custodian
<1>2. ASSUME NEW i \in Offers, Given(i) PROVE Custody!Next
  <2> DEFINE t == target[i]
             c == i[1]
  <2>1. /\ t \in Orders /\ c \in Captains /\ assignment'[i] = "assigned" /\ Live(t) = {}
        /\ \A j \in Offers : j # i => assignment'[j] = assignment[j]
        /\ \A o \in Orders : Live(o)' = IF o = t THEN {i} ELSE Live(o)
    BY <1>0, <1>2, GivenLive, OfferNames DEF Given
  <2>2. \A o \in Orders : o # t => i \notin Live(o) /\ Live(o) \subseteq Offers
    BY DEF Live
  <2>3. \A o \in Orders : o # t => Holder'[o] = Holder[o] /\ Stage'[o] = Stage[o]
    BY <2>1, <2>2, SameShown
  <2>4. Stage[t] = "waiting"
    BY <2>1, Shown
  <2>5. Holder'[t] = c /\ Stage'[t] = "assigned"
    <3>1. \A o \in Orders : o = t => Holder'[o] = c /\ Stage'[o] = StageOf(i)'
      BY <2>1, ShownNext
    <3> QED BY <2>1, <3>1, Stages
  <2>6. \A o \in Orders : Holder[o] = c => Stage[o] = "done"
    BY <1>2, <2>1, FreeCaptain DEF Given
  <2> HIDE DEF t, c
  <2>7. Holder' = [Holder EXCEPT ![t] = c] /\ Stage' = [Stage EXCEPT ![t] = "assigned"]
    BY <2>1, <2>3, <2>5, Extends, ShownIsFunction
  <2>8. Custody!Assign(t, c)
    BY <2>4, <2>6, <2>7 DEF Custody!Assign, Custody!Free, Holder, Stage, Serving
  <2> QED BY <2>1, <2>8 DEF Custody!Next
<1>3. ASSUME NEW i \in Offers, TakenFrom({i}) PROVE Custody!Next
  <2> DEFINE t == target[i]
  <2>1. /\ t \in Orders /\ assignment[i] = "assigned"
        /\ \A j \in Offers : j # i => assignment'[j] = assignment[j]
        /\ \A o \in Orders : Live(o)' = IF o = t THEN {} ELSE Live(o)
    BY <1>0, <1>3, TakenLive DEF TakenFrom
  <2>2. \A o \in Orders : o # t => i \notin Live(o) /\ Live(o) \subseteq Offers
    BY DEF Live
  <2>3. \A o \in Orders : o # t => Holder'[o] = Holder[o] /\ Stage'[o] = Stage[o]
    BY <2>1, <2>2, SameShown
  <2>4. Stage[t] = "assigned"
    <3>1. i \in Live(t)
      BY <2>1 DEF Live, Working, Active
    <3>2. Live(t) = {i}
      BY <2>1, <3>1 DEF IInv, OrderAgreesWithAssignment
    <3> QED BY <2>1, <3>2, Shown, Stages
  <2>5. Holder'[t] = None /\ Stage'[t] = "waiting"
    <3>1. \A o \in Orders : o = t => Holder'[o] = None /\ Stage'[o] = "waiting"
      BY <2>1, ShownNext
    <3> QED BY <2>1, <3>1
  <2> HIDE DEF t
  <2>6. Holder' = [Holder EXCEPT ![t] = None] /\ Stage' = [Stage EXCEPT ![t] = "waiting"]
    BY <2>1, <2>3, <2>5, Extends, ShownIsFunction
  <2>7. Custody!TakeBack(t)
    BY <2>4, <2>6 DEF Custody!TakeBack, Holder, Stage, Serving
  <2> QED BY <2>1, <2>7 DEF Custody!Next
<1>4. ASSUME NEW S \in SUBSET Offers, TakenFrom(S) PROVE [Custody!Next]_Custodian
  <2>1. CASE S = {}
    <3>1. assignment' = assignment
      BY <1>4, <2>1 DEF TakenFrom, Marked, IInv, TypeOK
    <3> QED BY <1>1, <3>1
  <2>2. CASE S # {}
    <3>1. PICK i \in S : S = {i}
      BY <1>4, <2>2 DEF TakenFrom
    <3> QED BY <1>3, <1>4, <3>1
  <2> QED BY <2>1, <2>2
<1>5. ASSUME NEW i \in Offers, NEW from, NEW to, Carried(i, from, to) PROVE Custody!Next
  <2> DEFINE t == target[i]
  <2>1. /\ t \in Orders /\ Live(t) = {i} /\ assignment[i] = from /\ assignment'[i] = to
        /\ \A j \in Offers : j # i => assignment'[j] = assignment[j]
        /\ \A o \in Orders : Live(o)' = Live(o)
    BY <1>0, <1>5, CarriedLive DEF Carried
  <2>2. \A o \in Orders : o # t => i \notin Live(o) /\ Live(o) \subseteq Offers
    BY DEF Live
  <2>3. \A o \in Orders : o # t => Holder'[o] = Holder[o] /\ Stage'[o] = Stage[o]
    BY <2>1, <2>2, SameShown
  <2>4. Stage[t] = StageOf(i) /\ Holder[t] = i[1]
    BY <2>1, Shown
  <2>5. Holder'[t] = i[1] /\ Stage'[t] = StageOf(i)'
    <3>1. \A o \in Orders : o = t => Holder'[o] = i[1] /\ Stage'[o] = StageOf(i)'
      BY <2>1, ShownNext
    <3> QED BY <2>1, <3>1
  <2> HIDE DEF t
  <2>6. Holder' = Holder /\ Stage' = [Stage EXCEPT ![t] = StageOf(i)']
    BY <2>1, <2>3, <2>4, <2>5, Extends, ShownIsFunction
  <2>7. <<Stage[t], StageOf(i)'>> \in {<<"assigned", "carried">>, <<"carried", "failed">>,
                                      <<"failed", "carried">>, <<"carried", "done">>}
    BY <1>5, <2>1, <2>4, Stages DEF Carried
  <2>8. \/ Custody!Move(t, "assigned", "carried") \/ Custody!Move(t, "carried", "failed")
        \/ Custody!Move(t, "failed", "carried") \/ Custody!Move(t, "carried", "done")
    BY <2>6, <2>7 DEF Custody!Move, Holder, Stage, Serving
  <2> QED BY <2>1, <2>8 DEF Custody!Next
<1> QED BY <1>1, <1>2, <1>4, <1>5 DEF CustodyStep

\* Dispatch implements OrderCustody.
THEOREM ImplementsCustody == Spec => CustodyChain
<1>1. Init => Custody!Init
  <2> SUFFICES ASSUME Init PROVE Custody!Init
    OBVIOUS
  <2>1. \A o \in Orders : Live(o) = {}
    BY DEF Init, Live, Working, Active
  <2> QED BY <2>1 DEF Custody!Init
<1>2. IInv /\ [Next]_vars => [Custody!Next]_Custodian
  <2> SUFFICES ASSUME IInv, [Next]_vars PROVE [Custody!Next]_Custodian
    OBVIOUS
  <2>1. CASE Next
    BY <2>1, EveryStep, CustodyStepRefines
  <2>2. CASE UNCHANGED vars
    <3>1. UNCHANGED <<target, assignment>>
      BY <2>2 DEF vars
    <3>2. CustodyStep
      BY <3>1 DEF CustodyStep, Bound
    <3> QED BY <3>2, CustodyStepRefines
  <2> QED BY <2>1, <2>2
<1>3. IInv /\ [Next]_vars => [Custody!Next]_(Custody!vars)
  <2>1. (UNCHANGED Custodian) => UNCHANGED Custody!vars
    BY DEF Custodian, Holder, Stage, Serving, Custody!vars
  <2> QED BY <1>2, <2>1
<1>4. Spec => Custody!Spec
  BY <1>1, <1>3, Reached, PTL DEF Spec, Custody!Spec
<1> QED BY <1>4 DEF CustodyChain

-----------------------------------------------------------------------------
(* For compositions: what no operation takes back, whoever acts on the     *)
(* outbox meanwhile.                                                       *)

\* A row once written is left alone; a new one is pending.
Writes(rows, i) == rows'[i] = rows[i] \/ (rows[i] = "none" /\ rows'[i] = "PENDING")

\* An offer keeps its order and ends once, an assignment is not forgotten.
Onward(i) ==
  /\ offer[i] # "none" => target'[i] = target[i]
  /\ offer[i] = "offered" => offer'[i] # "none"
  /\ offer[i] \notin {"none", "offered"} => offer'[i] = offer[i]
  /\ Writes(offerRelease, i) /\ Writes(assignmentRelease, i) /\ Writes(settlement, i)
  /\ assignment[i] \in {"delivered", "reassigned"} => assignment'[i] = assignment[i]
  /\ assignment[i] \in Working => assignment'[i] \in Working \cup {"delivered", "reassigned"}

\* Rows are only ever added to the outbox.
LEMMA EnqueuedWrites ==
  ASSUME NEW i \in Offers, NEW rows, NEW S, NEW T
  PROVE  /\ Enqueued(rows, S)[i] = rows[i] \/ (rows[i] = "none" /\ Enqueued(rows, S)[i] = "PENDING")
         /\ Enqueued(Enqueued(rows, T), S)[i] = rows[i]
              \/ (rows[i] = "none" /\ Enqueued(Enqueued(rows, T), S)[i] = "PENDING")
  BY DEF Enqueued

\* What a custody step leaves of every assignment.
LEMMA AssignmentOnward ==
  ASSUME IInv, CustodyStep, NEW i \in Offers
  PROVE  /\ assignment[i] \in {"delivered", "reassigned"} => assignment'[i] = assignment[i]
         /\ assignment[i] \in Working => assignment'[i] \in Working \cup {"delivered", "reassigned"}
<1>1. assignment \in [Offers -> Working \cup {"none", "delivered", "reassigned"}]
  BY DEF IInv, TypeOK
<1>2. CASE UNCHANGED assignment
  BY <1>2
<1>3. ASSUME NEW j \in Offers, Given(j)
      PROVE  assignment[i] # "none" => assignment'[i] = assignment[i]
  <2>1. assignment[j] = "none"
    BY <1>3 DEF Given, IInv, Named
  <2> QED BY <1>3, <2>1 DEF Given, Marked
<1>4. ASSUME NEW S \in SUBSET Offers, TakenFrom(S)
      PROVE  assignment'[i] = assignment[i] \/ (assignment[i] = "assigned" /\ assignment'[i] = "reassigned")
  BY <1>4 DEF TakenFrom, Marked
<1>5. ASSUME NEW j \in Offers, NEW from, NEW to, Carried(j, from, to)
      PROVE  assignment'[i] = assignment[i]
               \/ (assignment[i] \in Working /\ assignment'[i] \in Working \cup {"delivered"})
  BY <1>1, <1>5 DEF Carried, Working, Active
<1> QED BY <1>2, <1>3, <1>4, <1>5 DEF CustodyStep, Working, Active

\* Expiry, and what a transaction marks on top of it.
LEMMA OfferOnward ==
  ASSUME IInv, NEW cs \in SUBSET Captains, NEW S, NEW s, S \subseteq Offers, NEW i \in Offers,
         \A j \in S : CanonicalOffer(cs)[j] = "offered", s \in Ended
  PROVE  LET of == Marked(CanonicalOffer(cs), S, s)
         IN  /\ offer[i] = "offered" => of[i] \in Ended \cup {"offered"}
             /\ offer[i] # "offered" => of[i] = offer[i]
  BY Expiry DEF Marked, Ended

\* What holds of the operations taken one by one.
Offered(i) ==
  /\ offer[i] # "none" => target'[i] = target[i]
  /\ offer[i] = "offered" => offer'[i] # "none"
  /\ offer[i] \notin {"none", "offered"} => offer'[i] = offer[i]
  /\ offer'[i] = "accepted" => offer[i] = "accepted"

\* A batch of new offers, made after some open ones were ended.
LEMMA BatchOnward ==
  ASSUME IInv, NEW cs, NEW o, NEW of, NEW i \in Offers,
         offer[i] = "offered" => of[i] \in Ended \cup {"offered"},
         offer[i] # "offered" => of[i] = offer[i],
         offer' = Marked(of, Slots(cs), "offered"), target' = Marked(target, Slots(cs), o)
  PROVE  Offered(i)
<1>1. i \in Slots(cs) => offer[i] = "none"
  BY NextOffers
<1> QED BY <1>1 DEF Offered, Marked, Ended

\* Expiry alone, and expiry followed by the end of some open offers.
LEMMA ExpiryOnward ==
  ASSUME IInv, NEW cs \in SUBSET Captains, NEW i \in Offers
  PROVE  /\ offer[i] = "offered" => CanonicalOffer(cs)[i] \in Ended \cup {"offered"}
         /\ offer[i] # "offered" => CanonicalOffer(cs)[i] = offer[i]
  BY Expiry DEF Ended

\* The operations of dispatch, one by one.
LEMMA OperationOffers == ASSUME IInv, Operation, NEW i \in Offers PROVE Offered(i)
<1>0. Captains \in SUBSET Captains /\ \A c \in Captains : {c} \in SUBSET Captains
  OBVIOUS
<1>1. ASSUME UNCHANGED <<target, offer>> PROVE Offered(i)
  BY <1>1 DEF Offered
<1>2. ASSUME NEW of, UNCHANGED target, offer' = of,
             offer[i] = "offered" => of[i] \in Ended \cup {"offered"},
             offer[i] # "offered" => of[i] = offer[i]
      PROVE  Offered(i)
  BY <1>2 DEF Offered, Ended
<1>3. ASSUME NEW cs \in SUBSET Captains, UNCHANGED target, offer' = CanonicalOffer(cs) PROVE Offered(i)
  BY <1>2, <1>3, ExpiryOnward
<1>4. ASSUME NEW o \in Orders, ReadyForDispatch(o) PROVE Offered(i)
  BY <1>1, <1>4 DEF ReadyForDispatch
<1>5. ASSUME NEW cs \in {Captains} \cup {{c} : c \in Captains}, CanonicalizeCaptainOffers(cs)
      PROVE  Offered(i)
  <2>1. cs \in SUBSET Captains
    BY <1>0
  <2> QED BY <1>3, <1>5, <2>1 DEF CanonicalizeCaptainOffers
<1>6. ASSUME NEW o, OpenOn(o, CanonicalOffer(Captains)) \subseteq Offers
      PROVE  LET of == Marked(CanonicalOffer(Captains), OpenOn(o, CanonicalOffer(Captains)), "superseded")
             IN  /\ offer[i] = "offered" => of[i] \in Ended \cup {"offered"}
                 /\ offer[i] # "offered" => of[i] = offer[i]
  BY <1>0, <1>6, OfferOnward DEF OpenOn, Ended
<1>7. \A o : OpenOn(o, CanonicalOffer(Captains)) \subseteq Offers
  BY DEF OpenOn
<1>8. ASSUME NEW o \in Orders, NEW cs \in SUBSET Captains, DispatchStep(o, cs) PROVE Offered(i)
  <2>1. CASE CreateCaptainDispatchOffer(o, cs)
    BY <1>0, <2>1, ExpiryOnward, BatchOnward DEF CreateCaptainDispatchOffer, DispatchCandidates
  <2>2. CASE RedispatchOrder(o, cs)
    BY <1>6, <1>7, <2>2, BatchOnward DEF RedispatchOrder, DispatchCandidates
  <2>3. ASSUME NEW c \in cs, CreateStoreCaptainDispatchOffer(o, c) PROVE Offered(i)
    BY <1>0, <2>3, ExpiryOnward, BatchOnward DEF CreateStoreCaptainDispatchOffer
  <2> QED BY <1>8, <2>1, <2>2, <2>3 DEF DispatchStep
<1>9. ASSUME NEW j \in Offers, NEW cs \in SUBSET Captains, ReassignCaptain(j, cs) PROVE Offered(i)
  BY <1>6, <1>7, <1>9, BatchOnward DEF ReassignCaptain, DispatchCandidates
<1>10. ASSUME NEW j \in Offers, OfferStep(j) PROVE Offered(i)
  <2>1. CASE RejectCaptainOffer(j)
    <3>1. CanonicalOffer(Captains)[j] = "offered" /\ target' = target
          /\ offer' = Marked(CanonicalOffer(Captains), {j}, "rejected")
      BY <2>1 DEF RejectCaptainOffer
    <3> QED BY <1>0, <1>2, <3>1, OfferOnward DEF Ended
  <2>2. CASE Elapse(j)
    BY <1>1, <2>2 DEF Elapse
  <2>3. CASE ConfirmStoreHandoff(j)
    BY <1>1, <2>3 DEF ConfirmStoreHandoff
  <2>4. CASE CompleteCaptainPickup(j)
    BY <1>1, <2>4 DEF CompleteCaptainPickup
  <2>5. CASE RecoverCaptainAssignment(j)
    BY <1>1, <2>5 DEF RecoverCaptainAssignment
  <2>6. ASSUME NEW result, CompleteCaptainAssignment(j, result) PROVE Offered(i)
    BY <1>1, <2>6 DEF CompleteCaptainAssignment
  <2> QED BY <1>10, <2>1, <2>2, <2>3, <2>4, <2>5, <2>6 DEF OfferStep
<1>11. ASSUME NEW c \in Captains, CaptainStep(c) PROVE Offered(i)
  <2>1. ASSUME NEW wanted, SetCaptainAvailability(c, wanted) PROVE Offered(i)
    BY <1>0, <1>3, <2>1 DEF SetCaptainAvailability
  <2>2. ASSUME NEW seen \in SUBSET {j \in Offers : j[1] = c}, SuspendCaptainAdmission(c, seen)
        PROVE  Offered(i)
    <3>1. /\ target' = target /\ offer' = Marked(CanonicalOffer({c}), seen, "superseded")
          /\ \A j \in seen : CanonicalOffer({c})[j] = "offered"
      BY <2>2 DEF SuspendCaptainAdmission
    <3> QED BY <1>0, <1>2, <3>1, OfferOnward DEF Ended
  <2>3. CASE RestoreCaptainAdmission(c)
    BY <1>0, <1>3, <2>3 DEF RestoreCaptainAdmission
  <2> QED BY <1>11, <2>1, <2>2, <2>3 DEF CaptainStep
<1> QED BY <1>4, <1>5, <1>8, <1>9, <1>10, <1>11 DEF Operation

\* The rows about one offer or assignment.
Outbox(i) ==
  Writes(offerRelease, i) /\ Writes(assignmentRelease, i) /\ Writes(settlement, i)

\* No operation takes a row back.
LEMMA OperationOutbox == ASSUME Operation, NEW i \in Offers PROVE Outbox(i)
<1>1. ASSUME NEW S, NEW T, NEW U, NEW V,
             offerRelease' \in {offerRelease, Enqueued(offerRelease, S),
                                Enqueued(Enqueued(offerRelease, S), T)},
             assignmentRelease' \in {assignmentRelease, Enqueued(assignmentRelease, U)},
             settlement' \in {settlement, Enqueued(settlement, V)}
      PROVE  Outbox(i)
  <2>1. Writes(offerRelease, i)
    BY <1>1, EnqueuedWrites DEF Writes
  <2>2. Writes(assignmentRelease, i)
    BY <1>1, EnqueuedWrites DEF Writes
  <2>3. Writes(settlement, i)
    BY <1>1, EnqueuedWrites DEF Writes
  <2> QED BY <2>1, <2>2, <2>3 DEF Outbox
<1>2. ASSUME NEW o \in Orders, ReadyForDispatch(o) PROVE Outbox(i)
  BY <1>1, <1>2 DEF ReadyForDispatch, outbox
<1>3. ASSUME NEW cs, CanonicalizeCaptainOffers(cs) PROVE Outbox(i)
  BY <1>1, <1>3 DEF CanonicalizeCaptainOffers, CanonicalRelease
<1>4. ASSUME NEW o, NEW cs, DispatchStep(o, cs) PROVE Outbox(i)
  <2>1. CASE CreateCaptainDispatchOffer(o, cs)
    BY <1>1, <2>1 DEF CreateCaptainDispatchOffer, CanonicalRelease
  <2>2. CASE RedispatchOrder(o, cs)
    BY <1>1, <2>2 DEF RedispatchOrder, CanonicalRelease
  <2>3. ASSUME NEW c, CreateStoreCaptainDispatchOffer(o, c) PROVE Outbox(i)
    BY <1>1, <2>3 DEF CreateStoreCaptainDispatchOffer, CanonicalRelease
  <2> QED BY <1>4, <2>1, <2>2, <2>3 DEF DispatchStep
<1>5. ASSUME NEW j, NEW cs, ReassignCaptain(j, cs) PROVE Outbox(i)
  BY <1>1, <1>5 DEF ReassignCaptain, CanonicalRelease
<1>6. ASSUME NEW j, OfferStep(j) PROVE Outbox(i)
  <2>1. CASE RejectCaptainOffer(j)
    BY <1>1, <2>1 DEF RejectCaptainOffer, CanonicalRelease
  <2>2. ASSUME UNCHANGED outbox PROVE Outbox(i)
    BY <2>2 DEF outbox, Outbox, Writes
  <2>3. CASE Elapse(j) \/ ConfirmStoreHandoff(j) \/ CompleteCaptainPickup(j) \/ RecoverCaptainAssignment(j)
    BY <2>2, <2>3 DEF Elapse, ConfirmStoreHandoff, CompleteCaptainPickup, RecoverCaptainAssignment
  <2>4. ASSUME NEW result, CompleteCaptainAssignment(j, result) PROVE Outbox(i)
    BY <1>1, <2>4 DEF CompleteCaptainAssignment
  <2> QED BY <1>6, <2>1, <2>3, <2>4 DEF OfferStep
<1>7. ASSUME NEW c, CaptainStep(c) PROVE Outbox(i)
  <2>1. ASSUME NEW wanted, SetCaptainAvailability(c, wanted) PROVE Outbox(i)
    BY <1>1, <2>1 DEF SetCaptainAvailability, CanonicalRelease
  <2>2. ASSUME NEW seen, SuspendCaptainAdmission(c, seen) PROVE Outbox(i)
    BY <1>1, <2>2 DEF SuspendCaptainAdmission, CanonicalRelease
  <2>3. CASE RestoreCaptainAdmission(c)
    BY <1>1, <2>3 DEF RestoreCaptainAdmission, CanonicalRelease
  <2> QED BY <1>7, <2>1, <2>2, <2>3 DEF CaptainStep
<1> QED BY <1>2, <1>3, <1>4, <1>5, <1>6, <1>7 DEF Operation

\* Every operation of dispatch goes onward, and none of them accepts.
LEMMA OperationOnward ==
  ASSUME IInv, Operation, NEW i \in Offers
  PROVE  Onward(i) /\ (offer'[i] = "accepted" => offer[i] = "accepted")
<1>1. CustodyStep
  BY EveryStep DEF Next
<1> QED BY <1>1, AssignmentOnward, OperationOffers, OperationOutbox DEF Onward, Offered, Outbox

\* So does an acceptance, which accepts one offer.
LEMMA AcceptOnward ==
  ASSUME IInv, NEW j \in Offers, AcceptCaptainOffer(j), NEW i \in Offers
  PROVE  Onward(i) /\ (offer'[i] = "accepted" => offer[i] = "accepted" \/ i = j)
<1>1. CustodyStep
  BY EveryStep DEF Next
<1>2. /\ CanonicalOffer(Captains)[j] = "offered" /\ target' = target
      /\ offer' = Marked(Marked(CanonicalOffer(Captains), Losers(j), "superseded"), {j}, "accepted")
      /\ offerRelease' = Enqueued(Enqueued(offerRelease, Platform(Owing(Lapsed(Captains)))), Owing(Losers(j)))
      /\ UNCHANGED <<assignmentRelease, settlement>>
  BY DEF AcceptCaptainOffer, CanAccept, CanonicalRelease
<1>3. Writes(offerRelease, i) /\ Writes(assignmentRelease, i) /\ Writes(settlement, i)
  BY <1>2, EnqueuedWrites DEF Writes
<1>4. Losers(j) \subseteq Offers /\ \A k \in Losers(j) : CanonicalOffer(Captains)[k] = "offered"
  BY DEF Losers, OpenOn
<1>5. /\ offer[i] = "offered" => Marked(CanonicalOffer(Captains), Losers(j), "superseded")[i] \in Ended \cup {"offered"}
      /\ offer[i] # "offered" => Marked(CanonicalOffer(Captains), Losers(j), "superseded")[i] = offer[i]
  <2>1. Captains \in SUBSET Captains
    OBVIOUS
  <2> QED BY <1>4, <2>1, OfferOnward DEF Ended
<1>6. offer'[i] = IF i = j THEN "accepted" ELSE Marked(CanonicalOffer(Captains), Losers(j), "superseded")[i]
  BY <1>2 DEF Marked
<1>7. offer[j] = "offered"
  BY <1>2, Expiry
<1> QED BY <1>1, <1>2, <1>3, <1>5, <1>6, <1>7, AssignmentOnward DEF Onward, Ended

\* Marking a release row posted touches nothing the invariant is about.
LEMMA PostReleaseStep ==
  ASSUME IInv, NEW j \in Offers, PostOfferRelease(j) \/ PostAssignmentRelease(j)
  PROVE  IInv'
<1>1. /\ UNCHANGED <<order, payment, target, offer, overdue, assignment, handoff, admission, available, settlement>>
      /\ offerRelease' \in [Offers -> Posting] /\ assignmentRelease' \in [Offers -> Posting]
      /\ \A i \in Offers :
           (offerRelease'[i] # "none" <=> offerRelease[i] # "none")
             /\ (assignmentRelease'[i] # "none" <=> assignmentRelease[i] # "none")
  BY DEF PostOfferRelease, PostAssignmentRelease, captainVars, IInv, TypeOK, Posting
<1>2. TypeOK' /\ Named' /\ OneStoreOffer' /\ OneLoad'
  BY <1>1 DEF IInv, TypeOK, Named, OneStoreOffer, OneLoad
<1>3. OrderAgreesWithAssignment' /\ OfferClaimsCaptain' /\ NoOfferOnTakenOrder'
  BY <1>1 DEF IInv, OrderAgreesWithAssignment, OfferClaimsCaptain, NoOfferOnTakenOrder, Live, Platform
<1>4. ReleasesOwed'
  BY <1>1 DEF IInv, ReleasesOwed, Platform
<1>5. SettledByDeliverer'
  BY <1>1, SettledKept DEF IInv
<1> QED BY <1>2, <1>3, <1>4, <1>5 DEF IInv
================================================================================
