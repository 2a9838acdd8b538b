-------------------------- MODULE CaptainWalletProofs --------------------------
(***************************************************************************)
(* The captain wallet for any number of orders, captains, keys and payouts *)
(* and any amounts.  Two inductive invariants.                             *)
(*                                                                         *)
(* IInv, the reservation discipline, adds to the checked properties what   *)
(* the tables themselves remember: a key without an event has no row, a    *)
(* DEBITED row and an earning exist only for a collected intent.           *)
(*                                                                         *)
(* MoneyInv, about the amounts, adds that the tables are finite, which     *)
(* gives every sum a value, and that a debit follows its earning, which    *)
(* ties the receivable to the rows.  Each action is shown to change each   *)
(* sum by one row: the ...Sums lemmas.                                     *)
(***************************************************************************)
EXTENDS CaptainWallet, SumTheorems, TLAPS

\* A reservation row is written together with the event of its key.
RowHasEvent == \A k \in Keys : event[k] = None => reservation[k] = None

\* The wallet is debited only after the intent was collected, and a collected
\* intent never leaves that state.
DebitedIsCollected ==
  \A k \in Keys : reservation[k] # None /\ reservation[k].state = "DEBITED" =>
    intent[reservation[k].order] = "COLLECTED"

EarnedIsCollected == \A o \in Orders : earning[o] # None => intent[o] = "COLLECTED"

IInv ==
  /\ TypeOK
  /\ RowHasEvent
  /\ DebitedIsCollected
  /\ EarnedIsCollected
  /\ CollectedCashCovered
  /\ ChargedOnce
  /\ EarnerIsCollector

-----------------------------------------------------------------------------
LEMMA InitIInv == Init => IInv
BY NoneAssumption
   DEF Init, IInv, TypeOK, RowHasEvent, DebitedIsCollected, EarnedIsCollected,
       CollectedCashCovered, ChargedOnce, EarnerIsCollector

\* Row r of (o, c) goes from ACTIVE to s, and nothing else in the table changes.
EndsRow(r, o, c, s) ==
  /\ reservation[r] = [order |-> o, captain |-> c, state |-> "ACTIVE"]
  /\ reservation'[r] = [order |-> o, captain |-> c, state |-> s]
  /\ \A q \in Keys : q # r => reservation'[q] = reservation[q]
  /\ reservation' \in [Keys -> Reservation \cup {None}]
  /\ event' \in [Keys -> Request \cup {None}]
  /\ \A q \in Keys : event'[q] = None => event[q] = None
  /\ UNCHANGED <<intent, collectedBy, earning, payout>>

\* The two handlers that end a reservation end exactly one.
LEMMA EndReservationFacts ==
  ASSUME TypeOK, NEW k \in Keys, NEW operation \in {"release", "finalize"}, NEW o \in Orders,
         NEW c \in Captains, NEW s \in {"RELEASED", "DEBITED"},
         EndReservation(k, operation, o, c, s)
  PROVE  \E r \in Keys : EndsRow(r, o, c, s)
<1>1. PICK r \in Keys : /\ Row(r, o, c, "ACTIVE")
                        /\ reservation' = [reservation EXCEPT ![r].state = s]
  BY DEF EndReservation
<1>2. reservation[r] = [order |-> o, captain |-> c, state |-> "ACTIVE"]
  BY <1>1 DEF Row
<1>3. /\ reservation'[r] = [order |-> o, captain |-> c, state |-> s]
      /\ \A q \in Keys : q # r => reservation'[q] = reservation[q]
      /\ reservation' \in [Keys -> Reservation \cup {None}]
  BY <1>1, <1>2 DEF TypeOK, Reservation
<1>4. event' = [event EXCEPT ![k] = [op |-> operation, order |-> o, captain |-> c]]
  BY DEF EndReservation
<1>5. [op |-> operation, order |-> o, captain |-> c] \in Request
  BY DEF Request
<1>6. /\ event' \in [Keys -> Request \cup {None}]
      /\ \A q \in Keys : event'[q] = None => event[q] = None
  BY <1>4, <1>5, NoneAssumption DEF TypeOK
<1>7. UNCHANGED <<intent, collectedBy, earning, payout>>
  BY DEF EndReservation
<1> QED
  BY <1>2, <1>3, <1>6, <1>7 DEF EndsRow

-----------------------------------------------------------------------------
LEMMA TypeOKStep == TypeOK /\ [Next]_vars => TypeOK'
<1> SUFFICES ASSUME TypeOK, [Next]_vars PROVE TypeOK'
  OBVIOUS
<1>1. ASSUME NEW o \in Orders, CreatePaymentIntent(o) \/ CancelPaymentIntent(o) PROVE TypeOK'
  BY <1>1 DEF TypeOK, CreatePaymentIntent, CancelPaymentIntent
<1>2. ASSUME NEW o \in Orders, NEW c \in Captains \cup {None}, CollectPaymentIntent(o, c) PROVE TypeOK'
  BY <1>2 DEF TypeOK, CollectPaymentIntent
<1>3. ASSUME NEW k \in Keys, NEW o \in Orders, NEW c \in Captains, ReserveCaptainCOD(k, o, c) PROVE TypeOK'
  BY <1>3 DEF TypeOK, ReserveCaptainCOD, Reservation, Request
<1>4. ASSUME NEW k \in Keys, NEW o \in Orders, NEW c \in Captains, ReleaseCaptainCOD(k, o, c) PROVE TypeOK'
  <2>1. EndReservation(k, "release", o, c, "RELEASED")
    BY <1>4 DEF ReleaseCaptainCOD
  <2>2. PICK r \in Keys : EndsRow(r, o, c, "RELEASED")
    BY <2>1, EndReservationFacts
  <2> QED
    BY <1>4, <2>2 DEF TypeOK, ReleaseCaptainCOD, EndsRow
<1>5. ASSUME NEW k \in Keys, NEW o \in Orders, NEW c \in Captains, FinalizeCaptainCOD(k, o, c) PROVE TypeOK'
  <2>1. Cash[o] \in Int
    BY CashAssumption
  <2>2. EndReservation(k, "finalize", o, c, "DEBITED")
    BY <1>5 DEF FinalizeCaptainCOD, CanFinalizeCOD
  <2>3. PICK r \in Keys : EndsRow(r, o, c, "DEBITED")
    BY <2>2, EndReservationFacts
  <2> QED
    BY <1>5, <2>1, <2>3 DEF TypeOK, FinalizeCaptainCOD, EndsRow
<1>6. ASSUME NEW o \in Orders, NEW c \in Captains, FinalizePartnerOrderEarning(o, c) PROVE TypeOK'
  <2>1. Cash[o] \in Int /\ Fee[o] \in Int
    BY CashAssumption, FeeAssumption
  <2> QED
    BY <1>6, <2>1 DEF TypeOK, FinalizePartnerOrderEarning
<1>7. ASSUME NEW p \in Payouts, NEW c \in Captains, NEW amount \in 1 .. EligibleForPayout(c),
             CreatePayoutIntent(p, c, amount)
      PROVE TypeOK'
  BY <1>7 DEF TypeOK, CreatePayoutIntent, Payout
<1>8. ASSUME NEW p \in Payouts, CancelPayout(p) \/ ReconcileManualTransfer(p) PROVE TypeOK'
  BY <1>8 DEF TypeOK, CancelPayout, ReconcileManualTransfer, Payout
<1>9. ASSUME NEW c \in Captains, NEW amount \in TopUps, ApplyCashInFundingResult(c, amount) PROVE TypeOK'
  BY <1>9, TopUpsAssumption DEF TypeOK, ApplyCashInFundingResult
<1>10. CASE UNCHANGED vars
  BY <1>10 DEF TypeOK, vars
<1> QED
  BY <1>1, <1>2, <1>3, <1>4, <1>5, <1>6, <1>7, <1>8, <1>9, <1>10 DEF Next

-----------------------------------------------------------------------------
\* A reservation, whatever the captain's balance allows.
Reserves(k, o, c) ==
  /\ event[k] = None
  /\ intent[o] = "REQUIRES_COLLECTION"
  /\ \A d \in Captains : ~Active(o, d)
  /\ reservation' = [reservation EXCEPT ![k] = [order |-> o, captain |-> c, state |-> "ACTIVE"]]
  /\ event' = [event EXCEPT ![k] = [op |-> "reserve", order |-> o, captain |-> c]]
  /\ UNCHANGED <<intent, collectedBy, earning, payout, balance, receivable>>

\* The tables' own invariants and the three cover invariants, action by action.
LEMMA ReserveStep ==
  ASSUME IInv, NEW k \in Keys, NEW o \in Orders, NEW c \in Captains, Reserves(k, o, c)
  PROVE  IInv'
<1>0. TypeOK'
  BY DEF IInv, TypeOK, Reserves, Reservation, Request
<1>1. /\ event[k] = None
      /\ intent[o] = "REQUIRES_COLLECTION"
      /\ \A d \in Captains : ~Active(o, d)
  BY DEF Reserves
<1>2. /\ reservation'[k] = [order |-> o, captain |-> c, state |-> "ACTIVE"]
      /\ \A q \in Keys : q # k => reservation'[q] = reservation[q]
      /\ event'[k] # None
      /\ \A q \in Keys : q # k => event'[q] = event[q]
      /\ UNCHANGED <<intent, collectedBy, earning>>
  BY NoneAssumption DEF Reserves, IInv, TypeOK, Request
<1>3. reservation[k] = None
  BY <1>1 DEF IInv, RowHasEvent
<1>4. reservation'[k] # None
  BY <1>2, NoneAssumption DEF Reservation
<1>5. RowHasEvent'
  BY <1>2 DEF IInv, RowHasEvent
<1>6. DebitedIsCollected'
  BY <1>2 DEF IInv, DebitedIsCollected
<1>7. EarnedIsCollected' /\ EarnerIsCollector'
  BY <1>2 DEF IInv, EarnedIsCollected, EarnerIsCollector
<1>8. CollectedCashCovered'
  BY <1>2, <1>3 DEF IInv, CollectedCashCovered, Row
<1>9. ChargedOnce'
  <2>1. ASSUME NEW q \in Keys, q # k, reservation[q] # None, reservation[q].order = o
        PROVE  reservation[q].state = "RELEASED"
    <3>1. reservation[q] \in Reservation
      BY <2>1 DEF IInv, TypeOK
    <3>2. reservation[q].state # "ACTIVE"
      <4> SUFFICES ASSUME reservation[q].state = "ACTIVE" PROVE FALSE
        OBVIOUS
      <4>1. Row(q, o, reservation[q].captain, "ACTIVE")
        BY <2>1, <3>1 DEF Row, Reservation
      <4> QED
        BY <4>1, <3>1, <1>1 DEF Active, Reservation
    <3>3. reservation[q].state # "DEBITED"
      BY <2>1, <1>1 DEF IInv, DebitedIsCollected
    <3> QED
      BY <3>1, <3>2, <3>3 DEF Reservation
  <2> QED
    BY <1>2, <2>1 DEF IInv, ChargedOnce
<1> QED
  BY <1>0, <1>5, <1>6, <1>7, <1>8, <1>9 DEF IInv

LEMMA EndStep ==
  ASSUME IInv, TypeOK', NEW k \in Keys, NEW operation \in {"release", "finalize"}, NEW o \in Orders,
         NEW c \in Captains, NEW s \in {"RELEASED", "DEBITED"},
         EndReservation(k, operation, o, c, s),
         IF s = "DEBITED" THEN intent[o] = "COLLECTED" ELSE intent[o] # "COLLECTED"
  PROVE  IInv'
<1>0. TypeOK
  BY DEF IInv
<1>a. PICK r \in Keys : EndsRow(r, o, c, s)
  BY <1>0, EndReservationFacts
<1>1. /\ reservation[r] = [order |-> o, captain |-> c, state |-> "ACTIVE"]
      /\ reservation'[r] = [order |-> o, captain |-> c, state |-> s]
      /\ \A q \in Keys : q # r => reservation'[q] = reservation[q]
      /\ \A q \in Keys : event'[q] = None => event[q] = None
      /\ UNCHANGED <<intent, collectedBy, earning, payout>>
  BY <1>a DEF EndsRow
<1>2. reservation[r] # None /\ reservation'[r] # None
  BY <1>1, NoneAssumption DEF Reservation
<1>3. RowHasEvent'
  BY <1>1, <1>2 DEF IInv, RowHasEvent
<1>4. DebitedIsCollected'
  BY <1>1 DEF IInv, DebitedIsCollected
<1>5. EarnedIsCollected' /\ EarnerIsCollector'
  BY <1>1 DEF IInv, EarnedIsCollected, EarnerIsCollector
<1>6. CollectedCashCovered'
  <2> SUFFICES ASSUME NEW x \in Orders, intent[x] = "COLLECTED", Cash[x] > 0
               PROVE  /\ collectedBy[x] \in Captains
                      /\ \E q \in Keys : \/ Row(q, x, collectedBy[x], "ACTIVE")'
                                          \/ Row(q, x, collectedBy[x], "DEBITED")'
    BY <1>1 DEF CollectedCashCovered
  <2>1. PICK q \in Keys : Row(q, x, collectedBy[x], "ACTIVE") \/ Row(q, x, collectedBy[x], "DEBITED")
    BY DEF IInv, CollectedCashCovered
  <2>2. collectedBy[x] \in Captains
    BY DEF IInv, CollectedCashCovered
  <2>3. CASE q # r
    BY <1>1, <2>1, <2>2, <2>3 DEF Row
  <2>4. CASE q = r
    <3>1. o = x /\ c = collectedBy[x]
      BY <1>1, <2>1, <2>4 DEF Row
    <3>2. s = "DEBITED"
      BY <3>1
    <3> QED
      BY <1>1, <1>2, <2>2, <3>1, <3>2 DEF Row
  <2> QED
    BY <2>3, <2>4
<1>7. ChargedOnce'
  BY <1>1, <1>2 DEF IInv, ChargedOnce
<1> QED
  BY <1>3, <1>4, <1>5, <1>6, <1>7 DEF IInv

LEMMA CollectStep ==
  ASSUME IInv, TypeOK', NEW o \in Orders, NEW c \in Captains \cup {None}, CollectPaymentIntent(o, c)
  PROVE  IInv'
<1>1. /\ intent[o] = "REQUIRES_COLLECTION"
      /\ intent'[o] = "COLLECTED" /\ collectedBy'[o] = c
      /\ \A x \in Orders : x # o => intent'[x] = intent[x] /\ collectedBy'[x] = collectedBy[x]
      /\ UNCHANGED <<reservation, event, earning>>
  BY DEF CollectPaymentIntent, CanCollect, IInv, TypeOK
<1>2. RowHasEvent' /\ ChargedOnce'
  BY <1>1 DEF IInv, RowHasEvent, ChargedOnce
<1>3. DebitedIsCollected'
  BY <1>1 DEF IInv, TypeOK, Reservation, DebitedIsCollected
<1>4. EarnedIsCollected' /\ EarnerIsCollector'
  BY <1>1 DEF IInv, EarnedIsCollected, EarnerIsCollector
<1>5. Cash[o] > 0 => c \in Captains /\ \E q \in Keys : Row(q, o, c, "ACTIVE")
  BY DEF CollectPaymentIntent, CanCollect, Active
<1>6. CollectedCashCovered'
  BY <1>1, <1>5 DEF IInv, CollectedCashCovered, Row
<1> QED
  BY <1>2, <1>3, <1>4, <1>6 DEF IInv

LEMMA EarningStep ==
  ASSUME IInv, TypeOK', NEW o \in Orders, NEW c \in Captains, FinalizePartnerOrderEarning(o, c)
  PROVE  IInv'
<1>1. /\ intent[o] = "COLLECTED"
      /\ Cash[o] > 0 => collectedBy[o] = c
      /\ earning'[o] = c
      /\ \A x \in Orders : x # o => earning'[x] = earning[x]
      /\ UNCHANGED <<intent, collectedBy, reservation, event>>
  BY DEF FinalizePartnerOrderEarning, CanFinalizeEarning, IInv, TypeOK
<1> QED
  BY <1>1 DEF IInv, RowHasEvent, ChargedOnce, DebitedIsCollected, EarnedIsCollected, EarnerIsCollector,
       CollectedCashCovered, Row

LEMMA IntentStep ==
  ASSUME IInv, TypeOK', NEW o \in Orders, CreatePaymentIntent(o) \/ CancelPaymentIntent(o)
  PROVE  IInv'
<1>1. /\ intent[o] # "COLLECTED" /\ intent'[o] # "COLLECTED"
      /\ \A x \in Orders : x # o => intent'[x] = intent[x]
      /\ UNCHANGED <<collectedBy, reservation, event, earning>>
  BY DEF CreatePaymentIntent, CancelPaymentIntent, IInv, TypeOK
<1>2. DebitedIsCollected'
  BY <1>1 DEF IInv, TypeOK, Reservation, DebitedIsCollected
<1> QED
  BY <1>1, <1>2 DEF IInv, RowHasEvent, ChargedOnce, EarnedIsCollected, EarnerIsCollector,
       CollectedCashCovered, Row

\* The payout and funding handlers touch none of the reservation tables.
LEMMA FrameStep ==
  ASSUME IInv, TypeOK', UNCHANGED <<intent, collectedBy, reservation, event, earning>>
  PROVE  IInv'
BY DEF IInv, RowHasEvent, ChargedOnce, DebitedIsCollected, EarnedIsCollected, EarnerIsCollector,
       CollectedCashCovered, Row

LEMMA StepIInv == IInv /\ [Next]_vars => IInv'
<1> SUFFICES ASSUME IInv, [Next]_vars PROVE IInv'
  OBVIOUS
<1>1. TypeOK'
  BY TypeOKStep DEF IInv
<1>2. ASSUME NEW o \in Orders, CreatePaymentIntent(o) \/ CancelPaymentIntent(o) PROVE IInv'
  BY <1>1, <1>2, IntentStep
<1>3. ASSUME NEW o \in Orders, NEW c \in Captains \cup {None}, CollectPaymentIntent(o, c) PROVE IInv'
  BY <1>1, <1>3, CollectStep
<1>4. ASSUME NEW k \in Keys, NEW o \in Orders, NEW c \in Captains, ReserveCaptainCOD(k, o, c) PROVE IInv'
  <2>1. Reserves(k, o, c)
    BY <1>4 DEF ReserveCaptainCOD, CanReserve, Reserves
  <2> QED
    BY <2>1, ReserveStep
<1>5. ASSUME NEW k \in Keys, NEW o \in Orders, NEW c \in Captains, ReleaseCaptainCOD(k, o, c) PROVE IInv'
  <2>1. EndReservation(k, "release", o, c, "RELEASED") /\ intent[o] # "COLLECTED"
    BY <1>5 DEF ReleaseCaptainCOD
  <2> QED
    BY <1>1, <2>1, EndStep
<1>6. ASSUME NEW k \in Keys, NEW o \in Orders, NEW c \in Captains, FinalizeCaptainCOD(k, o, c) PROVE IInv'
  <2>1. EndReservation(k, "finalize", o, c, "DEBITED") /\ intent[o] = "COLLECTED"
    BY <1>6 DEF FinalizeCaptainCOD, CanFinalizeCOD
  <2> QED
    BY <1>1, <2>1, EndStep
<1>7. ASSUME NEW o \in Orders, NEW c \in Captains, FinalizePartnerOrderEarning(o, c) PROVE IInv'
  BY <1>1, <1>7, EarningStep
<1>8. ASSUME NEW p \in Payouts, NEW c \in Captains, NEW amount \in 1 .. EligibleForPayout(c),
             CreatePayoutIntent(p, c, amount)
      PROVE IInv'
  BY <1>1, <1>8, FrameStep DEF CreatePayoutIntent
<1>9. ASSUME NEW p \in Payouts, CancelPayout(p) \/ ReconcileManualTransfer(p) PROVE IInv'
  BY <1>1, <1>9, FrameStep DEF CancelPayout, ReconcileManualTransfer
<1>10. ASSUME NEW c \in Captains, NEW amount \in TopUps, ApplyCashInFundingResult(c, amount) PROVE IInv'
  BY <1>1, <1>10, FrameStep DEF ApplyCashInFundingResult
<1>11. CASE UNCHANGED vars
  BY <1>1, <1>11, FrameStep DEF vars
<1> QED
  BY <1>2, <1>3, <1>4, <1>5, <1>6, <1>7, <1>8, <1>9, <1>10, <1>11 DEF Next

-----------------------------------------------------------------------------
\* The inductive invariant holds in every reachable state.
THEOREM Invariance == Spec => []IInv
BY InitIInv, StepIInv, PTL DEF Spec

\* The tables always hold well-formed rows.
THEOREM TypeCorrect == Spec => []TypeOK
<1>1. IInv => TypeOK
  BY DEF IInv
<1> QED
  BY <1>1, Invariance, PTL

\* Cash recorded as collected is covered by its collector until it is debited.
THEOREM CoverSafety == Spec => []CollectedCashCovered
<1>1. IInv => CollectedCashCovered
  BY DEF IInv
<1> QED
  BY <1>1, Invariance, PTL

\* No order is covered or charged by two reservations at once.
THEOREM ChargeSafety == Spec => []ChargedOnce
<1>1. IInv => ChargedOnce
  BY DEF IInv
<1> QED
  BY <1>1, Invariance, PTL

\* The fee of a cash order goes to the captain recorded as its collector.
THEOREM EarnerSafety == Spec => []EarnerIsCollector
<1>1. IInv => EarnerIsCollector
  BY DEF IInv
<1> QED
  BY <1>1, Invariance, PTL

\* Cover of collected cash ends only in the debit of exactly that cash.
THEOREM CoverEnd == Spec => CoverEndsByDebit
<1> DEFINE Step(k) ==
      reservation[k] # None /\ reservation'[k] # reservation[k] =>
        /\ reservation[k].state = "ACTIVE"
        /\ LET o == reservation[k].order
               c == reservation[k].captain
           IN  intent[o] = "COLLECTED" =>
                 /\ reservation'[k] = [reservation[k] EXCEPT !.state = "DEBITED"]
                 /\ balance'[c] = balance[c] - Cash[o]
<1>1. IInv /\ [Next]_vars => [\A k \in Keys : Step(k)]_vars
  <2> SUFFICES ASSUME IInv, Next, NEW q \in Keys, reservation[q] # None, reservation'[q] # reservation[q]
               PROVE  Step(q)
    OBVIOUS
  <2>0. TypeOK
    BY DEF IInv
  <2>1. ASSUME NEW k \in Keys, NEW o \in Orders, NEW c \in Captains, ReserveCaptainCOD(k, o, c)
        PROVE  FALSE
    <3>1. q = k
      BY <2>0, <2>1 DEF ReserveCaptainCOD, TypeOK
    <3> QED
      BY <3>1, <2>1 DEF ReserveCaptainCOD, CanReserve, IInv, RowHasEvent
  <2>2. ASSUME NEW k \in Keys, NEW o \in Orders, NEW c \in Captains, ReleaseCaptainCOD(k, o, c)
        PROVE  Step(q)
    <3>1. EndReservation(k, "release", o, c, "RELEASED") /\ intent[o] # "COLLECTED"
      BY <2>2 DEF ReleaseCaptainCOD
    <3>2. PICK r \in Keys : EndsRow(r, o, c, "RELEASED")
      BY <2>0, <3>1, EndReservationFacts
    <3>3. reservation[q] = [order |-> o, captain |-> c, state |-> "ACTIVE"]
      BY <3>2 DEF EndsRow
    <3> QED
      BY <3>1, <3>3
  <2>3. ASSUME NEW k \in Keys, NEW o \in Orders, NEW c \in Captains, FinalizeCaptainCOD(k, o, c)
        PROVE  Step(q)
    <3>1. /\ EndReservation(k, "finalize", o, c, "DEBITED")
          /\ balance'[c] = balance[c] - Cash[o]
      BY <2>0, <2>3 DEF FinalizeCaptainCOD, CanFinalizeCOD, TypeOK
    <3>2. PICK r \in Keys : EndsRow(r, o, c, "DEBITED")
      BY <2>0, <3>1, EndReservationFacts
    <3>3. /\ reservation[q] = [order |-> o, captain |-> c, state |-> "ACTIVE"]
          /\ reservation'[q] = [order |-> o, captain |-> c, state |-> "DEBITED"]
      BY <3>2 DEF EndsRow
    <3> QED
      BY <3>1, <3>3
  <2>4. CASE UNCHANGED reservation
    BY <2>4
  <2> QED
    BY <2>1, <2>2, <2>3, <2>4
       DEF Next, CreatePaymentIntent, CancelPaymentIntent, CollectPaymentIntent,
           FinalizePartnerOrderEarning, CreatePayoutIntent, CancelPayout,
           ReconcileManualTransfer, ApplyCashInFundingResult
<1> QED
  BY <1>1, Invariance, PTL DEF Spec, CoverEndsByDebit

-----------------------------------------------------------------------------
(* The money.  A table has finitely many rows in every state, though there
   may be any number of orders, keys and payouts; so its sums are defined, and
   each step changes a sum by one row. *)

FiniteTables ==
  /\ IsFiniteSet({k \in Keys : reservation[k] # None})
  /\ IsFiniteSet({o \in Orders : earning[o] # None})
  /\ IsFiniteSet({p \in Payouts : payout[p] # None})

\* A captain is debited for an order only after the order's earning was posted.
DebitedIsEarned ==
  \A k \in Keys : reservation[k] # None /\ reservation[k].state = "DEBITED" =>
    earning[reservation[k].order] # None

MoneyInv ==
  /\ FiniteTables
  /\ DebitedIsEarned
  /\ NeverOverdrawn
  /\ ReceivableIsUndebitedCash
  /\ OnlyEarningsPaidOut

\* The amounts of the rows of a table, as one function.
Amounts(pay) == [p \in Payouts |-> pay[p].amount]
Covers(rows) == [k \in Keys |-> Cash[rows[k].order]]

\* PayoutSum and HeldCash of any contents of the tables.
AmountSum(pay, S) == SumFunction([p \in S |-> pay[p].amount])
CoverSum(rows, S) == SumFunction([k \in S |-> Cash[rows[k].order]])

LEMMA PayoutSumIs ==
  ASSUME NEW pay, NEW S \in SUBSET Payouts, IsFiniteSet(S)
  PROVE  AmountSum(pay, S) = SumFunctionOnSet(Amounts(pay), S)
<1> DEFINE f == [p \in S |-> pay[p].amount]
<1>1. \A p \in S : f[p] = Amounts(pay)[p]
  BY DEF Amounts
<1>2. DOMAIN f = S
  OBVIOUS
<1> HIDE DEF f
<1>3. SumFunctionOnSet(f, S) = SumFunctionOnSet(Amounts(pay), S)
  BY <1>1, SumSame
<1> QED BY <1>2, <1>3 DEF AmountSum, SumFunction, f

LEMMA CoverSumIs ==
  ASSUME NEW rows, NEW S \in SUBSET Keys, IsFiniteSet(S)
  PROVE  CoverSum(rows, S) = SumFunctionOnSet(Covers(rows), S)
<1> DEFINE f == [k \in S |-> Cash[rows[k].order]]
<1>1. \A k \in S : f[k] = Covers(rows)[k]
  BY DEF Covers
<1>2. DOMAIN f = S
  OBVIOUS
<1> HIDE DEF f
<1>3. SumFunctionOnSet(f, S) = SumFunctionOnSet(Covers(rows), S)
  BY <1>1, SumSame
<1> QED BY <1>2, <1>3 DEF CoverSum, SumFunction, f

\* One row more, or one row less, while the other rows keep their amounts.
LEMMA RowAdded ==
  ASSUME NEW f, NEW g, NEW S, IsFiniteSet(S), \A x \in S : f[x] \in Int /\ g[x] = f[x],
         NEW y, y \notin S, g[y] \in Int
  PROVE  SumFunctionOnSet(g, S \cup {y}) = SumFunctionOnSet(f, S) + g[y]
<1>1. SumFunctionOnSet(g, S) = SumFunctionOnSet(f, S)
  BY SumSame
<1>2. \A x \in S : g[x] \in Int
  OBVIOUS
<1>3. SumFunctionOnSet(g, S \cup {y}) = SumFunctionOnSet(g, S) + g[y]
  BY <1>2, SumAdd
<1> QED BY <1>1, <1>3

LEMMA RowRemoved ==
  ASSUME NEW f, NEW g, NEW S, IsFiniteSet(S), NEW y \in S,
         \A x \in S : f[x] \in Int, \A x \in S \ {y} : g[x] = f[x]
  PROVE  SumFunctionOnSet(g, S \ {y}) = SumFunctionOnSet(f, S) - f[y]
<1>1. IsFiniteSet(S \ {y})
  BY FS_Subset
<1>2. SumFunctionOnSet(g, S \ {y}) = SumFunctionOnSet(f, S \ {y})
  BY <1>1, SumSame
<1>3. SumFunctionOnSet(f, S \ {y}) = SumFunctionOnSet(f, S) - f[y]
  BY SumLess
<1> QED BY <1>2, <1>3

-----------------------------------------------------------------------------
(* The sums of one captain. *)

\* The rows a sum ranges over exist, and there are finitely many of them.
LEMMA TableRows ==
  ASSUME TypeOK, FiniteTables, NEW c \in Captains
  PROVE  /\ ActiveKeys(c) \subseteq Keys /\ IsFiniteSet(ActiveKeys(c))
         /\ HeldPayouts(c) \subseteq Payouts /\ IsFiniteSet(HeldPayouts(c))
         /\ PaidPayouts(c) \subseteq Payouts /\ IsFiniteSet(PaidPayouts(c))
         /\ IsFiniteSet({o \in Orders : earning[o] = c})
         /\ \A k \in ActiveKeys(c) : Covers(reservation)[k] \in Nat /\ Covers(reservation)[k] \in Int
         /\ \A p \in HeldPayouts(c) \cup PaidPayouts(c) : Amounts(payout)[p] \in Nat /\ payout[p].amount \in Int
<1>1. /\ ActiveKeys(c) \subseteq {k \in Keys : reservation[k] # None}
      /\ HeldPayouts(c) \subseteq {p \in Payouts : payout[p] # None}
      /\ PaidPayouts(c) \subseteq {p \in Payouts : payout[p] # None}
      /\ {o \in Orders : earning[o] = c} \subseteq {o \in Orders : earning[o] # None}
  BY NoneAssumption DEF ActiveKeys, HeldPayouts, PaidPayouts, Row
<1>2. /\ IsFiniteSet(ActiveKeys(c)) /\ IsFiniteSet(HeldPayouts(c)) /\ IsFiniteSet(PaidPayouts(c))
      /\ IsFiniteSet({o \in Orders : earning[o] = c})
  BY <1>1, FS_Subset DEF FiniteTables
<1>3. ASSUME NEW k \in ActiveKeys(c) PROVE Covers(reservation)[k] \in Nat /\ Covers(reservation)[k] \in Int
  <2>1. k \in Keys /\ reservation[k] \in Reservation
    BY <1>1, <1>3 DEF TypeOK
  <2> QED BY <2>1, CashAssumption DEF Covers, Reservation
<1>4. ASSUME NEW p \in HeldPayouts(c) \cup PaidPayouts(c) PROVE Amounts(payout)[p] \in Nat /\ payout[p].amount \in Int
  <2>1. p \in Payouts /\ payout[p] \in Payout
    BY <1>1, <1>4 DEF TypeOK
  <2> QED BY <2>1 DEF Amounts, Payout
<1> QED BY <1>1, <1>2, <1>3, <1>4

LEMMA MoneyTypes ==
  ASSUME TypeOK, FiniteTables, NEW c \in Captains
  PROVE  /\ HeldCash(c) \in Nat /\ Earned(c) \in Nat /\ balance[c] \in Int
         /\ PayoutSum(HeldPayouts(c)) \in Nat /\ PayoutSum(PaidPayouts(c)) \in Nat
<1>1. HeldCash(c) = SumFunctionOnSet(Covers(reservation), ActiveKeys(c))
  BY TableRows, CoverSumIs DEF HeldCash, CoverSum
<1>2. /\ PayoutSum(HeldPayouts(c)) = SumFunctionOnSet(Amounts(payout), HeldPayouts(c))
      /\ PayoutSum(PaidPayouts(c)) = SumFunctionOnSet(Amounts(payout), PaidPayouts(c))
  BY TableRows, PayoutSumIs DEF PayoutSum, AmountSum
<1>3. SumFunctionOnSet(Covers(reservation), ActiveKeys(c)) \in Nat
  BY TableRows, SumNat
<1>4. /\ SumFunctionOnSet(Amounts(payout), HeldPayouts(c)) \in Nat
      /\ SumFunctionOnSet(Amounts(payout), PaidPayouts(c)) \in Nat
  BY TableRows, SumNat
<1>5. Earned(c) \in Nat
  BY TableRows, SumNat, FeeAssumption DEF Earned
<1> QED BY <1>1, <1>2, <1>3, <1>4, <1>5 DEF TypeOK

\* What a captain may still draw, in numbers.
LEMMA Eligible ==
  ASSUME TypeOK, FiniteTables, NEW c \in Captains
  PROVE  /\ EligibleForPayout(c) \in Nat
         /\ EligibleForPayout(c) > 0 =>
              /\ EligibleForPayout(c) <= Available(c)
              /\ EligibleForPayout(c) <= Earned(c) - PayoutSum(PaidPayouts(c)) - PayoutSum(HeldPayouts(c))
<1> DEFINE rest == Earned(c) - PayoutSum(PaidPayouts(c)) - PayoutSum(HeldPayouts(c))
<1>1. rest \in Int /\ Available(c) \in Int
  BY MoneyTypes DEF Available, Held
<1>2. EligibleForPayout(c) = IF Available(c) <= 0 \/ rest <= 0 THEN 0 ELSE Min({rest, Available(c)})
  BY DEF EligibleForPayout
<1> HIDE DEF rest
<1>3. Min({rest, Available(c)}) = IF rest <= Available(c) THEN rest ELSE Available(c)
  BY <1>1 DEF Min
<1>4. /\ EligibleForPayout(c) \in Nat
      /\ EligibleForPayout(c) > 0 => EligibleForPayout(c) <= Available(c) /\ EligibleForPayout(c) <= rest
  BY <1>1, <1>2, <1>3
<1> QED BY <1>4 DEF rest

-----------------------------------------------------------------------------
(* What a step does to the sums. *)

\* Sums over rows that a step leaves alone stay the same.
LEMMA PayoutSumStays ==
  ASSUME NEW pay, NEW next, NEW S \in SUBSET Payouts, IsFiniteSet(S), \A p \in S : next[p] = pay[p]
  PROVE  AmountSum(next, S) = AmountSum(pay, S)
<1>1. \A p \in S : Amounts(next)[p] = Amounts(pay)[p]
  BY DEF Amounts
<1>2. SumFunctionOnSet(Amounts(next), S) = SumFunctionOnSet(Amounts(pay), S)
  BY <1>1, SumSame
<1> QED BY <1>2, PayoutSumIs

\* A payout row that enters a sum adds its amount.
LEMMA PayoutSumAdds ==
  ASSUME NEW pay, NEW next, NEW S \in SUBSET Payouts, IsFiniteSet(S),
         \A p \in S : next[p] = pay[p] /\ pay[p].amount \in Int,
         NEW q \in Payouts, q \notin S, next[q].amount \in Int
  PROVE  AmountSum(next, S \cup {q})
           = AmountSum(pay, S) + next[q].amount
<1>1. /\ \A p \in S : Amounts(pay)[p] \in Int /\ Amounts(next)[p] = Amounts(pay)[p]
      /\ Amounts(next)[q] = next[q].amount
  BY DEF Amounts
<1>2. SumFunctionOnSet(Amounts(next), S \cup {q}) = SumFunctionOnSet(Amounts(pay), S) + Amounts(next)[q]
  BY <1>1, RowAdded
<1>3. S \cup {q} \in SUBSET Payouts /\ IsFiniteSet(S \cup {q})
  BY FS_AddElement
<1>4. AmountSum(next, S \cup {q}) = SumFunctionOnSet(Amounts(next), S \cup {q})
  BY <1>3, PayoutSumIs
<1>5. AmountSum(pay, S) = SumFunctionOnSet(Amounts(pay), S)
  BY PayoutSumIs
<1> QED BY <1>1, <1>2, <1>4, <1>5

\* A payout row that leaves a sum takes its amount with it.
LEMMA PayoutSumDrops ==
  ASSUME NEW pay, NEW next, NEW S \in SUBSET Payouts, IsFiniteSet(S),
         \A p \in S : pay[p].amount \in Int,
         NEW q \in S, \A p \in S \ {q} : next[p] = pay[p]
  PROVE  AmountSum(next, S \ {q})
           = AmountSum(pay, S) - pay[q].amount
<1>1. /\ \A p \in S : Amounts(pay)[p] \in Int
      /\ \A p \in S \ {q} : Amounts(next)[p] = Amounts(pay)[p]
      /\ Amounts(pay)[q] = pay[q].amount
  BY DEF Amounts
<1>2. SumFunctionOnSet(Amounts(next), S \ {q}) = SumFunctionOnSet(Amounts(pay), S) - Amounts(pay)[q]
  BY <1>1, RowRemoved
<1>3. S \ {q} \in SUBSET Payouts /\ IsFiniteSet(S \ {q})
  BY FS_Subset
<1>4. AmountSum(next, S \ {q}) = SumFunctionOnSet(Amounts(next), S \ {q})
  BY <1>3, PayoutSumIs
<1>5. AmountSum(pay, S) = SumFunctionOnSet(Amounts(pay), S)
  BY PayoutSumIs
<1> QED BY <1>1, <1>2, <1>4, <1>5

\* A new payout is held, for its captain alone.
LEMMA CreateSums ==
  ASSUME TypeOK, FiniteTables, NEW p \in Payouts, NEW c \in Captains, NEW amount \in Nat \ {0},
         CreatePayoutIntent(p, c, amount)
  PROVE  /\ FiniteTables'
         /\ \A d \in Captains :
              /\ PayoutSum(PaidPayouts(d))' = PayoutSum(PaidPayouts(d))
              /\ PayoutSum(HeldPayouts(d))' = PayoutSum(HeldPayouts(d)) + (IF d = c THEN amount ELSE 0)
<1>1. /\ payout[p] = None
      /\ payout'[p] = [captain |-> c, amount |-> amount, hold |-> "ACTIVE"]
      /\ \A q \in Payouts : q # p => payout'[q] = payout[q]
      /\ UNCHANGED <<reservation, earning>>
  BY DEF CreatePayoutIntent, TypeOK
<1>2. payout'[p] # None
  BY <1>1, NoneAssumption DEF Payout
<1>3. FiniteTables'
  <2>1. {q \in Payouts : payout'[q] # None} = {q \in Payouts : payout[q] # None} \cup {p}
    BY <1>1, <1>2
  <2> DEFINE rows == {q \in Payouts : payout[q] # None}
  <2>2. IsFiniteSet(rows)
    BY DEF FiniteTables
  <2>3. IsFiniteSet(rows \cup {p})
    <3> HIDE DEF rows
    <3> QED BY <2>2, FS_AddElement
  <2> QED BY <1>1, <2>1, <2>3 DEF FiniteTables
<1>4. ASSUME NEW d \in Captains
      PROVE  /\ PayoutSum(PaidPayouts(d))' = PayoutSum(PaidPayouts(d))
             /\ PayoutSum(HeldPayouts(d))' = PayoutSum(HeldPayouts(d)) + (IF d = c THEN amount ELSE 0)
  <2>1. PaidPayouts(d)' = PaidPayouts(d) /\ p \notin PaidPayouts(d) /\ p \notin HeldPayouts(d)
    BY <1>1, <1>2 DEF PaidPayouts, HeldPayouts
  <2>2. HeldPayouts(d)' = IF d = c THEN HeldPayouts(d) \cup {p} ELSE HeldPayouts(d)
    BY <1>1, <1>2 DEF HeldPayouts
  <2>3. /\ HeldPayouts(d) \in SUBSET Payouts /\ IsFiniteSet(HeldPayouts(d))
        /\ PaidPayouts(d) \in SUBSET Payouts /\ IsFiniteSet(PaidPayouts(d))
        /\ \A q \in HeldPayouts(d) : payout[q].amount \in Int
    BY TableRows
  <2>4. /\ \A q \in PaidPayouts(d) : payout'[q] = payout[q]
        /\ \A q \in HeldPayouts(d) : payout'[q] = payout[q]
    BY <1>1, <2>1, <2>3
  <2>5. PayoutSum(PaidPayouts(d))' = PayoutSum(PaidPayouts(d))
    BY <2>1, <2>3, <2>4, PayoutSumStays DEF PayoutSum, AmountSum
  <2>6. CASE d = c
    <3>1. payout'[p].amount = amount
      BY <1>1
    <3>2. HeldPayouts(d)' = HeldPayouts(d) \cup {p}
      BY <2>2, <2>6
    <3>3. AmountSum(payout', HeldPayouts(d) \cup {p})
            = AmountSum(payout, HeldPayouts(d)) + amount
      BY <2>1, <2>3, <2>4, <3>1, PayoutSumAdds
    <3> QED BY <2>5, <2>6, <3>2, <3>3 DEF PayoutSum, AmountSum
  <2>7. CASE d # c
    <3>1. PayoutSum(HeldPayouts(d)) \in Nat
      BY MoneyTypes
    <3>2. HeldPayouts(d)' = HeldPayouts(d)
      BY <2>2, <2>7
    <3>3. PayoutSum(HeldPayouts(d))' = PayoutSum(HeldPayouts(d))
      BY <2>3, <2>4, <3>2, PayoutSumStays DEF PayoutSum, AmountSum
    <3> QED BY <2>5, <2>7, <3>1, <3>3
  <2> QED BY <2>6, <2>7
<1> QED BY <1>3, <1>4

\* Payout p leaves the state ACTIVE.
EndsPayout(p, hold) ==
  /\ payout[p] # None /\ payout[p].hold = "ACTIVE"
  /\ payout' = [payout EXCEPT ![p].hold = hold]
  /\ UNCHANGED <<reservation, earning>>

\* A cancelled or executed payout is no longer held; an executed one is paid.
LEMMA EndPayoutSums ==
  ASSUME TypeOK, FiniteTables, NEW p \in Payouts, NEW hold \in {"RELEASED", "FINALIZED"},
         EndsPayout(p, hold)
  PROVE  /\ FiniteTables' /\ payout[p].captain \in Captains /\ payout[p].amount \in Nat
         /\ \A d \in Captains : LET amount == IF d = payout[p].captain THEN payout[p].amount ELSE 0 IN
              /\ PayoutSum(HeldPayouts(d))' = PayoutSum(HeldPayouts(d)) - amount
              /\ PayoutSum(PaidPayouts(d))' =
                   PayoutSum(PaidPayouts(d)) + (IF hold = "FINALIZED" THEN amount ELSE 0)
<1> DEFINE c == payout[p].captain
           a == payout[p].amount
<1>1. payout[p] \in Payout /\ payout[p] # None /\ payout[p].hold = "ACTIVE"
  BY DEF TypeOK, EndsPayout
<1>2. c \in Captains /\ a \in Nat
  BY <1>1 DEF Payout
<1>3. /\ payout'[p] = [payout[p] EXCEPT !.hold = hold]
      /\ \A q \in Payouts : q # p => payout'[q] = payout[q]
      /\ UNCHANGED <<reservation, earning>>
  BY DEF TypeOK, EndsPayout
<1>4. payout'[p].captain = c /\ payout'[p].amount = a /\ payout'[p].hold = hold /\ payout'[p] \in Payout
  BY <1>1, <1>3 DEF Payout
<1>5. payout'[p] # None
  BY <1>4, NoneAssumption
<1>6. FiniteTables'
  <2>1. {q \in Payouts : payout'[q] # None} = {q \in Payouts : payout[q] # None}
    BY <1>1, <1>3, <1>5
  <2> QED BY <1>3, <2>1 DEF FiniteTables
<1>7. ASSUME NEW d \in Captains
      PROVE  /\ PayoutSum(HeldPayouts(d))' = PayoutSum(HeldPayouts(d)) - (IF d = c THEN a ELSE 0)
             /\ PayoutSum(PaidPayouts(d))' =
                  PayoutSum(PaidPayouts(d)) + (IF hold = "FINALIZED" THEN (IF d = c THEN a ELSE 0) ELSE 0)
  <2>1. /\ HeldPayouts(d) \in SUBSET Payouts /\ IsFiniteSet(HeldPayouts(d))
        /\ PaidPayouts(d) \in SUBSET Payouts /\ IsFiniteSet(PaidPayouts(d))
        /\ \A q \in HeldPayouts(d) : payout[q].amount \in Int
        /\ \A q \in PaidPayouts(d) : payout[q].amount \in Int
    BY TableRows
  <2>2. PayoutSum(HeldPayouts(d)) \in Nat /\ PayoutSum(PaidPayouts(d)) \in Nat
    BY MoneyTypes
  <2>3. p \notin PaidPayouts(d) /\ (p \in HeldPayouts(d) <=> d = c)
    BY <1>1 DEF PaidPayouts, HeldPayouts
  <2>4. HeldPayouts(d)' = HeldPayouts(d) \ {p}
    BY <1>3, <1>4 DEF HeldPayouts
  <2>5. PaidPayouts(d)' = IF d = c /\ hold = "FINALIZED" THEN PaidPayouts(d) \cup {p} ELSE PaidPayouts(d)
    BY <1>3, <1>4, <1>5, <2>3 DEF PaidPayouts
  <2>6. PayoutSum(HeldPayouts(d))' = PayoutSum(HeldPayouts(d)) - (IF d = c THEN a ELSE 0)
    <3>1. \A q \in HeldPayouts(d) \ {p} : payout'[q] = payout[q]
      BY <1>3, <2>1
    <3>2. CASE d = c
      <4>1. AmountSum(payout', HeldPayouts(d) \ {p})
              = AmountSum(payout, HeldPayouts(d)) - a
        <5>1. p \in HeldPayouts(d)
          BY <2>3, <3>2
        <5> QED BY <2>1, <3>1, <5>1, PayoutSumDrops
      <4> QED BY <2>4, <3>2, <4>1 DEF PayoutSum, AmountSum
    <3>3. CASE d # c
      <4>1. HeldPayouts(d)' = HeldPayouts(d) /\ \A q \in HeldPayouts(d) : payout'[q] = payout[q]
        BY <2>3, <2>4, <3>1, <3>3
      <4>2. PayoutSum(HeldPayouts(d))' = PayoutSum(HeldPayouts(d))
        BY <2>1, <4>1, PayoutSumStays DEF PayoutSum, AmountSum
      <4> QED BY <2>2, <3>3, <4>2
    <3> QED BY <3>2, <3>3
  <2>7. PayoutSum(PaidPayouts(d))' =
          PayoutSum(PaidPayouts(d)) + (IF hold = "FINALIZED" THEN (IF d = c THEN a ELSE 0) ELSE 0)
    <3>1. \A q \in PaidPayouts(d) : payout'[q] = payout[q]
      BY <1>3, <2>1, <2>3
    <3>2. CASE d = c /\ hold = "FINALIZED"
      <4>1. AmountSum(payout', PaidPayouts(d) \cup {p})
              = AmountSum(payout, PaidPayouts(d)) + payout'[p].amount
        <5>1. payout'[p].amount \in Int
          BY <1>2, <1>4
        <5> QED BY <2>1, <2>3, <3>1, <5>1, PayoutSumAdds
      <4> QED BY <1>4, <2>5, <3>2, <4>1 DEF PayoutSum, AmountSum
    <3>3. CASE ~(d = c /\ hold = "FINALIZED")
      <4>1. PayoutSum(PaidPayouts(d))' = PayoutSum(PaidPayouts(d))
        BY <2>1, <2>5, <3>1, <3>3, PayoutSumStays DEF PayoutSum, AmountSum
      <4> QED BY <2>2, <3>3, <4>1
    <3> QED BY <3>2, <3>3
  <2> QED BY <2>6, <2>7
<1> QED BY <1>2, <1>6, <1>7

\* The same three facts about the cash a captain's reservations cover.
LEMMA CoverSumStays ==
  ASSUME NEW rows, NEW next, NEW S \in SUBSET Keys, IsFiniteSet(S), \A k \in S : next[k] = rows[k]
  PROVE  CoverSum(next, S) = CoverSum(rows, S)
<1>1. \A k \in S : Covers(next)[k] = Covers(rows)[k]
  BY DEF Covers
<1>2. SumFunctionOnSet(Covers(next), S) = SumFunctionOnSet(Covers(rows), S)
  BY <1>1, SumSame
<1> QED BY <1>2, CoverSumIs

LEMMA CoverSumAdds ==
  ASSUME NEW rows, NEW next, NEW S \in SUBSET Keys, IsFiniteSet(S),
         \A k \in S : next[k] = rows[k] /\ Covers(rows)[k] \in Int,
         NEW q \in Keys, q \notin S, Cash[next[q].order] \in Int
  PROVE  CoverSum(next, S \cup {q}) = CoverSum(rows, S) + Cash[next[q].order]
<1>1. /\ \A k \in S : Covers(rows)[k] \in Int /\ Covers(next)[k] = Covers(rows)[k]
      /\ Covers(next)[q] = Cash[next[q].order]
  BY DEF Covers
<1>2. SumFunctionOnSet(Covers(next), S \cup {q}) = SumFunctionOnSet(Covers(rows), S) + Covers(next)[q]
  BY <1>1, RowAdded
<1>3. S \cup {q} \in SUBSET Keys /\ IsFiniteSet(S \cup {q})
  BY FS_AddElement
<1>4. CoverSum(next, S \cup {q}) = SumFunctionOnSet(Covers(next), S \cup {q})
  BY <1>3, CoverSumIs
<1>5. CoverSum(rows, S) = SumFunctionOnSet(Covers(rows), S)
  BY CoverSumIs
<1> QED BY <1>1, <1>2, <1>4, <1>5

LEMMA CoverSumDrops ==
  ASSUME NEW rows, NEW next, NEW S \in SUBSET Keys, IsFiniteSet(S),
         \A k \in S : Covers(rows)[k] \in Int,
         NEW q \in S, \A k \in S \ {q} : next[k] = rows[k]
  PROVE  CoverSum(next, S \ {q}) = CoverSum(rows, S) - Cash[rows[q].order]
<1>1. /\ \A k \in S \ {q} : Covers(next)[k] = Covers(rows)[k]
      /\ Covers(rows)[q] = Cash[rows[q].order]
  BY DEF Covers
<1>2. SumFunctionOnSet(Covers(next), S \ {q}) = SumFunctionOnSet(Covers(rows), S) - Covers(rows)[q]
  BY <1>1, RowRemoved
<1>3. S \ {q} \in SUBSET Keys /\ IsFiniteSet(S \ {q})
  BY FS_Subset
<1>4. CoverSum(next, S \ {q}) = SumFunctionOnSet(Covers(next), S \ {q})
  BY <1>3, CoverSumIs
<1>5. CoverSum(rows, S) = SumFunctionOnSet(Covers(rows), S)
  BY CoverSumIs
<1> QED BY <1>1, <1>2, <1>4, <1>5

\* The keys whose row is an active reservation of c, read off the columns.
HoldsFor(rows, c) == {k \in Keys : rows[k] # None /\ rows[k].captain = c /\ rows[k].state = "ACTIVE"}

LEMMA HoldsForColumns ==
  ASSUME NEW rows \in [Keys -> Reservation \cup {None}], NEW c \in Captains
  PROVE  {k \in Keys : \E o \in Orders :
            /\ rows[k] # None
            /\ rows[k] = [order |-> o, captain |-> c, state |-> "ACTIVE"]} = HoldsFor(rows, c)
<1>1. ASSUME NEW k \in Keys, rows[k] # None
      PROVE  (\E o \in Orders : rows[k] = [order |-> o, captain |-> c, state |-> "ACTIVE"])
               <=> rows[k].captain = c /\ rows[k].state = "ACTIVE"
  <2>1. rows[k] \in Reservation
    BY <1>1
  <2>2. /\ rows[k] = [order |-> rows[k].order, captain |-> rows[k].captain, state |-> rows[k].state]
        /\ rows[k].order \in Orders
    BY <2>1 DEF Reservation
  <2> QED BY <2>2
<1> QED BY <1>1 DEF HoldsFor

\* A reservation holds its cash, in the wallet of its captain alone.
LEMMA ReserveSums ==
  ASSUME TypeOK, RowHasEvent, FiniteTables, NEW k \in Keys, NEW o \in Orders, NEW c \in Captains,
         Reserves(k, o, c)
  PROVE  /\ FiniteTables'
         /\ \A d \in Captains : HeldCash(d)' = HeldCash(d) + (IF d = c THEN Cash[o] ELSE 0)
<1>1. /\ reservation[k] = None
      /\ reservation'[k] = [order |-> o, captain |-> c, state |-> "ACTIVE"]
      /\ \A q \in Keys : q # k => reservation'[q] = reservation[q]
      /\ reservation' \in [Keys -> Reservation \cup {None}]
      /\ UNCHANGED <<payout, earning>>
  BY DEF Reserves, RowHasEvent, TypeOK, Reservation
<1>2. reservation'[k] # None
  BY <1>1, NoneAssumption DEF Reservation
<1>3. FiniteTables'
  <2>1. {q \in Keys : reservation'[q] # None} = {q \in Keys : reservation[q] # None} \cup {k}
    BY <1>1, <1>2
  <2> DEFINE rows == {q \in Keys : reservation[q] # None}
  <2>2. IsFiniteSet(rows)
    BY DEF FiniteTables
  <2>3. IsFiniteSet(rows \cup {k})
    <3> HIDE DEF rows
    <3> QED BY <2>2, FS_AddElement
  <2> QED BY <1>1, <2>1, <2>3 DEF FiniteTables
<1>4. ASSUME NEW d \in Captains
      PROVE  HeldCash(d)' = HeldCash(d) + (IF d = c THEN Cash[o] ELSE 0)
  <2>1. /\ ActiveKeys(d) \in SUBSET Keys /\ IsFiniteSet(ActiveKeys(d))
        /\ \A q \in ActiveKeys(d) : Covers(reservation)[q] \in Int
    BY TableRows
  <2>2. k \notin ActiveKeys(d)
    BY <1>1 DEF ActiveKeys, Row
  <2>3. \A q \in ActiveKeys(d) : reservation'[q] = reservation[q]
    BY <1>1, <2>1, <2>2
  <2>4. ActiveKeys(d)' = IF d = c THEN ActiveKeys(d) \cup {k} ELSE ActiveKeys(d)
    <3>1. ActiveKeys(d) = HoldsFor(reservation, d)
      BY HoldsForColumns DEF ActiveKeys, Row, TypeOK
    <3>2. ActiveKeys(d)' = HoldsFor(reservation', d)
      BY <1>1, HoldsForColumns DEF ActiveKeys, Row
    <3>3. reservation'[k].captain = c /\ reservation'[k].state = "ACTIVE"
      BY <1>1
    <3>4. CASE d = c
      BY <1>1, <1>2, <3>1, <3>2, <3>3, <3>4 DEF HoldsFor
    <3>5. CASE d # c
      BY <1>1, <1>2, <3>1, <3>2, <3>3, <3>5 DEF HoldsFor
    <3> QED BY <3>4, <3>5
  <2>5. reservation'[k].order = o /\ Cash[o] \in Int
    BY <1>1, CashAssumption
  <2>6. CASE d = c
    <3>1. CoverSum(reservation', ActiveKeys(d) \cup {k}) = CoverSum(reservation, ActiveKeys(d)) + Cash[o]
      BY <2>1, <2>2, <2>3, <2>5, CoverSumAdds
    <3> QED BY <2>4, <2>6, <3>1 DEF HeldCash, CoverSum
  <2>7. CASE d # c
    <3>1. ActiveKeys(d)' = ActiveKeys(d)
      BY <2>4, <2>7
    <3>2. HeldCash(d)' = HeldCash(d)
      BY <2>1, <2>3, <3>1, CoverSumStays DEF HeldCash, CoverSum
    <3>3. HeldCash(d) \in Nat
      BY MoneyTypes
    <3> QED BY <2>7, <3>2, <3>3
  <2> QED BY <2>6, <2>7
<1> QED BY <1>3, <1>4

\* A reservation that ends gives its cash back to the wallet of its captain.
LEMMA EndRowSums ==
  ASSUME TypeOK, FiniteTables, NEW r \in Keys, NEW o \in Orders, NEW c \in Captains,
         NEW s \in {"RELEASED", "DEBITED"}, EndsRow(r, o, c, s)
  PROVE  /\ FiniteTables'
         /\ \A d \in Captains : HeldCash(d)' = HeldCash(d) - (IF d = c THEN Cash[o] ELSE 0)
<1>1. /\ reservation[r] = [order |-> o, captain |-> c, state |-> "ACTIVE"]
      /\ reservation'[r] = [order |-> o, captain |-> c, state |-> s]
      /\ \A q \in Keys : q # r => reservation'[q] = reservation[q]
      /\ reservation' \in [Keys -> Reservation \cup {None}]
      /\ UNCHANGED <<payout, earning>>
  BY DEF EndsRow
<1>2. reservation[r] # None /\ reservation'[r] # None
  BY <1>1, NoneAssumption DEF Reservation
<1>3. FiniteTables'
  <2>1. {q \in Keys : reservation'[q] # None} = {q \in Keys : reservation[q] # None}
    BY <1>1, <1>2
  <2> QED BY <1>1, <2>1 DEF FiniteTables
<1>4. ASSUME NEW d \in Captains
      PROVE  HeldCash(d)' = HeldCash(d) - (IF d = c THEN Cash[o] ELSE 0)
  <2>1. /\ ActiveKeys(d) \in SUBSET Keys /\ IsFiniteSet(ActiveKeys(d))
        /\ \A q \in ActiveKeys(d) : Covers(reservation)[q] \in Int
    BY TableRows
  <2>a. ActiveKeys(d) = HoldsFor(reservation, d)
    BY HoldsForColumns DEF ActiveKeys, Row, TypeOK
  <2>b. ActiveKeys(d)' = HoldsFor(reservation', d)
    BY <1>1, HoldsForColumns DEF ActiveKeys, Row
  <2>c. /\ reservation[r].captain = c /\ reservation[r].state = "ACTIVE"
        /\ reservation'[r].state # "ACTIVE"
    BY <1>1
  <2>2. r \in ActiveKeys(d) <=> d = c
    BY <1>2, <2>a, <2>c DEF HoldsFor
  <2>3. \A q \in ActiveKeys(d) \ {r} : reservation'[q] = reservation[q]
    BY <1>1, <2>1
  <2>4. ActiveKeys(d)' = ActiveKeys(d) \ {r}
    BY <1>1, <2>a, <2>b, <2>c DEF HoldsFor
  <2>5. reservation[r].order = o
    BY <1>1
  <2>6. CASE d = c
    <3>1. r \in ActiveKeys(d)
      BY <2>2, <2>6
    <3>2. CoverSum(reservation', ActiveKeys(d) \ {r}) = CoverSum(reservation, ActiveKeys(d)) - Cash[o]
      BY <2>1, <2>3, <2>5, <3>1, CoverSumDrops
    <3> QED BY <2>4, <2>6, <3>2 DEF HeldCash, CoverSum
  <2>7. CASE d # c
    <3>1. ActiveKeys(d)' = ActiveKeys(d) /\ \A q \in ActiveKeys(d) : reservation'[q] = reservation[q]
      BY <2>2, <2>3, <2>4, <2>7
    <3>2. HeldCash(d)' = HeldCash(d)
      BY <2>1, <3>1, CoverSumStays DEF HeldCash, CoverSum
    <3>3. HeldCash(d) \in Nat
      BY MoneyTypes
    <3> QED BY <2>7, <3>2, <3>3
  <2> QED BY <2>6, <2>7
<1> QED BY <1>3, <1>4

\* An earning is credited to its captain alone.
LEMMA EarningSums ==
  ASSUME TypeOK, FiniteTables, NEW o \in Orders, NEW c \in Captains, FinalizePartnerOrderEarning(o, c)
  PROVE  /\ FiniteTables'
         /\ \A d \in Captains : Earned(d)' = Earned(d) + (IF d = c THEN Fee[o] ELSE 0)
<1>1. /\ earning[o] = None /\ earning'[o] = c /\ c # None
      /\ \A x \in Orders : x # o => earning'[x] = earning[x]
      /\ UNCHANGED <<reservation, payout>>
  BY NoneAssumption DEF FinalizePartnerOrderEarning, CanFinalizeEarning, TypeOK
<1>2. FiniteTables'
  <2>1. {x \in Orders : earning'[x] # None} = {x \in Orders : earning[x] # None} \cup {o}
    BY <1>1
  <2> DEFINE rows == {x \in Orders : earning[x] # None}
  <2>2. IsFiniteSet(rows)
    BY DEF FiniteTables
  <2>3. IsFiniteSet(rows \cup {o})
    <3> HIDE DEF rows
    <3> QED BY <2>2, FS_AddElement
  <2> QED BY <1>1, <2>1, <2>3 DEF FiniteTables
<1>3. ASSUME NEW d \in Captains PROVE Earned(d)' = Earned(d) + (IF d = c THEN Fee[o] ELSE 0)
  <2> DEFINE S == {x \in Orders : earning[x] = d}
             T == {x \in Orders : earning'[x] = d}
  <2>1. IsFiniteSet(S) /\ S \subseteq Orders
    BY TableRows
  <2>2. o \notin S
    BY <1>1, NoneAssumption
  <2>3. T = IF d = c THEN S \cup {o} ELSE S
    <3>1. CASE d = c
      BY <1>1, <3>1
    <3>2. CASE d # c
      BY <1>1, <3>2, NoneAssumption
    <3> QED BY <3>1, <3>2
  <2>4. \A x \in S : Fee[x] \in Int
    BY <2>1, FeeAssumption
  <2>5. Earned(d) = SumFunctionOnSet(Fee, S) /\ Earned(d)' = SumFunctionOnSet(Fee, T)
    BY DEF Earned
  <2>6. Earned(d) \in Nat /\ Fee[o] \in Int
    BY MoneyTypes, FeeAssumption
  <2> HIDE DEF S, T
  <2>7. CASE d = c
    <3>1. SumFunctionOnSet(Fee, S \cup {o}) = SumFunctionOnSet(Fee, S) + Fee[o]
      BY <2>1, <2>2, <2>4, <2>6, SumAdd
    <3> QED BY <2>3, <2>5, <2>7, <3>1
  <2>8. CASE d # c
    BY <2>3, <2>5, <2>6, <2>8
  <2> QED BY <2>7, <2>8
<1> QED BY <1>2, <1>3

-----------------------------------------------------------------------------
(* The orders whose cash the receivable stands for. *)

Debited == {o \in Orders : \E k \in Keys, c \in Captains : Row(k, o, c, "DEBITED")}
Owed == {o \in Orders : earning[o] # None} \ Debited

\* The debited orders, read off the columns of the reservations.
DebitedIn(rows) ==
  {o \in Orders : \E k \in Keys : rows[k] # None /\ rows[k].order = o /\ rows[k].state = "DEBITED"}

LEMMA DebitedColumns ==
  ASSUME NEW rows \in [Keys -> Reservation \cup {None}]
  PROVE  {o \in Orders : \E k \in Keys, c \in Captains :
            /\ rows[k] # None
            /\ rows[k] = [order |-> o, captain |-> c, state |-> "DEBITED"]} = DebitedIn(rows)
<1>1. ASSUME NEW k \in Keys, NEW o \in Orders, rows[k] # None
      PROVE  (\E c \in Captains : rows[k] = [order |-> o, captain |-> c, state |-> "DEBITED"])
               <=> rows[k].order = o /\ rows[k].state = "DEBITED"
  <2>1. rows[k] \in Reservation
    BY <1>1
  <2>2. /\ rows[k] = [order |-> rows[k].order, captain |-> rows[k].captain, state |-> rows[k].state]
        /\ rows[k].captain \in Captains
    BY <2>1 DEF Reservation
  <2> QED BY <2>2
<1> QED BY <1>1 DEF DebitedIn

LEMMA BooksAre == ReceivableIsUndebitedCash <=> receivable = SumFunctionOnSet(Cash, Owed)
BY DEF ReceivableIsUndebitedCash, Owed, Debited

LEMMA BooksAreNext == ReceivableIsUndebitedCash' <=> receivable' = SumFunctionOnSet(Cash, Owed')
BY DEF ReceivableIsUndebitedCash, Owed, Debited

LEMMA OwedFinite ==
  ASSUME FiniteTables
  PROVE  Owed \subseteq Orders /\ IsFiniteSet(Owed) /\ \A o \in Owed : Cash[o] \in Int
<1>1. Owed \subseteq {o \in Orders : earning[o] # None}
  BY DEF Owed
<1>2. Owed \subseteq Orders /\ \A o \in Orders : Cash[o] \in Int
  BY CashAssumption DEF Owed
<1> QED BY <1>1, <1>2, FS_Subset DEF FiniteTables

\* A new earning makes its order owed: it was not debited before.
LEMMA EarningOwes ==
  ASSUME TypeOK, DebitedIsEarned, NEW o \in Orders, NEW c \in Captains, FinalizePartnerOrderEarning(o, c)
  PROVE  o \notin Owed /\ Owed' = Owed \cup {o} /\ DebitedIsEarned'
<1>1. /\ earning[o] = None /\ earning'[o] # None
      /\ \A x \in Orders : x # o => earning'[x] = earning[x]
      /\ UNCHANGED reservation
  BY NoneAssumption DEF FinalizePartnerOrderEarning, CanFinalizeEarning, TypeOK
<1>2. o \notin Owed
  BY <1>1 DEF Owed
<1>3. /\ Debited = DebitedIn(reservation)
      /\ Debited' = Debited
  <2>1. Debited = DebitedIn(reservation)
    BY DebitedColumns DEF Debited, Row, TypeOK
  <2>2. Debited' = Debited
    BY <1>1 DEF Debited, Row
  <2> QED BY <2>1, <2>2
<1>4. o \notin Debited
  BY <1>1, <1>3 DEF DebitedIn, DebitedIsEarned
<1>5. Owed' = Owed \cup {o}
  BY <1>1, <1>3, <1>4 DEF Owed
<1>6. DebitedIsEarned'
  <2>1. \A k \in Keys : reservation[k] # None => reservation[k].order \in Orders
    BY DEF TypeOK, Reservation
  <2> QED BY <1>1, <2>1 DEF DebitedIsEarned
<1> QED BY <1>2, <1>5, <1>6

\* A new reservation owes nothing and settles nothing.
LEMMA ReserveOwes ==
  ASSUME TypeOK, RowHasEvent, DebitedIsEarned, NEW k \in Keys, NEW o \in Orders, NEW c \in Captains,
         Reserves(k, o, c)
  PROVE  Owed' = Owed /\ DebitedIsEarned'
<1>1. /\ reservation[k] = None
      /\ reservation'[k] = [order |-> o, captain |-> c, state |-> "ACTIVE"]
      /\ \A q \in Keys : q # k => reservation'[q] = reservation[q]
      /\ reservation' \in [Keys -> Reservation \cup {None}]
      /\ UNCHANGED earning
  BY DEF Reserves, RowHasEvent, TypeOK, Reservation
<1>2. reservation'[k].state # "DEBITED"
  BY <1>1
<1>3. Debited = DebitedIn(reservation) /\ Debited' = DebitedIn(reservation')
  BY <1>1, DebitedColumns DEF Debited, Row, TypeOK
<1>4. Debited' = Debited
  BY <1>1, <1>2, <1>3 DEF DebitedIn
<1> QED BY <1>1, <1>2, <1>4 DEF Owed, DebitedIsEarned

\* A reservation that ends settles its order when it ends in the debit.
LEMMA EndRowOwes ==
  ASSUME TypeOK, ChargedOnce, DebitedIsEarned, NEW r \in Keys, NEW o \in Orders, NEW c \in Captains,
         NEW s \in {"RELEASED", "DEBITED"}, EndsRow(r, o, c, s), s = "DEBITED" => earning[o] # None
  PROVE  /\ Owed' = IF s = "DEBITED" THEN Owed \ {o} ELSE Owed
         /\ s = "DEBITED" => o \in Owed
         /\ DebitedIsEarned'
<1>1. /\ reservation[r] = [order |-> o, captain |-> c, state |-> "ACTIVE"]
      /\ reservation'[r] = [order |-> o, captain |-> c, state |-> s]
      /\ \A q \in Keys : q # r => reservation'[q] = reservation[q]
      /\ reservation' \in [Keys -> Reservation \cup {None}]
      /\ UNCHANGED earning
  BY DEF EndsRow
<1>2. reservation[r] # None /\ reservation'[r] # None
  BY <1>1, NoneAssumption DEF Reservation
<1>3. /\ reservation[r].order = o /\ reservation[r].state = "ACTIVE"
      /\ reservation'[r].order = o /\ reservation'[r].state = s
  BY <1>1
<1>4. Debited = DebitedIn(reservation) /\ Debited' = DebitedIn(reservation')
  BY <1>1, DebitedColumns DEF Debited, Row, TypeOK
<1>5. o \notin Debited
  BY <1>2, <1>3, <1>4 DEF DebitedIn, ChargedOnce
<1>6. Debited' = IF s = "DEBITED" THEN Debited \cup {o} ELSE Debited
  <2>1. CASE s = "DEBITED"
    BY <1>1, <1>2, <1>3, <1>4, <2>1 DEF DebitedIn
  <2>2. CASE s = "RELEASED"
    BY <1>1, <1>2, <1>3, <1>4, <2>2 DEF DebitedIn
  <2> QED BY <2>1, <2>2
<1>7. Owed' = IF s = "DEBITED" THEN Owed \ {o} ELSE Owed
  BY <1>1, <1>6 DEF Owed
<1>8. s = "DEBITED" => o \in Owed
  BY <1>5 DEF Owed
<1>9. DebitedIsEarned'
  BY <1>1, <1>3 DEF DebitedIsEarned
<1> QED BY <1>7, <1>8, <1>9

-----------------------------------------------------------------------------
(* Each action keeps the money invariants. *)

\* What an action leaves alone keeps its sums.
LEMMA PayoutsKept ==
  ASSUME UNCHANGED payout
  PROVE  \A d \in Captains : /\ PayoutSum(HeldPayouts(d))' = PayoutSum(HeldPayouts(d))
                             /\ PayoutSum(PaidPayouts(d))' = PayoutSum(PaidPayouts(d))
BY DEF PayoutSum, HeldPayouts, PaidPayouts

LEMMA CoverKept ==
  ASSUME UNCHANGED reservation PROVE \A d \in Captains : HeldCash(d)' = HeldCash(d)
BY DEF HeldCash, ActiveKeys, Row

LEMMA EarnedKept ==
  ASSUME UNCHANGED earning PROVE \A d \in Captains : Earned(d)' = Earned(d)
BY DEF Earned

LEMMA OwedKept ==
  ASSUME UNCHANGED <<reservation, earning>> PROVE Owed' = Owed /\ (DebitedIsEarned => DebitedIsEarned')
BY DEF Owed, Debited, Row, DebitedIsEarned

\* The two captain invariants, spelled out, in the next state.
LEMMA CaptainMoney ==
  ASSUME \A d \in Captains :
           /\ balance'[d] - (HeldCash(d)' + PayoutSum(HeldPayouts(d))') >= 0
           /\ PayoutSum(PaidPayouts(d))' + PayoutSum(HeldPayouts(d))' <= Earned(d)'
  PROVE  NeverOverdrawn' /\ OnlyEarningsPaidOut'
BY DEF NeverOverdrawn, OnlyEarningsPaidOut, Available, Held

LEMMA CaptainMoneyNow ==
  ASSUME MoneyInv, NEW d \in Captains
  PROVE  /\ balance[d] - (HeldCash(d) + PayoutSum(HeldPayouts(d))) >= 0
         /\ PayoutSum(PaidPayouts(d)) + PayoutSum(HeldPayouts(d)) <= Earned(d)
BY DEF MoneyInv, NeverOverdrawn, OnlyEarningsPaidOut, Available, Held

\* Steps that touch neither the tables nor the accounts.
LEMMA MoneyFrame ==
  ASSUME MoneyInv, UNCHANGED <<reservation, earning, payout, balance, receivable>>
  PROVE  MoneyInv'
BY DEF MoneyInv, FiniteTables, DebitedIsEarned, NeverOverdrawn, Available, Held, HeldCash, ActiveKeys,
       Row, PayoutSum, HeldPayouts, PaidPayouts, ReceivableIsUndebitedCash, OnlyEarningsPaidOut, Earned

\* A reservation holds no more than the captain has available.
LEMMA ReserveMoney ==
  ASSUME IInv, MoneyInv, NEW k \in Keys, NEW o \in Orders, NEW c \in Captains, ReserveCaptainCOD(k, o, c)
  PROVE  MoneyInv'
<1>1. Reserves(k, o, c) /\ Available(c) >= Cash[o]
  BY DEF ReserveCaptainCOD, CanReserve, Reserves
<1>2. TypeOK /\ RowHasEvent /\ FiniteTables /\ DebitedIsEarned
  BY DEF IInv, MoneyInv
<1>3. /\ FiniteTables'
      /\ \A d \in Captains : HeldCash(d)' = HeldCash(d) + (IF d = c THEN Cash[o] ELSE 0)
  BY <1>1, <1>2, ReserveSums
<1>4. Owed' = Owed /\ DebitedIsEarned'
  BY <1>1, <1>2, ReserveOwes
<1>5. UNCHANGED <<payout, earning, balance, receivable>>
  BY <1>1 DEF Reserves
<1>6. /\ \A d \in Captains : /\ PayoutSum(HeldPayouts(d))' = PayoutSum(HeldPayouts(d))
                             /\ PayoutSum(PaidPayouts(d))' = PayoutSum(PaidPayouts(d))
      /\ \A d \in Captains : Earned(d)' = Earned(d)
  BY <1>5, PayoutsKept, EarnedKept
<1>7. Cash[o] \in Nat
  BY CashAssumption
<1>8. ASSUME NEW d \in Captains
      PROVE  /\ balance'[d] - (HeldCash(d)' + PayoutSum(HeldPayouts(d))') >= 0
             /\ PayoutSum(PaidPayouts(d))' + PayoutSum(HeldPayouts(d))' <= Earned(d)'
  <2>1. balance'[d] = balance[d]
    BY <1>5
  <2>2. d = c => balance[d] - (HeldCash(d) + PayoutSum(HeldPayouts(d))) >= Cash[o]
    BY <1>1 DEF Available, Held
  <2> HIDE <1>5
  <2> QED BY <1>2, <1>3, <1>6, <1>7, <2>1, <2>2, MoneyTypes, CaptainMoneyNow
<1>9. NeverOverdrawn' /\ OnlyEarningsPaidOut'
  BY <1>8, CaptainMoney
<1>10. ReceivableIsUndebitedCash'
  BY <1>4, <1>5, BooksAre, BooksAreNext DEF MoneyInv
<1> QED BY <1>3, <1>4, <1>9, <1>10 DEF MoneyInv

\* A released reservation gives the captain the held cash back.
LEMMA ReleaseMoney ==
  ASSUME IInv, MoneyInv, NEW k \in Keys, NEW o \in Orders, NEW c \in Captains, ReleaseCaptainCOD(k, o, c)
  PROVE  MoneyInv'
<1>1. /\ EndReservation(k, "release", o, c, "RELEASED")
      /\ UNCHANGED <<balance, receivable>>
  BY DEF ReleaseCaptainCOD
<1>2. TypeOK /\ ChargedOnce /\ FiniteTables /\ DebitedIsEarned
  BY DEF IInv, MoneyInv
<1>3. PICK r \in Keys : EndsRow(r, o, c, "RELEASED")
  BY <1>1, <1>2, EndReservationFacts
<1>4. /\ FiniteTables'
      /\ \A d \in Captains : HeldCash(d)' = HeldCash(d) - (IF d = c THEN Cash[o] ELSE 0)
  BY <1>2, <1>3, EndRowSums
<1>5. Owed' = Owed /\ DebitedIsEarned'
  BY <1>2, <1>3, EndRowOwes
<1>6. UNCHANGED <<payout, earning>>
  BY <1>3 DEF EndsRow
<1>7. /\ \A d \in Captains : /\ PayoutSum(HeldPayouts(d))' = PayoutSum(HeldPayouts(d))
                             /\ PayoutSum(PaidPayouts(d))' = PayoutSum(PaidPayouts(d))
      /\ \A d \in Captains : Earned(d)' = Earned(d)
  BY <1>6, PayoutsKept, EarnedKept
<1>8. Cash[o] \in Nat
  BY CashAssumption
<1>9. ASSUME NEW d \in Captains
      PROVE  /\ balance'[d] - (HeldCash(d)' + PayoutSum(HeldPayouts(d))') >= 0
             /\ PayoutSum(PaidPayouts(d))' + PayoutSum(HeldPayouts(d))' <= Earned(d)'
  <2>1. balance'[d] = balance[d]
    BY <1>1
  <2> QED BY <1>2, <1>4, <1>7, <1>8, <2>1, MoneyTypes, CaptainMoneyNow
<1>10. NeverOverdrawn' /\ OnlyEarningsPaidOut'
  BY <1>9, CaptainMoney
<1>11. ReceivableIsUndebitedCash'
  BY <1>1, <1>5, BooksAre, BooksAreNext DEF MoneyInv
<1> QED BY <1>4, <1>5, <1>10, <1>11 DEF MoneyInv

\* The debit takes exactly the cash the reservation held, and settles its order.
LEMMA DebitMoney ==
  ASSUME IInv, MoneyInv, NEW k \in Keys, NEW o \in Orders, NEW c \in Captains, FinalizeCaptainCOD(k, o, c)
  PROVE  MoneyInv'
<1>2. TypeOK /\ ChargedOnce /\ FiniteTables /\ DebitedIsEarned
  BY DEF IInv, MoneyInv
<1>1. /\ EndReservation(k, "finalize", o, c, "DEBITED")
      /\ \A d \in Captains : balance'[d] = IF d = c THEN balance[d] - Cash[o] ELSE balance[d]
      /\ receivable' = receivable - Cash[o]
      /\ earning[o] # None
  BY <1>2, NoneAssumption DEF FinalizeCaptainCOD, CanFinalizeCOD, TypeOK
<1>3. PICK r \in Keys : EndsRow(r, o, c, "DEBITED")
  BY <1>1, <1>2, EndReservationFacts
<1>4. /\ FiniteTables'
      /\ \A d \in Captains : HeldCash(d)' = HeldCash(d) - (IF d = c THEN Cash[o] ELSE 0)
  BY <1>2, <1>3, EndRowSums
<1>5. Owed' = Owed \ {o} /\ o \in Owed /\ DebitedIsEarned'
  BY <1>1, <1>2, <1>3, EndRowOwes
<1>6. UNCHANGED <<payout, earning>>
  BY <1>3 DEF EndsRow
<1>7. /\ \A d \in Captains : /\ PayoutSum(HeldPayouts(d))' = PayoutSum(HeldPayouts(d))
                             /\ PayoutSum(PaidPayouts(d))' = PayoutSum(PaidPayouts(d))
      /\ \A d \in Captains : Earned(d)' = Earned(d)
  BY <1>6, PayoutsKept, EarnedKept
<1>8. Cash[o] \in Nat
  BY CashAssumption
<1>9. ASSUME NEW d \in Captains
      PROVE  /\ balance'[d] - (HeldCash(d)' + PayoutSum(HeldPayouts(d))') >= 0
             /\ PayoutSum(PaidPayouts(d))' + PayoutSum(HeldPayouts(d))' <= Earned(d)'
  BY <1>1, <1>2, <1>4, <1>7, <1>8, MoneyTypes, CaptainMoneyNow
<1>10. NeverOverdrawn' /\ OnlyEarningsPaidOut'
  BY <1>9, CaptainMoney
<1>11. ReceivableIsUndebitedCash'
  <2>1. SumFunctionOnSet(Cash, Owed \ {o}) = SumFunctionOnSet(Cash, Owed) - Cash[o]
    BY <1>2, <1>5, OwedFinite, SumLess
  <2> QED BY <1>1, <1>5, <2>1, BooksAre, BooksAreNext DEF MoneyInv
<1> QED BY <1>4, <1>5, <1>10, <1>11 DEF MoneyInv

\* The fee is earned, and the cash of the order becomes owed.
LEMMA EarningMoney ==
  ASSUME IInv, MoneyInv, NEW o \in Orders, NEW c \in Captains, FinalizePartnerOrderEarning(o, c)
  PROVE  MoneyInv'
<1>1. TypeOK /\ FiniteTables /\ DebitedIsEarned
  BY DEF IInv, MoneyInv
<1>2. /\ \A d \in Captains : balance'[d] = IF d = c THEN balance[d] + Fee[o] ELSE balance[d]
      /\ receivable' = receivable + Cash[o]
      /\ UNCHANGED <<reservation, payout>>
  BY <1>1 DEF FinalizePartnerOrderEarning, TypeOK
<1>3. FiniteTables' /\ \A d \in Captains : Earned(d)' = Earned(d) + (IF d = c THEN Fee[o] ELSE 0)
  BY <1>1, EarningSums
<1>4. o \notin Owed /\ Owed' = Owed \cup {o} /\ DebitedIsEarned'
  BY <1>1, EarningOwes
<1>5. \A d \in Captains : /\ PayoutSum(HeldPayouts(d))' = PayoutSum(HeldPayouts(d))
                          /\ PayoutSum(PaidPayouts(d))' = PayoutSum(PaidPayouts(d))
                          /\ HeldCash(d)' = HeldCash(d)
  BY <1>2, PayoutsKept, CoverKept
<1>6. Fee[o] \in Nat /\ Cash[o] \in Int
  BY FeeAssumption, CashAssumption
<1>7. ASSUME NEW d \in Captains
      PROVE  /\ balance'[d] - (HeldCash(d)' + PayoutSum(HeldPayouts(d))') >= 0
             /\ PayoutSum(PaidPayouts(d))' + PayoutSum(HeldPayouts(d))' <= Earned(d)'
  <2>1. balance'[d] = IF d = c THEN balance[d] + Fee[o] ELSE balance[d]
    BY <1>2
  <2> QED BY <1>1, <1>3, <1>5, <1>6, <2>1, MoneyTypes, CaptainMoneyNow
<1>8. NeverOverdrawn' /\ OnlyEarningsPaidOut'
  BY <1>7, CaptainMoney
<1>9. ReceivableIsUndebitedCash'
  <2>1. SumFunctionOnSet(Cash, Owed \cup {o}) = SumFunctionOnSet(Cash, Owed) + Cash[o]
    BY <1>1, <1>4, <1>6, OwedFinite, SumAdd
  <2> QED BY <1>2, <1>4, <2>1, BooksAre, BooksAreNext DEF MoneyInv
<1> QED BY <1>3, <1>4, <1>8, <1>9 DEF MoneyInv

\* A payout holds no more than what is available, and no more than what is left of the earnings.
LEMMA CreateMoney ==
  ASSUME IInv, MoneyInv, NEW p \in Payouts, NEW c \in Captains, NEW amount \in 1 .. EligibleForPayout(c),
         CreatePayoutIntent(p, c, amount)
  PROVE  MoneyInv'
<1>1. TypeOK /\ FiniteTables /\ DebitedIsEarned
  BY DEF IInv, MoneyInv
<1>2. /\ amount \in Nat \ {0}
      /\ amount <= balance[c] - (HeldCash(c) + PayoutSum(HeldPayouts(c)))
      /\ amount <= Earned(c) - PayoutSum(PaidPayouts(c)) - PayoutSum(HeldPayouts(c))
  BY <1>1, Eligible, MoneyTypes DEF Available, Held
<1>3. UNCHANGED <<reservation, earning, balance, receivable>>
  BY DEF CreatePayoutIntent
<1>4. /\ FiniteTables'
      /\ \A d \in Captains :
           /\ PayoutSum(PaidPayouts(d))' = PayoutSum(PaidPayouts(d))
           /\ PayoutSum(HeldPayouts(d))' = PayoutSum(HeldPayouts(d)) + (IF d = c THEN amount ELSE 0)
  BY <1>1, <1>2, CreateSums
<1>5. /\ \A d \in Captains : HeldCash(d)' = HeldCash(d) /\ Earned(d)' = Earned(d)
      /\ Owed' = Owed /\ DebitedIsEarned'
  BY <1>1, <1>3, CoverKept, EarnedKept, OwedKept
<1>6. ASSUME NEW d \in Captains
      PROVE  /\ balance'[d] - (HeldCash(d)' + PayoutSum(HeldPayouts(d))') >= 0
             /\ PayoutSum(PaidPayouts(d))' + PayoutSum(HeldPayouts(d))' <= Earned(d)'
  <2>1. balance'[d] = balance[d]
    BY <1>3
  <2> QED BY <1>1, <1>2, <1>4, <1>5, <2>1, MoneyTypes, CaptainMoneyNow
<1>7. NeverOverdrawn' /\ OnlyEarningsPaidOut'
  BY <1>6, CaptainMoney
<1>8. ReceivableIsUndebitedCash'
  BY <1>3, <1>5, BooksAre, BooksAreNext DEF MoneyInv
<1> QED BY <1>4, <1>5, <1>7, <1>8 DEF MoneyInv

\* A payout that ends frees its amount, and takes it from the balance if it was paid.
LEMMA EndPayoutMoney ==
  ASSUME IInv, MoneyInv, NEW p \in Payouts, CancelPayout(p) \/ ReconcileManualTransfer(p)
  PROVE  MoneyInv'
<1>1. TypeOK /\ FiniteTables /\ DebitedIsEarned
  BY DEF IInv, MoneyInv
<1>2. PICK hold \in {"RELEASED", "FINALIZED"} :
        /\ EndsPayout(p, hold)
        /\ UNCHANGED receivable
        /\ \A d \in Captains :
             balance'[d] = IF hold = "FINALIZED" /\ d = payout[p].captain THEN balance[d] - payout[p].amount
                                                                         ELSE balance[d]
  <2>1. CASE CancelPayout(p)
    BY <2>1 DEF CancelPayout, EndsPayout
  <2>2. CASE ReconcileManualTransfer(p)
    BY <1>1, <2>2 DEF ReconcileManualTransfer, EndsPayout, TypeOK
  <2> QED BY <2>1, <2>2
<1> DEFINE c == payout[p].captain
           a == payout[p].amount
<1>3. /\ FiniteTables' /\ a \in Nat
      /\ \A d \in Captains :
           /\ PayoutSum(HeldPayouts(d))' = PayoutSum(HeldPayouts(d)) - (IF d = c THEN a ELSE 0)
           /\ PayoutSum(PaidPayouts(d))' =
                PayoutSum(PaidPayouts(d)) + (IF hold = "FINALIZED" THEN (IF d = c THEN a ELSE 0) ELSE 0)
  BY <1>1, <1>2, EndPayoutSums
<1>4. UNCHANGED <<reservation, earning>>
  BY <1>2 DEF EndsPayout
<1>5. /\ \A d \in Captains : HeldCash(d)' = HeldCash(d) /\ Earned(d)' = Earned(d)
      /\ Owed' = Owed /\ DebitedIsEarned'
  BY <1>1, <1>4, CoverKept, EarnedKept, OwedKept
<1> HIDE DEF c, a
<1>6. \A d \in Captains :
        balance'[d] = IF hold = "FINALIZED" /\ d = c THEN balance[d] - a ELSE balance[d]
  BY <1>2 DEF c, a
<1>7. ASSUME NEW d \in Captains
      PROVE  /\ balance'[d] - (HeldCash(d)' + PayoutSum(HeldPayouts(d))') >= 0
             /\ PayoutSum(PaidPayouts(d))' + PayoutSum(HeldPayouts(d))' <= Earned(d)'
  BY <1>1, <1>3, <1>5, <1>6, MoneyTypes, CaptainMoneyNow
<1>8. NeverOverdrawn' /\ OnlyEarningsPaidOut'
  BY <1>7, CaptainMoney
<1>9. ReceivableIsUndebitedCash'
  BY <1>2, <1>5, BooksAre, BooksAreNext DEF MoneyInv
<1> QED BY <1>3, <1>5, <1>8, <1>9 DEF MoneyInv

\* A top-up raises the balance and nothing else.
LEMMA TopUpMoney ==
  ASSUME IInv, MoneyInv, NEW c \in Captains, NEW amount \in TopUps, ApplyCashInFundingResult(c, amount)
  PROVE  MoneyInv'
<1>1. TypeOK /\ FiniteTables /\ DebitedIsEarned
  BY DEF IInv, MoneyInv
<1>2. /\ amount \in Nat
      /\ \A d \in Captains : balance'[d] = IF d = c THEN balance[d] + amount ELSE balance[d]
      /\ UNCHANGED <<reservation, earning, payout, receivable>>
  BY <1>1, TopUpsAssumption DEF ApplyCashInFundingResult, TypeOK
<1>3. /\ \A d \in Captains : /\ HeldCash(d)' = HeldCash(d) /\ Earned(d)' = Earned(d)
                             /\ PayoutSum(HeldPayouts(d))' = PayoutSum(HeldPayouts(d))
                             /\ PayoutSum(PaidPayouts(d))' = PayoutSum(PaidPayouts(d))
      /\ Owed' = Owed /\ DebitedIsEarned'
  BY <1>1, <1>2, CoverKept, EarnedKept, OwedKept, PayoutsKept
<1>4. ASSUME NEW d \in Captains
      PROVE  /\ balance'[d] - (HeldCash(d)' + PayoutSum(HeldPayouts(d))') >= 0
             /\ PayoutSum(PaidPayouts(d))' + PayoutSum(HeldPayouts(d))' <= Earned(d)'
  <2>1. balance'[d] = IF d = c THEN balance[d] + amount ELSE balance[d]
    BY <1>2
  <2>2. amount \in Nat
    BY <1>2
  <2> QED BY <1>1, <1>3, <2>1, <2>2, MoneyTypes, CaptainMoneyNow
<1>5. NeverOverdrawn' /\ OnlyEarningsPaidOut'
  BY <1>4, CaptainMoney
<1>6. ReceivableIsUndebitedCash'
  BY <1>2, <1>3, BooksAre, BooksAreNext DEF MoneyInv
<1>7. FiniteTables'
  BY <1>1, <1>2 DEF FiniteTables
<1> QED BY <1>3, <1>5, <1>6, <1>7 DEF MoneyInv

-----------------------------------------------------------------------------
\* Nothing is held, earned or owed at first.
LEMMA InitMoney == Init => MoneyInv
<1> SUFFICES ASSUME Init PROVE MoneyInv
  OBVIOUS
<1>1. /\ {k \in Keys : reservation[k] # None} = {}
      /\ {o \in Orders : earning[o] # None} = {}
      /\ {p \in Payouts : payout[p] # None} = {}
      /\ receivable = 0
      /\ \A c \in Captains : balance[c] = 0
  BY DEF Init
<1>2. FiniteTables /\ DebitedIsEarned
  BY <1>1, FS_EmptySet DEF FiniteTables, DebitedIsEarned
<1>3. Owed = {}
  BY <1>1 DEF Owed
<1>4. ReceivableIsUndebitedCash
  BY <1>1, <1>3, SumEmpty, BooksAre
<1>5. ASSUME NEW c \in Captains
      PROVE  HeldCash(c) = 0 /\ PayoutSum(HeldPayouts(c)) = 0 /\ PayoutSum(PaidPayouts(c)) = 0 /\ Earned(c) = 0
  <2>1. /\ ActiveKeys(c) = {} /\ HeldPayouts(c) = {} /\ PaidPayouts(c) = {}
        /\ {o \in Orders : earning[o] = c} = {}
    BY <1>1, NoneAssumption DEF ActiveKeys, HeldPayouts, PaidPayouts, Row
  <2>2. CoverSum(reservation, {}) = 0 /\ AmountSum(payout, {}) = 0 /\ SumFunctionOnSet(Fee, {}) = 0
    BY FS_EmptySet, CoverSumIs, PayoutSumIs, SumEmpty
  <2> QED BY <2>1, <2>2 DEF HeldCash, CoverSum, PayoutSum, AmountSum, Earned
<1>6. NeverOverdrawn /\ OnlyEarningsPaidOut
  BY <1>1, <1>5 DEF NeverOverdrawn, OnlyEarningsPaidOut, Available, Held
<1> QED BY <1>2, <1>4, <1>6 DEF MoneyInv

LEMMA StepMoney == IInv /\ MoneyInv /\ [Next]_vars => MoneyInv'
<1> SUFFICES ASSUME IInv, MoneyInv, [Next]_vars PROVE MoneyInv'
  OBVIOUS
<1>1. ASSUME NEW o \in Orders, CreatePaymentIntent(o) \/ CancelPaymentIntent(o) PROVE MoneyInv'
  BY <1>1, MoneyFrame DEF CreatePaymentIntent, CancelPaymentIntent
<1>2. ASSUME NEW o \in Orders, NEW c \in Captains \cup {None}, CollectPaymentIntent(o, c) PROVE MoneyInv'
  BY <1>2, MoneyFrame DEF CollectPaymentIntent
<1>3. ASSUME NEW k \in Keys, NEW o \in Orders, NEW c \in Captains,
             ReserveCaptainCOD(k, o, c) \/ ReleaseCaptainCOD(k, o, c) \/ FinalizeCaptainCOD(k, o, c)
      PROVE  MoneyInv'
  BY <1>3, ReserveMoney, ReleaseMoney, DebitMoney
<1>4. ASSUME NEW o \in Orders, NEW c \in Captains, FinalizePartnerOrderEarning(o, c) PROVE MoneyInv'
  BY <1>4, EarningMoney
<1>5. ASSUME NEW p \in Payouts, NEW c \in Captains, NEW amount \in 1 .. EligibleForPayout(c),
             CreatePayoutIntent(p, c, amount)
      PROVE  MoneyInv'
  BY <1>5, CreateMoney
<1>6. ASSUME NEW p \in Payouts, CancelPayout(p) \/ ReconcileManualTransfer(p) PROVE MoneyInv'
  BY <1>6, EndPayoutMoney
<1>7. ASSUME NEW c \in Captains, NEW amount \in TopUps, ApplyCashInFundingResult(c, amount) PROVE MoneyInv'
  BY <1>7, TopUpMoney
<1>8. CASE UNCHANGED vars
  BY <1>8, MoneyFrame DEF vars
<1> QED BY <1>1, <1>2, <1>3, <1>4, <1>5, <1>6, <1>7, <1>8 DEF Next

-----------------------------------------------------------------------------
\* The money invariants hold together with the reservation discipline.
THEOREM MoneyInvariance == Spec => [](IInv /\ MoneyInv)
<1>1. Init => IInv /\ MoneyInv
  BY InitIInv, InitMoney
<1>2. IInv /\ MoneyInv /\ [Next]_vars => (IInv /\ MoneyInv)'
  BY StepIInv, StepMoney
<1> QED BY <1>1, <1>2, PTL DEF Spec

\* However reservations, payouts, debits, top-ups and refusals interleave, a
\* captain's holds never exceed the wallet.
THEOREM WalletCovered == Spec => []NeverOverdrawn
<1>1. MoneyInv => NeverOverdrawn
  BY DEF MoneyInv
<1> QED BY <1>1, MoneyInvariance, PTL

\* The cash receivable is always the cash of the orders that were earned and
\* not yet debited: the two sides of every posting agree.
THEOREM BooksBalance == Spec => []ReceivableIsUndebitedCash
<1>1. MoneyInv => ReceivableIsUndebitedCash
  BY DEF MoneyInv
<1> QED BY <1>1, MoneyInvariance, PTL

\* A captain's payouts, held and executed, never exceed the captain's earnings:
\* no top-up leaves through the payout path.
THEOREM PayoutsAreEarned == Spec => []OnlyEarningsPaidOut
<1>1. MoneyInv => OnlyEarningsPaidOut
  BY DEF MoneyInv
<1> QED BY <1>1, MoneyInvariance, PTL
=============================================================================
