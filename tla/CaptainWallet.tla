------------------------------ MODULE CaptainWallet ------------------------------
(***************************************************************************)
(* The captain side of WLT, the financial service: the payment intent of   *)
(* an order, the COD reservations (holds that cover the cash a captain     *)
(* will collect), the captain's ledger balance, the payout holds and the   *)
(* cash-in funding.  Sources: services/wlt/backend/internal/storage/       *)
(* postgres/{captain_wallet,payment,partner_order_earning,payout_request,  *)
(* payout_requests,settlement_statements,cash_in_funding}.go.              *)
(*                                                                         *)
(* Every action is one database transaction: the handlers serialise on     *)
(* advisory locks (intent, then captain wallet) and on row locks, and read *)
(* after they lock.  The callers are arbitrary: any request may arrive in  *)
(* any order, any number of times.  A request that is refused, or that     *)
(* replays an idempotency key, changes nothing and is a stuttering step;   *)
(* ReserveReplays and TransitionReplays say when it nevertheless succeeds. *)
(*                                                                         *)
(* Rows of captain_cod_reservations are named by their unique reserve key. *)
(* The row version of an intent is a function of its state (1 while        *)
(* REQUIRES_COLLECTION, 2 after) and is left out.                          *)
(***************************************************************************)
EXTENDS Integers, FiniteSetsExt

CONSTANTS Orders,       \* COD orders delivered by a platform captain
          Captains,
          Keys,         \* idempotency keys of the reservation requests
          Payouts,      \* payout ids
          Cash,         \* Cash[o]: cash_amount_minor of o's allocation
          Fee,          \* Fee[o]: delivery fee less margin, credited to the captain
          TopUps,       \* amounts a settled cash-in may credit
          MaxBalance,   \* bound on a captain's ledger balance
          None          \* an absent row or actor

ASSUME CashAssumption == Cash \in [Orders -> Nat]
ASSUME FeeAssumption == Fee \in [Orders -> Nat]
ASSUME TopUpsAssumption == TopUps \subseteq Nat \ {0}
ASSUME MaxBalanceAssumption == MaxBalance \in Nat

VARIABLES
  intent,       \* intent[o]: state of the payment intent, "NONE" before creation
  collectedBy,  \* collected_by_actor_id of o's intent
  reservation,  \* reservation[k]: the COD reservation created under key k
  event,        \* event[k]: the request recorded under key k (reservation_events)
  earning,      \* earning[o]: captain of o's partner_order_earnings row
  payout,       \* payout[p]: the captain payout and its hold
  balance,      \* balance[c]: credits less debits of CAPTAIN_WALLET for c
  receivable    \* debits less credits of CAPTAIN_CASH_RECEIVABLE

vars == <<intent, collectedBy, reservation, event, earning, payout, balance, receivable>>

Reservation == [order : Orders, captain : Captains, state : {"ACTIVE", "RELEASED", "DEBITED"}]
Request     == [op : {"reserve", "release", "finalize"}, order : Orders, captain : Captains]
Payout      == [captain : Captains, amount : Nat \ {0}, hold : {"ACTIVE", "RELEASED", "FINALIZED"}]

ASSUME NoneAssumption == None \notin Captains \cup Reservation \cup Request \cup Payout

TypeOK ==
  /\ intent \in [Orders -> {"NONE", "REQUIRES_COLLECTION", "COLLECTED", "CANCELLED"}]
  /\ collectedBy \in [Orders -> Captains \cup {None}]
  /\ reservation \in [Keys -> Reservation \cup {None}]
  /\ event \in [Keys -> Request \cup {None}]
  /\ earning \in [Orders -> Captains \cup {None}]
  /\ payout \in [Payouts -> Payout \cup {None}]
  /\ balance \in [Captains -> Int]
  /\ receivable \in Int

-----------------------------------------------------------------------------
(* Reading the tables. *)

(* k names a reservation of (o, c) in state s. *)
Row(k, o, c, s) ==
  /\ reservation[k] # None
  /\ reservation[k] = [order |-> o, captain |-> c, state |-> s]

Active(o, c) == \E k \in Keys : Row(k, o, c, "ACTIVE")

ActiveKeys(c) == {k \in Keys : \E o \in Orders : Row(k, o, c, "ACTIVE")}
HeldPayouts(c) == {p \in Payouts : payout[p] # None /\ payout[p].captain = c /\ payout[p].hold = "ACTIVE"}
PaidPayouts(c) == {p \in Payouts : payout[p] # None /\ payout[p].captain = c /\ payout[p].hold = "FINALIZED"}

PayoutSum(S) == SumFunction([p \in S |-> payout[p].amount])
HeldCash(c)  == SumFunction([k \in ActiveKeys(c) |-> Cash[reservation[k].order]])

Held(c)      == HeldCash(c) + PayoutSum(HeldPayouts(c))
Available(c) == balance[c] - Held(c)

Earned(c) == SumFunctionOnSet(Fee, {o \in Orders : earning[o] = c})

(* What a captain may withdraw: earnings not yet paid or held, never top-ups. *)
EligibleToSpend(c) == Available(c)   \* mutant: lets top-ups be withdrawn

EligibleForPayout(c) ==
  LET remaining == Earned(c) - PayoutSum(PaidPayouts(c)) - PayoutSum(HeldPayouts(c))
  IN  IF Available(c) <= 0 \/ remaining <= 0 THEN 0 ELSE Min({remaining, Available(c)})

-----------------------------------------------------------------------------
Init ==
  /\ intent = [o \in Orders |-> "NONE"]
  /\ collectedBy = [o \in Orders |-> None]
  /\ reservation = [k \in Keys |-> None]
  /\ event = [k \in Keys |-> None]
  /\ earning = [o \in Orders |-> None]
  /\ payout = [p \in Payouts |-> None]
  /\ balance = [c \in Captains |-> 0]
  /\ receivable = 0

CreatePaymentIntent(o) ==
  /\ intent[o] = "NONE"
  /\ intent' = [intent EXCEPT ![o] = "REQUIRES_COLLECTION"]
  /\ UNCHANGED <<collectedBy, reservation, event, earning, payout, balance, receivable>>

-----------------------------------------------------------------------------
(* COD reservations. *)

Recorded(k, operation, o, c) == event[k] = [op |-> operation, order |-> o, captain |-> c]

(* A recorded key answers with its row, whatever state the row is in now. *)
ReserveReplays(k, o, c) == Recorded(k, "reserve", o, c)

CanReserveUnfunded(k, o, c) ==   \* mutant: no look at the available balance
  /\ event[k] = None
  /\ intent[o] = "REQUIRES_COLLECTION"
  /\ Cash[o] > 0
  /\ \A d \in Captains : ~Active(o, d)

CanReserveAgain(k, o, c) ==   \* mutant: without the unique index
  /\ event[k] = None
  /\ intent[o] = "REQUIRES_COLLECTION"
  /\ Cash[o] > 0
  /\ Available(c) >= Cash[o]

CanReserve(k, o, c) ==
  /\ event[k] = None
  /\ intent[o] = "REQUIRES_COLLECTION"
  /\ Cash[o] > 0
  /\ Available(c) >= Cash[o]
  /\ \A d \in Captains : ~Active(o, d)   \* unique index: one ACTIVE row per order

ReserveCaptainCOD(k, o, c) ==
  /\ CanReserve(k, o, c)
  /\ reservation' = [reservation EXCEPT ![k] = [order |-> o, captain |-> c, state |-> "ACTIVE"]]
  /\ event' = [event EXCEPT ![k] = [op |-> "reserve", order |-> o, captain |-> c]]
  /\ UNCHANGED <<intent, collectedBy, earning, payout, balance, receivable>>

(* release/finalize succeed without effect on a recorded key, or when no   *)
(* ACTIVE row exists and the row picked is already in the wanted state.    *)
TransitionReplays(k, operation, o, c) ==
  \/ Recorded(k, operation, o, c)
  \/ /\ event[k] = None
     /\ intent[o] # "NONE"
     /\ ~Active(o, c)
     /\ LET debited == \E r \in Keys : Row(r, o, c, "DEBITED")
        IN  IF operation = "finalize" THEN debited
            ELSE ~debited /\ \E r \in Keys : Row(r, o, c, "RELEASED")

(* The row of (o, c) still ACTIVE goes to state s, under key k. *)
EndReservation(k, operation, o, c, s) ==
  /\ event[k] = None
  /\ intent[o] # "NONE"
  /\ \E r \in Keys :
       /\ Row(r, o, c, "ACTIVE")
       /\ reservation' = [reservation EXCEPT ![r].state = s]
  /\ event' = [event EXCEPT ![k] = [op |-> operation, order |-> o, captain |-> c]]
  /\ UNCHANGED <<intent, collectedBy, earning, payout>>

ReleaseCollected(k, o, c) ==   \* mutant: does not look at the intent
  /\ EndReservation(k, "release", o, c, "RELEASED")
  /\ UNCHANGED <<balance, receivable>>

ReleaseCaptainCOD(k, o, c) ==
  /\ intent[o] # "COLLECTED"
  /\ EndReservation(k, "release", o, c, "RELEASED")
  /\ UNCHANGED <<balance, receivable>>

CanFinalizeCOD(o, c) ==
  /\ intent[o] = "COLLECTED"
  /\ collectedBy[o] = c
  /\ earning[o] = c
  /\ Cash[o] > 0

FinalizeOnce(k, o, c) ==   \* mutant: the state name of the old schema
  /\ CanFinalizeCOD(o, c)
  /\ EndReservation(k, "finalize", o, c, "FINALIZED")
  /\ balance' = [balance EXCEPT ![c] = @ - Cash[o]]
  /\ receivable' = receivable - Cash[o]

FinalizeOneSided(k, o, c) ==   \* mutant: only the wallet side of the entry
  /\ CanFinalizeCOD(o, c)
  /\ EndReservation(k, "finalize", o, c, "DEBITED")
  /\ balance' = [balance EXCEPT ![c] = @ - Cash[o]]
  /\ UNCHANGED receivable

FinalizeWithoutDebit(k, o, c) ==   \* mutant: the hold ends and no entry is posted
  /\ CanFinalizeCOD(o, c)
  /\ EndReservation(k, "finalize", o, c, "DEBITED")
  /\ UNCHANGED <<balance, receivable>>

(* The captain keeps the cash: wallet liability and receivable both fall. *)
FinalizeCaptainCOD(k, o, c) ==
  /\ CanFinalizeCOD(o, c)
  /\ EndReservation(k, "finalize", o, c, "DEBITED")
  /\ balance' = [balance EXCEPT ![c] = @ - Cash[o]]
  /\ receivable' = receivable - Cash[o]

-----------------------------------------------------------------------------
(* Payment intents. *)

CanCollect(o, c) ==
  /\ intent[o] = "REQUIRES_COLLECTION"
  /\ Cash[o] > 0 => c \in Captains /\ Active(o, c)
  /\ Cash[o] = 0 => c = None        \* settled from the customer balance

CollectPaymentIntent(o, c) ==
  /\ CanCollect(o, c)
  /\ intent' = [intent EXCEPT ![o] = "COLLECTED"]
  /\ collectedBy' = [collectedBy EXCEPT ![o] = c]
  /\ UNCHANGED <<reservation, event, earning, payout, balance, receivable>>

CancelPaymentIntent(o) ==
  /\ intent[o] = "REQUIRES_COLLECTION"
  /\ intent' = [intent EXCEPT ![o] = "CANCELLED"]
  /\ UNCHANGED <<collectedBy, reservation, event, earning, payout, balance, receivable>>

CanFinalizeForAnyone(o, c) ==   \* mutant: no look at who collected
  earning[o] = None /\ intent[o] = "COLLECTED"

CanFinalizeEarning(o, c) ==
  /\ earning[o] = None
  /\ intent[o] = "COLLECTED"
  /\ Cash[o] > 0 => collectedBy[o] = c /\ Active(o, c)

(* Delivered: the captain owes the cash and is credited the delivery fee. *)
FinalizePartnerOrderEarning(o, c) ==
  /\ CanFinalizeEarning(o, c)
  /\ earning' = [earning EXCEPT ![o] = c]
  /\ balance' = [balance EXCEPT ![c] = @ + Fee[o]]
  /\ receivable' = receivable + Cash[o]
  /\ UNCHANGED <<intent, collectedBy, reservation, event, payout>>

-----------------------------------------------------------------------------
(* Captain payouts and cash-in, as far as the captain wallet sees them. *)

CreatePayoutIntent(p, c, amount) ==
  /\ payout[p] = None
  /\ amount > 0 /\ amount <= EligibleForPayout(c)
  /\ payout' = [payout EXCEPT ![p] = [captain |-> c, amount |-> amount, hold |-> "ACTIVE"]]
  /\ UNCHANGED <<intent, collectedBy, reservation, event, earning, balance, receivable>>

CancelPayout(p) ==
  /\ payout[p] # None /\ payout[p].hold = "ACTIVE"
  /\ payout' = [payout EXCEPT ![p].hold = "RELEASED"]
  /\ UNCHANGED <<intent, collectedBy, reservation, event, earning, balance, receivable>>

ReconcileManualTransfer(p) ==
  /\ payout[p] # None /\ payout[p].hold = "ACTIVE"
  /\ payout' = [payout EXCEPT ![p].hold = "FINALIZED"]
  /\ balance' = [balance EXCEPT ![payout[p].captain] = @ - payout[p].amount]
  /\ UNCHANGED <<intent, collectedBy, reservation, event, earning, receivable>>

ApplyCashInFundingResult(c, amount) ==
  /\ balance[c] + amount <= MaxBalance
  /\ balance' = [balance EXCEPT ![c] = @ + amount]
  /\ UNCHANGED <<intent, collectedBy, reservation, event, earning, payout, receivable>>

-----------------------------------------------------------------------------
Next ==
  \/ \E o \in Orders : CreatePaymentIntent(o) \/ CancelPaymentIntent(o)
  \/ \E o \in Orders, c \in Captains \cup {None} : CollectPaymentIntent(o, c)
  \/ \E k \in Keys, o \in Orders, c \in Captains :
        \/ ReserveCaptainCOD(k, o, c)
        \/ ReleaseCaptainCOD(k, o, c)
        \/ FinalizeCaptainCOD(k, o, c)
  \/ \E o \in Orders, c \in Captains : FinalizePartnerOrderEarning(o, c)
  \/ \E p \in Payouts, c \in Captains :
        \E amount \in 1 .. EligibleForPayout(c) : CreatePayoutIntent(p, c, amount)
  \/ \E p \in Payouts : CancelPayout(p) \/ ReconcileManualTransfer(p)
  \/ \E c \in Captains, amount \in TopUps : ApplyCashInFundingResult(c, amount)

Spec == Init /\ [][Next]_vars

-----------------------------------------------------------------------------
(* Properties. *)

\* Holds never exceed the wallet: whatever reservations, payouts, debits and
\* refusals interleave, no captain has promised the same money twice.
NeverOverdrawn == \A c \in Captains : Available(c) >= 0

\* Cash recorded as collected by a captain is covered by that captain's own
\* reservation until the wallet debit consumes it (the check of
\* CollectPaymentIntent and the refusal of transitionCaptainCOD together).
CollectedCashCovered ==
  \A o \in Orders : intent[o] = "COLLECTED" /\ Cash[o] > 0 =>
    /\ collectedBy[o] \in Captains
    /\ \E k \in Keys : Row(k, o, collectedBy[o], "ACTIVE") \/ Row(k, o, collectedBy[o], "DEBITED")

\* An order's cash is never covered or charged twice: over every captain and
\* every key, at most one reservation of an order is ACTIVE or DEBITED.
ChargedOnce ==
  \A k, l \in Keys : k # l /\ reservation[k] # None /\ reservation[l] # None =>
    ~ /\ reservation[k].order = reservation[l].order
      /\ reservation[k].state # "RELEASED"
      /\ reservation[l].state # "RELEASED"

\* Double entry: the cash receivable account is exactly the cash of the orders
\* whose earning was posted and whose captain has not yet been debited.
ReceivableIsUndebitedCash ==
  LET debited == {o \in Orders : \E k \in Keys, c \in Captains : Row(k, o, c, "DEBITED")}
      owed == {o \in Orders : earning[o] # None} \ debited
  IN  receivable = SumFunctionOnSet(Cash, owed)

\* Payouts draw on delivery earnings only: a captain's own top-ups, which
\* cover COD, never leave through the payout path.
OnlyEarningsPaidOut ==
  \A c \in Captains : PayoutSum(PaidPayouts(c)) + PayoutSum(HeldPayouts(c)) <= Earned(c)

\* The captain credited with the fee of a cash order is the one who holds its cash.
EarnerIsCollector ==
  \A o \in Orders : earning[o] # None /\ Cash[o] > 0 => earning[o] = collectedBy[o]

\* Cover of collected cash ends only in the debit of exactly that cash, and a
\* reservation that ended never comes back or changes again.
CoverEndsByDebit ==
  [][\A k \in Keys : reservation[k] # None /\ reservation'[k] # reservation[k] =>
       /\ reservation[k].state = "ACTIVE"
       /\ LET o == reservation[k].order
              c == reservation[k].captain
          IN  intent[o] = "COLLECTED" =>
                /\ reservation'[k] = [reservation[k] EXCEPT !.state = "DEBITED"]
                /\ balance'[c] = balance[c] - Cash[o]]_vars
=============================================================================
