---------------------------- MODULE PayoutSettlement ----------------------------
(***************************************************************************)
(* How WLT pays a beneficiary: a payout and its hold, the settlement       *)
(* batches that carry it, the manual transfer recorded for it, and the     *)
(* provider statement it is reconciled with.  Sources: services/wlt/       *)
(* backend/internal/storage/postgres/{payout_request,payout_requests,      *)
(* settlement_batches,settlement_export,settlement_transfers,              *)
(* settlement_statements,identity_facts,official_wallet_destination}.go.   *)
(*                                                                         *)
(* A transaction that locks its rows before it reads them is one action.   *)
(* Verification and reconciliation lock the transfer only, and count the   *)
(* rows of its batch in the state committed when their last UPDATE starts  *)
(* (READ COMMITTED): the count is an action and the commit another, and    *)
(* others may commit in between.  Operators act in any order.  A request   *)
(* that is refused or replays its key changes nothing and is a stutter.    *)
(*                                                                         *)
(* Amounts are the concern of CaptainWallet.  All payouts use one provider *)
(* and currency, so any set of them may form a batch.  A batch compares a  *)
(* count of rows with row_count; the rows counted are items of the batch,  *)
(* one each, so the count is complete when every item has such a row.      *)
(***************************************************************************)
EXTENDS Naturals

CONSTANTS Payouts,
          Beneficiaries,   \* the actors who are paid
          BeneficiaryOf,   \* BeneficiaryOf[p]: whom p pays
          Batches,         \* settlement batch ids
          Operators,       \* Finance operators
          MaxVersion,      \* bound on the destination versions of an actor
          None             \* no operator, no batch

ASSUME BeneficiaryAssumption == BeneficiaryOf \in [Payouts -> Beneficiaries]
ASSUME NoneAssumption == None \notin Operators \cup Batches
ASSUME MaxVersionAssumption == MaxVersion \in Nat

VARIABLES
  destination,   \* destination[a]: the wallet a is paid to
  payout,        \* payout[p]: payout_requests and approved_payout_snapshots
  hold,          \* hold[p]: payout_holds
  batch,         \* batch[b]: settlement_batches and settlement_batch_items
  transfer,      \* transfer[p]: manual_transfer_executions, one per payout
  stated,        \* payouts whose transfer an official statement row confirms
  writing        \* writing[p]: the open transaction that has locked transfer p

vars == <<destination, payout, hold, batch, transfer, stated, writing>>

Someone == Operators \cup {None}
Executing == {"FROZEN", "EXECUTION_IN_PROGRESS"}
Released  == Executing \cup {"AWAITING_VERIFICATION", "AWAITING_RECONCILIATION", "COMPLETED"}

Destination == [version : 0 .. MaxVersion, active : BOOLEAN]
Payout == [status : {"NONE", "HELD", "CANCELLED", "PREPARED", "APPROVED", "FROZEN", "EXECUTED", "COMPLETED"},
           version : 0 .. MaxVersion, preparedBy : Someone, approvedBy : Someone]
Batch == [status : {"NONE", "PREPARED", "APPROVED"} \cup Released, items : SUBSET Payouts,
          createdBy : Someone, approvedBy : Someone, frozenBy : Someone]
Transfer == [status : {"NONE", "EXECUTED", "VERIFIED", "RECONCILED"}, batch : Batches \cup {None},
             executedBy : Someone, verifiedBy : Someone, reconciledBy : Someone]

\* The stage the transfer will have, who takes it there, and what becomes of its batch.
Writing == [step : {"NONE", "VERIFIED", "RECONCILED"}, by : Someone,
            batch : {"NONE", "AWAITING_VERIFICATION", "AWAITING_RECONCILIATION", "COMPLETED"}]
Idle == [step |-> "NONE", by |-> None, batch |-> "NONE"]

TypeOK ==
  /\ destination \in [Beneficiaries -> Destination]
  /\ payout \in [Payouts -> Payout]
  /\ hold \in [Payouts -> {"NONE", "ACTIVE", "RELEASED", "FINALIZED"}]
  /\ batch \in [Batches -> Batch]
  /\ transfer \in [Payouts -> Transfer]
  /\ stated \in SUBSET Payouts
  /\ writing \in [Payouts -> Writing]

Init ==
  /\ destination = [a \in Beneficiaries |-> [version |-> 0, active |-> FALSE]]
  /\ payout = [p \in Payouts |-> [status |-> "NONE", version |-> 0, preparedBy |-> None, approvedBy |-> None]]
  /\ hold = [p \in Payouts |-> "NONE"]
  /\ batch = [b \in Batches |-> [status |-> "NONE", items |-> {}, createdBy |-> None,
                                 approvedBy |-> None, frozenBy |-> None]]
  /\ transfer = [p \in Payouts |-> [status |-> "NONE", batch |-> None, executedBy |-> None,
                                    verifiedBy |-> None, reconciledBy |-> None]]
  /\ stated = {}
  /\ writing = [p \in Payouts |-> Idle]

-----------------------------------------------------------------------------
(* Destinations.  A row that goes stale takes a new version and is never   *)
(* active again; the beneficiary then needs a new row, with a later one.   *)

\* Every payout of S is still owed to the destination it pinned, and Identity agrees.
Reverified(S) == \A p \in S :
  destination[BeneficiaryOf[p]] = [version |-> payout[p].version, active |-> TRUE]

ActivateOfficialWalletDestination(a) ==
  /\ destination[a].version < MaxVersion
  /\ destination' = [destination EXCEPT ![a] = [version |-> @.version + 1, active |-> TRUE]]
  /\ UNCHANGED <<payout, hold, batch, transfer, stated, writing>>

\* Any request that rereads Identity and meets changed facts commits this and refuses.
MarkDestinationStale(a) ==
  /\ destination[a].active
  /\ destination' = [destination EXCEPT ![a].active = FALSE]
  /\ UNCHANGED <<payout, hold, batch, transfer, stated, writing>>

-----------------------------------------------------------------------------
(* Payouts. *)

CreatePayoutIntent(p) ==
  /\ payout[p].status = "NONE"
  /\ destination[BeneficiaryOf[p]].active
  /\ payout' = [payout EXCEPT ![p].status = "HELD", ![p].version = destination[BeneficiaryOf[p]].version]
  /\ hold' = [hold EXCEPT ![p] = "ACTIVE"]
  /\ UNCHANGED <<destination, batch, transfer, stated, writing>>

PreparePayout(p, op) ==
  /\ payout[p].status = "HELD"
  /\ Reverified({p})
  /\ payout' = [payout EXCEPT ![p].status = "PREPARED", ![p].preparedBy = op]
  /\ UNCHANGED <<destination, hold, batch, transfer, stated, writing>>

ApprovePayout(p, op) ==
  /\ payout[p].status = "PREPARED"
  /\ Reverified({p})
  /\ op # payout[p].preparedBy
  /\ payout' = [payout EXCEPT ![p].status = "APPROVED", ![p].approvedBy = op]
  /\ UNCHANGED <<destination, hold, batch, transfer, stated, writing>>

CanCancelApproved(p) == payout[p].status \in {"HELD", "PREPARED", "APPROVED"}   \* mutant: as the console offers

CanCancel(p) == payout[p].status \in {"HELD", "PREPARED"}

CancelKeepingHold(p) ==   \* mutant: ends the request and leaves the hold
  /\ CanCancel(p)
  /\ payout' = [payout EXCEPT ![p].status = "CANCELLED"]
  /\ UNCHANGED <<destination, hold, batch, transfer, stated, writing>>

CancelPayout(p) ==
  /\ CanCancel(p)
  /\ payout' = [payout EXCEPT ![p].status = "CANCELLED"]
  /\ hold' = [hold EXCEPT ![p] = "RELEASED"]
  /\ UNCHANGED <<destination, batch, transfer, stated, writing>>

-----------------------------------------------------------------------------
(* Settlement batches. *)

CanBatchEarly(S) == \A p \in S : payout[p].status \in {"PREPARED", "APPROVED"}   \* mutant

CanBatch(S) == \A p \in S : payout[p].status = "APPROVED"

\* The payouts do not change: one of them may enter several batches.
CreateSettlementBatch(b, S, op) ==
  /\ batch[b].status = "NONE"
  /\ S # {}
  /\ CanBatch(S)
  /\ Reverified(S)
  /\ batch' = [batch EXCEPT ![b].status = "PREPARED", ![b].items = S, ![b].createdBy = op]
  /\ UNCHANGED <<destination, payout, hold, transfer, stated, writing>>

ApproveSettlementBatch(b, op) ==
  /\ batch[b].status = "PREPARED"
  /\ Reverified(batch[b].items)
  /\ op # batch[b].createdBy
  /\ batch' = [batch EXCEPT ![b].status = "APPROVED", ![b].approvedBy = op]
  /\ UNCHANGED <<destination, payout, hold, transfer, stated, writing>>

FrozenAll(p) == [payout[p] EXCEPT !.status = "FROZEN"]   \* mutant: without AND status='APPROVED'

\* Freezing moves an APPROVED payout on and leaves any other as it is.
Frozen(p) == IF payout[p].status = "APPROVED" THEN [payout[p] EXCEPT !.status = "FROZEN"] ELSE payout[p]

FreezeSettlementBatch(b, op) ==
  /\ batch[b].status = "APPROVED"
  /\ Reverified(batch[b].items)
  /\ op # batch[b].approvedBy
  /\ batch' = [batch EXCEPT ![b].status = "FROZEN", ![b].frozenBy = op]
  /\ payout' = [p \in Payouts |-> IF p \in batch[b].items THEN Frozen(p) ELSE payout[p]]
  /\ UNCHANGED <<destination, hold, transfer, stated, writing>>

\* When the spreadsheet with the transfer instructions of b is handed out.
CanExport(b) == batch[b].status \in Released /\ Reverified(batch[b].items)

-----------------------------------------------------------------------------
(* Transfers and statements.  Each operation on a transfer rewrites the    *)
(* status of its batch from the rows, whatever it was.                     *)

RecordManualTransfer(b, p, op) ==
  /\ batch[b].status \in Executing
  /\ p \in batch[b].items
  /\ payout[p].status = "FROZEN"
  /\ transfer' = [transfer EXCEPT ![p].status = "EXECUTED", ![p].batch = b, ![p].executedBy = op]
  /\ payout' = [payout EXCEPT ![p].status = "EXECUTED"]
  /\ batch' = [batch EXCEPT ![b].status =
       IF \A q \in batch[b].items : transfer'[q].batch = b
       THEN "AWAITING_VERIFICATION" ELSE "EXECUTION_IN_PROGRESS"]
  /\ UNCHANGED <<destination, hold, stated, writing>>

\* The transfer that is to be written is not in the committed rows yet and counts as written.
OtherRows(p) == batch[transfer[p].batch].items \ {p}

CanVerifyTwice(p, op) ==   \* mutant: without the status check
  transfer[p].status # "NONE" /\ op # transfer[p].executedBy

CanVerify(p, op) ==
  /\ transfer[p].status = "EXECUTED"
  /\ op # transfer[p].executedBy

CountVerified(p, op) ==
  /\ writing[p] = Idle
  /\ CanVerify(p, op)
  /\ writing' = [writing EXCEPT ![p] = [step |-> "VERIFIED", by |-> op, batch |->
       IF \A q \in OtherRows(p) : transfer[q].batch = transfer[p].batch /\ transfer[q].status = "VERIFIED"
       THEN "AWAITING_RECONCILIATION" ELSE "AWAITING_VERIFICATION"]]
  /\ UNCHANGED <<destination, payout, hold, batch, transfer, stated>>

VerifyManualTransfer(p) ==
  /\ writing[p].step = "VERIFIED"
  /\ transfer' = [transfer EXCEPT ![p].status = "VERIFIED", ![p].verifiedBy = writing[p].by]
  /\ batch' = [batch EXCEPT ![transfer[p].batch].status = writing[p].batch]
  /\ writing' = [writing EXCEPT ![p] = Idle]
  /\ UNCHANGED <<destination, payout, hold, stated>>

\* A row with the reference, amount and destination of p's transfer is entered.
RecordSettlementStatementRow(p) ==
  /\ p \notin stated
  /\ stated' = stated \cup {p}
  /\ UNCHANGED <<destination, payout, hold, batch, transfer, writing>>

CanReconcileUnverified(p, op) ==   \* mutant: a statement row is taken for a verification
  /\ transfer[p].status \in {"EXECUTED", "VERIFIED"}
  /\ op # transfer[p].executedBy
  /\ p \in stated

CanReconcile(p, op) ==
  /\ transfer[p].status = "VERIFIED"
  /\ op # transfer[p].executedBy
  /\ p \in stated

\* mutant: counts the transfers of the batch that are still open, not its rows
StatusAfterOpenTransfers(p) ==
  IF \A q \in Payouts \ {p} : transfer[q].batch = transfer[p].batch => transfer[q].status = "RECONCILED"
  THEN "COMPLETED" ELSE "AWAITING_RECONCILIATION"

StatusAfterReconcilePartial(p) ==   \* mutant: a status the table does not have
  IF \A q \in OtherRows(p) : payout[q].status = "COMPLETED" THEN "COMPLETED" ELSE "PARTIALLY_RECONCILED"

StatusAfterReconcile(p) ==
  IF \A q \in OtherRows(p) : payout[q].status = "COMPLETED" THEN "COMPLETED" ELSE "AWAITING_RECONCILIATION"

\* (A captain's or customer's wallet lock keeps two payouts of his own apart; a partner has none.)
CountReconciled(p, op) ==
  /\ writing[p] = Idle
  /\ CanReconcile(p, op)
  /\ writing' = [writing EXCEPT ![p] = [step |-> "RECONCILED", by |-> op, batch |-> StatusAfterReconcile(p)]]
  /\ UNCHANGED <<destination, payout, hold, batch, transfer, stated>>

ReconcileManualTransfer(p) ==
  /\ writing[p].step = "RECONCILED"
  /\ transfer' = [transfer EXCEPT ![p].status = "RECONCILED", ![p].reconciledBy = writing[p].by]
  /\ payout' = [payout EXCEPT ![p].status = "COMPLETED"]
  /\ hold' = [hold EXCEPT ![p] = "FINALIZED"]
  /\ batch' = [batch EXCEPT ![transfer[p].batch].status = writing[p].batch]
  /\ writing' = [writing EXCEPT ![p] = Idle]
  /\ UNCHANGED <<destination, stated>>

\* The connection or the process is lost before the commit.
Rollback(p) ==
  /\ writing[p] # Idle
  /\ writing' = [writing EXCEPT ![p] = Idle]
  /\ UNCHANGED <<destination, payout, hold, batch, transfer, stated>>

-----------------------------------------------------------------------------
Next ==
  \/ \E a \in Beneficiaries : ActivateOfficialWalletDestination(a) \/ MarkDestinationStale(a)
  \/ \E p \in Payouts :
        \/ CreatePayoutIntent(p)
        \/ CancelPayout(p)
        \/ VerifyManualTransfer(p)
        \/ RecordSettlementStatementRow(p)
        \/ ReconcileManualTransfer(p)
        \/ Rollback(p)
  \/ \E p \in Payouts, op \in Operators :
        \/ PreparePayout(p, op)
        \/ ApprovePayout(p, op)
        \/ CountVerified(p, op)
        \/ CountReconciled(p, op)
  \/ \E b \in Batches, S \in SUBSET Payouts, op \in Operators : CreateSettlementBatch(b, S, op)
  \/ \E b \in Batches, op \in Operators : ApproveSettlementBatch(b, op) \/ FreezeSettlementBatch(b, op)
  \/ \E b \in Batches, p \in Payouts, op \in Operators : RecordManualTransfer(b, p, op)

Spec == Init /\ [][Next]_vars

-----------------------------------------------------------------------------
(* Properties. *)

\* The two tables that say where a beneficiary's money is never disagree: the
\* hold is active exactly while the payout is under way, released only by a
\* cancellation and finalized only by a completion, whichever batches ran.
HoldFollowsPayout ==
  \A p \in Payouts : hold[p] =
    CASE payout[p].status = "NONE"      -> "NONE"
      [] payout[p].status = "CANCELLED" -> "RELEASED"
      [] payout[p].status = "COMPLETED" -> "FINALIZED"
      [] OTHER                          -> "ACTIVE"

\* A payout is transferred at most once, though several frozen batches may
\* carry it: no payout still to be executed has a transfer, and the transfer
\* of an executed one was recorded in a released batch that holds it.
TransferFollowsPayout ==
  \A p \in Payouts :
    /\ payout[p].status = "EXECUTED" <=> transfer[p].status \in {"EXECUTED", "VERIFIED"}
    /\ payout[p].status = "COMPLETED" <=> transfer[p].status = "RECONCILED"
    /\ transfer[p].status # "NONE" =>
         /\ transfer[p].batch \in Batches
         /\ p \in batch[transfer[p].batch].items
         /\ batch[transfer[p].batch].status \in Released

\* Instructions are only ever handed out for money that is set aside or has
\* been paid: no row of a batch that can be exported has been given back to
\* its beneficiary, and none still can be (the export does not look at it).
InstructionsAreHeld ==
  \A b \in Batches : CanExport(b) =>
    \A p \in batch[b].items : hold[p] \in {"ACTIVE", "FINALIZED"} /\ ~CanCancel(p)

\* A batch called COMPLETED has every row paid and, although verification and
\* reconciliation rewrite the status of a batch unconditionally and from a
\* count that others may have outdated, it stays so.
CompletedBatchIsPaid ==
  \A b \in Batches : batch[b].status = "COMPLETED" =>
    \A p \in batch[b].items : payout[p].status = "COMPLETED"

CompletedBatchStays ==
  [][\A b \in Batches : batch[b].status = "COMPLETED" => batch'[b] = batch[b]]_vars

\* Nobody pays alone and no stage is skipped: behind a completed payout there
\* are two people for the payout, two for each step of its batch, a transfer
\* checked by others than its executor, and a row of the official statement.
PaidByIndependentHands ==
  \A p \in Payouts : payout[p].status = "COMPLETED" =>
    LET t == transfer[p]
        b == batch[t.batch]
    IN  /\ p \in stated
        /\ {payout[p].preparedBy, payout[p].approvedBy, b.createdBy, b.approvedBy, b.frozenBy,
            t.executedBy, t.verifiedBy, t.reconciledBy} \subseteq Operators
        /\ payout[p].preparedBy # payout[p].approvedBy
        /\ b.approvedBy \notin {b.createdBy, b.frozenBy}
        /\ t.executedBy \notin {t.verifiedBy, t.reconciledBy}

\* The money of a payout, read from the hold and from the stage of the payout.
Money == [p \in Payouts |->
  CASE hold[p] = "NONE"      -> "FREE"
    [] hold[p] = "RELEASED"  -> "RETURNED"
    [] hold[p] = "FINALIZED" -> "PAID"
    [] OTHER -> IF payout[p].status \in {"HELD", "PREPARED"} THEN "RESERVED" ELSE "COMMITTED"]

Promise == INSTANCE PayoutPromise WITH money <- Money

\* Handlers, batches and transfers together keep the promise: approved money
\* is never given back and is paid at most once.
PromiseKept == Promise!Spec

-----------------------------------------------------------------------------
(* Claims of the documents and of the console that the code does not keep. *)

\* A frozen payout can be executed: some batch that carries it still accepts
\* the record of its transfer (the console offers it for every such row).
FrozenPayoutExecutable ==
  \A p \in Payouts : payout[p].status = "FROZEN" =>
    \E b \in Batches : p \in batch[b].items /\ batch[b].status \in Executing

\* When the last row of a batch is reconciled the batch is COMPLETED, however
\* many operators reconcile at once (operations are to be concurrency-safe).
\* Not kept: two reconciliations may each miss the other (README, Findings).
SettledBatchIsCompleted ==
  \A b \in Batches :
    /\ batch[b].items # {}
    /\ \A p \in batch[b].items : transfer[p].batch = b /\ transfer[p].status = "RECONCILED"
    => batch[b].status = "COMPLETED"
=============================================================================
