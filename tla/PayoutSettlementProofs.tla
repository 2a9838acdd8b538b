------------------------- MODULE PayoutSettlementProofs -------------------------
(***************************************************************************)
(* The payout chain for any number of payouts, beneficiaries, batches and  *)
(* operators.  The inductive invariant adds to the checked properties what *)
(* a batch knows of its rows and what each table knows of its operators.   *)
(***************************************************************************)
EXTENDS PayoutSettlement, TLAPS

Batched   == {"APPROVED", "FROZEN", "EXECUTED", "COMPLETED"}
Committed == {"FROZEN", "EXECUTED", "COMPLETED"}

\* A payout enters a batch approved and only moves on from there; a released
\* batch has frozen its rows or found them further.
RowsMoveOn ==
  \A b \in Batches : \A p \in batch[b].items :
    /\ payout[p].status \in Batched
    /\ batch[b].status \in Released => payout[p].status \in Committed

PayoutHands ==
  \A p \in Payouts : payout[p].status \in Batched \cup {"PREPARED"} =>
    /\ payout[p].preparedBy \in Operators
    /\ payout[p].status \in Batched =>
         payout[p].approvedBy \in Operators \ {payout[p].preparedBy}

BatchHands ==
  \A b \in Batches : batch[b].status # "NONE" =>
    /\ batch[b].createdBy \in Operators
    /\ batch[b].status # "PREPARED" => batch[b].approvedBy \in Operators \ {batch[b].createdBy}
    /\ batch[b].status \in Released => batch[b].frozenBy \in Operators \ {batch[b].approvedBy}

TransferHands ==
  \A p \in Payouts : transfer[p].status # "NONE" =>
    /\ transfer[p].executedBy \in Operators
    /\ transfer[p].status # "EXECUTED" => transfer[p].verifiedBy \in Operators \ {transfer[p].executedBy}
    /\ transfer[p].status = "RECONCILED" =>
         /\ transfer[p].reconciledBy \in Operators \ {transfer[p].executedBy}
         /\ p \in stated

\* An open transaction still finds its transfer as it locked it, and a count
\* that found every other row completed is not outdated by anyone.
OpenWork ==
  \A p \in Payouts : writing[p].step # "NONE" =>
    /\ writing[p].by \in Operators \ {transfer[p].executedBy}
    /\ writing[p].step = "VERIFIED" =>
         /\ transfer[p].status = "EXECUTED"
         /\ writing[p].batch \in {"AWAITING_VERIFICATION", "AWAITING_RECONCILIATION"}
    /\ writing[p].step = "RECONCILED" =>
         /\ transfer[p].status = "VERIFIED"
         /\ p \in stated
         /\ writing[p].batch \in {"AWAITING_RECONCILIATION", "COMPLETED"}
         /\ writing[p].batch = "COMPLETED" => \A q \in OtherRows(p) : payout[q].status = "COMPLETED"

IInv ==
  /\ TypeOK
  /\ HoldFollowsPayout
  /\ TransferFollowsPayout
  /\ RowsMoveOn
  /\ CompletedBatchIsPaid
  /\ PayoutHands
  /\ BatchHands
  /\ TransferHands
  /\ OpenWork

-----------------------------------------------------------------------------
LEMMA InitIInv == Init => IInv
<1> SUFFICES ASSUME Init PROVE IInv
  OBVIOUS
<1>1. /\ payout \in [Payouts -> Payout]
      /\ transfer \in [Payouts -> Transfer]
      /\ batch \in [Batches -> Batch]
      /\ destination \in [Beneficiaries -> Destination]
      /\ writing \in [Payouts -> Writing]
      /\ \A p \in Payouts : writing[p].step = "NONE"
  BY MaxVersionAssumption DEF Init, Payout, Transfer, Batch, Destination, Writing, Idle, Someone
<1>2. TypeOK
  BY <1>1 DEF TypeOK, Init
<1>3. /\ \A p \in Payouts : hold[p] = "NONE" /\ payout[p].status = "NONE" /\ transfer[p].status = "NONE"
      /\ \A b \in Batches : batch[b].status = "NONE" /\ batch[b].items = {}
  BY DEF Init
<1> QED
  BY <1>1, <1>2, <1>3 DEF IInv, HoldFollowsPayout, TransferFollowsPayout, RowsMoveOn, CompletedBatchIsPaid,
     PayoutHands, BatchHands, TransferHands, OpenWork, Batched

-----------------------------------------------------------------------------
(* What one row of each table becomes; the other rows stay. *)

LEMMA PayoutRow ==
  ASSUME payout \in [Payouts -> Payout], NEW p \in Payouts, NEW r \in Payout,
         payout' = [payout EXCEPT ![p] = r]
  PROVE  /\ payout' \in [Payouts -> Payout]
         /\ payout'[p] = r
         /\ \A q \in Payouts : q # p => payout'[q] = payout[q]
OBVIOUS

LEMMA BatchRow ==
  ASSUME batch \in [Batches -> Batch], NEW b \in Batches, NEW r \in Batch,
         batch' = [batch EXCEPT ![b] = r]
  PROVE  /\ batch' \in [Batches -> Batch]
         /\ batch'[b] = r
         /\ \A c \in Batches : c # b => batch'[c] = batch[c]
OBVIOUS

LEMMA TransferRow ==
  ASSUME transfer \in [Payouts -> Transfer], NEW p \in Payouts, NEW r \in Transfer,
         transfer' = [transfer EXCEPT ![p] = r]
  PROVE  /\ transfer' \in [Payouts -> Transfer]
         /\ transfer'[p] = r
         /\ \A q \in Payouts : q # p => transfer'[q] = transfer[q]
OBVIOUS

\* What a recorded transfer knows of its payout and batch.
LEMMA TransferFacts ==
  ASSUME IInv, NEW p \in Payouts, transfer[p].status \in {"EXECUTED", "VERIFIED"}
  PROVE  /\ transfer[p].batch \in Batches
         /\ p \in batch[transfer[p].batch].items
         /\ batch[transfer[p].batch].status \in Released
         /\ payout[p].status = "EXECUTED"
         /\ hold[p] = "ACTIVE"
<1>1. payout[p].status = "EXECUTED"
  BY DEF IInv, TransferFollowsPayout
<1> QED
  BY <1>1 DEF IInv, TransferFollowsPayout, HoldFollowsPayout

\* Open transactions on other transfers outlive any step that leaves their
\* transfers, the rows of released batches and completed payouts as they are.
LEMMA OpenWorkStays ==
  ASSUME IInv,
         \A p \in Payouts : writing'[p].step # "NONE" => writing'[p] = writing[p] /\ transfer'[p] = transfer[p],
         \A b \in Batches : batch[b].status \in Released => batch'[b].items = batch[b].items,
         \A p \in Payouts : payout[p].status = "COMPLETED" => payout'[p].status = "COMPLETED",
         stated \subseteq stated'
  PROVE  OpenWork'
<1> SUFFICES ASSUME NEW p \in Payouts, writing'[p].step # "NONE"
             PROVE  /\ writing'[p].by \in Operators \ {transfer'[p].executedBy}
                    /\ writing'[p].step = "VERIFIED" =>
                         /\ transfer'[p].status = "EXECUTED"
                         /\ writing'[p].batch \in {"AWAITING_VERIFICATION", "AWAITING_RECONCILIATION"}
                    /\ writing'[p].step = "RECONCILED" =>
                         /\ transfer'[p].status = "VERIFIED"
                         /\ p \in stated'
                         /\ writing'[p].batch \in {"AWAITING_RECONCILIATION", "COMPLETED"}
                         /\ writing'[p].batch = "COMPLETED" =>
                              \A q \in batch'[transfer'[p].batch].items \ {p} : payout'[q].status = "COMPLETED"
  BY DEF OpenWork, OtherRows
<1>1. writing'[p] = writing[p] /\ transfer'[p] = transfer[p]
  OBVIOUS
<1>2. writing[p].step \in {"VERIFIED", "RECONCILED"}
  BY <1>1 DEF IInv, TypeOK, Writing
<1>3. transfer[p].status \in {"EXECUTED", "VERIFIED"}
  BY <1>1, <1>2 DEF IInv, OpenWork
<1>4. transfer[p].batch \in Batches /\ batch[transfer[p].batch].status \in Released
  BY <1>3, TransferFacts
<1>5. batch'[transfer[p].batch].items = batch[transfer[p].batch].items
      /\ batch[transfer[p].batch].items \subseteq Payouts
  BY <1>4 DEF IInv, TypeOK, Batch
<1> QED
  BY <1>1, <1>5 DEF IInv, OpenWork, OtherRows

\* A payout that changes its stage short of a transfer, in no batch before it
\* is approved, disturbs nothing but its own row and hold.
LEMMA EarlyStep ==
  ASSUME IInv, NEW p \in Payouts, NEW r \in Payout,
         payout[p].status \in {"NONE", "HELD", "PREPARED"},
         r.status \in {"HELD", "CANCELLED", "PREPARED", "APPROVED"},
         r.status \in {"PREPARED", "APPROVED"} => r.preparedBy \in Operators,
         r.status = "APPROVED" => r.approvedBy \in Operators \ {r.preparedBy},
         payout' = [payout EXCEPT ![p] = r],
         hold' = [hold EXCEPT ![p] = IF r.status = "CANCELLED" THEN "RELEASED" ELSE "ACTIVE"],
         UNCHANGED <<destination, batch, transfer, stated, writing>>
  PROVE  IInv'
<1> USE DEF IInv
<1>1. /\ payout' \in [Payouts -> Payout]
      /\ payout'[p] = r
      /\ \A q \in Payouts : q # p => payout'[q] = payout[q]
  BY PayoutRow DEF TypeOK
<1>2. TypeOK'
  BY <1>1 DEF TypeOK
<1>3. HoldFollowsPayout'
  BY <1>1 DEF TypeOK, HoldFollowsPayout
<1>4. TransferFollowsPayout'
  BY <1>1 DEF TransferFollowsPayout
<1>5. \A b \in Batches : p \notin batch[b].items
  BY DEF RowsMoveOn, Batched
<1>6. \A b \in Batches : batch[b].items \subseteq Payouts
  BY DEF TypeOK, Batch
<1>7. RowsMoveOn'
  BY <1>1, <1>5, <1>6 DEF RowsMoveOn
<1>8. CompletedBatchIsPaid'
  BY <1>1, <1>5, <1>6 DEF CompletedBatchIsPaid
<1>9. PayoutHands'
  BY <1>1 DEF PayoutHands, Batched
<1>10. BatchHands' /\ TransferHands'
  BY DEF BatchHands, TransferHands
<1>11. OpenWork'
  <2>1. \A q \in Payouts : payout[q].status = "COMPLETED" => payout'[q].status = "COMPLETED"
    BY <1>1
  <2> QED
    BY <2>1, OpenWorkStays
<1> QED
  BY <1>2, <1>3, <1>4, <1>7, <1>8, <1>9, <1>10, <1>11

LEMMA CreatePayoutStep == ASSUME IInv, NEW p \in Payouts, CreatePayoutIntent(p) PROVE IInv'
<1> DEFINE r == [payout[p] EXCEPT !.status = "HELD", !.version = destination[BeneficiaryOf[p]].version]
<1>1. payout[p] \in Payout /\ destination[BeneficiaryOf[p]].version \in 0 .. MaxVersion
  BY BeneficiaryAssumption DEF IInv, TypeOK, Destination
<1>2. r \in Payout /\ r.status = "HELD"
  BY <1>1 DEF Payout
<1>3. payout' = [payout EXCEPT ![p] = r]
  BY DEF CreatePayoutIntent
<1>4. hold' = [hold EXCEPT ![p] = IF r.status = "CANCELLED" THEN "RELEASED" ELSE "ACTIVE"]
  BY <1>2 DEF CreatePayoutIntent
<1>5. payout[p].status = "NONE" /\ UNCHANGED <<destination, batch, transfer, stated, writing>>
  BY DEF CreatePayoutIntent
<1> HIDE DEF r
<1> QED
  BY <1>2, <1>3, <1>4, <1>5, EarlyStep

LEMMA PreparePayoutStep ==
  ASSUME IInv, NEW p \in Payouts, NEW op \in Operators, PreparePayout(p, op) PROVE IInv'
<1> DEFINE r == [payout[p] EXCEPT !.status = "PREPARED", !.preparedBy = op]
<1>1. payout[p] \in Payout /\ payout[p].status = "HELD"
  BY DEF IInv, TypeOK, PreparePayout
<1>2. r \in Payout /\ r.status = "PREPARED" /\ r.preparedBy = op
  BY <1>1 DEF Payout, Someone
<1>3. payout' = [payout EXCEPT ![p] = r]
  BY DEF PreparePayout
<1>4. hold[p] = "ACTIVE"
  BY <1>1 DEF IInv, HoldFollowsPayout
<1>5. hold' = [hold EXCEPT ![p] = IF r.status = "CANCELLED" THEN "RELEASED" ELSE "ACTIVE"]
  BY <1>2, <1>4 DEF PreparePayout, IInv, TypeOK
<1>6. UNCHANGED <<destination, batch, transfer, stated, writing>>
  BY DEF PreparePayout
<1> HIDE DEF r
<1> QED
  BY <1>1, <1>2, <1>3, <1>5, <1>6, EarlyStep

LEMMA ApprovePayoutStep ==
  ASSUME IInv, NEW p \in Payouts, NEW op \in Operators, ApprovePayout(p, op) PROVE IInv'
<1> DEFINE r == [payout[p] EXCEPT !.status = "APPROVED", !.approvedBy = op]
<1>1. payout[p] \in Payout /\ payout[p].status = "PREPARED" /\ op # payout[p].preparedBy
  BY DEF IInv, TypeOK, ApprovePayout
<1>2. payout[p].preparedBy \in Operators
  BY <1>1 DEF IInv, PayoutHands
<1>3. r \in Payout /\ r.status = "APPROVED" /\ r.preparedBy = payout[p].preparedBy /\ r.approvedBy = op
  BY <1>1 DEF Payout, Someone
<1>4. payout' = [payout EXCEPT ![p] = r]
  BY DEF ApprovePayout
<1>5. hold[p] = "ACTIVE"
  BY <1>1 DEF IInv, HoldFollowsPayout
<1>6. hold' = [hold EXCEPT ![p] = IF r.status = "CANCELLED" THEN "RELEASED" ELSE "ACTIVE"]
  BY <1>3, <1>5 DEF ApprovePayout, IInv, TypeOK
<1>7. UNCHANGED <<destination, batch, transfer, stated, writing>>
  BY DEF ApprovePayout
<1> HIDE DEF r
<1> QED
  BY <1>1, <1>2, <1>3, <1>4, <1>6, <1>7, EarlyStep

LEMMA CancelPayoutStep == ASSUME IInv, NEW p \in Payouts, CancelPayout(p) PROVE IInv'
<1> DEFINE r == [payout[p] EXCEPT !.status = "CANCELLED"]
<1>1. payout[p] \in Payout /\ payout[p].status \in {"HELD", "PREPARED"}
  BY DEF IInv, TypeOK, CancelPayout, CanCancel
<1>2. r \in Payout /\ r.status = "CANCELLED"
  BY <1>1 DEF Payout
<1>3. payout' = [payout EXCEPT ![p] = r]
  BY DEF CancelPayout
<1>4. hold' = [hold EXCEPT ![p] = IF r.status = "CANCELLED" THEN "RELEASED" ELSE "ACTIVE"]
  BY <1>2 DEF CancelPayout
<1>5. UNCHANGED <<destination, batch, transfer, stated, writing>>
  BY DEF CancelPayout
<1> HIDE DEF r
<1> QED
  BY <1>1, <1>2, <1>3, <1>4, <1>5, EarlyStep

-----------------------------------------------------------------------------
\* A batch before its release disturbs nothing but its own row: no transfer
\* points to it, and its rows are approved payouts.
LEMMA DraftStep ==
  ASSUME IInv, NEW b \in Batches, NEW r \in Batch,
         batch[b].status \in {"NONE", "PREPARED"},
         r.status \in {"PREPARED", "APPROVED"},
         \A p \in r.items : payout[p].status \in Batched,
         r.createdBy \in Operators,
         r.status = "APPROVED" => r.approvedBy \in Operators \ {r.createdBy},
         batch' = [batch EXCEPT ![b] = r],
         UNCHANGED <<destination, payout, hold, transfer, stated, writing>>
  PROVE  IInv'
<1> USE DEF IInv
<1>1. /\ batch' \in [Batches -> Batch]
      /\ batch'[b] = r
      /\ \A c \in Batches : c # b => batch'[c] = batch[c]
  BY BatchRow DEF TypeOK
<1>2. batch[b].status \notin Released /\ r.status \notin Released /\ r.status # "COMPLETED"
  BY DEF Released, Executing
<1>3. TypeOK'
  BY <1>1 DEF TypeOK
<1>4. HoldFollowsPayout' /\ PayoutHands' /\ TransferHands'
  BY DEF HoldFollowsPayout, PayoutHands, TransferHands
<1>5. TransferFollowsPayout'
  BY <1>1, <1>2 DEF TransferFollowsPayout
<1>6. RowsMoveOn'
  BY <1>1, <1>2 DEF RowsMoveOn
<1>7. CompletedBatchIsPaid'
  BY <1>1, <1>2 DEF CompletedBatchIsPaid
<1>8. BatchHands'
  BY <1>1, <1>2 DEF BatchHands
<1>9. OpenWork'
  <2>1. \A c \in Batches : batch[c].status \in Released => batch'[c].items = batch[c].items
    BY <1>1, <1>2
  <2> QED
    BY <2>1, OpenWorkStays
<1> QED
  BY <1>3, <1>4, <1>5, <1>6, <1>7, <1>8, <1>9

LEMMA CreateBatchStep ==
  ASSUME IInv, NEW b \in Batches, NEW S \in SUBSET Payouts, NEW op \in Operators, CreateSettlementBatch(b, S, op)
  PROVE  IInv'
<1> DEFINE r == [batch[b] EXCEPT !.status = "PREPARED", !.items = S, !.createdBy = op]
<1>1. batch[b] \in Batch /\ batch[b].status = "NONE"
  BY DEF IInv, TypeOK, CreateSettlementBatch
<1>2. r \in Batch /\ r.status = "PREPARED" /\ r.items = S /\ r.createdBy = op
  BY <1>1 DEF Batch, Someone
<1>3. \A p \in S : payout[p].status \in Batched
  BY DEF CreateSettlementBatch, CanBatch, Batched
<1>4. batch' = [batch EXCEPT ![b] = r]
  BY DEF CreateSettlementBatch
<1>5. UNCHANGED <<destination, payout, hold, transfer, stated, writing>>
  BY DEF CreateSettlementBatch
<1> HIDE DEF r
<1> QED
  BY <1>1, <1>2, <1>3, <1>4, <1>5, DraftStep

LEMMA ApproveBatchStep ==
  ASSUME IInv, NEW b \in Batches, NEW op \in Operators, ApproveSettlementBatch(b, op) PROVE IInv'
<1> DEFINE r == [batch[b] EXCEPT !.status = "APPROVED", !.approvedBy = op]
<1>1. batch[b] \in Batch /\ batch[b].status = "PREPARED" /\ op # batch[b].createdBy
  BY DEF IInv, TypeOK, ApproveSettlementBatch
<1>2. batch[b].createdBy \in Operators
  BY <1>1 DEF IInv, BatchHands
<1>3. /\ r \in Batch /\ r.status = "APPROVED" /\ r.items = batch[b].items
      /\ r.createdBy = batch[b].createdBy /\ r.approvedBy = op
  BY <1>1 DEF Batch, Someone
<1>4. \A p \in r.items : payout[p].status \in Batched
  BY <1>3 DEF IInv, RowsMoveOn
<1>5. batch' = [batch EXCEPT ![b] = r]
  BY DEF ApproveSettlementBatch
<1>6. UNCHANGED <<destination, payout, hold, transfer, stated, writing>>
  BY DEF ApproveSettlementBatch
<1> HIDE DEF r
<1> QED
  BY <1>1, <1>2, <1>3, <1>4, <1>5, <1>6, DraftStep

LEMMA FreezeBatchStep ==
  ASSUME IInv, NEW b \in Batches, NEW op \in Operators, FreezeSettlementBatch(b, op) PROVE IInv'
<1> USE DEF IInv
<1> DEFINE r == [batch[b] EXCEPT !.status = "FROZEN", !.frozenBy = op]
<1>1. batch[b] \in Batch /\ batch[b].status = "APPROVED" /\ op # batch[b].approvedBy
  BY DEF TypeOK, FreezeSettlementBatch
<1>2. batch[b].createdBy \in Operators /\ batch[b].approvedBy \in Operators \ {batch[b].createdBy}
  BY <1>1 DEF BatchHands
<1>3. /\ r \in Batch /\ r.status = "FROZEN" /\ r.items = batch[b].items
      /\ r.createdBy = batch[b].createdBy /\ r.approvedBy = batch[b].approvedBy /\ r.frozenBy = op
  BY <1>1 DEF Batch, Someone, Released, Executing
<1>4. batch' = [batch EXCEPT ![b] = r]
  BY DEF FreezeSettlementBatch
<1>5. UNCHANGED <<destination, hold, transfer, stated, writing>>
  BY DEF FreezeSettlementBatch
<1> HIDE DEF r
<1>6. /\ batch' \in [Batches -> Batch]
      /\ batch'[b] = r
      /\ \A c \in Batches : c # b => batch'[c] = batch[c]
  BY <1>3, <1>4, BatchRow DEF TypeOK
<1>7. /\ payout' \in [Payouts -> Payout]
      /\ \A p \in Payouts :
           /\ payout'[p].preparedBy = payout[p].preparedBy
           /\ payout'[p].approvedBy = payout[p].approvedBy
           /\ payout'[p].status = IF p \in batch[b].items /\ payout[p].status = "APPROVED"
                                  THEN "FROZEN" ELSE payout[p].status
  <2>1. payout' = [p \in Payouts |-> IF p \in batch[b].items THEN Frozen(p) ELSE payout[p]]
    BY DEF FreezeSettlementBatch
  <2>2. ASSUME NEW p \in Payouts
        PROVE  /\ payout'[p] \in Payout
               /\ payout'[p].preparedBy = payout[p].preparedBy
               /\ payout'[p].approvedBy = payout[p].approvedBy
               /\ payout'[p].status = IF p \in batch[b].items /\ payout[p].status = "APPROVED"
                                      THEN "FROZEN" ELSE payout[p].status
    <3>1. payout[p] \in Payout
      BY DEF TypeOK
    <3> QED
      BY <2>1, <3>1 DEF Frozen, Payout
  <2> QED
    BY <2>1, <2>2
<1>8. batch[b].status \notin Released /\ r.status \in Released /\ r.status # "COMPLETED"
  BY <1>1, <1>3 DEF Released, Executing
<1>9. \A c \in Batches : batch[c].items \subseteq Payouts
  BY DEF TypeOK, Batch
<1>10. TypeOK'
  BY <1>5, <1>6, <1>7 DEF TypeOK
<1>11. HoldFollowsPayout'
  BY <1>5, <1>7 DEF HoldFollowsPayout
<1>12. TransferFollowsPayout'
  BY <1>3, <1>5, <1>6, <1>7, <1>8 DEF TransferFollowsPayout
<1>13. RowsMoveOn'
  BY <1>3, <1>6, <1>7, <1>8, <1>9 DEF RowsMoveOn, Batched, Committed
<1>14. CompletedBatchIsPaid'
  BY <1>3, <1>6, <1>7, <1>8, <1>9 DEF CompletedBatchIsPaid
<1>15. PayoutHands'
  BY <1>7 DEF PayoutHands, Batched
<1>16. BatchHands'
  BY <1>1, <1>2, <1>3, <1>6, <1>8 DEF BatchHands
<1>17. TransferHands'
  BY <1>5 DEF TransferHands
<1>18. OpenWork'
  <2>1. \A p \in Payouts : payout[p].status = "COMPLETED" => payout'[p].status = "COMPLETED"
    BY <1>7
  <2>2. \A c \in Batches : batch'[c].items = batch[c].items
    BY <1>3, <1>6
  <2> QED
    BY <1>5, <2>1, <2>2, OpenWorkStays
<1> QED
  BY <1>10, <1>11, <1>12, <1>13, <1>14, <1>15, <1>16, <1>17, <1>18

-----------------------------------------------------------------------------
\* The transfer of p, a row of the released batch b, reaches stage t; the
\* batch is rewritten to the stage s, COMPLETED only if every row is.
LEMMA TransferStep ==
  ASSUME IInv, NEW p \in Payouts, NEW b \in Batches, NEW t \in Transfer, NEW s \in Released,
         p \in batch[b].items, batch[b].status \in Released,
         payout[p].status \in {"FROZEN", "EXECUTED"},
         t.batch = b, t.status # "NONE", t.executedBy \in Operators,
         t.status # "EXECUTED" => t.verifiedBy \in Operators \ {t.executedBy},
         t.status = "RECONCILED" => t.reconciledBy \in Operators \ {t.executedBy} /\ p \in stated,
         transfer' = [transfer EXCEPT ![p] = t],
         payout' = [payout EXCEPT ![p].status = IF t.status = "RECONCILED" THEN "COMPLETED" ELSE "EXECUTED"],
         hold' = [hold EXCEPT ![p] = IF t.status = "RECONCILED" THEN "FINALIZED" ELSE "ACTIVE"],
         batch' = [batch EXCEPT ![b].status = s],
         s = "COMPLETED" => \A q \in batch[b].items : payout'[q].status = "COMPLETED",
         writing' \in [Payouts -> Writing], writing'[p].step = "NONE",
         \A q \in Payouts : q # p => writing'[q] = writing[q],
         UNCHANGED <<destination, stated>>
  PROVE  IInv'
<1> USE DEF IInv
<1> DEFINE r == [payout[p] EXCEPT !.status = IF t.status = "RECONCILED" THEN "COMPLETED" ELSE "EXECUTED"]
           n == [batch[b] EXCEPT !.status = s]
<1>1. payout[p] \in Payout /\ batch[b] \in Batch
  BY DEF TypeOK
<1>2. /\ r \in Payout /\ r.preparedBy = payout[p].preparedBy /\ r.approvedBy = payout[p].approvedBy
      /\ r.status = IF t.status = "RECONCILED" THEN "COMPLETED" ELSE "EXECUTED"
  BY <1>1 DEF Payout
<1>3. /\ n \in Batch /\ n.status = s /\ n.items = batch[b].items
      /\ n.createdBy = batch[b].createdBy /\ n.approvedBy = batch[b].approvedBy /\ n.frozenBy = batch[b].frozenBy
  BY <1>1 DEF Batch
<1>4. payout' = [payout EXCEPT ![p] = r] /\ batch' = [batch EXCEPT ![b] = n]
  OBVIOUS
<1> HIDE DEF r, n
<1>5. /\ payout' \in [Payouts -> Payout]
      /\ payout'[p] = r
      /\ \A q \in Payouts : q # p => payout'[q] = payout[q]
  BY <1>2, <1>4, PayoutRow DEF TypeOK
<1>6. /\ batch' \in [Batches -> Batch]
      /\ batch'[b] = n
      /\ \A c \in Batches : c # b => batch'[c] = batch[c]
  BY <1>3, <1>4, BatchRow DEF TypeOK
<1>7. /\ transfer' \in [Payouts -> Transfer]
      /\ transfer'[p] = t
      /\ \A q \in Payouts : q # p => transfer'[q] = transfer[q]
  BY TransferRow DEF TypeOK
<1>8. \A c \in Batches : batch'[c].items = batch[c].items /\ batch[c].items \subseteq Payouts
  BY <1>3, <1>6 DEF TypeOK, Batch
<1>9. TypeOK'
  BY <1>5, <1>6, <1>7 DEF TypeOK
<1>10. HoldFollowsPayout'
  <2>1. /\ hold'[p] = IF t.status = "RECONCILED" THEN "FINALIZED" ELSE "ACTIVE"
        /\ \A q \in Payouts : q # p => hold'[q] = hold[q]
    BY DEF TypeOK
  <2> QED
    BY <1>2, <1>5, <2>1 DEF HoldFollowsPayout
<1>11. TransferFollowsPayout'
  <2>1. t.status \in {"EXECUTED", "VERIFIED", "RECONCILED"}
    BY DEF Transfer
  <2>2. \A c \in Batches : batch[c].status \in Released => batch'[c].status \in Released
    BY <1>3, <1>6
  <2> QED
    BY <1>2, <1>5, <1>7, <1>8, <2>1, <2>2 DEF TransferFollowsPayout
<1>12. RowsMoveOn'
  <2>1. \A q \in Payouts : payout'[q].status = payout[q].status \/ payout'[q].status \in Committed
    BY <1>2, <1>5 DEF Committed
  <2>2. \A c \in Batches : batch'[c].status \in Released => batch[c].status \in Released
    BY <1>6
  <2> QED
    BY <1>8, <2>1, <2>2 DEF RowsMoveOn, Batched, Committed
<1>13. CompletedBatchIsPaid'
  <2>1. \A q \in Payouts : payout[q].status = "COMPLETED" => payout'[q].status = "COMPLETED"
    BY <1>5
  <2> QED
    BY <1>3, <1>6, <1>8, <2>1 DEF CompletedBatchIsPaid
<1>14. PayoutHands'
  BY <1>2, <1>5 DEF PayoutHands, Batched
<1>15. BatchHands'
  <2>1. s # "PREPARED" /\ s # "NONE" /\ batch[b].status # "NONE" /\ batch[b].status # "PREPARED"
    BY DEF Released, Executing
  <2> QED
    BY <1>3, <1>6, <2>1 DEF BatchHands
<1>16. TransferHands'
  BY <1>7 DEF TransferHands
<1>17. OpenWork'
  <2>1. \A q \in Payouts : payout[q].status = "COMPLETED" => payout'[q].status = "COMPLETED"
    BY <1>5
  <2>2. \A q \in Payouts : writing'[q].step # "NONE" => writing'[q] = writing[q] /\ transfer'[q] = transfer[q]
    BY <1>7
  <2> QED
    BY <1>8, <2>1, <2>2, OpenWorkStays
<1> QED
  BY <1>9, <1>10, <1>11, <1>12, <1>13, <1>14, <1>15, <1>16, <1>17

LEMMA RecordStep ==
  ASSUME IInv, NEW b \in Batches, NEW p \in Payouts, NEW op \in Operators, RecordManualTransfer(b, p, op)
  PROVE  IInv'
<1> DEFINE t == [transfer[p] EXCEPT !.status = "EXECUTED", !.batch = b, !.executedBy = op]
<1>1. transfer[p] \in Transfer
  BY DEF IInv, TypeOK
<1>2. t \in Transfer /\ t.status = "EXECUTED" /\ t.batch = b /\ t.executedBy = op
  BY <1>1 DEF Transfer, Someone
<1>3. transfer' = [transfer EXCEPT ![p] = t]
  BY DEF RecordManualTransfer
<1>4. PICK s \in {"AWAITING_VERIFICATION", "EXECUTION_IN_PROGRESS"} : batch' = [batch EXCEPT ![b].status = s]
  BY DEF RecordManualTransfer
<1>5. s \in Released /\ s # "COMPLETED"
  BY DEF Released, Executing
<1>6. p \in batch[b].items /\ batch[b].status \in Released /\ payout[p].status = "FROZEN"
  BY DEF RecordManualTransfer, Released
<1>7. hold[p] = "ACTIVE"
  BY <1>6 DEF IInv, HoldFollowsPayout
<1>8. hold' = [hold EXCEPT ![p] = IF t.status = "RECONCILED" THEN "FINALIZED" ELSE "ACTIVE"]
  BY <1>2, <1>7 DEF RecordManualTransfer, IInv, TypeOK
<1>9. payout' = [payout EXCEPT ![p].status = IF t.status = "RECONCILED" THEN "COMPLETED" ELSE "EXECUTED"]
  BY <1>2 DEF RecordManualTransfer
<1>10. UNCHANGED <<destination, stated>>
  BY DEF RecordManualTransfer
<1>11. writing' = writing /\ writing \in [Payouts -> Writing]
  BY DEF RecordManualTransfer, IInv, TypeOK
<1>12. writing[p].step = "NONE"
  <2>1. transfer[p].status \notin {"EXECUTED", "VERIFIED"}
    BY <1>6 DEF IInv, TransferFollowsPayout
  <2>2. writing[p].step \in {"NONE", "VERIFIED", "RECONCILED"}
    BY <1>11 DEF Writing
  <2> QED
    BY <2>1, <2>2 DEF IInv, OpenWork
<1> HIDE DEF t
<1> QED
  BY <1>2, <1>3, <1>4, <1>5, <1>6, <1>8, <1>9, <1>10, <1>11, <1>12, TransferStep

\* The open transaction on p ends, committed or rolled back.
LEMMA IdleRow ==
  ASSUME IInv, NEW p \in Payouts, writing' = [writing EXCEPT ![p] = Idle]
  PROVE  /\ writing' \in [Payouts -> Writing]
         /\ writing'[p].step = "NONE"
         /\ \A q \in Payouts : q # p => writing'[q] = writing[q]
<1>1. Idle \in Writing /\ Idle.step = "NONE" /\ writing \in [Payouts -> Writing]
  BY DEF IInv, TypeOK, Idle, Writing, Someone
<1> HIDE DEF Idle
<1> QED
  BY <1>1

LEMMA VerifyStep == ASSUME IInv, NEW p \in Payouts, VerifyManualTransfer(p) PROVE IInv'
<1> DEFINE b == transfer[p].batch
           s == writing[p].batch
           t == [transfer[p] EXCEPT !.status = "VERIFIED", !.verifiedBy = writing[p].by]
<1>1. /\ transfer[p] \in Transfer /\ transfer[p].status = "EXECUTED"
      /\ writing[p].by \in Operators \ {transfer[p].executedBy}
      /\ s \in {"AWAITING_VERIFICATION", "AWAITING_RECONCILIATION"}
  BY DEF IInv, TypeOK, OpenWork, VerifyManualTransfer
<1>2. /\ b \in Batches /\ p \in batch[b].items /\ batch[b].status \in Released
      /\ payout[p].status = "EXECUTED" /\ hold[p] = "ACTIVE"
  BY <1>1, TransferFacts
<1>3. transfer[p].executedBy \in Operators
  BY <1>1 DEF IInv, TransferHands
<1>4. /\ t \in Transfer /\ t.status = "VERIFIED" /\ t.batch = b
      /\ t.executedBy = transfer[p].executedBy /\ t.verifiedBy = writing[p].by
  BY <1>1 DEF Transfer, Someone
<1>5. transfer' = [transfer EXCEPT ![p] = t] /\ batch' = [batch EXCEPT ![b].status = s]
  BY DEF VerifyManualTransfer
<1>6. s \in Released /\ s # "COMPLETED"
  BY <1>1 DEF Released
<1>7. hold' = [hold EXCEPT ![p] = IF t.status = "RECONCILED" THEN "FINALIZED" ELSE "ACTIVE"]
  BY <1>2, <1>4 DEF VerifyManualTransfer, IInv, TypeOK
<1>8. payout' = [payout EXCEPT ![p].status = IF t.status = "RECONCILED" THEN "COMPLETED" ELSE "EXECUTED"]
  <2>1. payout[p] \in Payout /\ payout \in [Payouts -> Payout]
    BY DEF IInv, TypeOK
  <2>2. [payout[p] EXCEPT !.status = "EXECUTED"] = payout[p]
    BY <1>2, <2>1 DEF Payout
  <2> QED
    BY <1>4, <2>1, <2>2 DEF VerifyManualTransfer
<1>9. UNCHANGED <<destination, stated>>
  BY DEF VerifyManualTransfer
<1>10. /\ writing' \in [Payouts -> Writing] /\ writing'[p].step = "NONE"
       /\ \A q \in Payouts : q # p => writing'[q] = writing[q]
  BY IdleRow DEF VerifyManualTransfer
<1> HIDE DEF t, b, s
<1> QED
  BY <1>1, <1>2, <1>3, <1>4, <1>5, <1>6, <1>7, <1>8, <1>9, <1>10, TransferStep

LEMMA ReconcileStep == ASSUME IInv, NEW p \in Payouts, ReconcileManualTransfer(p) PROVE IInv'
<1> DEFINE b == transfer[p].batch
           s == writing[p].batch
           t == [transfer[p] EXCEPT !.status = "RECONCILED", !.reconciledBy = writing[p].by]
<1>1. /\ transfer[p] \in Transfer /\ transfer[p].status = "VERIFIED"
      /\ writing[p].by \in Operators \ {transfer[p].executedBy}
      /\ p \in stated
      /\ s \in {"AWAITING_RECONCILIATION", "COMPLETED"}
      /\ s = "COMPLETED" => \A q \in batch[b].items \ {p} : payout[q].status = "COMPLETED"
  BY DEF IInv, TypeOK, OpenWork, OtherRows, ReconcileManualTransfer
<1>2. /\ b \in Batches /\ p \in batch[b].items /\ batch[b].status \in Released
      /\ payout[p].status = "EXECUTED" /\ hold[p] = "ACTIVE"
  BY <1>1, TransferFacts
<1>3. /\ transfer[p].executedBy \in Operators
      /\ transfer[p].verifiedBy \in Operators \ {transfer[p].executedBy}
  BY <1>1 DEF IInv, TransferHands
<1>4. /\ t \in Transfer /\ t.status = "RECONCILED" /\ t.batch = b /\ t.executedBy = transfer[p].executedBy
      /\ t.verifiedBy = transfer[p].verifiedBy /\ t.reconciledBy = writing[p].by
  BY <1>1 DEF Transfer, Someone
<1>5. /\ transfer' = [transfer EXCEPT ![p] = t]
      /\ batch' = [batch EXCEPT ![b].status = s]
      /\ UNCHANGED <<destination, stated>>
  BY DEF ReconcileManualTransfer
<1>6. s \in Released
  BY <1>1 DEF Released
<1>7. s = "COMPLETED" => \A q \in batch[b].items : payout'[q].status = "COMPLETED"
  <2>1. payout \in [Payouts -> Payout] /\ payout' = [payout EXCEPT ![p].status = "COMPLETED"]
    BY DEF IInv, TypeOK, ReconcileManualTransfer
  <2>2. payout'[p].status = "COMPLETED"
    BY <2>1 DEF Payout
  <2>3. batch[b].items \subseteq Payouts
    BY <1>2 DEF IInv, TypeOK, Batch
  <2> QED
    BY <1>1, <2>1, <2>2, <2>3
<1>8. /\ hold' = [hold EXCEPT ![p] = IF t.status = "RECONCILED" THEN "FINALIZED" ELSE "ACTIVE"]
      /\ payout' = [payout EXCEPT ![p].status = IF t.status = "RECONCILED" THEN "COMPLETED" ELSE "EXECUTED"]
  BY <1>4 DEF ReconcileManualTransfer
<1>9. /\ writing' \in [Payouts -> Writing] /\ writing'[p].step = "NONE"
      /\ \A q \in Payouts : q # p => writing'[q] = writing[q]
  BY IdleRow DEF ReconcileManualTransfer
<1> HIDE DEF t, b, s
<1> QED
  BY <1>1, <1>2, <1>3, <1>4, <1>5, <1>6, <1>7, <1>8, <1>9, TransferStep

-----------------------------------------------------------------------------
\* A transaction that opens, or ends without a commit, writes no table.
LEMMA OpenStep ==
  ASSUME IInv, writing' \in [Payouts -> Writing], OpenWork',
         UNCHANGED <<destination, payout, hold, batch, transfer, stated>>
  PROVE  IInv'
<1> USE DEF IInv
<1>1. TypeOK'
  BY DEF TypeOK
<1>2. HoldFollowsPayout' /\ TransferFollowsPayout' /\ RowsMoveOn' /\ CompletedBatchIsPaid'
  BY DEF HoldFollowsPayout, TransferFollowsPayout, RowsMoveOn, CompletedBatchIsPaid
<1>3. PayoutHands' /\ BatchHands' /\ TransferHands'
  BY DEF PayoutHands, BatchHands, TransferHands
<1> QED
  BY <1>1, <1>2, <1>3

LEMMA WritingRow ==
  ASSUME writing \in [Payouts -> Writing], NEW p \in Payouts, NEW w \in Writing,
         writing' = [writing EXCEPT ![p] = w]
  PROVE  /\ writing' \in [Payouts -> Writing]
         /\ writing'[p] = w
         /\ \A q \in Payouts : q # p => writing'[q] = writing[q]
OBVIOUS

LEMMA CountVerifiedStep ==
  ASSUME IInv, NEW p \in Payouts, NEW op \in Operators, CountVerified(p, op) PROVE IInv'
<1>1. PICK s \in {"AWAITING_VERIFICATION", "AWAITING_RECONCILIATION"} :
        writing' = [writing EXCEPT ![p] = [step |-> "VERIFIED", by |-> op, batch |-> s]]
  BY DEF CountVerified
<1> DEFINE w == [step |-> "VERIFIED", by |-> op, batch |-> s]
<1>2. w \in Writing /\ w.step = "VERIFIED" /\ w.by = op /\ w.batch = s
  BY DEF Writing, Someone
<1> HIDE DEF w
<1>3. writing' = [writing EXCEPT ![p] = w]
  BY <1>1 DEF w
<1>4. /\ writing' \in [Payouts -> Writing] /\ writing'[p] = w
      /\ \A q \in Payouts : q # p => writing'[q] = writing[q]
  BY <1>2, <1>3, WritingRow DEF IInv, TypeOK
<1>5. UNCHANGED <<destination, payout, hold, batch, transfer, stated>>
  BY DEF CountVerified
<1>6. transfer[p].status = "EXECUTED" /\ op # transfer[p].executedBy
  BY DEF CountVerified, CanVerify
<1>7. OpenWork'
  BY <1>2, <1>4, <1>5, <1>6 DEF IInv, OpenWork, OtherRows
<1> QED
  BY <1>4, <1>5, <1>7, OpenStep

LEMMA CountReconciledStep ==
  ASSUME IInv, NEW p \in Payouts, NEW op \in Operators, CountReconciled(p, op) PROVE IInv'
<1> DEFINE s == StatusAfterReconcile(p)
           w == [step |-> "RECONCILED", by |-> op, batch |-> s]
<1>1. /\ s \in {"AWAITING_RECONCILIATION", "COMPLETED"}
      /\ s = "COMPLETED" => \A q \in OtherRows(p) : payout[q].status = "COMPLETED"
  BY DEF StatusAfterReconcile
<1>2. writing' = [writing EXCEPT ![p] = w]
  BY DEF CountReconciled
<1> HIDE DEF s
<1>3. w \in Writing /\ w.step = "RECONCILED" /\ w.by = op /\ w.batch = s
  BY <1>1 DEF Writing, Someone
<1> HIDE DEF w
<1>4. /\ writing' \in [Payouts -> Writing] /\ writing'[p] = w
      /\ \A q \in Payouts : q # p => writing'[q] = writing[q]
  BY <1>2, <1>3, WritingRow DEF IInv, TypeOK
<1>5. UNCHANGED <<destination, payout, hold, batch, transfer, stated>>
  BY DEF CountReconciled
<1>6. transfer[p].status = "VERIFIED" /\ op # transfer[p].executedBy /\ p \in stated
  BY DEF CountReconciled, CanReconcile
<1>7. OpenWork'
  BY <1>1, <1>3, <1>4, <1>5, <1>6 DEF IInv, OpenWork, OtherRows
<1> QED
  BY <1>4, <1>5, <1>7, OpenStep

LEMMA RollbackStep == ASSUME IInv, NEW p \in Payouts, Rollback(p) PROVE IInv'
<1>1. UNCHANGED <<destination, payout, hold, batch, transfer, stated>>
  BY DEF Rollback
<1>2. /\ writing' \in [Payouts -> Writing] /\ writing'[p].step = "NONE"
      /\ \A q \in Payouts : q # p => writing'[q] = writing[q]
  BY IdleRow DEF Rollback
<1>3. OpenWork'
  BY <1>1, <1>2 DEF IInv, OpenWork, OtherRows
<1> QED
  BY <1>1, <1>2, <1>3, OpenStep

-----------------------------------------------------------------------------
\* What a change of the destinations, or a further statement row, leaves true.
LEMMA AsideStep ==
  ASSUME IInv, destination' \in [Beneficiaries -> Destination], stated \subseteq stated',
         stated' \in SUBSET Payouts, UNCHANGED <<payout, hold, batch, transfer, writing>>
  PROVE  IInv'
<1> USE DEF IInv
<1>1. TypeOK'
  BY DEF TypeOK
<1>2. HoldFollowsPayout' /\ TransferFollowsPayout' /\ RowsMoveOn' /\ CompletedBatchIsPaid'
  BY DEF HoldFollowsPayout, TransferFollowsPayout, RowsMoveOn, CompletedBatchIsPaid
<1>3. PayoutHands' /\ BatchHands' /\ TransferHands'
  BY DEF PayoutHands, BatchHands, TransferHands
<1>4. OpenWork'
  BY OpenWorkStays
<1> QED
  BY <1>1, <1>2, <1>3, <1>4

LEMMA ActivateStep ==
  ASSUME IInv, NEW a \in Beneficiaries, ActivateOfficialWalletDestination(a) PROVE IInv'
<1>1. destination \in [Beneficiaries -> Destination] /\ stated \in SUBSET Payouts
  BY DEF IInv, TypeOK
<1>2. destination[a].version + 1 \in 0 .. MaxVersion
  BY <1>1, MaxVersionAssumption DEF ActivateOfficialWalletDestination, Destination
<1>3. [version |-> destination[a].version + 1, active |-> TRUE] \in Destination
  BY <1>2 DEF Destination
<1>4. destination' = [destination EXCEPT ![a] = [version |-> destination[a].version + 1, active |-> TRUE]]
  BY DEF ActivateOfficialWalletDestination
<1>5. destination' \in [Beneficiaries -> Destination]
  BY <1>1, <1>3, <1>4
<1>6. UNCHANGED <<payout, hold, batch, transfer, stated, writing>>
  BY DEF ActivateOfficialWalletDestination
<1> QED
  BY <1>1, <1>5, <1>6, AsideStep

LEMMA StaleStep == ASSUME IInv, NEW a \in Beneficiaries, MarkDestinationStale(a) PROVE IInv'
<1>1. destination \in [Beneficiaries -> Destination] /\ stated \in SUBSET Payouts
  BY DEF IInv, TypeOK
<1>2. destination' \in [Beneficiaries -> Destination]
  BY <1>1 DEF MarkDestinationStale, Destination
<1>3. UNCHANGED <<payout, hold, batch, transfer, stated, writing>>
  BY DEF MarkDestinationStale
<1> QED
  BY <1>1, <1>2, <1>3, AsideStep

LEMMA StatementStep == ASSUME IInv, NEW p \in Payouts, RecordSettlementStatementRow(p) PROVE IInv'
<1>1. /\ stated \subseteq stated' /\ stated' \in SUBSET Payouts
      /\ UNCHANGED <<destination, payout, hold, batch, transfer, writing>>
  BY DEF IInv, TypeOK, RecordSettlementStatementRow
<1>2. destination' \in [Beneficiaries -> Destination]
  BY <1>1 DEF IInv, TypeOK
<1> QED
  BY <1>1, <1>2, AsideStep

LEMMA StutterStep == ASSUME IInv, UNCHANGED vars PROVE IInv'
<1>1. /\ destination' \in [Beneficiaries -> Destination]
      /\ stated \subseteq stated' /\ stated' \in SUBSET Payouts
      /\ UNCHANGED <<payout, hold, batch, transfer, writing>>
  BY DEF vars, IInv, TypeOK
<1> QED
  BY <1>1, AsideStep

LEMMA InvariantStep == IInv /\ [Next]_vars => IInv'
<1> SUFFICES ASSUME IInv, [Next]_vars PROVE IInv'
  OBVIOUS
<1>1. CASE \E a \in Beneficiaries : ActivateOfficialWalletDestination(a) \/ MarkDestinationStale(a)
  BY <1>1, ActivateStep, StaleStep
<1>2. CASE \E p \in Payouts : CreatePayoutIntent(p) \/ CancelPayout(p) \/ RecordSettlementStatementRow(p)
  BY <1>2, CreatePayoutStep, CancelPayoutStep, StatementStep
<1>3. CASE \E p \in Payouts : VerifyManualTransfer(p) \/ ReconcileManualTransfer(p) \/ Rollback(p)
  BY <1>3, VerifyStep, ReconcileStep, RollbackStep
<1>4. CASE \E p \in Payouts, op \in Operators : PreparePayout(p, op) \/ ApprovePayout(p, op)
  BY <1>4, PreparePayoutStep, ApprovePayoutStep
<1>5. CASE \E p \in Payouts, op \in Operators : CountVerified(p, op) \/ CountReconciled(p, op)
  BY <1>5, CountVerifiedStep, CountReconciledStep
<1>6. CASE \E b \in Batches, S \in SUBSET Payouts, op \in Operators : CreateSettlementBatch(b, S, op)
  BY <1>6, CreateBatchStep
<1>7. CASE \E b \in Batches, op \in Operators : ApproveSettlementBatch(b, op) \/ FreezeSettlementBatch(b, op)
  BY <1>7, ApproveBatchStep, FreezeBatchStep
<1>8. CASE \E b \in Batches, p \in Payouts, op \in Operators : RecordManualTransfer(b, p, op)
  BY <1>8, RecordStep
<1>9. CASE UNCHANGED vars
  BY <1>9, StutterStep
<1> QED
  BY <1>1, <1>2, <1>3, <1>4, <1>5, <1>6, <1>7, <1>8, <1>9 DEF Next

\* The inductive invariant holds in every reachable state.
THEOREM Invariance == Spec => []IInv
<1> QED
  BY InitIInv, InvariantStep, PTL DEF Spec

-----------------------------------------------------------------------------
\* Every table keeps the shape its columns and CHECK constraints give it.
THEOREM Typing == Spec => []TypeOK
<1>1. IInv => TypeOK
  BY DEF IInv
<1> QED
  BY <1>1, Invariance, PTL

\* The hold of a payout and its stage never disagree on where the money is.
THEOREM HoldAgrees == Spec => []HoldFollowsPayout
<1>1. IInv => HoldFollowsPayout
  BY DEF IInv
<1> QED
  BY <1>1, Invariance, PTL

\* A payout is transferred once, whichever batches carry it.
THEOREM TransferredOnce == Spec => []TransferFollowsPayout
<1>1. IInv => TransferFollowsPayout
  BY DEF IInv
<1> QED
  BY <1>1, Invariance, PTL

\* Instructions are handed out only for money that is set aside or paid.
THEOREM ExportSafety == Spec => []InstructionsAreHeld
<1>1. IInv => InstructionsAreHeld
  <2> SUFFICES ASSUME IInv, NEW b \in Batches, CanExport(b), NEW p \in batch[b].items
               PROVE  hold[p] \in {"ACTIVE", "FINALIZED"} /\ ~CanCancel(p)
    BY DEF InstructionsAreHeld
  <2>1. p \in Payouts
    BY DEF IInv, TypeOK, Batch
  <2>2. payout[p].status \in Committed
    BY DEF IInv, RowsMoveOn, CanExport
  <2> QED
    BY <2>1, <2>2 DEF IInv, HoldFollowsPayout, CanCancel, Committed
<1> QED
  BY <1>1, Invariance, PTL

\* A batch called COMPLETED has every row paid.
THEOREM CompletionSafety == Spec => []CompletedBatchIsPaid
<1>1. IInv => CompletedBatchIsPaid
  BY DEF IInv
<1> QED
  BY <1>1, Invariance, PTL

\* No payout is completed alone or past a stage.
THEOREM HandsSafety == Spec => []PaidByIndependentHands
<1>1. IInv => PaidByIndependentHands
  <2> SUFFICES ASSUME IInv, NEW p \in Payouts, payout[p].status = "COMPLETED"
               PROVE  LET t == transfer[p]
                          b == batch[t.batch]
                      IN  /\ p \in stated
                          /\ {payout[p].preparedBy, payout[p].approvedBy, b.createdBy, b.approvedBy, b.frozenBy,
                              t.executedBy, t.verifiedBy, t.reconciledBy} \subseteq Operators
                          /\ payout[p].preparedBy # payout[p].approvedBy
                          /\ b.approvedBy \notin {b.createdBy, b.frozenBy}
                          /\ t.executedBy \notin {t.verifiedBy, t.reconciledBy}
    BY DEF PaidByIndependentHands
  <2> DEFINE t == transfer[p]
             b == batch[t.batch]
  <2>1. t.status = "RECONCILED" /\ t.batch \in Batches /\ b.status \in Released
    BY DEF IInv, TransferFollowsPayout
  <2>2. payout[p].preparedBy \in Operators /\ payout[p].approvedBy \in Operators \ {payout[p].preparedBy}
    BY DEF IInv, PayoutHands, Batched
  <2>3. b.status # "NONE" /\ b.status # "PREPARED"
    BY <2>1 DEF Released, Executing
  <2>4. /\ b.createdBy \in Operators
        /\ b.approvedBy \in Operators \ {b.createdBy}
        /\ b.frozenBy \in Operators \ {b.approvedBy}
    BY <2>1, <2>3 DEF IInv, BatchHands
  <2>5. /\ t.executedBy \in Operators
        /\ t.verifiedBy \in Operators \ {t.executedBy}
        /\ t.reconciledBy \in Operators \ {t.executedBy}
        /\ p \in stated
    BY <2>1 DEF IInv, TransferHands
  <2> QED
    BY <2>2, <2>4, <2>5
<1> QED
  BY <1>1, Invariance, PTL

\* The status of a COMPLETED batch is never rewritten: the operations that
\* rewrite it work on a transfer that is not reconciled, so on another batch.
THEOREM CompletionStays == Spec => CompletedBatchStays
<1> DEFINE Stays(b) == batch[b].status = "COMPLETED" => batch'[b] = batch[b]
<1>1. IInv /\ [Next]_vars => [\A b \in Batches : Stays(b)]_vars
  <2> SUFFICES ASSUME IInv, Next, NEW c \in Batches, batch[c].status = "COMPLETED"
               PROVE  batch'[c] = batch[c]
    OBVIOUS
  <2>0. batch \in [Batches -> Batch] /\ \A q \in batch[c].items : payout[q].status = "COMPLETED"
    BY DEF IInv, TypeOK, CompletedBatchIsPaid
  <2>1. CASE \E b \in Batches, S \in SUBSET Payouts, op \in Operators : CreateSettlementBatch(b, S, op)
    BY <2>0, <2>1 DEF CreateSettlementBatch
  <2>2. CASE \E b \in Batches, op \in Operators : ApproveSettlementBatch(b, op) \/ FreezeSettlementBatch(b, op)
    BY <2>0, <2>2 DEF ApproveSettlementBatch, FreezeSettlementBatch
  <2>3. CASE \E b \in Batches, p \in Payouts, op \in Operators : RecordManualTransfer(b, p, op)
    BY <2>0, <2>3 DEF RecordManualTransfer
  <2>4. ASSUME NEW p \in Payouts, VerifyManualTransfer(p) \/ ReconcileManualTransfer(p)
        PROVE  batch'[c] = batch[c]
    <3>1. transfer[p].status \in {"EXECUTED", "VERIFIED"}
      BY <2>4 DEF IInv, OpenWork, VerifyManualTransfer, ReconcileManualTransfer
    <3>2. /\ transfer[p].batch \in Batches /\ p \in batch[transfer[p].batch].items
          /\ payout[p].status = "EXECUTED"
      BY <3>1, TransferFacts
    <3>3. transfer[p].batch # c
      BY <2>0, <3>2
    <3> QED
      BY <2>0, <2>4, <3>2, <3>3 DEF VerifyManualTransfer, ReconcileManualTransfer
  <2>5. CASE UNCHANGED batch
    BY <2>5
  <2> QED
    BY <2>1, <2>2, <2>3, <2>4, <2>5
       DEF Next, ActivateOfficialWalletDestination, MarkDestinationStale, CreatePayoutIntent, CancelPayout,
           RecordSettlementStatementRow, PreparePayout, ApprovePayout, CountVerified, CountReconciled, Rollback
<1> QED
  BY <1>1, Invariance, PTL DEF Spec, CompletedBatchStays

-----------------------------------------------------------------------------
(* The refinement.  MoneyOf is the money of a payout read from its stage,  *)
(* which the hold follows; a step moves it for one payout at most.         *)

MoneyOf(s) ==
  IF s = "NONE" THEN "FREE"
  ELSE IF s = "CANCELLED" THEN "RETURNED"
  ELSE IF s = "COMPLETED" THEN "PAID"
  ELSE IF s \in {"HELD", "PREPARED"} THEN "RESERVED" ELSE "COMMITTED"

LEMMA MoneyFollowsStage == IInv => Money = [p \in Payouts |-> MoneyOf(payout[p].status)]
<1> SUFFICES ASSUME IInv PROVE Money = [p \in Payouts |-> MoneyOf(payout[p].status)]
  OBVIOUS
<1>1. ASSUME NEW p \in Payouts
      PROVE  (CASE hold[p] = "NONE"      -> "FREE"
                [] hold[p] = "RELEASED"  -> "RETURNED"
                [] hold[p] = "FINALIZED" -> "PAID"
                [] OTHER -> IF payout[p].status \in {"HELD", "PREPARED"} THEN "RESERVED" ELSE "COMMITTED")
             = MoneyOf(payout[p].status)
  <2>1. hold[p] = CASE payout[p].status = "NONE"      -> "NONE"
                    [] payout[p].status = "CANCELLED" -> "RELEASED"
                    [] payout[p].status = "COMPLETED" -> "FINALIZED"
                    [] OTHER                          -> "ACTIVE"
    BY DEF IInv, HoldFollowsPayout
  <2>2. CASE payout[p].status = "NONE"
    BY <2>1, <2>2 DEF MoneyOf
  <2>3. CASE payout[p].status = "CANCELLED"
    BY <2>1, <2>3 DEF MoneyOf
  <2>4. CASE payout[p].status = "COMPLETED"
    BY <2>1, <2>4 DEF MoneyOf
  <2>5. CASE payout[p].status \notin {"NONE", "CANCELLED", "COMPLETED"}
    BY <2>1, <2>5 DEF MoneyOf
  <2> QED
    BY <2>2, <2>3, <2>4, <2>5
<1> QED
  BY <1>1 DEF Money

LEMMA MoneyFollowsStageNext == IInv' => Money' = [p \in Payouts |-> MoneyOf(payout'[p].status)]
<1>1. (IInv => Money = [p \in Payouts |-> MoneyOf(payout[p].status)])'
  BY MoneyFollowsStage, PTL
<1> QED
  BY <1>1

\* A step that takes p from one stage to another is a step of the promise.
LEMMA MoneyStep ==
  ASSUME IInv, IInv', NEW p \in Payouts,
         \A q \in Payouts : q # p => payout'[q].status = payout[q].status,
         \/ MoneyOf(payout'[p].status) = MoneyOf(payout[p].status)
         \/ <<MoneyOf(payout[p].status), MoneyOf(payout'[p].status)>> \in
              {<<"FREE", "RESERVED">>, <<"RESERVED", "RETURNED">>, <<"RESERVED", "COMMITTED">>, <<"COMMITTED", "PAID">>}
  PROVE  [Promise!Next]_Money
<1>1. /\ Money = [q \in Payouts |-> MoneyOf(payout[q].status)]
      /\ Money' = [q \in Payouts |-> MoneyOf(payout'[q].status)]
  BY MoneyFollowsStage, MoneyFollowsStageNext
<1>2. Money' = [Money EXCEPT ![p] = MoneyOf(payout'[p].status)]
  BY <1>1
<1>3. CASE MoneyOf(payout'[p].status) = MoneyOf(payout[p].status)
  BY <1>1, <1>2, <1>3
<1>4. CASE <<MoneyOf(payout[p].status), MoneyOf(payout'[p].status)>> \in
             {<<"FREE", "RESERVED">>, <<"RESERVED", "RETURNED">>, <<"RESERVED", "COMMITTED">>, <<"COMMITTED", "PAID">>}
  <2>1. Promise!Reserve(p) \/ Promise!GiveBack(p) \/ Promise!Commit(p) \/ Promise!Pay(p)
    BY <1>1, <1>2, <1>4
       DEF Promise!Reserve, Promise!GiveBack, Promise!Commit, Promise!Pay, Promise!Become
  <2> QED
    BY <2>1 DEF Promise!Next
<1> QED
  BY <1>3, <1>4

\* The stages of the payouts alone fix the money.
LEMMA MoneyStays ==
  ASSUME IInv, IInv', \A q \in Payouts : MoneyOf(payout'[q].status) = MoneyOf(payout[q].status)
  PROVE  [Promise!Next]_Money
<1>1. /\ Money = [q \in Payouts |-> MoneyOf(payout[q].status)]
      /\ Money' = [q \in Payouts |-> MoneyOf(payout'[q].status)]
  BY MoneyFollowsStage, MoneyFollowsStageNext
<1> QED
  BY <1>1

LEMMA StageOf ==
  ASSUME IInv, NEW p \in Payouts, NEW s,
         payout' = [payout EXCEPT ![p].status = s]
  PROVE  /\ payout'[p].status = s
         /\ \A q \in Payouts : q # p => payout'[q].status = payout[q].status
<1>1. payout[p] \in Payout /\ payout \in [Payouts -> Payout]
  BY DEF IInv, TypeOK
<1>2. [payout[p] EXCEPT !.status = s].status = s
  BY <1>1 DEF Payout
<1>3. payout' = [payout EXCEPT ![p] = [payout[p] EXCEPT !.status = s]]
  OBVIOUS
<1> QED
  BY <1>1, <1>2, <1>3

\* The handlers, batches and transfers together implement the promise: from
\* approval on the money of a payout can only be paid, and only once.
THEOREM KeepsPromise == Spec => PromiseKept
<1>1. Init => Promise!Init
  BY DEF Init, Promise!Init, Money
<1>2. IInv /\ IInv' /\ [Next]_vars => [Promise!Next]_Money
  <2> SUFFICES ASSUME IInv, IInv', [Next]_vars PROVE [Promise!Next]_Money
    OBVIOUS
  <2>1. ASSUME NEW p \in Payouts, CreatePayoutIntent(p) PROVE [Promise!Next]_Money
    <3>1. /\ payout[p] \in Payout /\ payout \in [Payouts -> Payout] /\ payout[p].status = "NONE"
          /\ payout' = [payout EXCEPT ![p] = [payout[p] EXCEPT !.status = "HELD",
                                                !.version = destination[BeneficiaryOf[p]].version]]
      BY <2>1 DEF IInv, TypeOK, CreatePayoutIntent
    <3>2. payout'[p].status = "HELD" /\ \A q \in Payouts : q # p => payout'[q].status = payout[q].status
      BY <3>1 DEF Payout
    <3>3. MoneyOf(payout[p].status) = "FREE" /\ MoneyOf(payout'[p].status) = "RESERVED"
      BY <3>1, <3>2 DEF MoneyOf
    <3> QED
      BY <3>2, <3>3, MoneyStep
  <2>2. ASSUME NEW p \in Payouts, CancelPayout(p) PROVE [Promise!Next]_Money
    <3>1. payout[p].status \in {"HELD", "PREPARED"} /\ payout' = [payout EXCEPT ![p].status = "CANCELLED"]
      BY <2>2 DEF CancelPayout, CanCancel
    <3>2. payout'[p].status = "CANCELLED" /\ \A q \in Payouts : q # p => payout'[q].status = payout[q].status
      BY <3>1, StageOf
    <3>3. MoneyOf(payout[p].status) = "RESERVED" /\ MoneyOf(payout'[p].status) = "RETURNED"
      BY <3>1, <3>2 DEF MoneyOf
    <3> QED
      BY <3>2, <3>3, MoneyStep
  <2>3. ASSUME NEW p \in Payouts, NEW op \in Operators, PreparePayout(p, op) PROVE [Promise!Next]_Money
    <3>1. /\ payout[p] \in Payout /\ payout \in [Payouts -> Payout] /\ payout[p].status = "HELD"
          /\ payout' = [payout EXCEPT ![p] = [payout[p] EXCEPT !.status = "PREPARED", !.preparedBy = op]]
      BY <2>3 DEF IInv, TypeOK, PreparePayout
    <3>2. payout'[p].status = "PREPARED" /\ \A q \in Payouts : q # p => payout'[q].status = payout[q].status
      BY <3>1 DEF Payout
    <3>3. MoneyOf(payout[p].status) = MoneyOf(payout'[p].status)
      BY <3>1, <3>2 DEF MoneyOf
    <3> QED
      BY <3>2, <3>3, MoneyStep
  <2>4. ASSUME NEW p \in Payouts, NEW op \in Operators, ApprovePayout(p, op) PROVE [Promise!Next]_Money
    <3>1. /\ payout[p] \in Payout /\ payout \in [Payouts -> Payout] /\ payout[p].status = "PREPARED"
          /\ payout' = [payout EXCEPT ![p] = [payout[p] EXCEPT !.status = "APPROVED", !.approvedBy = op]]
      BY <2>4 DEF IInv, TypeOK, ApprovePayout
    <3>2. payout'[p].status = "APPROVED" /\ \A q \in Payouts : q # p => payout'[q].status = payout[q].status
      BY <3>1 DEF Payout
    <3>3. MoneyOf(payout[p].status) = "RESERVED" /\ MoneyOf(payout'[p].status) = "COMMITTED"
      BY <3>1, <3>2 DEF MoneyOf
    <3> QED
      BY <3>2, <3>3, MoneyStep
  <2>5. ASSUME NEW b \in Batches, NEW op \in Operators, FreezeSettlementBatch(b, op)
        PROVE  [Promise!Next]_Money
    <3>1. payout' = [p \in Payouts |-> IF p \in batch[b].items THEN Frozen(p) ELSE payout[p]]
      BY <2>5 DEF FreezeSettlementBatch
    <3>2. ASSUME NEW q \in Payouts PROVE MoneyOf(payout'[q].status) = MoneyOf(payout[q].status)
      <4>1. payout[q] \in Payout
        BY DEF IInv, TypeOK
      <4>2. \/ payout'[q].status = payout[q].status
            \/ payout[q].status = "APPROVED" /\ payout'[q].status = "FROZEN"
        BY <3>1, <4>1 DEF Frozen, Payout
      <4> QED
        BY <4>2 DEF MoneyOf
    <3> QED
      BY <3>2, MoneyStays
  <2>6. ASSUME NEW b \in Batches, NEW p \in Payouts, NEW op \in Operators, RecordManualTransfer(b, p, op)
        PROVE  [Promise!Next]_Money
    <3>1. payout[p].status = "FROZEN" /\ payout' = [payout EXCEPT ![p].status = "EXECUTED"]
      BY <2>6 DEF RecordManualTransfer
    <3>2. payout'[p].status = "EXECUTED" /\ \A q \in Payouts : q # p => payout'[q].status = payout[q].status
      BY <3>1, StageOf
    <3>3. MoneyOf(payout[p].status) = MoneyOf(payout'[p].status)
      BY <3>1, <3>2 DEF MoneyOf
    <3> QED
      BY <3>2, <3>3, MoneyStep
  <2>7. ASSUME NEW p \in Payouts, ReconcileManualTransfer(p)
        PROVE  [Promise!Next]_Money
    <3>1. transfer[p].status = "VERIFIED" /\ payout' = [payout EXCEPT ![p].status = "COMPLETED"]
      BY <2>7 DEF IInv, OpenWork, ReconcileManualTransfer
    <3>2. payout[p].status = "EXECUTED"
      BY <3>1, TransferFacts
    <3>3. payout'[p].status = "COMPLETED" /\ \A q \in Payouts : q # p => payout'[q].status = payout[q].status
      BY <3>1, StageOf
    <3>4. MoneyOf(payout[p].status) = "COMMITTED" /\ MoneyOf(payout'[p].status) = "PAID"
      BY <3>2, <3>3 DEF MoneyOf
    <3> QED
      BY <3>3, <3>4, MoneyStep
  <2>8. CASE UNCHANGED payout
    BY <2>8, MoneyStays
  <2> QED
    BY <2>1, <2>2, <2>3, <2>4, <2>5, <2>6, <2>7, <2>8
       DEF Next, vars, ActivateOfficialWalletDestination, MarkDestinationStale, RecordSettlementStatementRow,
           VerifyManualTransfer, CreateSettlementBatch, ApproveSettlementBatch, CountVerified, CountReconciled, Rollback
<1> QED
  BY <1>1, <1>2, Invariance, PTL DEF Spec, PromiseKept, Promise!Spec
=============================================================================
