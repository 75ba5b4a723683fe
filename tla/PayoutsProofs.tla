--------------------------- MODULE PayoutsProofs ---------------------------
(***************************************************************************)
(* Proofs about Payouts, for any earnings, batches, calls and amounts.     *)
(*                                                                         *)
(* The tables are one inductive invariant, TInv: what the triggers and the *)
(* transactions keep true of earnings, batches, operations, evidence and   *)
(* reversals, whatever the provider answers.  The money is a second one,   *)
(* MInv, that relates the tables to the provider; it needs a provider      *)
(* whose "rejected" is definitive.  The debt is a third, DInv, which keeps *)
(* the account of what the seller owes balanced; its proof rests on lemmas *)
(* about sums over finite sets, by induction over their cardinality.       *)
(***************************************************************************)
EXTENDS Payouts, FiniteSetTheorems, WellFoundedInduction, TLAPS

\* The type of a batch row, its offset aside.
Row(r) == r \in [status : {"none", "prepared", "submitted", "paid", "cancelled"},
                 items : SUBSET Earnings, offset : {r.offset}, ext : BOOLEAN,
                 ref : Refs \union {NoRef}]

Types ==
  /\ earning \in [Earnings -> {"none", "available", "batched", "paid", "reversed"}]
  /\ reversal \in [Earnings -> {"none", "applied", "seller_debt", "pending_payout"}]
  /\ batch = [b \in Batches |-> batch[b]]
  /\ \A b \in Batches : Row(batch[b])
  /\ op \in [Batches -> OpRow]
  /\ evidence \in [Batches -> Refs \union {NoRef}]

\* The types of what is not a table.
Wires ==
  /\ call \in [Calls -> CallRow]
  /\ request \in [Batches -> {"none", "sent", "refused"}]
  /\ transfer \in [Batches -> {"none", "created", "settled", "reversed"}]

\* An earning is in one batch that was not cancelled, at most.
Exclusive ==
  \A b, d \in Batches :
    b # d /\ batch[b].status # "cancelled" /\ batch[d].status # "cancelled"
      => batch[b].items \intersect batch[d].items = {}

\* A batch without an operation is not submitted, and one without a status
\* holds nothing.
Fresh ==
  \A b \in Batches :
    /\ op[b].state = "none" => batch[b].status \in {"none", "prepared", "cancelled"}
                               /\ ~op[b].ext /\ op[b].ref = NoRef
    /\ batch[b].status = "none" => batch[b].items = {}
    /\ batch[b].status \in {"none", "prepared"} => ~batch[b].ext

TInv == /\ Types /\ Exclusive /\ Fresh
        /\ ProjectionsAgree /\ EvidenceMatches /\ ReversalsWaitForSubmitted

-----------------------------------------------------------------------------
(* The tables.                                                             *)

\* The first state satisfies the table invariant and the wire types.
LEMMA InitTables == Init => TInv /\ Wires
  BY PayoutConstants
     DEF Init, TInv, Types, Row, Wires, Exclusive, Fresh, ProjectionsAgree,
         EarningsMatch, EvidenceMatches, ReversalsWaitForSubmitted, OpRow, CallRow,
         IdleCall, Idle

\* A new receipt touches an earning no batch holds.
LEMMA ReceiptStep ==
  ASSUME TInv, NEW e \in Earnings, RecordAcceptedReceipt(e)
  PROVE  TInv'
<1> USE DEF RecordAcceptedReceipt
<1>1. Types'
  BY Zenon DEF TInv, Types, Row
<1>2. Exclusive' /\ Fresh' /\ EvidenceMatches'
  BY Zenon DEF TInv, Exclusive, Fresh, EvidenceMatches
<1>3. ProjectionsAgree'
  BY ZenonT(60) DEF TInv, Types, Row, ProjectionsAgree, EarningsMatch, Projects
<1>4. ReversalsWaitForSubmitted'
  BY Zenon DEF TInv, Types, ReversalsWaitForSubmitted, Holding
<1> QED BY Zenon, <1>1, <1>2, <1>3, <1>4 DEF TInv

\* A reversal leaves a held earning batched, or turns a paid one into a debt.
LEMMA ReversalStep ==
  ASSUME TInv, NEW e \in Earnings, RecordEarningReversal(e)
  PROVE  TInv'
<1> USE DEF RecordEarningReversal
<1>0. /\ ReversalState(e) \in {"applied", "seller_debt", "pending_payout"}
      /\ ReversalState(e) = "pending_payout" =>
           /\ earning[e] = "batched"
           /\ \E b \in Holding(e) : batch[b].status = "submitted"
      /\ ReversalState(e) # "pending_payout" => earning[e] \in {"available", "paid"}
  BY Zenon DEF ReversalState
<1> HIDE DEF RecordEarningReversal
<1>1. /\ earning' = IF ReversalState(e) = "pending_payout" THEN earning
                    ELSE [earning EXCEPT ![e] = "reversed"]
      /\ reversal' = [reversal EXCEPT ![e] = ReversalState(e)]
      /\ UNCHANGED <<batch, op, evidence>>
  BY Zenon DEF RecordEarningReversal
<1>2. Types'
  BY Zenon, <1>0, <1>1 DEF TInv, Types, Row
<1>3. Exclusive' /\ Fresh' /\ EvidenceMatches'
  BY Zenon, <1>1 DEF TInv, Exclusive, Fresh, EvidenceMatches
<1>4. ProjectionsAgree'
  BY ZenonT(60), <1>0, <1>1 DEF TInv, Types, Row, ProjectionsAgree, EarningsMatch, Projects
<1>5. ReversalsWaitForSubmitted'
  BY Zenon, <1>0, <1>1 DEF TInv, Types, ReversalsWaitForSubmitted, Holding
<1> QED BY Zenon, <1>2, <1>3, <1>4, <1>5 DEF TInv

\* Preparing takes earnings no other live batch holds.
LEMMA PrepareStep ==
  ASSUME TInv, NEW b \in Batches, NEW items \in SUBSET Earnings, Prepare(b, items)
  PROVE  TInv'
<1> DEFINE off == Minor(debt, Sum(items))
           row == [batch[b] EXCEPT !.status = "prepared", !.items = items, !.offset = off]
<1>1. /\ batch[b].status = "none" /\ batch' = [batch EXCEPT ![b] = row]
      /\ earning' = [e \in Earnings |-> IF e \in items THEN "batched" ELSE earning[e]]
      /\ UNCHANGED <<reversal, op, evidence>>
      /\ \A e \in items : earning[e] = "available" /\ Holding(e) = {}
  BY Zenon DEF Prepare, Preparable
<1> HIDE DEF off
<1>2. Row(row) /\ row.status = "prepared" /\ row.items = items /\ row.ext = batch[b].ext
  BY ZenonT(30) DEF TInv, Types, Row
<1> HIDE DEF row
<1>3. /\ \A d \in Batches : d # b => batch'[d] = batch[d]
      /\ batch'[b] = row /\ ~row.ext /\ op[b].state = "none"
  BY Zenon, <1>1, <1>2 DEF TInv, Types, Row, Fresh, ProjectionsAgree, Projects
<1>4. \A d \in Batches : d # b /\ batch[d].status # "cancelled"
                            => items \intersect batch[d].items = {}
  BY Zenon, <1>1 DEF Holding
<1>5. Types'
  BY Zenon, <1>1, <1>2, <1>3 DEF TInv, Types
<1>6. Exclusive'
  BY ZenonT(60), <1>2, <1>3, <1>4 DEF TInv, Exclusive
<1>7. Fresh' /\ EvidenceMatches'
  BY <1>1, <1>2, <1>3 DEF TInv, Fresh, EvidenceMatches
<1>8. ProjectionsAgree'
  BY <1>1, <1>2, <1>3, <1>4 DEF TInv, Types, Row, ProjectionsAgree, EarningsMatch, Projects
<1>9. ReversalsWaitForSubmitted'
  BY Zenon, <1>1, <1>2, <1>3 DEF TInv, Types, ReversalsWaitForSubmitted, Holding
<1> QED BY Zenon, <1>5, <1>6, <1>7, <1>8, <1>9 DEF TInv

\* Releasing a prepared batch, with its operation absent or rejected.
LEMMA ReleaseStep ==
  ASSUME TInv, NEW b \in Batches, batch[b].status = "prepared", Release(b),
         NEW o \in OpRow, op' = [op EXCEPT ![b] = o],
         ~o.ext, o.ref = NoRef, o.state \in {"none", "rejected"},
         UNCHANGED <<reversal, evidence>>
  PROVE  TInv'
<1> USE DEF Release
<1>1. Types'
  BY SMTT(30) DEF TInv, Types, Row
<1>2. /\ \A d \in Batches : d # b => batch'[d] = batch[d] /\ op'[d] = op[d]
      /\ batch'[b].status = "cancelled" /\ batch'[b].items = batch[b].items
      /\ op'[b] = o
  BY Zenon DEF TInv, Types, Row
<1>3. Exclusive'
  BY <1>2 DEF TInv, Exclusive
<1>4. Fresh' /\ EvidenceMatches'
  BY <1>2 DEF TInv, Fresh, EvidenceMatches
<1>5. ProjectionsAgree'
  BY <1>2 DEF TInv, Types, Row, ProjectionsAgree, EarningsMatch, Projects, Exclusive
<1>6. ReversalsWaitForSubmitted'
  BY Zenon, <1>2 DEF TInv, Types, ReversalsWaitForSubmitted, Holding, Exclusive
<1> QED BY Zenon, <1>1, <1>3, <1>4, <1>5, <1>6 DEF TInv

\* A rejection: the operation becomes terminal, and the batch is released
\* unless its transfer was already identified.
LEMMA RejectStep ==
  ASSUME TInv, NEW b \in Batches, ApplyObservation(b, Rejected), UNCHANGED evidence
  PROVE  TInv'
<1> DEFINE new == [state |-> "rejected", ext |-> op[b].ext, ref |-> op[b].ref]
<1>1. /\ MayUpdate(b, "rejected", FALSE, NoRef, batch[b])
      /\ op' = [op EXCEPT ![b] = Updated(b, "rejected", FALSE, NoRef)]
      /\ UNCHANGED reversal
      /\ IF op[b].ext \/ batch[b].status = "cancelled"
         THEN UNCHANGED <<batch, earning, debt>> ELSE Release(b)
  BY Zenon DEF ApplyObservation, Commits, UpdateOperation, Rejected
<1>2. op[b] \in OpRow /\ Updated(b, "rejected", FALSE, NoRef) = new /\ new \in OpRow
  BY Zenon DEF Updated, TInv, Types, OpRow
<1>3. /\ op[b].ref = NoRef
      /\ op[b].ext => batch[b].status = "submitted" /\ batch[b].ext
      /\ ~op[b].ext => batch[b].status \in {"prepared", "cancelled"}
      /\ op[b].state # "paid"
  <2>1. MayBecome(b, "rejected") /\ Projects(new, batch[b]) /\ op[b].ref = NoRef
    BY Zenon, <1>1, <1>2 DEF MayUpdate
  <2> QED BY Zenon, <2>1 DEF Projects, MayBecome
<1>4. CASE op[b].ext \/ batch[b].status = "cancelled"
  <2>1. op' = [op EXCEPT ![b] = new] /\ UNCHANGED <<batch, earning, reversal>>
    BY Zenon, <1>1, <1>2, <1>4
  <2>2. op'[b] = new /\ \A d \in Batches : d # b => op'[d] = op[d]
    BY Zenon, <2>1 DEF TInv, Types
  <2>3. Types'
    BY Zenon, <1>2, <2>1 DEF TInv, Types, Row
  <2>4. Exclusive' /\ ReversalsWaitForSubmitted'
    BY Zenon, <2>1 DEF TInv, Exclusive, ReversalsWaitForSubmitted, Holding
  <2>5. Fresh'
    BY <2>1, <2>2 DEF TInv, Fresh
  <2>6. EvidenceMatches'
    BY ZenonT(60), <1>2, <1>3, <2>1, <2>2 DEF TInv, EvidenceMatches
  <2>7. ProjectionsAgree'
    BY <1>2, <1>3, <1>4, <2>1, <2>2 DEF TInv, ProjectionsAgree, Projects, EarningsMatch
  <2> QED BY Zenon, <2>3, <2>4, <2>5, <2>6, <2>7 DEF TInv
<1>5. CASE ~(op[b].ext \/ batch[b].status = "cancelled")
  <2>1. batch[b].status = "prepared" /\ Release(b) /\ op' = [op EXCEPT ![b] = new]
    BY Zenon, <1>1, <1>2, <1>3, <1>5
  <2>2. ~new.ext /\ new.ref = NoRef /\ new.state \in {"none", "rejected"}
    BY Zenon, <1>3, <1>5
  <2> HIDE DEF new
  <2> QED BY Zenon, <1>1, <1>2, <2>1, <2>2, ReleaseStep
<1> QED BY Zenon, <1>4, <1>5

\* A transfer that was found: the batch is submitted, or was already.
LEMMA SubmitStep ==
  ASSUME TInv, NEW b \in Batches, ApplyObservation(b, Submitted), UNCHANGED evidence
  PROVE  TInv'
<1> DEFINE new == [state |-> "submitted", ext |-> TRUE, ref |-> op[b].ref]
           row == MarkSubmitted(batch[b])
<1>1. /\ MayUpdate(b, "submitted", TRUE, NoRef, row)
      /\ op' = [op EXCEPT ![b] = Updated(b, "submitted", TRUE, NoRef)]
      /\ batch' = [batch EXCEPT ![b] = row]
      /\ UNCHANGED <<earning, reversal>>
      /\ batch[b].status \in {"prepared", "submitted", "paid"}
  BY Zenon DEF ApplyObservation, Commits, UpdateOperation, Submitted
<1>2. op[b] \in OpRow /\ Updated(b, "submitted", TRUE, NoRef) = new /\ new \in OpRow
  BY Zenon DEF Updated, TInv, Types, OpRow
<1>3. op[b].ref = NoRef /\ row.status = "submitted" /\ row.ext
  <2>1. Projects(new, row) /\ op[b].ref = NoRef
    BY Zenon, <1>1, <1>2 DEF MayUpdate
  <2> QED BY Zenon, <2>1 DEF Projects
<1>4. Row(row) /\ row.items = batch[b].items /\ batch[b].status \in {"prepared", "submitted"}
  BY ZenonT(30), <1>1, <1>3 DEF MarkSubmitted, TInv, Types, Row
<1> HIDE DEF row
<1>5. /\ op'[b] = new /\ batch'[b] = row
      /\ \A d \in Batches : d # b => op'[d] = op[d] /\ batch'[d] = batch[d]
  BY Zenon, <1>1, <1>2 DEF TInv, Types
<1>new. new.state = "submitted" /\ new.ext /\ new.ref = NoRef
  BY Zenon, <1>3
<1> HIDE DEF new
<1>6. Types'
  BY Zenon, <1>1, <1>2, <1>4, <1>5 DEF TInv, Types
<1>7. Exclusive'
  BY <1>3, <1>4, <1>5 DEF TInv, Exclusive
<1>8. Fresh'
  <2> SUFFICES ASSUME NEW d \in Batches
      PROVE /\ op'[d].state = "none" => batch'[d].status \in {"none", "prepared", "cancelled"}
                                        /\ ~op'[d].ext /\ op'[d].ref = NoRef
            /\ batch'[d].status = "none" => batch'[d].items = {}
            /\ batch'[d].status \in {"none", "prepared"} => ~batch'[d].ext
    BY Zenon DEF Fresh
  <2>1. CASE d = b
    BY Zenon, <1>3, <1>5, <1>new, <2>1
  <2>2. CASE d # b
    BY Zenon, <1>5, <2>2 DEF TInv, Fresh
  <2> QED BY Zenon, <2>1, <2>2
<1>8a. EvidenceMatches'
  BY Zenon, <1>4, <1>5 DEF TInv, EvidenceMatches
<1>9. ProjectionsAgree'
  <2> SUFFICES ASSUME NEW d \in Batches
      PROVE /\ op'[d].state # "none" => Projects(op'[d], batch'[d])
            /\ op'[d].state = "rejected" => batch'[d].status # "prepared"
            /\ batch'[d].status # "cancelled" => EarningsMatch(d)'
    BY Zenon DEF ProjectionsAgree, Projects
  <2>1. CASE d = b
    <3>1. Projects(op'[d], batch'[d])
      BY Zenon, <1>3, <1>5, <1>new, <2>1 DEF Projects
    <3>2. EarningsMatch(d)'
      BY <1>1, <1>3, <1>4, <1>5, <2>1 DEF TInv, ProjectionsAgree, EarningsMatch
    <3> QED BY Zenon, <1>3, <1>5, <2>1, <3>1, <3>2
  <2>2. CASE d # b
    BY ZenonT(60), <1>1, <1>5, <2>2 DEF TInv, ProjectionsAgree, EarningsMatch
  <2> QED BY Zenon, <2>1, <2>2
<1>10. ReversalsWaitForSubmitted'
  BY <1>1, <1>3, <1>4, <1>5 DEF TInv, ReversalsWaitForSubmitted, Holding
<1> QED BY Zenon, <1>6, <1>7, <1>8, <1>8a, <1>9, <1>10 DEF TInv

\* A settlement, by an answer or by signed evidence.
LEMMA PayStep ==
  ASSUME TInv, NEW b \in Batches, NEW r \in Refs, ApplyObservation(b, Paid(r)),
         evidence' \in {evidence, [evidence EXCEPT ![b] = r]}
  PROVE  TInv'
<1> DEFINE new == [state |-> "paid", ext |-> TRUE, ref |-> r]
           row == MarkPaid(MarkSubmitted(batch[b]), r)
<1>0. r # NoRef
  BY Zenon, PayoutConstants
<1>1. /\ MayUpdate(b, "paid", TRUE, r, row)
      /\ op' = [op EXCEPT ![b] = Updated(b, "paid", TRUE, r)]
      /\ batch' = [batch EXCEPT ![b] = row]
      /\ IF batch[b].status = "paid" THEN UNCHANGED <<earning, reversal, debt>>
         ELSE Settle(b)
      /\ batch[b].status \in {"prepared", "submitted", "paid"}
  BY Zenon DEF ApplyObservation, Commits, UpdateOperation, Paid
<1>2. op[b] \in OpRow /\ Updated(b, "paid", TRUE, r) = new /\ new \in OpRow
  BY Zenon, <1>0 DEF Updated, TInv, Types, OpRow
<1>3. row.status = "paid" /\ row.ext /\ row.ref = r /\ evidence[b] \in {NoRef, r}
  <2> DEFINE u == Updated(b, "paid", TRUE, r)
  <2> HIDE DEF row
  <2>1. MayUpdate(b, "paid", TRUE, r, row)
    BY Zenon, <1>1
  <2>2. Projects(u, row) /\ evidence[b] \in {NoRef, u.ref}
    BY Zenon, <2>1 DEF MayUpdate
  <2>3. u.state = "paid" /\ u.ref = r
    BY Zenon, <1>0 DEF Updated
  <2> HIDE DEF u
  <2> QED BY Zenon, <2>2, <2>3 DEF Projects
<1>4. Row(row) /\ row.items = batch[b].items
  BY Zenon, <1>1, <1>3 DEF MarkPaid, MarkSubmitted, TInv, Types, Row
<1> HIDE DEF row
<1>5. /\ op'[b] = new /\ batch'[b] = row
      /\ \A d \in Batches : d # b => op'[d] = op[d] /\ batch'[d] = batch[d]
  BY Zenon, <1>1, <1>2 DEF TInv, Types
<1>6. /\ earning' \in [Earnings -> {"none", "available", "batched", "paid", "reversed"}]
      /\ reversal' \in [Earnings -> {"none", "applied", "seller_debt", "pending_payout"}]
      /\ \A e \in Earnings :
           /\ e \in batch[b].items => earning'[e] \in {"paid", "reversed"}
           /\ e \notin batch[b].items => earning'[e] = earning[e]
           /\ reversal'[e] = "pending_payout" => reversal[e] = "pending_payout"
           /\ reversal'[e] = "pending_payout" /\ batch[b].status # "paid"
                => e \notin batch[b].items
  <2>1. CASE batch[b].status = "paid"
    BY Zenon, <1>1, <2>1 DEF TInv, Types, Row, ProjectionsAgree, EarningsMatch
  <2>2. CASE batch[b].status # "paid"
    BY <1>1, <2>2 DEF TInv, Types, Settle
  <2> QED BY Zenon, <2>1, <2>2
<1>7. /\ evidence' \in [Batches -> Refs \union {NoRef}]
      /\ evidence'[b] \in {NoRef, r}
      /\ \A d \in Batches : d # b => evidence'[d] = evidence[d]
  BY Zenon, <1>3 DEF TInv, Types
<1>8. Types'
  BY ZenonT(30), <1>1, <1>2, <1>4, <1>5, <1>6, <1>7 DEF TInv, Types
<1>9. Exclusive'
  BY <1>1, <1>3, <1>4, <1>5 DEF TInv, Exclusive
<1>10. Fresh'
  BY <1>3, <1>5 DEF TInv, Fresh
<1>11. EvidenceMatches'
  BY <1>3, <1>5, <1>7 DEF TInv, EvidenceMatches
<1>12. ProjectionsAgree'
  <2> SUFFICES ASSUME NEW d \in Batches
      PROVE /\ op'[d].state # "none" => Projects(op'[d], batch'[d])
            /\ op'[d].state = "rejected" => batch'[d].status # "prepared"
            /\ batch'[d].status # "cancelled" => EarningsMatch(d)'
    BY Zenon DEF ProjectionsAgree, Projects
  <2>1. CASE d = b
    BY <1>3, <1>4, <1>5, <1>6, <2>1 DEF Projects, EarningsMatch, TInv, Types, Row
  <2>2. CASE d # b
    BY <1>1, <1>5, <1>6, <2>2 DEF TInv, Types, Row, ProjectionsAgree, EarningsMatch, Exclusive
  <2> QED BY Zenon, <2>1, <2>2
<1>13. ReversalsWaitForSubmitted'
  <2> SUFFICES ASSUME NEW e \in Earnings, reversal'[e] = "pending_payout"
      PROVE earning'[e] = "batched" /\ \E d \in Holding(e)' : batch'[d].status = "submitted"
    BY Zenon DEF ReversalsWaitForSubmitted
  <2>1. PICK d \in Holding(e) : batch[d].status = "submitted"
    BY Zenon, <1>6 DEF TInv, ReversalsWaitForSubmitted
  <2>2. d # b /\ e \notin batch[b].items
    BY Zenon, <1>1, <1>6, <2>1 DEF TInv, Holding, Exclusive
  <2>3. d \in Holding(e)' /\ batch'[d].status = "submitted"
    BY Zenon, <1>5, <2>1, <2>2 DEF Holding
  <2> QED BY Zenon, <1>6, <2>2, <2>3 DEF TInv, ReversalsWaitForSubmitted
<1> QED BY Zenon, <1>8, <1>9, <1>10, <1>11, <1>12, <1>13 DEF TInv

\* A failed or empty answer: the operation becomes uncertain if it may.
LEMMA UncertainStep ==
  ASSUME TInv, NEW b \in Batches, MarkUncertain(b), UNCHANGED evidence
  PROVE  TInv'
<1> DEFINE new == [state |-> "uncertain", ext |-> op[b].ext, ref |-> op[b].ref]
<1>1. CASE UNCHANGED op
  BY <1>1 DEF MarkUncertain, TInv, Types, Row, Exclusive, Fresh, ProjectionsAgree,
              EarningsMatch, EvidenceMatches, ReversalsWaitForSubmitted, Holding
<1>2. CASE ~UNCHANGED op
  <2>1. /\ MayUpdate(b, "uncertain", FALSE, NoRef, batch[b])
        /\ op' = [op EXCEPT ![b] = Updated(b, "uncertain", FALSE, NoRef)]
        /\ UNCHANGED <<batch, earning, reversal>>
    BY Zenon, <1>2 DEF MarkUncertain, UpdateOperation
  <2>2. op[b] \in OpRow /\ Updated(b, "uncertain", FALSE, NoRef) = new /\ new \in OpRow
    BY Zenon DEF Updated, TInv, Types, OpRow
  <2>3. MayBecome(b, "uncertain") /\ Projects(new, batch[b]) /\ op[b].ref = NoRef
    BY Zenon, <2>1, <2>2 DEF MayUpdate
  <2>4. batch[b].status \in {"prepared", "submitted"}
    BY Zenon, <2>3 DEF Projects
  <2>5. op'[b] = new /\ \A d \in Batches : d # b => op'[d] = op[d]
    BY Zenon, <2>1, <2>2 DEF TInv, Types
  <2>6. new.state = "uncertain"
    BY Zenon
  <2> HIDE DEF new
  <2>7. Types'
    BY Zenon, <2>1, <2>2, <2>5 DEF TInv, Types, Row
  <2>8. Exclusive' /\ ReversalsWaitForSubmitted'
    BY Zenon, <2>1 DEF TInv, Exclusive, ReversalsWaitForSubmitted, Holding
  <2>9. Fresh'
    BY ZenonT(30), <2>1, <2>5, <2>6 DEF TInv, Fresh
  <2>10. EvidenceMatches'
    BY Zenon, <2>1, <2>4, <2>5 DEF TInv, EvidenceMatches
  <2>11. ProjectionsAgree'
    <3> SUFFICES ASSUME NEW d \in Batches
        PROVE /\ op'[d].state # "none" => Projects(op'[d], batch'[d])
              /\ op'[d].state = "rejected" => batch'[d].status # "prepared"
              /\ batch'[d].status # "cancelled" => EarningsMatch(d)'
      BY Zenon DEF ProjectionsAgree, Projects
    <3>1. CASE d = b
      BY Zenon, <2>1, <2>3, <2>5, <2>6, <3>1 DEF TInv, ProjectionsAgree, EarningsMatch
    <3>2. CASE d # b
      BY Zenon, <2>1, <2>5, <3>2 DEF TInv, ProjectionsAgree, EarningsMatch
    <3> QED BY Zenon, <3>1, <3>2
  <2> QED BY Zenon, <2>7, <2>8, <2>9, <2>10, <2>11 DEF TInv
<1> QED BY Zenon, <1>1, <1>2

\* The durable operation that precedes the request.
LEMMA DispatchStep ==
  ASSUME TInv, NEW b \in Batches, NEW c \in Calls, Dispatch(c, b)
  PROVE  TInv'
<1> DEFINE new == [op[b] EXCEPT !.state = "dispatching"]
<1>1. /\ op[b].state = "none" /\ batch[b].status = "prepared"
      /\ op' = [op EXCEPT ![b] = new]
      /\ UNCHANGED <<earning, reversal, batch, evidence>>
  BY Zenon DEF Dispatch
<1>2. new \in OpRow /\ new.state = "dispatching" /\ ~new.ext
  BY ZenonT(60), <1>1 DEF TInv, Types, OpRow, Fresh
<1> HIDE DEF new
<1>3. op'[b] = new /\ \A d \in Batches : d # b => op'[d] = op[d]
  BY Zenon, <1>1 DEF TInv, Types
<1>4. Types'
  BY Zenon, <1>1, <1>2 DEF TInv, Types, Row
<1>5. Exclusive' /\ ReversalsWaitForSubmitted'
  BY Zenon, <1>1 DEF TInv, Exclusive, ReversalsWaitForSubmitted, Holding
<1>6. Fresh' /\ EvidenceMatches'
  BY <1>1, <1>2, <1>3 DEF TInv, Fresh, EvidenceMatches
<1>7. ProjectionsAgree'
  <2> SUFFICES ASSUME NEW d \in Batches
      PROVE /\ op'[d].state # "none" => Projects(op'[d], batch'[d])
            /\ op'[d].state = "rejected" => batch'[d].status # "prepared"
            /\ batch'[d].status # "cancelled" => EarningsMatch(d)'
    BY Zenon DEF ProjectionsAgree, Projects
  <2>1. CASE d = b
    BY <1>1, <1>2, <1>3, <2>1 DEF TInv, ProjectionsAgree, EarningsMatch, Projects
  <2>2. CASE d # b
    BY Zenon, <1>1, <1>3, <2>2 DEF TInv, ProjectionsAgree, EarningsMatch
  <2> QED BY Zenon, <2>1, <2>2
<1> QED BY Zenon, <1>4, <1>5, <1>6, <1>7 DEF TInv

\* An answer that may be applied is one of three.
LEMMA AnswerKinds ==
  ASSUME NEW b \in Batches, NEW o \in Observation \union {NoAnswer}, Commits(b, o)
  PROVE  o = Rejected \/ o = Submitted \/ \E r \in Refs : o = Paid(r)
<1>1. o.state \in {"rejected", "submitted", "paid"}
  BY Zenon DEF Commits
<1>2. CASE o \in [state : {"submitted", "rejected", "absent"}, ref : {NoRef}]
  BY Zenon, <1>1, <1>2 DEF Rejected, Submitted
<1>3. CASE o \in [state : {"paid"}, ref : Refs]
  BY Zenon, <1>3 DEF Paid
<1> QED BY <1>1, <1>2, <1>3 DEF Observation, NoAnswer

\* Whatever answer is applied.
LEMMA ApplyStep ==
  ASSUME TInv, NEW b \in Batches, NEW o \in Observation \union {NoAnswer},
         ApplyObservation(b, o), UNCHANGED evidence
  PROVE  TInv'
<1>1. Commits(b, o)
  BY Zenon DEF ApplyObservation
<1>2. CASE o = Rejected
  BY Zenon, <1>2, RejectStep
<1>3. CASE o = Submitted
  BY Zenon, <1>3, SubmitStep
<1>4. ASSUME NEW r \in Refs, o = Paid(r) PROVE TInv'
  BY Zenon, <1>4, PayStep
<1> QED BY Zenon, <1>1, <1>2, <1>3, <1>4, AnswerKinds

\* The tables of two states agree, and so does the invariant.
LEMMA SameTables == TInv /\ UNCHANGED tables => TInv'
BY DEF tables, TInv, Types, Row, Exclusive, Fresh, ProjectionsAgree, EarningsMatch,
       EvidenceMatches, ReversalsWaitForSubmitted, Holding

\* A suspended call is about a batch and holds an observation or nothing.
LEMMA CallIsTyped ==
  ASSUME Wires, NEW c \in Calls, call[c] # Idle
  PROVE  /\ call[c].batch \in Batches
         /\ call[c].answer \in Observation \union {NoAnswer}
BY Zenon DEF Wires, CallRow, IdleCall, Idle

\* Calls and the provider's side keep their types.
LEMMA WiresStep == Wires /\ [Next]_vars => Wires'
<1> SUFFICES ASSUME Wires, [Next]_vars PROVE Wires'
  BY Zenon
<1>1. ASSUME NEW c \in Calls, NEW b \in Batches, Dispatch(c, b) \/ Reconcile(c, b)
      PROVE  Wires'
  BY <1>1 DEF Wires, Dispatch, Reconcile, CallRow, provider, NoAnswer
<1>2. ASSUME NEW c \in Calls, DispatchReturns(c) \/ ReconcileReturns(c)
      PROVE  Wires'
  <2>1. call' = [call EXCEPT ![c] = Idle] /\ UNCHANGED <<request, transfer>>
    BY Zenon, <1>2 DEF DispatchReturns, ReconcileReturns, provider
  <2> QED BY Zenon, <2>1 DEF Wires, CallRow, IdleCall, Idle
<1>3. ASSUME NEW c \in Calls, ProviderAnswers(c)
      PROVE  Wires'
  <2>1. /\ call[c] # Idle /\ UNCHANGED <<request, transfer>>
        /\ \E o \in Observation : call' = [call EXCEPT ![c].answer = o]
    BY ZenonT(60), <1>3, CallIsTyped
       DEF ProviderAnswers, provider, CreateAnswers, LookupAnswers, Report, Observation,
           Submitted, Rejected, Absent, Paid
  <2>2. PICK o \in Observation : call' = [call EXCEPT ![c].answer = o]
    BY Zenon, <2>1
  <2>3. [call[c] EXCEPT !.answer = o] \in CallRow
    BY <2>1 DEF Wires, CallRow, IdleCall, Idle
  <2> QED BY Zenon, <2>1, <2>2, <2>3 DEF Wires
<1>4. CASE Restart
  BY Zenon, <1>4 DEF Restart, provider, Wires, CallRow, IdleCall, Idle
<1>5. ASSUME NEW b \in Batches,
             \/ ProviderCreates(b) \/ ProviderRefuses(b) \/ RequestIsLost(b)
             \/ TransferSettles(b) \/ TransferIsReversed(b)
      PROVE  Wires'
  BY Zenon, <1>5 DEF ProviderCreates, ProviderRefuses, RequestIsLost, TransferSettles,
              TransferIsReversed, Wires
<1>6. CASE UNCHANGED <<call, request, transfer>>
  BY Zenon, <1>6 DEF Wires
<1> QED
  BY Zenon, <1>1, <1>2, <1>3, <1>4, <1>5, <1>6
     DEF Next, vars, provider, RecordAcceptedReceipt, RecordEarningReversal, Prepare,
         CancelPrepared, RecordSettlement

\* Every step keeps the table invariant.
LEMMA TablesStep == TInv /\ Wires /\ [Next]_vars => TInv'
<1> SUFFICES ASSUME TInv, Wires, [Next]_vars PROVE TInv'
  BY Zenon
<1>1. ASSUME NEW e \in Earnings, RecordAcceptedReceipt(e) \/ RecordEarningReversal(e)
      PROVE  TInv'
  BY Zenon, <1>1, ReceiptStep, ReversalStep
<1>2. ASSUME NEW b \in Batches, NEW items \in SUBSET Earnings, Prepare(b, items)
      PROVE  TInv'
  BY Zenon, <1>2, PrepareStep
<1>3. ASSUME NEW b \in Batches, CancelPrepared(b)
      PROVE  TInv'
  <2>1. /\ batch[b].status = "prepared" /\ Release(b)
        /\ op[b].state \in {"none", "rejected"} /\ ~op[b].ext /\ op[b].ref = NoRef
        /\ op' = op /\ UNCHANGED <<reversal, evidence>>
    BY Zenon, <1>3 DEF CancelPrepared, Cancellable, TInv, Fresh
  <2>2. op[b] \in OpRow /\ op' = [op EXCEPT ![b] = op[b]]
    BY Zenon, <2>1 DEF TInv, Types
  <2> QED BY Zenon, <2>1, <2>2, ReleaseStep
<1>4. ASSUME NEW c \in Calls, NEW b \in Batches, Dispatch(c, b)
      PROVE  TInv'
  BY Zenon, <1>4, DispatchStep
<1>5. ASSUME NEW c \in Calls, DispatchReturns(c) \/ ReconcileReturns(c)
      PROVE  TInv'
  <2>1. call[c] # Idle /\ UNCHANGED evidence
    BY <1>5 DEF DispatchReturns, ReconcileReturns, Idle
  <2>2. /\ call[c].batch \in Batches
        /\ call[c].answer \in Observation \union {NoAnswer}
    BY Zenon, <2>1, CallIsTyped
  <2>3. \/ ApplyObservation(call[c].batch, call[c].answer)
        \/ MarkUncertain(call[c].batch)
        \/ UNCHANGED tables
    BY Zenon, <1>5, <2>1 DEF DispatchReturns, ReconcileReturns, tables
  <2> QED BY Zenon, <2>1, <2>2, <2>3, ApplyStep, UncertainStep, SameTables
<1>6. ASSUME NEW b \in Batches, NEW r \in Refs, RecordSettlement(b, r)
      PROVE  TInv'
  BY Zenon, <1>6, PayStep DEF RecordSettlement
<1>7. CASE UNCHANGED tables
  BY Zenon, <1>7, SameTables
<1> QED
  BY Zenon, <1>1, <1>2, <1>3, <1>4, <1>5, <1>6, <1>7
     DEF Next, vars, tables, Reconcile, ProviderAnswers, Restart, ProviderCreates,
         ProviderRefuses, RequestIsLost, TransferSettles, TransferIsReversed

\* The table invariant holds of every behaviour, whatever the provider says.
THEOREM TablesInvariance == Spec => [](TInv /\ Wires)
<1>1. TInv /\ Wires /\ [Next]_vars => (TInv /\ Wires)'
  BY Zenon, TablesStep, WiresStep
<1> QED BY <1>1, InitTables, PTL DEF Spec

\* The tables, the calls and what the provider holds keep their types.
THEOREM PayoutTypeCorrect == Spec => []TypeOK
<1>1. TInv /\ Wires => TypeOK
  BY Zenon DEF TInv, Types, Row, Wires, TypeOK
<1> QED BY <1>1, TablesInvariance, PTL

\* The operation, the batch and the earnings of a payout never disagree, for
\* any number of payouts and of concurrent dispatch and reconcile calls.
THEOREM TablesAgree == Spec => []ProjectionsAgree
BY TablesInvariance, PTL DEF TInv

\* recordSettlement leaves evidence only beside the settlement it proves.
THEOREM EvidenceIsBound == Spec => []EvidenceMatches
BY TablesInvariance, PTL DEF TInv

\* A reversal that waits will be met by the markPaid of its batch.
THEOREM ReversalsAreMet == Spec => []ReversalsWaitForSubmitted
BY TablesInvariance, PTL DEF TInv

-----------------------------------------------------------------------------
(* Sums over finite sets.                                                  *)

\* Complete induction over a set of naturals.
LEMMA Naturally ==
    ASSUME NEW G, \A n \in Nat : (\A m \in Nat : m < n => m \in G) => n \in G
    PROVE  \A n \in Nat : n \in G
<1>1. SUFFICES ASSUME Nat \ G # {} PROVE FALSE
  BY Zenon
<1>2. PICK x \in Nat \ G : \A y \in Nat \ G : ~(<<y, x>> \in OpToRel(<, Nat))
  <2>1. Nat \ G \subseteq Nat
    BY Zenon
  <2> QED
    BY <1>1, <2>1, NatLessThanWellFounded, WFMin, Zenon
<1>3. ASSUME NEW y \in Nat, y < x PROVE y \in G
  <2>1. <<y, x>> \in Nat \X Nat /\ <<y, x>>[1] = y /\ <<y, x>>[2] = x
    BY Zenon
  <2>2. <<y, x>> \in OpToRel(<, Nat)
    BY <1>3, <2>1, Zenon DEF OpToRel
  <2> QED
    BY <1>2, <2>2, Zenon
<1> QED
  BY <1>3, Zenon

\* The recursive function in the definition of SumFunctionOnSet.
Pick(t) == CHOOSE x \in t : TRUE
Body(g, f, t) == IF t = {} THEN 0 ELSE f[Pick(t)] + g[t \ {Pick(t)}]
Sums(g, f, S) == g = [t \in SUBSET S |-> Body(g, f, t)]

LEMMA PickIsIn == \A t : t # {} => Pick(t) \in t
BY Zenon DEF Pick

\* A picked element makes a finite set one smaller.
LEMMA OneLess ==
    ASSUME NEW t, IsFiniteSet(t), NEW x \in t
    PROVE  /\ IsFiniteSet(t \ {x}) /\ Cardinality(t) \in Nat /\ Cardinality(t \ {x}) \in Nat
           /\ Cardinality(t \ {x}) + 1 = Cardinality(t)
<1>1. IsFiniteSet(t \ {x}) /\ Cardinality(t \ {x}) = Cardinality(t) - 1
  BY FS_RemoveElement, Zenon
<1>2. Cardinality(t) \in Nat /\ Cardinality(t \ {x}) \in Nat
  BY <1>1, FS_CardinalityType, Zenon
<1>3. \A a, b \in Nat : b = a - 1 => b + 1 = a
  OBVIOUS
<1> QED
  BY <1>1, <1>2, <1>3, Zenon

LEMMA SumsExist ==
    ASSUME NEW f, NEW S, IsFiniteSet(S)
    PROVE  \E g : Sums(g, f, S)
<1> DEFINE D(n) == {t \in SUBSET S : Cardinality(t) <= n}
           G == {n \in Nat : \E g : g = [t \in D(n) |-> Body(g, f, t)]}
<1>1. ASSUME NEW n \in Nat, \A m \in Nat : m < n => m \in G
      PROVE  n \in G
  <2>1. CASE n = 0
    <3>1. \A t \in D(0) : t = {}
      <4>1. \A a \in Nat : a <= 0 => a = 0
        OBVIOUS
      <4> QED
        BY <4>1, FS_Subset, FS_CardinalityType, FS_EmptySet, Zenon
    <3> DEFINE g == [t \in D(0) |-> 0]
    <3>2. g = [t \in D(0) |-> Body(g, f, t)]
      BY <3>1, Zenon DEF Body
    <3> QED
      BY <2>1, <3>2, Zenon
  <2>2. CASE n # 0
    <3>1. PICK m \in Nat : n = m + 1 /\ m < n
      <4>1. n - 1 \in Nat /\ n = (n - 1) + 1 /\ n - 1 < n
        BY <2>2
      <4> QED
        BY <4>1, Zenon
    <3>2. PICK g : g = [t \in D(m) |-> Body(g, f, t)]
      BY <3>1, <1>1, Zenon
    <3> DEFINE h == [t \in D(n) |-> Body(g, f, t)]
    <3>3. ASSUME NEW t \in D(n), t # {} PROVE t \ {Pick(t)} \in D(m) /\ t \ {Pick(t)} \in D(n)
      <4>1. IsFiniteSet(t) /\ Pick(t) \in t
        BY <3>3, FS_Subset, PickIsIn, Zenon
      <4>2. PICK a \in Nat, b \in Nat : a = Cardinality(t) /\ b = Cardinality(t \ {Pick(t)}) /\ b + 1 = a
        BY <4>1, OneLess, Zenon
      <4>3. \A c, d, e, k \in Nat : d + 1 = c /\ c <= e /\ e = k + 1 => d <= k /\ d <= e
        OBVIOUS
      <4>4. b <= m /\ b <= n
        BY <3>1, <4>2, <4>3, Zenon
      <4> QED
        BY <4>2, <4>4, Zenon
    <3>4. \A t \in D(m) : t \in D(n) => h[t] = g[t]
      BY <3>2, Zenon
    <3>5. \A t \in D(n) : Body(g, f, t) = Body(h, f, t)
      BY <3>3, <3>4, Zenon DEF Body
    <3>6. h = [t \in D(n) |-> Body(h, f, t)]
      BY <3>5, Zenon
    <3> QED
      BY <3>6, Zenon
  <2> QED
    BY <2>1, <2>2, Zenon
<1>2. \A n \in Nat : n \in G
  <2> HIDE DEF G
  <2> QED
    BY <1>1, Naturally, Zenon
<1>3. Cardinality(S) \in Nat
  BY FS_CardinalityType, Zenon
<1>4. D(Cardinality(S)) = SUBSET S
  BY FS_Subset, Zenon
<1> QED
  BY <1>2, <1>3, <1>4, Zenon DEF Sums

\* So the sum of f over S is what such a function says of S.
LEMMA SumIsSums ==
    ASSUME NEW f, NEW S, IsFiniteSet(S)
    PROVE  \E g : Sums(g, f, S) /\ SumFunctionOnSet(f, S) = g[S]
<1> DEFINE it == CHOOSE g : Sums(g, f, S)
<1>1. Sums(it, f, S)
  <2>1. \E g : Sums(g, f, S)
    BY SumsExist, Zenon
  <2> QED
    BY <2>1, Zenon
<1>2. SumFunctionOnSet(f, S) = it[S]
  BY Zenon DEF SumFunctionOnSet, FoldFunctionOnSet, MapThenFoldSet, Sums, Body, Pick
<1> QED
  BY <1>1, <1>2, Zenon

\* Such functions agree wherever what they sum does.
LEMMA SumsAgree ==
    ASSUME NEW f, NEW S, IsFiniteSet(S), NEW g, Sums(g, f, S),
           NEW k, NEW T, NEW h, Sums(h, k, T),
           NEW u \in SUBSET S, u \in SUBSET T, \A x \in u : f[x] = k[x]
    PROVE  g[u] = h[u]
<1> DEFINE G == {n \in Nat : \A t \in SUBSET S : Cardinality(t) = n /\ t \subseteq T /\ (\A x \in t : f[x] = k[x]) => g[t] = h[t]}
<1>1. ASSUME NEW n \in Nat, \A m \in Nat : m < n => m \in G
      PROVE  n \in G
  <2>1. SUFFICES ASSUME NEW t \in SUBSET S, Cardinality(t) = n, t \subseteq T, \A x \in t : f[x] = k[x]
                 PROVE  g[t] = h[t]
    BY Zenon
  <2>2. g[t] = Body(g, f, t) /\ h[t] = Body(h, k, t)
    BY <2>1, Zenon DEF Sums
  <2>3. CASE t = {}
    BY <2>2, <2>3, Zenon DEF Body
  <2>4. CASE t # {}
    <3>1. IsFiniteSet(t) /\ Pick(t) \in t
      BY <2>4, FS_Subset, PickIsIn, Zenon
    <3>2. PICK b \in Nat : b = Cardinality(t \ {Pick(t)}) /\ b + 1 = n
      BY <2>1, <3>1, OneLess, Zenon
    <3>3. \A a, c \in Nat : a + 1 = c => a < c
      OBVIOUS
    <3>4. b \in G
      BY <1>1, <3>2, <3>3, Zenon
    <3>5. g[t \ {Pick(t)}] = h[t \ {Pick(t)}]
      BY <2>1, <3>2, <3>4, Zenon
    <3> QED
      BY <2>1, <2>2, <2>4, <3>1, <3>5, Zenon DEF Body
  <2> QED
    BY <2>3, <2>4, Zenon
<1>2. \A n \in Nat : n \in G
  <2> HIDE DEF G
  <2> QED
    BY <1>1, Naturally, Zenon
<1> QED
  BY <1>2, FS_Subset, FS_CardinalityType, Zenon

\* The sum over the empty set, the sum over a set from one of its elements, and
\* sums of functions that agree.
LEMMA SumOfNone == \A f : SumFunctionOnSet(f, {}) = 0
<1> SUFFICES ASSUME NEW f PROVE SumFunctionOnSet(f, {}) = 0
  BY Zenon
<1>1. PICK g : Sums(g, f, {}) /\ SumFunctionOnSet(f, {}) = g[{}]
  BY SumIsSums, FS_EmptySet, Zenon
<1>2. {} \in SUBSET {}
  BY Zenon
<1> QED
  BY <1>1, <1>2, Zenon DEF Sums, Body

LEMMA SumAgrees ==
    ASSUME NEW f, NEW k, NEW S, IsFiniteSet(S), \A x \in S : f[x] = k[x]
    PROVE  SumFunctionOnSet(f, S) = SumFunctionOnSet(k, S)
<1>1. PICK g : Sums(g, f, S) /\ SumFunctionOnSet(f, S) = g[S]
  BY SumIsSums, Zenon
<1>2. PICK h : Sums(h, k, S) /\ SumFunctionOnSet(k, S) = h[S]
  BY SumIsSums, Zenon
<1>3. S \in SUBSET S
  BY Zenon
<1>4. g[S] = h[S]
  BY <1>1, <1>2, <1>3, SumsAgree, SMT
<1> QED
  BY <1>1, <1>2, <1>4, Zenon

LEMMA SumPicks ==
    ASSUME NEW f, NEW S, IsFiniteSet(S), S # {}
    PROVE  SumFunctionOnSet(f, S) = f[Pick(S)] + SumFunctionOnSet(f, S \ {Pick(S)})
<1> DEFINE T == S \ {Pick(S)}
<1>0. T \in SUBSET S /\ T \in SUBSET T /\ IsFiniteSet(T)
  BY FS_RemoveElement, Zenon
<1> HIDE DEF T
<1>1. PICK g : Sums(g, f, S) /\ SumFunctionOnSet(f, S) = g[S]
  BY SumIsSums, Zenon
<1>2. PICK h : Sums(h, f, T) /\ SumFunctionOnSet(f, T) = h[T]
  BY <1>0, SumIsSums, Zenon
<1>3. g[T] = h[T]
  <2>1. \A x \in T : f[x] = f[x]
    BY Zenon
  <2> QED
    BY <1>0, <1>1, <1>2, <2>1, SumsAgree, SMT
<1>4. g[S] = Body(g, f, S)
  <2>1. S \in SUBSET S
    BY Zenon
  <2> QED
    BY <1>1, <2>1, Zenon DEF Sums
<1> QED
  BY <1>1, <1>2, <1>3, <1>4, Zenon DEF Body, T

\* Sums of integers are integers, those of naturals naturals.
LEMMA SumIsNumber ==
    ASSUME NEW N \in {Nat, Int, {0}}, NEW f, NEW S, IsFiniteSet(S), \A x \in S : f[x] \in N
    PROVE  SumFunctionOnSet(f, S) \in N
<1> DEFINE G == {n \in Nat : \A t \in SUBSET S : Cardinality(t) = n => SumFunctionOnSet(f, t) \in N}
<1>0. 0 \in N /\ \A a, b \in N : a + b \in N
  <2>1. CASE N = Nat
    BY <2>1
  <2>2. CASE N = Int
    BY <2>2
  <2>3. CASE N = {0}
    BY <2>3
  <2> QED
    BY <2>1, <2>2, <2>3, Zenon
<1>1. ASSUME NEW n \in Nat, \A m \in Nat : m < n => m \in G
      PROVE  n \in G
  <2>1. SUFFICES ASSUME NEW t \in SUBSET S, Cardinality(t) = n
                 PROVE  SumFunctionOnSet(f, t) \in N
    BY Zenon
  <2>2. CASE t = {}
    BY <1>0, <2>2, SumOfNone, Zenon
  <2>3. CASE t # {}
    <3>1. IsFiniteSet(t) /\ Pick(t) \in t
      BY <2>3, FS_Subset, PickIsIn, Zenon
    <3>2. PICK b \in Nat : b = Cardinality(t \ {Pick(t)}) /\ b + 1 = n
      BY <2>1, <3>1, OneLess, Zenon
    <3>3. \A a, c \in Nat : a + 1 = c => a < c
      OBVIOUS
    <3>4. b \in G
      BY <1>1, <3>2, <3>3, Zenon
    <3>5. SumFunctionOnSet(f, t \ {Pick(t)}) \in N
      BY <3>2, <3>4, Zenon
    <3>6. SumFunctionOnSet(f, t) = f[Pick(t)] + SumFunctionOnSet(f, t \ {Pick(t)})
      BY <2>3, <3>1, SumPicks, Zenon
    <3> QED
      BY <1>0, <3>1, <3>5, <3>6, Zenon
  <2> QED
    BY <2>2, <2>3, Zenon
<1>2. \A n \in Nat : n \in G
  <2> HIDE DEF G
  <2> QED
    BY <1>1, Naturally, Zenon
<1> QED
  BY <1>2, FS_CardinalityType, Zenon

\* A sum from any of its elements.
LEMMA SumTakes ==
    ASSUME NEW f, NEW S, IsFiniteSet(S), \A x \in S : f[x] \in Int
    PROVE  \A x \in S : SumFunctionOnSet(f, S) = f[x] + SumFunctionOnSet(f, S \ {x})
<1> DEFINE G == {n \in Nat : \A t \in SUBSET S : Cardinality(t) = n =>
                    \A x \in t : SumFunctionOnSet(f, t) = f[x] + SumFunctionOnSet(f, t \ {x})}
<1>1. ASSUME NEW n \in Nat, \A m \in Nat : m < n => m \in G
      PROVE  n \in G
  <2>1. SUFFICES ASSUME NEW t \in SUBSET S, Cardinality(t) = n, NEW x \in t
                 PROVE  SumFunctionOnSet(f, t) = f[x] + SumFunctionOnSet(f, t \ {x})
    BY Zenon
  <2>2. PICK p : p = Pick(t)
    BY Zenon
  <2>3. IsFiniteSet(t) /\ p \in t
    BY <2>2, FS_Subset, PickIsIn, Zenon
  <2>4. SumFunctionOnSet(f, t) = f[p] + SumFunctionOnSet(f, t \ {p})
    BY <2>2, <2>3, SumPicks, Zenon
  <2>5. CASE x # p
    <3>1. \A y \in t : \E b \in Nat : b = Cardinality(t \ {y}) /\ b + 1 = n
      BY <2>1, <2>3, OneLess, Zenon
    <3>2. \A a, c \in Nat : a + 1 = c => a < c
      OBVIOUS
    <3>3. \A y \in t : \E b \in G : b = Cardinality(t \ {y})
      BY <1>1, <3>1, <3>2, Zenon
    <3>4. \A y \in t, z \in t : y # z =>
             SumFunctionOnSet(f, t \ {y}) = f[z] + SumFunctionOnSet(f, (t \ {y}) \ {z})
      <4>1. SUFFICES ASSUME NEW y \in t, NEW z \in t, y # z
                     PROVE  SumFunctionOnSet(f, t \ {y}) = f[z] + SumFunctionOnSet(f, (t \ {y}) \ {z})
        BY Zenon
      <4>2. t \ {y} \in SUBSET S /\ z \in t \ {y}
        BY <4>1, Zenon
      <4> QED
        BY <3>3, <4>2, Zenon
    <3>5. (t \ {p}) \ {x} = (t \ {x}) \ {p}
      BY Zenon
    <3>6. PICK u : u = SumFunctionOnSet(f, (t \ {p}) \ {x})
      BY Zenon
    <3>7. /\ SumFunctionOnSet(f, t \ {p}) = f[x] + u
          /\ SumFunctionOnSet(f, t \ {x}) = f[p] + u
      BY <2>3, <2>5, <3>4, <3>5, <3>6, Zenon
    <3>8. u \in Int
      <4>1. IsFiniteSet((t \ {p}) \ {x}) /\ \A y \in (t \ {p}) \ {x} : f[y] \in Int
        BY <2>3, FS_RemoveElement, Zenon
      <4>2. Int \in {Nat, Int, {0}}
        BY Zenon
      <4> QED
        BY <3>6, <4>1, <4>2, SumIsNumber, Zenon
    <3>9. f[x] \in Int /\ f[p] \in Int
      BY <2>3, Zenon
    <3>10. \A a, b, c \in Int : a + (b + c) = b + (a + c)
      OBVIOUS
    <3>11. f[p] + (f[x] + u) = f[x] + (f[p] + u)
      BY <3>8, <3>9, <3>10, Zenon
    <3> QED
      BY <2>4, <3>7, <3>11, Zenon
  <2> QED
    BY <2>4, <2>5, Zenon
<1>2. \A n \in Nat : n \in G
  <2> HIDE DEF G
  <2> QED
    BY <1>1, Naturally, Zenon
<1>3. S \in SUBSET S /\ Cardinality(S) \in Nat
  BY FS_CardinalityType, Zenon
<1> QED
  BY <1>2, <1>3, Zenon

\* One more element, and one whose value changes.
LEMMA SumAdds ==
    ASSUME NEW f, NEW S, IsFiniteSet(S), NEW x, x \notin S, \A y \in S \union {x} : f[y] \in Int
    PROVE  SumFunctionOnSet(f, S \union {x}) = f[x] + SumFunctionOnSet(f, S)
<1>1. IsFiniteSet(S \union {x}) /\ x \in S \union {x} /\ (S \union {x}) \ {x} = S
  BY FS_AddElement, Zenon
<1> QED
  BY <1>1, SumTakes, SMT

LEMMA SumChanges ==
    ASSUME NEW f, NEW k, NEW S, IsFiniteSet(S), NEW x \in S,
           \A y \in S : f[y] \in Int /\ k[y] \in Int /\ (y # x => f[y] = k[y])
    PROVE  SumFunctionOnSet(k, S) = SumFunctionOnSet(f, S) + (k[x] - f[x])
<1>1. /\ SumFunctionOnSet(f, S) = f[x] + SumFunctionOnSet(f, S \ {x})
      /\ SumFunctionOnSet(k, S) = k[x] + SumFunctionOnSet(k, S \ {x})
  BY SumTakes, SMT
<1>2. IsFiniteSet(S \ {x}) /\ Int \in {Nat, Int, {0}}
  BY FS_RemoveElement, Zenon
<1>3. SumFunctionOnSet(f, S \ {x}) = SumFunctionOnSet(k, S \ {x})
  BY <1>2, SumAgrees, SMT
<1>4. SumFunctionOnSet(f, S \ {x}) \in Int
  BY <1>2, SumIsNumber, Zenon
<1>5. \A a, b, c \in Int : a + c = (b + c) + (a - b)
  OBVIOUS
<1>6. k[x] + SumFunctionOnSet(f, S \ {x}) = (f[x] + SumFunctionOnSet(f, S \ {x})) + (k[x] - f[x])
  BY <1>4, <1>5, Zenon
<1> QED
  BY <1>1, <1>3, <1>6, Zenon

\* Sums over disjoint sets add up.
LEMMA SumJoins ==
    ASSUME NEW f, NEW S, IsFiniteSet(S), NEW T, IsFiniteSet(T), S \intersect T = {},
           \A x \in S \union T : f[x] \in Int
    PROVE  SumFunctionOnSet(f, S \union T) = SumFunctionOnSet(f, S) + SumFunctionOnSet(f, T)
<1> DEFINE G == {n \in Nat : \A t \in SUBSET T : Cardinality(t) = n =>
                    SumFunctionOnSet(f, S \union t) = SumFunctionOnSet(f, S) + SumFunctionOnSet(f, t)}
<1>0. \A t \in SUBSET T : /\ IsFiniteSet(t) /\ IsFiniteSet(S \union t)
                          /\ SumFunctionOnSet(f, S) \in Int /\ SumFunctionOnSet(f, t) \in Int
  <2>1. Int \in {Nat, Int, {0}}
    BY Zenon
  <2> SUFFICES ASSUME NEW t \in SUBSET T
               PROVE  /\ IsFiniteSet(t) /\ IsFiniteSet(S \union t)
                      /\ SumFunctionOnSet(f, S) \in Int /\ SumFunctionOnSet(f, t) \in Int
    BY Zenon
  <2>2. IsFiniteSet(t) /\ IsFiniteSet(S \union t)
    BY FS_Subset, FS_Union, Zenon
  <2>3. SumFunctionOnSet(f, S) \in Int
    BY <2>1, SumIsNumber, Zenon
  <2>4. SumFunctionOnSet(f, t) \in Int
    BY <2>1, <2>2, SumIsNumber, Zenon
  <2> QED
    BY <2>2, <2>3, <2>4, Zenon
<1>1. ASSUME NEW n \in Nat, \A m \in Nat : m < n => m \in G
      PROVE  n \in G
  <2>1. SUFFICES ASSUME NEW t \in SUBSET T, Cardinality(t) = n
                 PROVE  SumFunctionOnSet(f, S \union t) = SumFunctionOnSet(f, S) + SumFunctionOnSet(f, t)
    BY Zenon
  <2>2. CASE t = {}
    <3>1. S \union t = S /\ SumFunctionOnSet(f, t) = 0
      BY <2>2, SumOfNone, Zenon
    <3>2. \A a \in Int : a = a + 0
      OBVIOUS
    <3> QED
      BY <1>0, <3>1, <3>2, Zenon
  <2>3. CASE t # {}
    <3>1. PICK p \in t : TRUE
      BY <2>3, Zenon
    <3>2. PICK b \in Nat : b = Cardinality(t \ {p}) /\ b + 1 = n
      BY <1>0, <2>1, OneLess, Zenon
    <3>3. \A a, c \in Nat : a + 1 = c => a < c
      OBVIOUS
    <3>4. b \in G
      BY <1>1, <3>2, <3>3, Zenon
    <3>5. SumFunctionOnSet(f, S \union (t \ {p})) = SumFunctionOnSet(f, S) + SumFunctionOnSet(f, t \ {p})
      BY <3>2, <3>4, Zenon
    <3>6. p \in S \union t /\ (S \union t) \ {p} = S \union (t \ {p})
      BY Zenon
    <3>7. SumFunctionOnSet(f, S \union t) = f[p] + SumFunctionOnSet(f, S \union (t \ {p}))
      <4>1. PICK u : u = S \union t
        BY Zenon
      <4>2. IsFiniteSet(u) /\ p \in u /\ u \ {p} = S \union (t \ {p})
        BY <1>0, <3>6, <4>1, Zenon
      <4>3. \A x \in u : f[x] \in Int
        BY <4>1, Zenon
      <4>4. SumFunctionOnSet(f, u) = f[p] + SumFunctionOnSet(f, u \ {p})
        BY <4>2, <4>3, SumTakes, SMT
      <4> QED
        BY <4>1, <4>2, <4>4, Zenon
    <3>8. SumFunctionOnSet(f, t) = f[p] + SumFunctionOnSet(f, t \ {p})
      <4>1. IsFiniteSet(t) /\ \A x \in t : f[x] \in Int
        BY <1>0, Zenon
      <4> QED
        BY <4>1, SumTakes, SMT
    <3>9. f[p] \in Int /\ SumFunctionOnSet(f, S) \in Int /\ SumFunctionOnSet(f, t \ {p}) \in Int
      <4>1. t \ {p} \in SUBSET T
        BY Zenon
      <4> QED
        BY <1>0, <4>1, Zenon
    <3>10. \A a, c, d \in Int : a + (c + d) = c + (a + d)
      OBVIOUS
    <3>11. f[p] + (SumFunctionOnSet(f, S) + SumFunctionOnSet(f, t \ {p}))
             = SumFunctionOnSet(f, S) + (f[p] + SumFunctionOnSet(f, t \ {p}))
      BY <3>9, <3>10, Zenon
    <3> QED
      BY <3>5, <3>7, <3>8, <3>11, Zenon
  <2> QED
    BY <2>2, <2>3, Zenon
<1>2. \A n \in Nat : n \in G
  <2> HIDE DEF G
  <2> QED
    BY <1>1, Naturally, Zenon
<1>3. T \in SUBSET T /\ Cardinality(T) \in Nat
  BY FS_CardinalityType, Zenon
<1> QED
  BY <1>2, <1>3, Zenon

-----------------------------------------------------------------------------
(* What the seller owes.                                                   *)

Offsets == [b \in Batches |-> batch[b].offset]
Standing == {b \in Batches : batch[b].status # "cancelled"}
Owed == {e \in Earnings : reversal[e] = "seller_debt"}

\* The debt and the offsets are amounts, an id without a batch offsets nothing,
\* and the debt outstanding and the debt offset are what reversals made.
DInv ==
  /\ debt \in Nat
  /\ \A b \in Batches : /\ batch[b].offset \in Nat
                        /\ batch[b].status = "none" => batch[b].offset = 0
  /\ DebtBalances

\* What is summed is finite and numbers.
LEMMA Amounts ==
  /\ \A S \in SUBSET Earnings : IsFiniteSet(S) /\ Sum(S) \in Nat
  /\ \A e \in Earnings : Amount[e] \in Int
<1>1. \A e \in Earnings : Amount[e] \in Nat /\ Amount[e] \in Int
  BY PayoutConstants, SMT
<1>2. Nat \in {Nat, Int, {0}}
  BY Zenon
<1>3. ASSUME NEW S \in SUBSET Earnings PROVE IsFiniteSet(S) /\ Sum(S) \in Nat
  <2>1. IsFiniteSet(S)
    BY PayoutConstants, FS_Subset, Zenon
  <2> QED
    BY <1>1, <1>2, <2>1, SumIsNumber, Zenon DEF Sum
<1> QED
  BY <1>1, <1>3, Zenon

LEMMA Totals ==
  ASSUME DInv
  PROVE  /\ IsFiniteSet(Standing) /\ SumFunctionOnSet(Offsets, Standing) \in Nat
         /\ \A b \in Batches : Offsets[b] = batch[b].offset /\ Offsets[b] \in Nat /\ Offsets[b] \in Int
         /\ debt \in Nat
         /\ debt + SumFunctionOnSet(Offsets, Standing) = Sum(Owed)
         /\ Owed \in SUBSET Earnings
<1>1. IsFiniteSet(Standing)
  BY PayoutConstants, FS_Subset, Zenon DEF Standing
<1>2. \A b \in Batches : Offsets[b] = batch[b].offset /\ Offsets[b] \in Nat
  BY Zenon DEF DInv, Offsets
<1>3. \A n \in Nat : n \in Int
  OBVIOUS
<1>4. Nat \in {Nat, Int, {0}} /\ \A b \in Standing : Offsets[b] \in Nat
  BY <1>2, Zenon DEF Standing
<1>5. SumFunctionOnSet(Offsets, Standing) \in Nat
  BY <1>1, <1>4, SumIsNumber, Zenon
<1>6. debt \in Nat /\ debt + SumFunctionOnSet(Offsets, Standing) = Sum(Owed)
  BY Zenon DEF DInv, DebtBalances, Offsets, Standing, Owed
<1> QED
  BY <1>1, <1>2, <1>3, <1>5, <1>6, Zenon DEF Owed

\* A step that moves no debt.
LEMMA DebtStays ==
  ASSUME DInv, UNCHANGED <<debt, reversal>>,
         \A b \in Batches : /\ batch'[b].offset = batch[b].offset
                            /\ batch'[b].status = "cancelled" <=> batch[b].status = "cancelled"
                            /\ batch'[b].status = "none" => batch[b].status = "none"
  PROVE  DInv'
<1>1. Standing' = Standing /\ Offsets' = Offsets /\ Owed' = Owed
  BY Zenon DEF Standing, Offsets, Owed
<1>2. DebtBalances'
  BY <1>1, Zenon DEF DInv, DebtBalances, Standing, Offsets, Owed
<1> QED
  BY <1>2, Zenon DEF DInv

\* The balance of the next state, from what became of its parts.
LEMMA DebtMoves ==
  ASSUME debt' \in Nat,
         \A b \in Batches : /\ batch'[b].offset \in Nat
                            /\ batch'[b].status = "none" => batch'[b].offset = 0,
         debt' + SumFunctionOnSet(Offsets', Standing') = Sum(Owed')
  PROVE  DInv'
<1>1. \A n \in Nat : n >= 0
  OBVIOUS
<1>2. debt' >= 0 /\ \A b \in Batches : batch'[b].offset >= 0
  BY <1>1, Zenon
<1> QED
  BY <1>2, Zenon DEF DInv, DebtBalances, Offsets, Standing, Owed

\* A reversal makes a debt when the earning was paid.
LEMMA DebtReversal ==
  ASSUME TInv, DInv, NEW e \in Earnings, RecordEarningReversal(e)
  PROVE  DInv'
<1>1. /\ reversal[e] = "none" /\ batch' = batch
      /\ reversal' = [reversal EXCEPT ![e] = ReversalState(e)]
      /\ debt' = IF ReversalState(e) = "seller_debt" THEN debt + Amount[e] ELSE debt
  BY Zenon DEF RecordEarningReversal
<1>2. Standing' = Standing /\ Offsets' = Offsets
  BY <1>1, Zenon DEF Standing, Offsets
<1>3. DOMAIN reversal = Earnings
  BY Zenon DEF TInv, Types
<1>4. CASE ReversalState(e) = "seller_debt"
  <2>1. Owed' = Owed \union {e} /\ e \notin Owed
    BY <1>1, <1>3, <1>4, Zenon DEF Owed
  <2>2. Sum(Owed \union {e}) = Amount[e] + Sum(Owed)
    <3>1. IsFiniteSet(Owed) /\ \A y \in Owed \union {e} : Amount[y] \in Int
      BY Amounts, Totals, Zenon
    <3> QED
      BY <2>1, <3>1, SumAdds, SMT DEF Sum
  <2>3. PICK d \in Nat, s \in Nat, a \in Nat, o \in Nat :
           /\ d = debt /\ s = SumFunctionOnSet(Offsets, Standing) /\ a = Amount[e] /\ o = Sum(Owed)
           /\ d + s = o
    <3>1. Amount[e] \in Nat
      BY PayoutConstants, SMT
    <3> QED
      BY <3>1, Amounts, Totals, Zenon
  <2>4. d + a \in Nat /\ (d + a) + s = a + o
    BY <2>3, SMT
  <2>5. debt' \in Nat /\ debt' + SumFunctionOnSet(Offsets', Standing') = Sum(Owed')
    BY <1>1, <1>2, <1>4, <2>1, <2>2, <2>3, <2>4, Zenon
  <2> QED
    BY <1>1, <2>5, DebtMoves, Zenon DEF DInv
<1>5. CASE ReversalState(e) # "seller_debt"
  <2>1. Owed' = Owed
    BY <1>1, <1>3, <1>5, Zenon DEF Owed
  <2>2. debt' \in Nat /\ debt' + SumFunctionOnSet(Offsets', Standing') = Sum(Owed')
    BY <1>1, <1>2, <1>5, <2>1, Totals, Zenon
  <2> QED
    BY <1>1, <2>2, DebtMoves, Zenon DEF DInv
<1> QED
  BY <1>4, <1>5, Zenon

\* A new batch offsets what is owed, up to its gross.
LEMMA DebtPrepare ==
  ASSUME TInv, DInv, NEW b \in Batches, NEW items \in SUBSET Earnings, Prepare(b, items)
  PROVE  DInv'
<1>1. PICK off : off = Minor(debt, Sum(items))
  BY Zenon
<1>2. /\ batch[b].status = "none" /\ reversal' = reversal
      /\ batch' = [batch EXCEPT ![b].status = "prepared", ![b].items = items, ![b].offset = off]
      /\ debt' = debt - off
  BY <1>1, Zenon DEF Prepare
<1>3. off \in Nat /\ debt - off \in Nat
  <2>1. debt \in Nat /\ Sum(items) \in Nat
    BY Amounts, Totals, Zenon
  <2>2. \A m, n \in Nat : Minor(m, n) \in Nat /\ m - Minor(m, n) \in Nat
    BY SMT DEF Minor
  <2> QED
    BY <1>1, <2>1, <2>2, Zenon
<1>4. /\ batch'[b].status = "prepared" /\ batch'[b].offset = off
      /\ \A d \in Batches : d # b => batch'[d] = batch[d]
  BY <1>2, SMT DEF TInv, Types, Row
<1>5. Standing' = Standing /\ b \in Standing /\ Owed' = Owed
  <2>1. "prepared" # "cancelled" /\ "none" # "cancelled"
    OBVIOUS
  <2>2. \A d \in Batches : batch'[d].status # "cancelled" <=> batch[d].status # "cancelled"
    BY <1>2, <1>4, <2>1, Zenon
  <2> QED
    BY <1>2, <2>1, <2>2, Zenon DEF Standing, Owed
<1>6. /\ Offsets'[b] = off /\ Offsets[b] = 0
      /\ \A y \in Standing : /\ Offsets[y] \in Int /\ Offsets'[y] \in Int
                             /\ y # b => Offsets[y] = Offsets'[y]
  <2>1. \A d \in Batches : Offsets'[d] = batch'[d].offset /\ Offsets[d] = batch[d].offset
    BY Zenon DEF Offsets
  <2>2. \A n \in Nat : n \in Int
    OBVIOUS
  <2> QED
    BY <1>2, <1>3, <1>4, <2>1, <2>2, Totals, Zenon DEF Standing, DInv
<1>7. PICK k : k = Offsets'
  BY Zenon
<1>8. SumFunctionOnSet(k, Standing) = SumFunctionOnSet(Offsets, Standing) + (k[b] - Offsets[b])
  <2>1. IsFiniteSet(Standing)
    BY Totals, Zenon
  <2>2. \A y \in Standing : Offsets[y] \in Int /\ k[y] \in Int /\ (y # b => Offsets[y] = k[y])
    BY <1>6, <1>7, Zenon
  <2> QED
    BY <1>5, <2>1, <2>2, SumChanges, SMT
<1>9. PICK d \in Nat, s \in Nat : /\ d = debt /\ s = SumFunctionOnSet(Offsets, Standing)
                                  /\ d + s = Sum(Owed)
  BY Totals, Zenon
<1>10. (d - off) + (s + (off - 0)) = d + s
  BY <1>3, <1>9, SMT
<1>11. debt' \in Nat /\ debt' + SumFunctionOnSet(Offsets', Standing') = Sum(Owed')
  BY <1>2, <1>3, <1>5, <1>6, <1>7, <1>8, <1>9, <1>10, Zenon
<1>12. \A e \in Batches : /\ batch'[e].offset \in Nat
                          /\ batch'[e].status = "none" => batch'[e].offset = 0
  <2>1. "prepared" # "none"
    OBVIOUS
  <2> QED
    BY <1>3, <1>4, <2>1, Zenon DEF DInv
<1> QED
  BY <1>11, <1>12, DebtMoves, Zenon

\* A released batch gives its offset back.
LEMMA DebtRelease ==
  ASSUME TInv, DInv, NEW b \in Batches, batch[b].status = "prepared", Release(b),
         reversal' = reversal
  PROVE  DInv'
<1>1. /\ batch' = [batch EXCEPT ![b].status = "cancelled"] /\ debt' = debt + batch[b].offset
  BY Zenon DEF Release
<1>2. /\ batch'[b].status = "cancelled" /\ batch'[b].offset = batch[b].offset
      /\ \A d \in Batches : d # b => batch'[d] = batch[d]
  BY <1>1, SMT DEF TInv, Types, Row
<1>3. "prepared" # "cancelled" /\ "cancelled" # "none"
  OBVIOUS
<1>4. Standing' = Standing \ {b} /\ b \in Standing /\ Owed' = Owed /\ Offsets' = Offsets
  <2>1. \A d \in Batches : batch'[d].status # "cancelled" <=> batch[d].status # "cancelled" /\ d # b
    BY <1>2, Zenon
  <2>2. \A d \in Batches : batch'[d].offset = batch[d].offset
    BY <1>2, Zenon
  <2> QED
    BY <1>3, <2>1, <2>2, Zenon DEF Standing, Owed, Offsets
<1>5. SumFunctionOnSet(Offsets, Standing) = Offsets[b] + SumFunctionOnSet(Offsets, Standing \ {b})
  <2>1. IsFiniteSet(Standing) /\ \A x \in Standing : Offsets[x] \in Int
    BY Totals, Zenon DEF Standing
  <2> QED
    BY <1>4, <2>1, SumTakes, SMT
<1>6. SumFunctionOnSet(Offsets, Standing \ {b}) \in Nat
  <2>1. /\ IsFiniteSet(Standing \ {b}) /\ Nat \in {Nat, Int, {0}}
        /\ \A x \in Standing \ {b} : Offsets[x] \in Nat
    BY Totals, FS_RemoveElement, Zenon DEF Standing
  <2> QED
    BY <2>1, SumIsNumber, Zenon
<1>7. PICK d \in Nat, s \in Nat, o \in Nat :
         /\ d = debt /\ s = SumFunctionOnSet(Offsets, Standing \ {b}) /\ o = Offsets[b]
         /\ o = batch[b].offset /\ d + (o + s) = Sum(Owed)
  BY <1>5, <1>6, Totals, Zenon
<1>8. d + o \in Nat /\ (d + o) + s = d + (o + s)
  BY SMT
<1>9. debt' \in Nat /\ debt' + SumFunctionOnSet(Offsets', Standing') = Sum(Owed')
  BY <1>1, <1>4, <1>7, <1>8, Zenon
<1>10. \A e \in Batches : /\ batch'[e].offset \in Nat
                          /\ batch'[e].status = "none" => batch'[e].offset = 0
  BY <1>2, <1>3, Zenon DEF DInv
<1> QED
  BY <1>9, <1>10, DebtMoves, Zenon

\* A settlement turns the reversals that waited for it into debt.
LEMMA DebtSettle ==
  ASSUME TInv, DInv, NEW b \in Batches, Settle(b),
         \A d \in Batches : /\ batch'[d].offset = batch[d].offset
                            /\ batch'[d].status = "cancelled" <=> batch[d].status = "cancelled"
                            /\ batch'[d].status = "none" => batch[d].status = "none"
  PROVE  DInv'
<1>1. PICK waiting : waiting = {e \in batch[b].items : reversal[e] = "pending_payout"}
  BY Zenon
<1>2. /\ reversal' = [e \in Earnings |-> IF e \in waiting THEN "seller_debt" ELSE reversal[e]]
      /\ debt' = debt + Sum(waiting)
  BY <1>1, Zenon DEF Settle
<1>3. waiting \in SUBSET Earnings /\ \A e \in waiting : reversal[e] # "seller_debt"
  <2>1. batch[b].items \in SUBSET Earnings
    BY SMT DEF TInv, Types, Row
  <2>2. "pending_payout" # "seller_debt"
    OBVIOUS
  <2> QED
    BY <1>1, <2>1, <2>2, Zenon
<1>4. /\ Standing' = Standing /\ Offsets' = Offsets
      /\ Owed' = Owed \union waiting /\ Owed \intersect waiting = {}
  <2>1. Standing' = Standing /\ Offsets' = Offsets
    BY Zenon DEF Standing, Offsets
  <2> QED
    BY <1>2, <1>3, <2>1, Zenon DEF Owed
<1>5. Sum(Owed \union waiting) = Sum(Owed) + Sum(waiting)
  <2>1. /\ IsFiniteSet(Owed) /\ IsFiniteSet(waiting)
        /\ \A x \in Owed \union waiting : Amount[x] \in Int
    BY <1>3, Amounts, Totals, Zenon
  <2> QED
    BY <1>4, <2>1, SumJoins, SMT DEF Sum
<1>6. PICK d \in Nat, s \in Nat, w \in Nat :
         /\ d = debt /\ s = SumFunctionOnSet(Offsets, Standing) /\ w = Sum(waiting)
         /\ d + s = Sum(Owed)
  BY <1>3, Amounts, Totals, Zenon
<1>7. d + w \in Nat /\ (d + w) + s = (d + s) + w
  BY SMT
<1>8. debt' \in Nat /\ debt' + SumFunctionOnSet(Offsets', Standing') = Sum(Owed')
  BY <1>2, <1>4, <1>5, <1>6, <1>7, Zenon
<1>9. \A e \in Batches : /\ batch'[e].offset \in Nat
                         /\ batch'[e].status = "none" => batch'[e].offset = 0
  BY Zenon DEF DInv
<1> QED
  BY <1>8, <1>9, DebtMoves, Zenon

\* Whatever answer is applied.
LEMMA DebtApply ==
  ASSUME TInv, DInv, NEW b \in Batches, NEW o \in Observation \union {NoAnswer},
         ApplyObservation(b, o)
  PROVE  DInv'
<1> DEFINE Same == \A d \in Batches :
              /\ batch'[d].offset = batch[d].offset
              /\ batch'[d].status = "cancelled" <=> batch[d].status = "cancelled"
              /\ batch'[d].status = "none" => batch[d].status = "none"
<1>1. Commits(b, o)
  BY Zenon DEF ApplyObservation
<1>2. ASSUME NEW row, batch' = [batch EXCEPT ![b] = row], row.offset = batch[b].offset,
             batch[b].status \in {"prepared", "submitted", "paid"},
             row.status \in {batch[b].status, "submitted", "paid"}
      PROVE  Same
  <2>1. batch'[b] = row /\ \A d \in Batches : d # b => batch'[d] = batch[d]
    BY <1>2, Zenon DEF TInv, Types
  <2>2. /\ row.status # "cancelled" /\ row.status # "none"
        /\ batch[b].status # "cancelled" /\ batch[b].status # "none"
    BY <1>2, Zenon
  <2> QED
    BY <1>2, <2>1, <2>2, Zenon
<1>3. CASE o = Rejected
  <2>1. /\ MayUpdate(b, "rejected", FALSE, NoRef, batch[b])
        /\ reversal' = reversal
        /\ IF op[b].ext \/ batch[b].status = "cancelled"
           THEN UNCHANGED <<batch, earning, debt>> ELSE Release(b)
    BY <1>3, Zenon DEF ApplyObservation, Commits, Rejected
  <2>2. CASE UNCHANGED <<batch, earning, debt>>
    BY <2>1, <2>2, DebtStays, Zenon
  <2>3. CASE ~op[b].ext /\ batch[b].status # "cancelled" /\ Release(b)
    <3> DEFINE new == [state |-> "rejected", ext |-> op[b].ext, ref |-> op[b].ref]
    <3>1. Updated(b, "rejected", FALSE, NoRef) = new
      BY Zenon DEF Updated, TInv, Types, OpRow
    <3>2. Projects(new, batch[b])
      BY Zenon, <2>1, <3>1 DEF MayUpdate
    <3>3. batch[b].status = "prepared"
      BY <2>3, <3>2, Zenon DEF Projects
    <3> QED
      BY <2>1, <2>3, <3>3, DebtRelease, Zenon
  <2> QED
    BY <2>1, <2>2, <2>3, Zenon
<1>4. CASE o = Submitted
  <2>1. /\ batch' = [batch EXCEPT ![b] = MarkSubmitted(batch[b])]
        /\ UNCHANGED <<earning, reversal, debt>>
        /\ batch[b].status \in {"prepared", "submitted", "paid"}
    BY <1>4, Zenon DEF ApplyObservation, Commits, Submitted
  <2>2. /\ MarkSubmitted(batch[b]).offset = batch[b].offset
        /\ MarkSubmitted(batch[b]).status \in {batch[b].status, "submitted", "paid"}
    BY SMT DEF MarkSubmitted, TInv, Types, Row
  <2>3. Same
    BY <1>2, <2>1, <2>2, Zenon
  <2> QED
    BY <2>1, <2>3, DebtStays, Zenon
<1>5. ASSUME NEW r \in Refs, o = Paid(r) PROVE DInv'
  <2> DEFINE row == MarkPaid(MarkSubmitted(batch[b]), r)
  <2>1. /\ batch' = [batch EXCEPT ![b] = row]
        /\ IF batch[b].status = "paid" THEN UNCHANGED <<earning, reversal, debt>> ELSE Settle(b)
        /\ batch[b].status \in {"prepared", "submitted", "paid"}
    BY <1>5, Zenon DEF ApplyObservation, Commits, Paid
  <2>2. row.offset = batch[b].offset /\ row.status \in {batch[b].status, "submitted", "paid"}
    BY SMT DEF MarkPaid, MarkSubmitted, TInv, Types, Row
  <2> HIDE DEF row
  <2>3. Same
    BY <1>2, <2>1, <2>2, Zenon
  <2> QED
    BY <2>1, <2>3, DebtStays, DebtSettle, Zenon
<1> QED
  BY <1>1, <1>3, <1>4, <1>5, AnswerKinds, Zenon

\* Every step keeps the balance.
LEMMA DebtStep == TInv /\ Wires /\ DInv /\ [Next]_vars => DInv'
<1> SUFFICES ASSUME TInv, Wires, DInv, [Next]_vars PROVE DInv'
  BY Zenon
<1>1. ASSUME UNCHANGED <<debt, reversal, batch>> PROVE DInv'
  BY <1>1, DebtStays, Zenon
<1>2. ASSUME NEW e \in Earnings, RecordAcceptedReceipt(e) \/ RecordEarningReversal(e)
      PROVE  DInv'
  BY <1>1, <1>2, DebtReversal, Zenon DEF RecordAcceptedReceipt
<1>3. ASSUME NEW b \in Batches, NEW items \in SUBSET Earnings, Prepare(b, items)
      PROVE  DInv'
  BY <1>3, DebtPrepare, Zenon
<1>4. ASSUME NEW b \in Batches, CancelPrepared(b)
      PROVE  DInv'
  BY <1>4, DebtRelease, Zenon DEF CancelPrepared, Cancellable
<1>5. ASSUME NEW c \in Calls, DispatchReturns(c) \/ ReconcileReturns(c)
      PROVE  DInv'
  <2>1. call[c] # Idle
    BY <1>5 DEF DispatchReturns, ReconcileReturns, Idle
  <2>2. /\ call[c].batch \in Batches
        /\ call[c].answer \in Observation \union {NoAnswer}
    BY Zenon, <2>1, CallIsTyped
  <2>3. \/ ApplyObservation(call[c].batch, call[c].answer)
        \/ UNCHANGED <<debt, reversal, batch>>
    BY Zenon, <1>5 DEF DispatchReturns, ReconcileReturns, MarkUncertain
  <2> QED BY Zenon, <1>1, <2>2, <2>3, DebtApply
<1>6. ASSUME NEW b \in Batches, NEW r \in Refs, RecordSettlement(b, r)
      PROVE  DInv'
  <2>1. Paid(r) \in Observation \union {NoAnswer}
    BY SMT DEF Paid, Observation
  <2> QED
    BY Zenon, <1>6, <2>1, DebtApply DEF RecordSettlement
<1>7. ASSUME NEW c \in Calls, NEW b \in Batches, Dispatch(c, b)
      PROVE  DInv'
  BY Zenon, <1>1, <1>7 DEF Dispatch
<1>8. CASE UNCHANGED tables
  BY Zenon, <1>1, <1>8 DEF tables
<1> QED
  BY Zenon, <1>2, <1>3, <1>4, <1>5, <1>6, <1>7, <1>8
     DEF Next, vars, tables, Reconcile, ProviderAnswers, Restart, ProviderCreates,
         ProviderRefuses, RequestIsLost, TransferSettles, TransferIsReversed

\* Nothing is owed at first.
LEMMA InitDebt == Init => DInv
<1> SUFFICES ASSUME Init PROVE DInv
  BY Zenon
<1>1. debt = 0 /\ \A b \in Batches : batch[b].offset = 0
  BY SMT DEF Init
<1>2. Owed = {} /\ 0 \in Nat /\ 0 + 0 = 0 /\ 0 >= 0
  BY SMT DEF Init, Owed
<1>3. Sum(Owed) = 0
  BY <1>2, SumOfNone, Zenon DEF Sum
<1>4. SumFunctionOnSet(Offsets, Standing) \in {0}
  <2>1. IsFiniteSet(Standing)
    BY PayoutConstants, FS_Subset, Zenon DEF Standing
  <2>2. {0} \in {Nat, Int, {0}} /\ \A b \in Standing : Offsets[b] \in {0}
    BY <1>1, Zenon DEF Standing, Offsets
  <2> QED
    BY <2>1, <2>2, SumIsNumber, Zenon
<1>5. debt + SumFunctionOnSet(Offsets, Standing) = Sum(Owed)
  <2>1. SumFunctionOnSet(Offsets, Standing) = 0
    BY <1>4, Zenon
  <2> QED
    BY <1>1, <1>2, <1>3, <2>1, Zenon
<1> QED
  BY <1>1, <1>2, <1>5, Zenon DEF DInv, DebtBalances, Offsets, Standing, Owed

\* Prepare, cancelPrepared, markPaid and recordEarningReversal move debt between
\* the seller's account and the batches that offset it and lose none of it, for
\* any number of earnings and batches and any amounts.
THEOREM DebtIsConserved == Spec => []DebtBalances
<1>1. TInv /\ Wires /\ DInv /\ [Next]_vars => DInv'
  BY Zenon, DebtStep
<1>2. DInv => DebtBalances
  BY Zenon DEF DInv
<1> QED BY <1>1, <1>2, InitDebt, TablesInvariance, PTL DEF Spec

-----------------------------------------------------------------------------
(* Finality.                                                               *)

\* What an observation leaves of the payout it is applied to.
LEMMA ApplyIsFinal ==
  ASSUME TInv, NEW b \in Batches, NEW o \in Observation \union {NoAnswer},
         ApplyObservation(b, o)
  PROVE  FinalityStep
<1>1. Commits(b, o)
  BY Zenon DEF ApplyObservation
<1>2. Row(batch[b]) /\ op[b] \in OpRow
  BY Zenon DEF TInv, Types
<1>3. /\ op[b].state # "none" => Projects(op[b], batch[b])
      /\ batch[b].status # "cancelled" => EarningsMatch(b)
  BY Zenon DEF TInv, ProjectionsAgree
<1>5. CASE o = Rejected
  <2>1. /\ MayUpdate(b, "rejected", FALSE, NoRef, batch[b])
        /\ op' = [op EXCEPT ![b] = Updated(b, "rejected", FALSE, NoRef)]
        /\ \/ UNCHANGED <<batch, earning>>
           \/ ~op[b].ext /\ batch[b].status # "cancelled" /\ Release(b)
    BY Zenon, <1>1, <1>5 DEF ApplyObservation, Commits, Rejected, UpdateOperation
  <2>2. op'[b] = [state |-> "rejected", ext |-> op[b].ext, ref |-> op[b].ref]
    BY Zenon, <1>2, <2>1 DEF TInv, Types, Updated, OpRow
  <2>d. \A d \in Batches : d # b => op'[d] = op[d] /\ batch'[d] = batch[d]
    BY Zenon, <2>1 DEF Release, TInv, Types
  <2>3. op[b].state \in {"paid", "rejected"} => op'[b] = op[b]
    BY Zenon, <1>2, <2>1, <2>2 DEF MayUpdate, MayBecome, OpRow
  <2>4. op[b].ext => op'[b].ext
    BY SMTT(60), <2>2
  <2>5. batch[b].status \in {"paid", "cancelled"} => batch'[b] = batch[b]
    BY Zenon, <1>2, <2>1 DEF MayUpdate, Projects, Updated, Row
  <2>6. \A e \in Earnings : earning[e] = "reversed" => earning'[e] = "reversed"
    BY Zenon, <2>1 DEF Release
  <2> QED BY Zenon, <2>d, <2>3, <2>4, <2>5, <2>6 DEF FinalityStep
<1>6. CASE o = Submitted
  <2>1. /\ MayUpdate(b, "submitted", TRUE, NoRef, MarkSubmitted(batch[b]))
        /\ op' = [op EXCEPT ![b] = Updated(b, "submitted", TRUE, NoRef)]
        /\ batch' = [batch EXCEPT ![b] = MarkSubmitted(@)]
        /\ batch[b].status # "cancelled" /\ UNCHANGED earning
    BY Zenon, <1>1, <1>6 DEF ApplyObservation, Commits, Submitted, UpdateOperation
  <2>2. /\ op'[b] = [state |-> "submitted", ext |-> TRUE, ref |-> op[b].ref]
        /\ batch'[b] = MarkSubmitted(batch[b])
    BY Zenon, <1>2, <2>1 DEF TInv, Types, Updated, OpRow
  <2>d. \A d \in Batches : d # b => op'[d] = op[d] /\ batch'[d] = batch[d]
    BY Zenon, <2>1 DEF TInv, Types
  <2>3. op[b].state \notin {"paid", "rejected"}
    BY Zenon, <2>1 DEF MayUpdate, MayBecome
  <2>4. op'[b].ext
    BY <2>2
  <2>5. batch[b].status = "paid" => batch'[b] = batch[b]
    BY Zenon, <2>2 DEF MarkSubmitted
  <2> QED BY Zenon, <2>d, <2>1, <2>3, <2>4, <2>5 DEF FinalityStep
<1>7. ASSUME NEW r \in Refs, o = Paid(r)
      PROVE  FinalityStep
  <2>1. /\ MayUpdate(b, "paid", TRUE, r, MarkPaid(MarkSubmitted(batch[b]), r))
        /\ op' = [op EXCEPT ![b] = Updated(b, "paid", TRUE, r)]
        /\ batch' = [batch EXCEPT ![b] = MarkPaid(MarkSubmitted(@), r)]
        /\ batch[b].status \in {"prepared", "submitted", "paid"}
        /\ batch[b].status = "paid" => batch[b].ref = r /\ UNCHANGED earning
        /\ batch[b].status # "paid" => Settle(b)
    BY Zenon, <1>1, <1>7 DEF ApplyObservation, Commits, Paid, UpdateOperation
  <2>0. r # NoRef
    BY Zenon, PayoutConstants
  <2>2. /\ op'[b] = [state |-> "paid", ext |-> TRUE, ref |-> r]
        /\ batch'[b] = MarkPaid(MarkSubmitted(batch[b]), r)
    BY Zenon, <1>2, <2>0, <2>1 DEF TInv, Types, Updated, OpRow
  <2>d. \A d \in Batches : d # b => op'[d] = op[d] /\ batch'[d] = batch[d]
    BY Zenon, <2>1 DEF TInv, Types
  <2>3. op[b].state \in {"paid", "rejected"} => op'[b] = op[b]
    <3>1. ASSUME op[b].state \in {"paid", "rejected"} PROVE op'[b] = op[b]
      <4>1. op[b].state = "paid"
        BY Zenon, <2>1, <3>1 DEF MayUpdate, MayBecome
      <4>2. op[b].ext /\ op[b].ref = r
        BY Zenon, <1>3, <2>1, <4>1 DEF Projects
      <4> QED BY ZenonT(30), <1>2, <2>2, <4>1, <4>2 DEF OpRow
    <3> QED BY Zenon, <3>1
  <2>4. op'[b].ext
    BY <2>2
  <2>5. batch[b].status = "paid" => batch'[b] = batch[b]
    <3>1. ASSUME batch[b].status = "paid" PROVE batch'[b] = batch[b]
      <4>1. MarkSubmitted(batch[b]) = batch[b] /\ batch[b].ref = r
        BY Zenon, <2>1, <3>1 DEF MarkSubmitted
      <4>2. batch'[b] = [batch[b] EXCEPT !.status = "paid", !.ref = r]
        BY Zenon, <2>2, <4>1 DEF MarkPaid
      <4>3. batch[b] = [status |-> "paid", items |-> batch[b].items,
                        offset |-> batch[b].offset, ext |-> batch[b].ext, ref |-> r]
        BY Zenon, <1>2, <3>1, <4>1 DEF Row
      <4> QED BY Zenon, <4>2, <4>3
    <3> QED BY Zenon, <3>1
  <2>6. \A e \in Earnings : earning[e] = "reversed" => earning'[e] = "reversed"
    BY Zenon, <1>3, <2>1 DEF Settle, EarningsMatch
  <2> QED BY Zenon, <2>d, <2>1, <2>3, <2>4, <2>5, <2>6 DEF FinalityStep
<1> QED BY Zenon, <1>1, <1>5, <1>6, <1>7, AnswerKinds

\* No step, a stale answer included, undoes what is final.
LEMMA FinalStep == TInv /\ Wires /\ [Next]_vars => [FinalityStep]_vars
<1> SUFFICES ASSUME TInv, Wires, [Next]_vars PROVE FinalityStep \/ UNCHANGED vars
  BY Zenon
<1>1. ASSUME NEW e \in Earnings, RecordAcceptedReceipt(e) \/ RecordEarningReversal(e)
      PROVE  FinalityStep
  <2>1. CASE RecordAcceptedReceipt(e)
    BY Zenon, <2>1 DEF RecordAcceptedReceipt, FinalityStep, TInv, Types
  <2>2. CASE RecordEarningReversal(e)
    BY Zenon, <2>2 DEF RecordEarningReversal, FinalityStep, TInv, Types
  <2> QED BY Zenon, <1>1, <2>1, <2>2
<1>2. ASSUME NEW b \in Batches, NEW items \in SUBSET Earnings, Prepare(b, items)
      PROVE  FinalityStep
  <2>1. /\ batch[b].status = "none" /\ op' = op
        /\ \A d \in Batches : d # b => batch'[d] = batch[d]
    BY Zenon, <1>2 DEF Prepare, TInv, Types
  <2>2. \A e \in Earnings : earning[e] = "reversed" => earning'[e] = "reversed"
    BY Zenon, <1>2 DEF Prepare, Preparable
  <2> QED BY Zenon, <2>1, <2>2 DEF FinalityStep
<1>3. ASSUME NEW b \in Batches, CancelPrepared(b)
      PROVE  FinalityStep
  <2>1. /\ batch[b].status = "prepared" /\ op' = op
        /\ \A d \in Batches : d # b => batch'[d] = batch[d]
    BY Zenon, <1>3 DEF CancelPrepared, Cancellable, Release, TInv, Types
  <2>2. \A e \in Earnings : earning[e] = "reversed" => earning'[e] = "reversed"
    BY Zenon, <1>3 DEF CancelPrepared, Release
  <2> QED BY Zenon, <2>1, <2>2 DEF FinalityStep
<1>4. ASSUME NEW c \in Calls, NEW b \in Batches, Dispatch(c, b)
      PROVE  FinalityStep
  <2>1. /\ op[b].state = "none" /\ UNCHANGED <<batch, earning>>
        /\ \A d \in Batches : (d # b => op'[d] = op[d]) /\ op'[d].ext = op[d].ext
    BY Zenon, <1>4 DEF Dispatch, TInv, Types, OpRow
  <2> QED BY Zenon, <2>1 DEF FinalityStep
<1>5. ASSUME NEW b \in Batches, MarkUncertain(b)
      PROVE  FinalityStep
  <2>1. UNCHANGED <<batch, earning>>
    BY Zenon, <1>5 DEF MarkUncertain
  <2>2. CASE MayUpdate(b, "uncertain", FALSE, NoRef, batch[b])
    <3>1. op' = [op EXCEPT ![b] = Updated(b, "uncertain", FALSE, NoRef)]
      BY Zenon, <1>5, <2>2 DEF MarkUncertain, UpdateOperation
    <3>2. op[b].state \notin {"paid", "rejected"}
      BY Zenon, <2>2 DEF MayUpdate, MayBecome
    <3>3. /\ \A d \in Batches : d # b => op'[d] = op[d]
          /\ op[b].ext => op'[b].ext
      BY ZenonT(30), <3>1 DEF Updated, TInv, Types
    <3> QED BY Zenon, <2>1, <3>2, <3>3 DEF FinalityStep
  <2>3. CASE ~MayUpdate(b, "uncertain", FALSE, NoRef, batch[b])
    BY Zenon, <1>5, <2>1, <2>3 DEF MarkUncertain, FinalityStep
  <2> QED BY Zenon, <2>2, <2>3
<1>6. CASE UNCHANGED <<op, batch, earning>>
  BY Zenon, <1>6 DEF FinalityStep
<1>7. ASSUME NEW c \in Calls, DispatchReturns(c) \/ ReconcileReturns(c)
      PROVE  FinalityStep
  <2>1. call[c] # Idle
    BY <1>7 DEF DispatchReturns, ReconcileReturns, Idle
  <2>2. /\ call[c].batch \in Batches
        /\ call[c].answer \in Observation \union {NoAnswer}
    BY Zenon, <2>1, CallIsTyped
  <2>3. \/ ApplyObservation(call[c].batch, call[c].answer)
        \/ MarkUncertain(call[c].batch)
        \/ UNCHANGED <<op, batch, earning>>
    BY Zenon, <1>7, <2>1 DEF DispatchReturns, ReconcileReturns
  <2>4. CASE ApplyObservation(call[c].batch, call[c].answer)
    BY Zenon, <2>2, <2>4, ApplyIsFinal
  <2>5. CASE MarkUncertain(call[c].batch)
    BY Zenon, <2>2, <2>5, <1>5
  <2>6. CASE UNCHANGED <<op, batch, earning>>
    BY Zenon, <2>6 DEF FinalityStep
  <2> QED BY Zenon, <2>3, <2>4, <2>5, <2>6
<1>8. ASSUME NEW b \in Batches, NEW r \in Refs, RecordSettlement(b, r)
      PROVE  FinalityStep
  <2>1. ApplyObservation(b, Paid(r)) /\ Paid(r) \in Observation
    BY Zenon, <1>8 DEF RecordSettlement, Paid, Observation
  <2> QED BY Zenon, <2>1, ApplyIsFinal
<1> QED
  BY Zenon, <1>1, <1>2, <1>3, <1>4, <1>6, <1>7, <1>8
     DEF Next, vars, tables, Reconcile, ProviderAnswers, Restart, ProviderCreates,
         ProviderRefuses, RequestIsLost, TransferSettles, TransferIsReversed

\* A paid or rejected operation, a paid or cancelled batch and a reversed
\* earning never change again, whatever the provider answers and when.
THEOREM FinalForever == Spec => FinalityIsKept
<1>1. TInv /\ Wires /\ [Next]_vars => [FinalityStep]_vars
  BY Zenon, FinalStep
<1> QED BY <1>1, TablesInvariance, PTL DEF Spec, FinalityIsKept

-----------------------------------------------------------------------------
(* The money.                                                              *)

\* A call is about a payout that was dispatched.
Known == \A c \in Calls : call[c] # Idle => op[call[c].batch].state # "none"

\* A request leaves only after its operation is durable.
Undispatched ==
  \A b \in Batches : op[b].state = "none" => request[b] = "none" /\ transfer[b] = "none"

\* A request that still stands, or was refused, has made no transfer.
OneTransfer == \A b \in Batches : request[b] # "none" => transfer[b] = "none"

\* A rejection in hand, and one in the table, is true of the provider.
RejectionsAreTrue ==
  /\ \A c \in Calls :
       call[c] # Idle /\ call[c].answer = Rejected => ~Moving(call[c].batch)
  /\ \A b \in Batches : op[b].state = "rejected" => ~Moving(b)

MInv == Known /\ Undispatched /\ OneTransfer /\ RejectionsAreTrue

\* A payout that moves is one whose batch keeps its earnings; two of those
\* share none.
LEMMA MoneyIsHeld == TInv /\ MInv => PaidOnce
<1> SUFFICES ASSUME TInv, MInv PROVE PaidOnce
  BY Zenon
<1>1. ASSUME NEW b \in Batches, Moving(b)
      PROVE  batch[b].status # "cancelled"
  <2>1. op[b].state \notin {"none", "rejected"}
    BY Zenon, <1>1 DEF MInv, Undispatched, RejectionsAreTrue, Moving
  <2> QED BY Zenon, <2>1 DEF TInv, ProjectionsAgree, Projects
<1> QED BY Zenon, <1>1 DEF TInv, Exclusive, PaidOnce

\* What a returning call, or a settlement, may do to the operations: only the
\* answer "rejected" rejects, and no operation disappears.
OpMoves(b, rejects) ==
  \A d \in Batches :
    /\ op'[d].state = "none" <=> op[d].state = "none"
    /\ op'[d].state = "rejected" => op[d].state = "rejected" \/ (d = b /\ rejects)

\* Applying an observation adds and removes no operation, and rejects that of
\* its own batch only, when the provider said so.
LEMMA ApplyMovesOp ==
  ASSUME TInv, NEW b \in Batches, NEW o \in Observation \union {NoAnswer},
         op[b].state # "none", ApplyObservation(b, o)
  PROVE  OpMoves(b, o = Rejected)
<1>1. Commits(b, o) /\ op' = [op EXCEPT ![b] = Updated(b, o.state, o.state # "rejected", o.ref)]
  BY Zenon DEF ApplyObservation, UpdateOperation
<1>2. Updated(b, o.state, o.state # "rejected", o.ref).state = o.state
  BY Zenon DEF Updated
<1>3. op'[b].state = o.state /\ \A d \in Batches : d # b => op'[d] = op[d]
  BY Zenon, <1>1, <1>2 DEF TInv, Types
<1>4. o.state # "none" /\ (o.state = "rejected" => o = Rejected)
  BY <1>1, AnswerKinds DEF Rejected, Submitted, Paid
<1> QED BY Zenon, <1>3, <1>4 DEF OpMoves

\* An unanswered request adds and removes no operation and rejects none.
LEMMA UncertainMovesOp ==
  ASSUME TInv, NEW b \in Batches, op[b].state # "none", MarkUncertain(b)
  PROVE  OpMoves(b, FALSE)
<1>1. CASE op' = op
  BY Zenon, <1>1 DEF OpMoves
<1>2. CASE op' = [op EXCEPT ![b] = Updated(b, "uncertain", FALSE, NoRef)]
  <2>1. Updated(b, "uncertain", FALSE, NoRef).state = "uncertain"
    BY Zenon DEF Updated
  <2>2. op'[b].state = "uncertain" /\ \A d \in Batches : d # b => op'[d] = op[d]
    BY Zenon, <1>2, <2>1 DEF TInv, Types
  <2> QED BY Zenon, <2>2 DEF OpMoves
<1> QED BY Zenon, <1>1, <1>2 DEF MarkUncertain, UpdateOperation

\* A call that returns: it rejects only a payout that is not moving.
LEMMA ReturnStep ==
  ASSUME TInv, Wires, MInv, NEW c \in Calls, DispatchReturns(c) \/ ReconcileReturns(c)
  PROVE  MInv'
<1> DEFINE b == call[c].batch
<1>1. /\ call[c] # Idle /\ call' = [call EXCEPT ![c] = Idle]
      /\ UNCHANGED <<request, transfer>>
  BY DEF DispatchReturns, ReconcileReturns, Idle, provider
<1>2. b \in Batches /\ call[c].answer \in Observation \union {NoAnswer}
  BY Zenon, <1>1, CallIsTyped
<1>3. op[b].state # "none" /\ (call[c].answer = Rejected => ~Moving(b))
  BY Zenon, <1>1, <1>2 DEF MInv, Known, RejectionsAreTrue
<1>4. OpMoves(b, call[c].answer = Rejected)
  <2>1. CASE ApplyObservation(b, call[c].answer)
    BY Zenon, <2>1, <1>2, <1>3, ApplyMovesOp
  <2>2. CASE MarkUncertain(b)
    <3>1. OpMoves(b, FALSE)
      BY Zenon, <2>2, <1>2, <1>3, UncertainMovesOp
    <3> QED BY Zenon, <3>1 DEF OpMoves
  <2>3. CASE op' = op
    BY Zenon, <2>3 DEF OpMoves
  <2> QED BY Zenon, <2>1, <2>2, <2>3 DEF DispatchReturns, ReconcileReturns
<1> HIDE DEF b
<1>5. \A d \in Calls : call'[d] # Idle => call'[d] = call[d] /\ call[d] # Idle
  BY Zenon, <1>1 DEF Wires
<1>6. \A d \in Calls : call[d] # Idle => call[d].batch \in Batches
  BY Zenon, CallIsTyped
<1>7. \A d \in Batches : Moving(d)' <=> Moving(d)
  BY Zenon, <1>1 DEF Moving
<1>8. Known'
  BY SMTT(60), <1>4, <1>5, <1>6 DEF MInv, Known, OpMoves
<1>9. Undispatched' /\ OneTransfer'
  BY Zenon, <1>1, <1>4 DEF MInv, Undispatched, OneTransfer, OpMoves
<1>10. \A d \in Calls : call'[d] # Idle /\ call'[d].answer = Rejected
          => ~Moving(call[d].batch)'
  BY Zenon, <1>5, <1>6, <1>7 DEF MInv, RejectionsAreTrue
<1>11. \A d \in Batches : op'[d].state = "rejected" => ~Moving(d)'
  BY Zenon, <1>3, <1>4, <1>7 DEF MInv, RejectionsAreTrue, OpMoves
<1>12. RejectionsAreTrue'
  BY Zenon, <1>10, <1>11 DEF RejectionsAreTrue, Moving
<1> QED BY Zenon, <1>8, <1>9, <1>12 DEF MInv

\* A step of the provider moves money only for a request that stands.
LEMMA ProviderStep ==
  ASSUME Wires, MInv, NEW b \in Batches,
         \/ ProviderCreates(b) \/ ProviderRefuses(b) \/ RequestIsLost(b)
         \/ TransferSettles(b) \/ TransferIsReversed(b)
  PROVE  MInv'
<1>1. UNCHANGED <<op, call>>
  BY Zenon DEF ProviderCreates, ProviderRefuses, RequestIsLost, TransferSettles,
         TransferIsReversed, tables
<1>2. \A d \in Batches :
        /\ d # b => request'[d] = request[d] /\ transfer'[d] = transfer[d]
        /\ request'[d] # "none" => transfer'[d] = "none"
        /\ Moving(d)' => Moving(d)
        /\ request'[d] # "none" \/ transfer'[d] # "none"
             => request[d] # "none" \/ transfer[d] # "none"
  BY ZenonT(60) DEF ProviderCreates, ProviderRefuses, RequestIsLost, TransferSettles,
         TransferIsReversed, Wires, MInv, OneTransfer, Moving
<1>3. \A c \in Calls : call[c] # Idle => call[c].batch \in Batches
  BY Zenon, CallIsTyped
<1>4. Known' /\ Undispatched' /\ OneTransfer'
  BY Zenon, <1>1, <1>2 DEF MInv, Known, Undispatched, OneTransfer
<1>5. RejectionsAreTrue'
  <2>1. \A c \in Calls : call'[c] # Idle /\ call'[c].answer = Rejected
           => ~Moving(call[c].batch)'
    BY Zenon, <1>1, <1>2, <1>3 DEF MInv, RejectionsAreTrue
  <2>2. \A d \in Batches : op'[d].state = "rejected" => ~Moving(d)'
    BY Zenon, <1>1, <1>2 DEF MInv, RejectionsAreTrue
  <2> QED BY Zenon, <1>1, <2>1, <2>2 DEF RejectionsAreTrue, Moving
<1> QED BY Zenon, <1>4, <1>5 DEF MInv

\* The provider's "rejected" is definitive as long as lookups do not fail
\* with a 4xx: a refused request is not executed, a reversed transfer is gone.
LEMMA AnswerStep ==
  ASSUME ~LookupErrors, Wires, MInv, NEW c \in Calls, ProviderAnswers(c)
  PROVE  MInv'
<1> DEFINE b == call[c].batch
<1>0. PICK o \in IF call[c].kind = "create" THEN CreateAnswers(b) ELSE LookupAnswers(b) :
        /\ call[c] # Idle /\ call' = [call EXCEPT ![c].answer = o]
        /\ UNCHANGED <<op, request, transfer>>
  BY Zenon DEF ProviderAnswers, tables, provider
<1>a. \A p \in Report(b) : p = Rejected => transfer[b] = "reversed"
  BY DEF Report, Submitted, Rejected, Paid
<1>b. \A p \in LookupAnswers(b) : p \in Report(b) \/ p = Absent
  BY Zenon DEF LookupAnswers
<1>c. o = Rejected => request[b] = "refused" \/ transfer[b] = "reversed"
  BY Zenon, <1>0, <1>a, <1>b DEF CreateAnswers, Rejected, Absent
<1>1. /\ call[c] # Idle /\ call' = [call EXCEPT ![c].answer = o]
      /\ UNCHANGED <<op, request, transfer>>
      /\ o = Rejected => request[b] = "refused" \/ transfer[b] = "reversed"
  BY Zenon, <1>0, <1>c
<1>2. b \in Batches /\ (o = Rejected => ~Moving(b))
  BY Zenon, <1>1, CallIsTyped DEF MInv, OneTransfer, Moving, Wires
<1> HIDE DEF b
<1>3. /\ call'[c].batch = b /\ call'[c].answer = o
      /\ \A d \in Calls : d # c => call'[d] = call[d]
  BY ZenonT(60), <1>1 DEF Wires, CallRow, IdleCall, Idle, b
<1>4. Known'
  BY ZenonT(60), <1>1, <1>3 DEF MInv, Known, b
<1>5. Undispatched' /\ OneTransfer'
  BY Zenon, <1>1 DEF MInv, Undispatched, OneTransfer
<1>6. RejectionsAreTrue'
  BY ZenonT(60), <1>1, <1>2, <1>3 DEF MInv, RejectionsAreTrue, Moving
<1> QED BY Zenon, <1>4, <1>5, <1>6 DEF MInv

\* A dispatch starts from a payout nobody has asked for.
LEMMA DispatchMoney ==
  ASSUME TInv, Wires, MInv, NEW c \in Calls, NEW b \in Batches, Dispatch(c, b)
  PROVE  MInv'
<1>1. /\ op[b].state = "none" /\ op'[b].state = "dispatching"
      /\ \A d \in Batches : d # b => op'[d] = op[d] /\ request'[d] = request[d]
      /\ request' = [request EXCEPT ![b] = "sent"] /\ transfer' = transfer
      /\ call' = [call EXCEPT ![c] = [kind |-> "create", batch |-> b, answer |-> NoAnswer]]
  BY ZenonT(60) DEF Dispatch, TInv, Types, OpRow, Wires
<1>2. \A d \in Calls :
        /\ d # c => call'[d] = call[d]
        /\ d # c /\ call[d] # Idle => call[d].batch \in Batches /\ call[d].batch # b
  BY SMTT(30), <1>1, CallIsTyped DEF MInv, Known
<1>3. call'[c].batch = b /\ call'[c].answer # Rejected
  BY Zenon, <1>1 DEF NoAnswer, Rejected, Wires
<1>4. Known'
  BY SMTT(30), <1>1, <1>2, <1>3 DEF MInv, Known
<1>5. Undispatched' /\ OneTransfer'
  <2>1. ASSUME NEW d \in Batches, d # b
        PROVE  /\ op'[d].state = "none" => request'[d] = "none" /\ transfer'[d] = "none"
               /\ request'[d] # "none" => transfer'[d] = "none"
    <3>1. op'[d] = op[d] /\ request'[d] = request[d] /\ transfer'[d] = transfer[d]
      BY Zenon, <1>1, <2>1
    <3> QED BY Zenon, <3>1 DEF MInv, Undispatched, OneTransfer
  <2>2. op'[b].state # "none" /\ transfer'[b] = "none"
    <3>1. "dispatching" # "none" /\ transfer[b] = "none"
      BY Zenon, <1>1 DEF MInv, Undispatched
    <3> QED BY Zenon, <1>1, <3>1
  <2> QED BY Zenon, <2>1, <2>2 DEF Undispatched, OneTransfer
<1>6. RejectionsAreTrue'
  BY SMTT(30), <1>1, <1>2, <1>3 DEF MInv, RejectionsAreTrue, Moving
<1> QED BY Zenon, <1>4, <1>5, <1>6 DEF MInv

\* Every step keeps the money invariant, with definitive rejections.
LEMMA MoneyStep == ~LookupErrors /\ TInv /\ Wires /\ MInv /\ [Next]_vars => MInv'
<1> SUFFICES ASSUME ~LookupErrors, TInv, Wires, MInv, [Next]_vars PROVE MInv'
  BY Zenon
<1>1. CASE UNCHANGED <<op, call, request, transfer>>
  BY Zenon, <1>1 DEF MInv, Known, Undispatched, OneTransfer, RejectionsAreTrue, Moving
<1>2. ASSUME NEW c \in Calls, NEW b \in Batches, Dispatch(c, b) PROVE MInv'
  BY Zenon, <1>2, DispatchMoney
<1>3. ASSUME NEW c \in Calls, NEW b \in Batches, Reconcile(c, b) PROVE MInv'
  <2>1. /\ op[b].state # "none" /\ UNCHANGED <<op, request, transfer>>
        /\ call' = [call EXCEPT ![c] = [kind |-> "lookup", batch |-> b, answer |-> NoAnswer]]
    BY Zenon, <1>3 DEF Reconcile, tables, provider
  <2>2. /\ call'[c].batch = b /\ call'[c].answer # Rejected
        /\ \A d \in Calls : d # c => call'[d] = call[d]
    BY Zenon, <2>1 DEF Wires, NoAnswer, Rejected
  <2> QED BY SMTT(30), <2>1, <2>2
          DEF MInv, Known, Undispatched, OneTransfer, RejectionsAreTrue, Moving
<1>4. ASSUME NEW c \in Calls,
             DispatchReturns(c) \/ ReconcileReturns(c) \/ ProviderAnswers(c)
      PROVE  MInv'
  BY Zenon, <1>4, ReturnStep, AnswerStep
<1>5. ASSUME NEW b \in Batches, NEW r \in Refs, RecordSettlement(b, r) PROVE MInv'
  <2>1. /\ op[b].state # "none" /\ ApplyObservation(b, Paid(r))
        /\ Paid(r) \in Observation /\ Paid(r) # Rejected
        /\ UNCHANGED <<call, request, transfer>>
    BY Zenon, <1>5 DEF RecordSettlement, Paid, Rejected, Observation, provider
  <2>2. OpMoves(b, FALSE)
    BY Zenon, <2>1, ApplyMovesOp DEF OpMoves
  <2>3. \A c \in Calls : call[c] # Idle => call[c].batch \in Batches
    BY Zenon, CallIsTyped
  <2>4. Known' /\ Undispatched' /\ OneTransfer'
    BY Zenon, <2>1, <2>2, <2>3 DEF MInv, Known, Undispatched, OneTransfer, OpMoves
  <2>5. RejectionsAreTrue'
    BY Zenon, <2>1, <2>2, <2>3 DEF MInv, RejectionsAreTrue, Moving, OpMoves
  <2> QED BY Zenon, <2>4, <2>5 DEF MInv
<1>6. CASE Restart
  <2>1. UNCHANGED <<op, request, transfer>> /\ \A c \in Calls : call'[c] = Idle
    BY Zenon, <1>6 DEF Restart, tables, provider
  <2> QED BY Zenon, <2>1 DEF MInv, Known, Undispatched, OneTransfer, RejectionsAreTrue, Moving
<1>7. ASSUME NEW b \in Batches,
             \/ ProviderCreates(b) \/ ProviderRefuses(b) \/ RequestIsLost(b)
             \/ TransferSettles(b) \/ TransferIsReversed(b)
      PROVE  MInv'
  BY Zenon, <1>7, ProviderStep
<1> QED
  BY Zenon, <1>1, <1>2, <1>3, <1>4, <1>5, <1>6, <1>7
     DEF Next, vars, provider, RecordAcceptedReceipt, RecordEarningReversal, Prepare,
         CancelPrepared

\* No earning is paid out twice, for any number of payouts, of concurrent
\* dispatch and reconcile calls and of restarts, provided that the provider's
\* "rejected" is definitive: the code reads it so from every 4xx answer.
THEOREM PaidOnceForAll == ~LookupErrors => (Spec => []PaidOnce)
<1> SUFFICES ASSUME ~LookupErrors PROVE Spec => []PaidOnce
  BY Zenon
<1>1. Init => MInv
  BY DEF Init, MInv, Known, Undispatched, OneTransfer, RejectionsAreTrue
<1>2. TInv /\ Wires /\ MInv /\ [Next]_vars => MInv'
  BY Zenon, MoneyStep
<1>3. TInv /\ MInv => PaidOnce
  BY Zenon, MoneyIsHeld
<1> QED BY <1>1, <1>2, <1>3, TablesInvariance, PTL DEF Spec

=============================================================================
