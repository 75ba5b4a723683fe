------------------------------ MODULE Payouts ------------------------------
(***************************************************************************)
(* Seller payouts: earnings are collected into a batch, the batch is       *)
(* dispatched to a payment provider, and the provider's later observations *)
(* settle it or release the earnings (seller-earnings.ts, payouts.ts,      *)
(* payout-dispatch.ts, stripe-connect-payout.ts and the triggers of        *)
(* database.ts).                                                           *)
(*                                                                         *)
(* Every table is one variable and every database transaction is one step. *)
(* A dispatch or a reconciliation is a call: it suspends while the         *)
(* provider is asked, and any other call, a reversal, a cancellation or a  *)
(* restart of the coordinator may run meanwhile.                           *)
(*                                                                         *)
(* The dispatch key is 'payout:' and the batch id, and the provider holds  *)
(* at most one transfer for a key, so the external reference of a batch is *)
(* determined by the batch: `ext' says only whether it is recorded.  A     *)
(* batch stands for its idempotency key too: a replayed prepare returns    *)
(* the same row.  The payout method, the destination snapshot and SPORE    *)
(* quotes are left out.                                                    *)
(***************************************************************************)
EXTENDS Integers, FiniteSets, Functions

CONSTANTS
  Earnings,      \* rows of seller_earnings
  Batches,       \* ids of payout_batches that may be prepared
  Calls,         \* dispatch and reconcile calls that may be in flight at once
  Refs,          \* settlement references
  NoRef,
  Amount,        \* Amount[e]: amount_usd_micros of the receipt behind e
  Minimum,       \* PayoutPolicy.minimumUsdMicros
  LookupErrors   \* whether a transfer lookup may be answered with a 4xx

ASSUME PayoutConstants ==
  /\ IsFiniteSet(Earnings) /\ IsFiniteSet(Batches)
  /\ NoRef \notin Refs
  /\ Amount \in [Earnings -> Nat \ {0}]
  /\ Minimum \in Nat \ {0}
  /\ LookupErrors \in BOOLEAN

VARIABLES
  earning,    \* seller_earnings.status, "none" before the receipt is accepted
  reversal,   \* seller_earning_reversals.state of the earning
  debt,       \* seller_debts.amount_usd_micros of the seller
  batch,      \* payout_batches
  op,         \* payout_dispatch_operations
  evidence,   \* payout_settlement_evidence.settlement_reference
  call,       \* the suspended dispatch and reconcile calls
  request,    \* the POST /v1/transfers of a batch, as the network holds it
  transfer    \* the provider's transfer for the batch's dispatch key

tables == <<earning, reversal, debt, batch, op, evidence>>
provider == <<request, transfer>>
vars == <<earning, reversal, debt, batch, op, evidence, call, request, transfer>>

Observation == [state : {"submitted", "rejected", "absent"}, ref : {NoRef}]
                 \union [state : {"paid"}, ref : Refs]
Submitted == [state |-> "submitted", ref |-> NoRef]
Rejected == [state |-> "rejected", ref |-> NoRef]
Absent == [state |-> "absent", ref |-> NoRef]
Paid(r) == [state |-> "paid", ref |-> r]
NoAnswer == [state |-> "none", ref |-> NoRef]

OpRow == [state : {"none", "dispatching", "uncertain", "submitted", "paid", "rejected"},
          ext : BOOLEAN, ref : Refs \union {NoRef}]
IdleCall == [kind : {"idle"}]
CallRow == IdleCall \union [kind : {"create", "lookup"}, batch : Batches,
                            answer : Observation \union {NoAnswer}]

Sum(S) == SumFunctionOnSet(Amount, S)
Holding(e) == {b \in Batches : e \in batch[b].items /\ batch[b].status # "cancelled"}
Idle == [kind |-> "idle"]

\* The offset of a payout: what is owed, up to the gross.
Minor(m, n) == IF m <= n THEN m ELSE n

Init ==
  /\ earning = [e \in Earnings |-> "none"]
  /\ reversal = [e \in Earnings |-> "none"]
  /\ debt = 0
  /\ batch = [b \in Batches |-> [status |-> "none", items |-> {}, offset |-> 0,
                                 ext |-> FALSE, ref |-> NoRef]]
  /\ op = [b \in Batches |-> [state |-> "none", ext |-> FALSE, ref |-> NoRef]]
  /\ evidence = [b \in Batches |-> NoRef]
  /\ call = [c \in Calls |-> Idle]
  /\ request = [b \in Batches |-> "none"]
  /\ transfer = [b \in Batches |-> "none"]

-----------------------------------------------------------------------------
(* Earnings, and their reversal.                                           *)

RecordAcceptedReceipt(e) ==
  /\ earning[e] = "none"
  /\ earning' = [earning EXCEPT ![e] = "available"]
  /\ UNCHANGED <<reversal, debt, batch, op, evidence, call, provider>>

\* A reversal is refused while the earning sits in a prepared batch; in a
\* submitted one it waits for the settlement.
ReversalState(e) ==
  CASE earning[e] = "available" -> "applied"
    [] earning[e] = "paid" -> "seller_debt"
    [] earning[e] = "batched" /\ \E b \in Holding(e) : batch[b].status = "submitted"
         -> "pending_payout"
    [] OTHER -> "none"

RecordEarningReversal(e) ==
  /\ reversal[e] = "none"
  /\ ReversalState(e) # "none"
  /\ reversal' = [reversal EXCEPT ![e] = ReversalState(e)]
  /\ earning' = IF ReversalState(e) = "pending_payout" THEN earning
                ELSE [earning EXCEPT ![e] = "reversed"]
  /\ debt' = IF ReversalState(e) = "seller_debt" THEN debt + Amount[e] ELSE debt
  /\ UNCHANGED <<batch, op, evidence, call, provider>>

-----------------------------------------------------------------------------
(* PayoutManager.                                                          *)

Preparable(items) ==
  /\ items # {}
  /\ \A e \in items : earning[e] = "available" /\ Holding(e) = {}
  /\ Sum(items) - Minor(debt, Sum(items)) >= Minimum

Prepare(b, items) ==
  /\ batch[b].status = "none"
  /\ Preparable(items)
  /\ batch' = [batch EXCEPT ![b].status = "prepared", ![b].items = items,
                            ![b].offset = Minor(debt, Sum(items))]
  /\ debt' = debt - Minor(debt, Sum(items))
  /\ earning' = [e \in Earnings |-> IF e \in items THEN "batched" ELSE earning[e]]
  /\ UNCHANGED <<reversal, op, evidence, call, provider>>

\* Releasing without giving the debt offset back.
ReleaseKeepingOffset(b) ==
  /\ batch' = [batch EXCEPT ![b].status = "cancelled"]
  /\ earning' = [e \in Earnings |->
       IF e \in batch[b].items /\ earning[e] = "batched" THEN "available" ELSE earning[e]]
  /\ debt' = debt

\* The writes of cancelPrepared: the earnings become available and the debt
\* offset is owed again.
Release(b) ==
  /\ batch' = [batch EXCEPT ![b].status = "cancelled"]
  /\ earning' = [e \in Earnings |->
       IF e \in batch[b].items /\ earning[e] = "batched" THEN "available" ELSE earning[e]]
  /\ debt' = debt + batch[b].offset

\* Cancelling whatever the dispatch operation says.
CancellableAlways(b) == batch[b].status = "prepared"

\* A durable dispatch operation forbids the cancellation, unless the provider
\* definitively rejected the transfer before its identity was known.
Cancellable(b) ==
  /\ batch[b].status = "prepared"
  /\ \/ op[b].state = "none"
     \/ op[b].state = "rejected" /\ ~op[b].ext /\ op[b].ref = NoRef

CancelPrepared(b) ==
  /\ Cancellable(b)
  /\ Release(b)
  /\ UNCHANGED <<reversal, op, evidence, call, provider>>

\* The rows markSubmitted and markPaid leave.
MarkSubmitted(row) ==
  IF row.status = "prepared" THEN [row EXCEPT !.status = "submitted", !.ext = TRUE]
  ELSE row
MarkPaid(row, r) == [row EXCEPT !.status = "paid", !.ref = r]

\* Settling without turning a waiting reversal into a debt.
SettleForgettingReversals(b) ==
  /\ earning' = [e \in Earnings |-> IF e \in batch[b].items THEN "paid" ELSE earning[e]]
  /\ UNCHANGED <<reversal, debt>>

\* markPaid, the first time: every earning is paid, and a reversal that waited
\* for the settlement becomes a debt of the seller.
Settle(b) ==
  LET waiting == {e \in batch[b].items : reversal[e] = "pending_payout"} IN
  /\ earning' = [e \in Earnings |->
       IF e \in waiting THEN "reversed"
       ELSE IF e \in batch[b].items THEN "paid" ELSE earning[e]]
  /\ reversal' = [e \in Earnings |-> IF e \in waiting THEN "seller_debt" ELSE reversal[e]]
  /\ debt' = debt + Sum(waiting)

-----------------------------------------------------------------------------
(* PayoutDispatchService.                                                  *)

\* Updates of the operation that may leave a terminal state.
MayBecomeAlways(b, s) == op[b].state # "none"

\* payout_dispatch_state_transition_guard.
MayBecome(b, s) ==
  op[b].state = s \/ op[b].state \in {"dispatching", "uncertain", "submitted"}

\* payout_dispatch_batch_projection_update_guard: the state and references of
\* the operation `o' agree with the batch row `row'.
Projects(o, row) ==
  \/ o.state = "dispatching" /\ ~o.ext /\ row.status = "prepared"
  \/ o.state = "uncertain" /\ ~o.ext /\ row.status = "prepared"
  \/ o.state \in {"uncertain", "submitted", "rejected"} /\ o.ext
       /\ row.status = "submitted" /\ row.ext
  \/ o.state = "paid" /\ o.ext /\ row.status = "paid" /\ row.ext /\ row.ref = o.ref
  \/ o.state = "rejected" /\ ~o.ext /\ row.status \in {"prepared", "cancelled"}

\* The row an UPDATE of the operation writes; COALESCE keeps known references.
Updated(b, s, ext, r) ==
  [state |-> s, ext |-> op[b].ext \/ ext, ref |-> IF r = NoRef THEN op[b].ref ELSE r]

\* The triggers let that row be written beside the batch row `row'.
MayUpdate(b, s, ext, r, row) ==
  LET new == Updated(b, s, ext, r) IN
  /\ MayBecome(b, s)
  /\ op[b].state \in {"paid", "rejected"} => new.ext = op[b].ext
  /\ op[b].ref # NoRef => new.ref = op[b].ref
  /\ s \in {"submitted", "paid"} => new.ext
  /\ s = "paid" <=> new.ref # NoRef
  /\ s = "paid" => evidence[b] \in {NoRef, new.ref}
  /\ Projects(new, row)

UpdateOperation(b, s, ext, r) == op' = [op EXCEPT ![b] = Updated(b, s, ext, r)]

\* The transaction of applyObservation commits; otherwise it throws and is
\* rolled back.
Commits(b, o) ==
  CASE o.state = "rejected" -> MayUpdate(b, "rejected", FALSE, NoRef, batch[b])
    [] o.state = "submitted" ->
         /\ batch[b].status \in {"prepared", "submitted", "paid"}
         /\ MayUpdate(b, "submitted", TRUE, NoRef, MarkSubmitted(batch[b]))
    [] o.state = "paid" ->
         /\ batch[b].status \in {"prepared", "submitted", "paid"}
         /\ batch[b].status = "paid" => batch[b].ref = o.ref
         /\ MayUpdate(b, "paid", TRUE, o.ref, MarkPaid(MarkSubmitted(batch[b]), o.ref))
    [] OTHER -> FALSE

ApplyObservation(b, o) ==
  /\ Commits(b, o)
  /\ UpdateOperation(b, o.state, o.state # "rejected", o.ref)
  /\ CASE o.state = "rejected" ->
            /\ UNCHANGED reversal
            /\ IF op[b].ext \/ batch[b].status = "cancelled"
               THEN UNCHANGED <<batch, earning, debt>>
               ELSE Release(b)
       [] o.state = "submitted" ->
            /\ batch' = [batch EXCEPT ![b] = MarkSubmitted(@)]
            /\ UNCHANGED <<earning, reversal, debt>>
       [] o.state = "paid" ->
            /\ batch' = [batch EXCEPT ![b] = MarkPaid(MarkSubmitted(@), o.ref)]
            /\ IF batch[b].status = "paid" THEN UNCHANGED <<earning, reversal, debt>>
               ELSE Settle(b)

\* An UPDATE to "uncertain" outside any other transaction.
MarkUncertain(b) ==
  /\ IF MayUpdate(b, "uncertain", FALSE, NoRef, batch[b])
     THEN UpdateOperation(b, "uncertain", FALSE, NoRef) ELSE UNCHANGED op
  /\ UNCHANGED <<batch, earning, reversal, debt>>

\* Every earning of a batch with the status the batch status calls for.
EarningsMatch(b) ==
  \A e \in batch[b].items :
    earning[e] \in CASE batch[b].status = "cancelled" -> {"available"}
                     [] batch[b].status = "paid" -> {"paid", "reversed"}
                     [] OTHER -> {"batched"}

\* assertProjectionIntegrity does not throw.
ProjectionIntegrity(b) ==
  /\ EarningsMatch(b)
  /\ Projects(op[b], batch[b])
  /\ op[b].state = "rejected" => batch[b].status # "prepared"

\* dispatch, up to the provider call: the operation is durable before the
\* request leaves.
Dispatch(c, b) ==
  /\ call[c] = Idle
  /\ op[b].state = "none" /\ batch[b].status = "prepared"
  /\ \A e \in batch[b].items : earning[e] = "batched"
  /\ op' = [op EXCEPT ![b].state = "dispatching"]
  /\ request' = [request EXCEPT ![b] = "sent"]
  /\ call' = [call EXCEPT ![c] = [kind |-> "create", batch |-> b, answer |-> NoAnswer]]
  /\ UNCHANGED <<earning, reversal, debt, batch, evidence, transfer>>

\* dispatch, after createTransfer answered or threw.
DispatchReturns(c) ==
  /\ call[c].kind = "create"
  /\ call' = [call EXCEPT ![c] = Idle]
  /\ LET b == call[c].batch IN
       IF Commits(b, call[c].answer) THEN ApplyObservation(b, call[c].answer)
       ELSE MarkUncertain(b)
  /\ UNCHANGED <<evidence, provider>>

\* reconcile, up to the provider call.
Reconcile(c, b) ==
  /\ call[c] = Idle
  /\ op[b].state \notin {"none", "paid", "rejected"}
  /\ ProjectionIntegrity(b)
  /\ call' = [call EXCEPT ![c] = [kind |-> "lookup", batch |-> b, answer |-> NoAnswer]]
  /\ UNCHANGED <<tables, provider>>

\* reconcile, after inspectTransfer answered; it throws without an answer.
ReconcileReturns(c) ==
  /\ call[c].kind = "lookup"
  /\ call' = [call EXCEPT ![c] = Idle]
  /\ LET b == call[c].batch IN
       \/ call[c].answer = Absent /\ MarkUncertain(b)
       \/ Commits(b, call[c].answer) /\ ApplyObservation(b, call[c].answer)
       \/ /\ call[c].answer # Absent /\ ~Commits(b, call[c].answer)
          /\ UNCHANGED <<earning, reversal, debt, batch, op>>
  /\ UNCHANGED <<evidence, provider>>

\* recordSettlement, with evidence a verifier signed for a settled transfer.
RecordSettlement(b, r) ==
  /\ transfer[b] = "settled"
  /\ op[b].state \in {"submitted", "uncertain", "paid"} /\ op[b].ext
  /\ ProjectionIntegrity(b)
  /\ evidence[b] \in {NoRef, r}
  /\ \A d \in Batches \ {b} : evidence[d] # r
  /\ ApplyObservation(b, Paid(r))
  /\ evidence' = [evidence EXCEPT ![b] = r]
  /\ UNCHANGED <<call, provider>>

\* The coordinator restarts: the suspended calls are gone, the tables are not,
\* and neither is a request that has left.
Restart ==
  /\ \E c \in Calls : call[c] # Idle
  /\ call' = [c \in Calls |-> Idle]
  /\ UNCHANGED <<tables, provider>>

-----------------------------------------------------------------------------
(* The provider, behind StripeConnectPayoutGateway.                        *)

ProviderCreates(b) ==
  /\ request[b] = "sent"
  /\ request' = [request EXCEPT ![b] = "none"]
  /\ transfer' = [transfer EXCEPT ![b] = "created"]
  /\ UNCHANGED <<tables, call>>

\* The provider, or the gateway's own validation, refuses the request.
ProviderRefuses(b) ==
  /\ request[b] = "sent"
  /\ request' = [request EXCEPT ![b] = "refused"]
  /\ UNCHANGED <<tables, call, transfer>>

RequestIsLost(b) ==
  /\ request[b] = "sent"
  /\ request' = [request EXCEPT ![b] = "none"]
  /\ UNCHANGED <<tables, call, transfer>>

TransferSettles(b) ==
  /\ transfer[b] = "created"
  /\ transfer' = [transfer EXCEPT ![b] = "settled"]
  /\ UNCHANGED <<tables, call, request>>

TransferIsReversed(b) ==
  /\ transfer[b] \in {"created", "settled"}
  /\ transfer' = [transfer EXCEPT ![b] = "reversed"]
  /\ UNCHANGED <<tables, call, request>>

\* What a gateway reports of a transfer it finds.  PayoutGateway lets it report
\* a settled one as paid; the Stripe gateway reports it as submitted.
Report(b) ==
  CASE transfer[b] = "created" -> {Submitted}
    [] transfer[b] = "settled" -> {Submitted} \union {Paid(r) : r \in Refs}
    [] transfer[b] = "reversed" -> {Rejected}
    [] OTHER -> {}

\* A lookup that takes an empty list for a rejection.
LookupAnswersRejectingAbsent(b) == IF transfer[b] = "none" THEN {Rejected} ELSE Report(b)

\* inspectTransfer: an empty list is "absent"; a 4xx is "rejected".
LookupAnswers(b) ==
  (IF transfer[b] = "none" THEN {Absent} ELSE Report(b))
    \union (IF LookupErrors THEN {Rejected} ELSE {})

\* createTransfer.
CreateAnswers(b) ==
  IF request[b] = "refused" THEN {Rejected} ELSE Report(b)

ProviderAnswers(c) ==
  /\ call[c] # Idle /\ call[c].answer = NoAnswer
  /\ \E o \in IF call[c].kind = "create" THEN CreateAnswers(call[c].batch)
              ELSE LookupAnswers(call[c].batch) :
       call' = [call EXCEPT ![c].answer = o]
  /\ UNCHANGED <<tables, provider>>

Next ==
  \/ \E e \in Earnings : RecordAcceptedReceipt(e) \/ RecordEarningReversal(e)
  \/ \E b \in Batches, items \in SUBSET Earnings : Prepare(b, items)
  \/ \E b \in Batches : CancelPrepared(b)
  \/ \E c \in Calls, b \in Batches : Dispatch(c, b) \/ Reconcile(c, b)
  \/ \E c \in Calls : DispatchReturns(c) \/ ReconcileReturns(c) \/ ProviderAnswers(c)
  \/ \E b \in Batches, r \in Refs : RecordSettlement(b, r)
  \/ \E b \in Batches :
       \/ ProviderCreates(b) \/ ProviderRefuses(b) \/ RequestIsLost(b)
       \/ TransferSettles(b) \/ TransferIsReversed(b)
  \/ Restart

Spec == Init /\ [][Next]_vars

-----------------------------------------------------------------------------
(* Properties.                                                             *)

(* Every row of the payout tables keeps its shape through prepare, dispatch,
   settlement and cancellation. *)
TypeOK ==
  /\ earning \in [Earnings -> {"none", "available", "batched", "paid", "reversed"}]
  /\ reversal \in [Earnings -> {"none", "applied", "seller_debt", "pending_payout"}]
  /\ DOMAIN batch = Batches
  /\ \A b \in Batches :
       /\ batch[b].status \in {"none", "prepared", "submitted", "paid", "cancelled"}
       /\ batch[b].items \subseteq Earnings /\ batch[b].ext \in BOOLEAN
       /\ batch[b].ref \in Refs \union {NoRef}
  /\ op \in [Batches -> OpRow]
  /\ evidence \in [Batches -> Refs \union {NoRef}]
  /\ call \in [Calls -> CallRow]
  /\ request \in [Batches -> {"none", "sent", "refused"}]
  /\ transfer \in [Batches -> {"none", "created", "settled", "reversed"}]

\* Money has left, or may yet leave, for the batch.
Moving(b) == request[b] = "sent" \/ transfer[b] \in {"created", "settled"}

(* An earning is never paid out twice: whatever the order in which dispatches,
   lookups, cancellations and restarts interleave, two batches that share an
   earning never both have a request on its way or a transfer standing.  It is
   why cancelPrepared refuses a batch with a durable operation and why a failed
   createTransfer leaves the operation uncertain instead of releasing it. *)
PaidOnce ==
  \A b, d \in Batches :
    b # d /\ batch[b].items \intersect batch[d].items # {} => ~(Moving(b) /\ Moving(d))

(* The three tables a payout is spread over never contradict each other: each
   operation projects onto its batch, and a batch that still holds its earnings
   finds them in the status it gave them, although a stale answer may be applied
   after another call has finished the batch. *)
ProjectionsAgree ==
  \A b \in Batches :
    /\ op[b].state # "none" => Projects(op[b], batch[b])
    /\ op[b].state = "rejected" => batch[b].status # "prepared"
    /\ batch[b].status # "cancelled" => EarningsMatch(b)

(* Settlement evidence stands beside a payout only if the payout was settled
   under that very reference: evidence that meets a different settlement is
   rolled back with its whole transaction. *)
EvidenceMatches ==
  \A b \in Batches : evidence[b] # NoRef =>
    batch[b].status = "paid" /\ batch[b].ref = evidence[b] /\ op[b].ref = evidence[b]

(* What sellers owe is conserved: the open debt and the offsets taken by the
   batches that were not cancelled add up to the paid earnings that were
   reversed, whatever order reversals, settlements and cancellations come in,
   and neither is ever negative. *)
DebtBalances ==
  /\ debt >= 0 /\ \A b \in Batches : batch[b].offset >= 0
  /\ debt + SumFunctionOnSet([b \in Batches |-> batch[b].offset],
                             {b \in Batches : batch[b].status # "cancelled"})
    = Sum({e \in Earnings : reversal[e] = "seller_debt"})

(* A reversal waits for a settlement only while there is one to come: its
   earning is in a batch the provider has, so markPaid will find it. *)
ReversalsWaitForSubmitted ==
  \A e \in Earnings : reversal[e] = "pending_payout" =>
    earning[e] = "batched" /\ \E b \in Holding(e) : batch[b].status = "submitted"

(* What is final stays final: no late answer, evidence or cancellation changes a
   paid or rejected operation, a paid or cancelled batch or a reversed earning,
   and a recorded provider reference is never forgotten. *)
FinalityStep ==
  /\ \A b \in Batches :
       /\ op[b].state \in {"paid", "rejected"} => op'[b] = op[b]
       /\ batch[b].status \in {"paid", "cancelled"} => batch'[b] = batch[b]
       /\ op[b].ext => op'[b].ext
  /\ \A e \in Earnings : earning[e] = "reversed" => earning'[e] = "reversed"
FinalityIsKept == [][FinalityStep]_vars

(* Reconciling a payout that was rejected and released is a replay: it returns
   the stored result. *)
RejectionReplays ==
  \A b \in Batches :
    op[b].state = "rejected" /\ batch[b].status = "cancelled" => ProjectionIntegrity(b)

=============================================================================
