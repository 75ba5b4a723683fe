------------------------------- MODULE Billing -------------------------------
(***************************************************************************)
(* Buying tokens: checkouts and payment intents, the events of the payment *)
(* providers, and the credit ledger they drive.                            *)
(*                                                                         *)
(*   coordinator/billing-checkout.ts     Stripe checkouts                  *)
(*   coordinator/stablecoin-checkout.ts  payment intents                   *)
(*   coordinator/billing-inbound.ts, billing-http.ts   the webhooks        *)
(*   coordinator/billing.ts              grants, reversals, subscriptions  *)
(*                                                                         *)
(* A purchase is the operation of one idempotency key.  Its quote and its  *)
(* session or recipient are functions of the key, and the providers treat  *)
(* the operation id as their own idempotency key, so they share its name.  *)
(* A provider's events are numbered in the order they occurred.  Delivery  *)
(* is at least once and in any order: an event the coordinator refused, or *)
(* whose answer was lost, comes again.                                     *)
(***************************************************************************)
EXTENDS ApiAccess, Sequences, Functions

CONSTANTS
    Keys,        \* idempotency keys, one purchase each
    Purchases,   \* the kinds of purchase the keys stand for: [Keys -> Kinds]
    Wallet,      \* the subscription id stablecoin:<user>
    Pack, Plan,  \* tokens of a top-up pack and of a subscription period
    Refunds,     \* token amounts of a refund
    MaxEvents,   \* bound: provider events
    MaxCrashes   \* bound: coordinator restarts

Kinds == {"topup", "subscription", "coin topup", "coin subscription"}

ASSUME BillingAssumption ==
    /\ Purchases \subseteq [Keys -> Kinds]
    /\ Wallet \notin Keys
    /\ Pack \in Nat \ {0} /\ Plan \in Nat \ {0}
    /\ Refunds \subseteq Nat \ {0}
    /\ MaxEvents \in Nat /\ MaxCrashes \in Nat

VARIABLES
    kind,      \* what each key buys
    op,        \* billing_checkout_operations / billing_stablecoin_intents
    quote,     \* the quote or intent: none, open, or the event that consumed it
    expired,   \* keys whose quote, intent or checkout is past its time
    calls,     \* checkout handlers awaiting the provider
    debt,      \* account_credit_debts.token_debt
    granted,   \* events in billing_events, each with its row in credit_grants
    reversed,  \* events in billing_reversals
    noted,     \* events in billing_subscription_events
    sub,       \* billing_subscriptions: status and status_changed_at
    events,    \* what happened at the providers
    crashes

billingVars == <<kind, op, quote, expired, calls, debt, granted, reversed,
                 noted, sub, events, crashes>>
vars == <<accountVars, billingVars>>

Coin     == {"coin topup", "coin subscription"}
TopUps   == {"topup", "coin topup"}
Free     == 0   \* an open quote: event numbers start at 1
NoQuote  == -1
Statuses == {"none", "active", "past_due", "cancelled"}

Subscriptions == Keys \union {Wallet}
SubOf(k) == IF kind[k] = "coin subscription" THEN Wallet ELSE k

\* what: paid (a top-up or a subscription period), past_due, cancelled, resumed
\* (an update back to active, which the webhook answers and ignores), refund.
\* at is the provider's clock, in seconds; late, that the quote had expired;
\* of and amount, the payment a refund takes back and how much of its grant.
Event(what, k, at, late, of, amount) ==
    [what |-> what, key |-> k, at |-> at, late |-> late, of |-> of, amount |-> amount]

Tokens(e) == IF kind[events[e].key] \in TopUps THEN Pack ELSE Plan

Init ==
    /\ AccountInit
    /\ kind \in Purchases
    /\ op = [k \in Keys |-> "none"]
    /\ quote = [k \in Keys |-> NoQuote]
    /\ expired = {}
    /\ calls = {}
    /\ debt = 0
    /\ granted = {}
    /\ reversed = {}
    /\ noted = {}
    /\ sub = [s \in Subscriptions |-> [status |-> "none", at |-> 0]]
    /\ events = <<>>
    /\ crashes = 0

-----------------------------------------------------------------------------
\* CHECKOUT

\* getSubscription prefers a live subscription to a cancelled one, and
\* createSubscription refuses while there is one; it resumes a completed
\* checkout that has not expired instead of opening another.
MaySubscribe ==
    /\ \A s \in Subscriptions : sub[s].status \in {"none", "cancelled"}
    /\ \A k \in Keys : kind[k] = "subscription" /\ op[k] = "completed" => k \in expired

\* A key whose provider answered is answered from its row; one whose quote or
\* intent has expired is refused.
MayCall(k) ==
    /\ op[k] # "completed"
    /\ op[k] = "pending" /\ kind[k] # "subscription" => k \notin expired

\* createSubscription, createTopUp or createIntent up to the provider call.
\* The operation's row, and the quote or intent that goes with it, are made
\* once; a retry with the same key finds them and calls the provider again.
Checkout(k) ==
    /\ MayCall(k)
    /\ kind[k] = "subscription" => MaySubscribe
    /\ calls' = calls \union {k}
    /\ op' = [op EXCEPT ![k] = "pending"]
    /\ quote' = [quote EXCEPT ![k] = IF op[k] = "none" /\ kind[k] # "subscription"
                                    THEN Free ELSE @]
    /\ UNCHANGED <<accountVars, kind, expired, debt, granted, reversed, noted, sub,
                   events, crashes>>

\* The provider answered: completeOperation.
CompleteOperation(k) ==
    /\ k \in calls
    /\ calls' = calls \ {k}
    /\ op' = [op EXCEPT ![k] = "completed"]
    /\ UNCHANGED <<accountVars, kind, quote, expired, debt, granted, reversed, noted,
                   sub, events, crashes>>

\* The provider's error or timeout: the operation stays pending.
ProviderFails(k) ==
    /\ k \in calls
    /\ calls' = calls \ {k}
    /\ UNCHANGED <<accountVars, kind, op, quote, expired, debt, granted, reversed,
                   noted, sub, events, crashes>>

Expire(k) ==
    /\ op[k] # "none" /\ k \notin expired
    /\ expired' = expired \union {k}
    /\ UNCHANGED <<accountVars, kind, op, quote, calls, debt, granted, reversed, noted,
                   sub, events, crashes>>

-----------------------------------------------------------------------------
\* THE PROVIDERS

Now == IF events = <<>> THEN 1 ELSE events[Len(events)].at

\* Events carry seconds, so two of them may carry the same one.
Occurs(what, k, of, amount) ==
    /\ Len(events) < MaxEvents
    /\ \E at \in {Now, Now + 1} :
          events' = Append(events, Event(what, k, at, k \in expired, of, amount))
    /\ UNCHANGED <<accountVars, kind, op, quote, expired, calls, debt, granted,
                   reversed, noted, sub, crashes>>

Happened(what, k) ==
    \E e \in DOMAIN events : events[e].what = what /\ events[e].key = k

\* The customer pays a checkout once; anyone may transfer to a recipient again.
Pay(k) ==
    /\ op[k] = "completed"
    /\ kind[k] \notin Coin => ~Happened("paid", k)
    /\ Occurs("paid", k, 0, 0)

\* A Stripe subscription renews, falls behind, recovers and ends.
Continue(k, what) ==
    /\ kind[k] = "subscription"
    /\ Happened("paid", k) /\ ~Happened("cancelled", k)
    /\ Occurs(what, k, 0, 0)

\* charge.refunded: Stripe only; the amounts are what the operator entered.
Refund(e, amount) ==
    /\ events[e].what = "paid" /\ kind[events[e].key] \notin Coin
    /\ Occurs("refund", events[e].key, e, amount)

-----------------------------------------------------------------------------
\* THE LEDGER

\* applyGrant: the debt first.
Grant(tokens) ==
    /\ debt' = debt - Smaller(debt, tokens)
    /\ balance' = balance + tokens - Smaller(debt, tokens)

\* A quote any payment may use, consumed or not: a variant.
PayableAgain(e) == kind[events[e].key] # "subscription" => ~events[e].late

\* A payment compared with the time it is delivered at: a variant.
PayableNow(e) ==
    kind[events[e].key] # "subscription" =>
        /\ events[e].key \notin expired
        /\ quote[events[e].key] = Free

\* validateStablecoinIntent and the checks of applyPaidTopUp: the quote or
\* intent is open and the payment occurred before it expired.
Payable(e) ==
    kind[events[e].key] # "subscription" =>
        /\ ~events[e].late
        /\ quote[events[e].key] = Free

\* A payment always revives the subscription: a variant.
PaidSubscriptionAlways(s, e) == [status |-> "active", at |-> events[e].at]

\* onFirstApplication of applyPaidSubscription.
PaidSubscription(s, e) ==
    IF sub[s].status = "none" \/ events[e].at >= sub[s].at
    THEN [status |-> "active", at |-> events[e].at]
    ELSE sub[s]

\* applyPaidTopUp and applyPaidSubscription; an event already in
\* billing_events is answered as a duplicate.
ApplyPaid(e) ==
    LET k == events[e].key IN
    /\ events[e].what = "paid" /\ e \notin granted
    /\ Payable(e)
    /\ granted' = granted \union {e}
    /\ quote' = [quote EXCEPT ![k] = IF kind[k] = "subscription" THEN @ ELSE e]
    /\ sub' = IF kind[k] \in TopUps THEN sub
              ELSE [sub EXCEPT ![SubOf(k)] = PaidSubscription(SubOf(k), e)]
    /\ Grant(Tokens(e))
    /\ UNCHANGED <<usage, handlers, job, gifts, forgiven, kind, op, expired, calls,
                   reversed, noted, events, crashes>>

\* What each event takes back, and the total taken back of one payment.
Amounts == [e \in DOMAIN events |-> events[e].amount]
ReversedOf(p) == SumFunctionOnSet(Amounts, {e \in reversed : events[e].of = p})

\* The unreversed part of the original grant.
Reversible(e) == events[e].amount <= Tokens(events[e].of) - ReversedOf(events[e].of)

\* applyPaymentReversal: what the balance does not cover becomes debt.
ApplyReversal(e) ==
    LET amount == events[e].amount
        recovered == Smaller(balance, amount)
    IN
    /\ events[e].what = "refund" /\ e \notin reversed
    /\ events[e].of \in granted
    /\ Reversible(e)
    /\ reversed' = reversed \union {e}
    /\ balance' = balance - recovered
    /\ debt' = debt + (amount - recovered)
    /\ UNCHANGED <<usage, handlers, job, gifts, forgiven, kind, op, quote, expired,
                   calls, granted, noted, sub, events, crashes>>

\* subscription_not_found: the provider has to deliver the event again.
StatusKnown(s) == sub[s].status # "none"

\* applySubscriptionStatus: a stale event is recorded and changes nothing.
ApplyStatus(e) ==
    LET s == events[e].key IN
    /\ events[e].what \in {"past_due", "cancelled"} /\ e \notin noted
    /\ StatusKnown(s)
    /\ noted' = noted \union {e}
    /\ sub' = IF sub[s].status # "none" /\ events[e].at >= sub[s].at
              THEN [sub EXCEPT ![s] = [status |-> events[e].what, at |-> events[e].at]]
              ELSE sub
    /\ UNCHANGED <<accountVars, kind, op, quote, expired, calls, debt, granted, reversed,
                   events, crashes>>

\* POST /webhooks/v1/stripe and /webhooks/v1/stablecoin.
Deliver(e) == ApplyPaid(e) \/ ApplyReversal(e) \/ ApplyStatus(e)

-----------------------------------------------------------------------------
Restart ==
    /\ crashes < MaxCrashes
    /\ crashes' = crashes + 1
    /\ AccountRestart
    /\ calls' = {}
    /\ UNCHANGED <<kind, op, quote, expired, debt, granted, reversed, noted, sub, events>>

CheckoutStep == \E k \in Keys : Checkout(k) \/ CompleteOperation(k) \/ ProviderFails(k)

ProviderStep ==
    \/ \E k \in Keys : Expire(k) \/ Pay(k)
    \/ \E k \in Keys, what \in {"paid", "past_due", "resumed", "cancelled"} : Continue(k, what)
    \/ \E e \in DOMAIN events, amount \in Refunds : Refund(e, amount)

Next ==
    \/ AccountStep /\ UNCHANGED billingVars
    \/ CheckoutStep
    \/ ProviderStep
    \/ \E e \in DOMAIN events : Deliver(e)
    \/ Restart

Spec == Init /\ [][Next]_vars

Settle(u) ==
    /\ FailUsage(u) \/ \E actual \in Costs : CompleteUsage(u, actual)
    /\ UNCHANGED billingVars

\* The providers deliver an event until it is accepted, and a request's
\* handler runs to its end: every job ends, by its deadline at the latest.
FairSpec ==
    /\ Spec
    /\ \A e \in 1 .. MaxEvents : WF_vars(e \in DOMAIN events /\ Deliver(e))
    /\ \A u \in Usages : WF_vars(Settle(u))

-----------------------------------------------------------------------------
\* PROPERTIES

EventIds == 1 .. MaxEvents

\* Types; the balance and the debt are never negative (the CHECK constraints
\* of api_accounts and account_credit_debts never fail a transaction).
TypeOK ==
    /\ balance \in Nat /\ debt \in Nat /\ forgiven \in Nat
    /\ gifts \in {0, 1}
    /\ usage \in [Usages -> [status : {"none", "pending", "completed", "failed"},
                             reserved : Costs \union {0}, used : Costs \union {0}]]
    /\ handlers \subseteq Pending
    /\ job \in [Usages -> JobStatuses]
    /\ kind \in Purchases
    /\ op \in [Keys -> {"none", "pending", "completed"}]
    /\ quote \in [Keys -> {NoQuote, Free} \union EventIds]
    /\ expired \subseteq Keys /\ calls \subseteq Keys
    /\ Len(events) <= MaxEvents
    /\ events \in Seq([what : {"paid", "past_due", "resumed", "cancelled", "refund"}, key : Keys,
                       at : Nat, late : BOOLEAN, of : 0 .. MaxEvents,
                       amount : Refunds \union {0}])
    /\ granted \subseteq DOMAIN events
    /\ reversed \subseteq DOMAIN events
    /\ noted \subseteq DOMAIN events
    /\ sub \in [Subscriptions -> [status : Statuses, at : Nat]]
    /\ crashes \in 0 .. MaxCrashes

\* No token is created or lost: what the account holds, has set aside, has
\* spent and has paid back is what it was given, owes or was forgiven, through
\* every interleaving of requests, payments, refunds and restarts, and refunds
\* of one payment never take back more than it granted.
TokensAreConserved ==
    /\ balance + SumFunctionOnSet([u \in Usages |-> usage[u].reserved], Pending)
               + SumFunctionOnSet([u \in Usages |-> usage[u].used], Usages)
               + SumFunctionOnSet(Amounts, reversed)
         = Starter + gifts * Gift + debt + forgiven
             + SumFunctionOnSet([e \in DOMAIN events |-> Tokens(e)], granted)
    /\ \A e \in granted : ReversedOf(e) <= Tokens(e)

\* A quote or intent is worth one grant, however many transfers name it and
\* however often each is delivered, and it records which (consumed_event_key).
QuotesAreGrantedOnce ==
    \A k \in Keys : kind[k] # "subscription" =>
        {e \in granted : events[e].key = k} = {quote[k]} \ {Free, NoQuote}

About(e, s) ==
    /\ events[e].what \in {"paid", "past_due", "cancelled"}
    /\ kind[events[e].key] \notin TopUps
    /\ SubOf(events[e].key) = s

Seen(s) == {e \in granted \union noted : About(e, s)}

StatusOf(e) == IF events[e].what = "paid" THEN "active" ELSE events[e].what

\* The status and time of subscription s are those of a newest event of E.
IsNewest(s, E) ==
    \E e \in E : /\ sub[s].status = StatusOf(e) /\ sub[s].at = events[e].at
                /\ \A f \in E : events[f].at <= events[e].at

\* A subscription stands as the newest event that was applied to it says, in
\* whatever order payments, failures and the cancellation arrived.  Only a
\* payment makes one active again: an update back to active is never applied.
StatusIsNewest ==
    \A s \in Subscriptions :
        IF Seen(s) = {} THEN sub[s].status = "none" ELSE IsNewest(s, Seen(s))

\* A payment or a refund never leaves the account with more to spend while it
\* is in debt: a grant repays the debt of earlier refunds first.  Only a
\* request's refund and the administrator's grant do not.
PaymentsRepayFirst ==
    [][debt' > 0 /\ balance' > balance => usage' # usage \/ gifts' # gifts]_vars

\* A restart releases the free requests it interrupted: a request still pending
\* with no handler, which holds its place among MaxConcurrent for good, was not
\* linked to a job when the coordinator went down, or its job was over by then,
\* or it has tokens at stake.
FreeRequestsAreReleased ==
    \A u \in Pending \ handlers :
        \/ job[u] \in {"none", "completed", "ended"}
        \/ job[u] = "restarted" /\ usage[u].reserved > 0

PaidInTime(e) ==
    /\ e \in DOMAIN events
    /\ events[e].what = "paid"
    /\ kind[events[e].key] # "subscription" => ~events[e].late

Outbid(e) ==
    /\ e \in DOMAIN events
    /\ kind[events[e].key] # "subscription"
    /\ quote[events[e].key] \notin {Free, e}

\* What happens at the provider takes effect: every payment made in time is
\* granted, unless another transfer had already bought what its quote or intent
\* was for, and in the end each subscription stands as its newest event says,
\* although a status may arrive before the payment it is about.
EventsTakeEffect ==
    /\ []<>(\A e \in EventIds : PaidInTime(e) => e \in granted \/ Outbid(e))
    /\ <>[](\A s \in Subscriptions :
              LET all == {e \in DOMAIN events :
                             About(e, s) /\ (s = Wallet => e \in granted)} IN
              all # {} => IsNewest(s, all))

\* While the account owes tokens it has none to spend, as tests/billing.test.ts
\* has it.  The code allows otherwise: CompleteUsage gives a reservation back to
\* the balance whatever is owed.
DebtBlocksSpending == debt > 0 => balance = 0

\* At most one Stripe subscription of the account is live.  The code allows two:
\* createSubscription looks for a resumable session before it awaits Stripe.
OneSubscription ==
    Cardinality({k \in Keys : sub[k].status \in {"active", "past_due"}}) <= 1
=============================================================================
