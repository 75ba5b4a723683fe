---------------------------- MODULE BillingProofs ----------------------------
(***************************************************************************)
(* Proofs about Billing for any account, prices and history of provider    *)
(* events.                                                                 *)
(*                                                                         *)
(* The inductive invariant adds to the properties what the ledger's rows   *)
(* are: a granted event is a payment, a noted one a status of a Stripe     *)
(* subscription, and an operation not begun has no quote.  Conservation is *)
(* a second invariant, CInv, on top of it: a refund is of a granted        *)
(* payment and a request that has not been settled has used nothing.  Its  *)
(* proof rests on lemmas about sums over finite sets, by induction over    *)
(* their cardinality.                                                      *)
(***************************************************************************)
EXTENDS Billing, FiniteSetTheorems, WellFoundedInduction, TLAPS

Rows ==
    /\ \A e \in granted : events[e].what = "paid"
    /\ \A e \in noted : events[e].what \in {"past_due", "cancelled"}
    /\ \A e \in DOMAIN events :
          events[e].what \in {"past_due", "cancelled"} =>
              kind[events[e].key] = "subscription"
    /\ \A k \in Keys : op[k] = "none" => quote[k] = NoQuote

IInv == TypeOK /\ Rows /\ QuotesAreGrantedOnce /\ StatusIsNewest /\ FreeRequestsAreReleased

Records == [what : {"paid", "past_due", "resumed", "cancelled", "refund"}, key : Keys, at : Nat,
            late : BOOLEAN, of : 0 .. MaxEvents, amount : Refunds \union {0}]

-----------------------------------------------------------------------------
\* Types

LEMMA InitTypes == Init => TypeOK
  <1> SUFFICES ASSUME Init PROVE TypeOK
    BY Zenon
  <1> USE AccountAssumption, BillingAssumption DEF Init, AccountInit
  <1>1. events \in Seq(Records) /\ Len(events) = 0 /\ DOMAIN events = {}
    OBVIOUS
  <1>2. usage \in [Usages -> [status : {"none", "pending", "completed", "failed"},
                             reserved : Costs \union {0}, used : Costs \union {0}]]
    BY Zenon DEF NoUsage
  <1>3. sub \in [Subscriptions -> [status : Statuses, at : Nat]]
    BY Zenon DEF Statuses
  <1>4. job \in [Usages -> JobStatuses]
    BY Zenon DEF JobStatuses
  <1> QED BY <1>1, <1>2, <1>3, <1>4 DEF TypeOK, Records, Pending, NoQuote

UsageRows == [status : {"none", "pending", "completed", "failed"},
              reserved : Costs \union {0}, used : Costs \union {0}]

LEMMA UsageTypes ==
  ASSUME TypeOK, NEW u \in Usages
  PROVE  usage[u] \in UsageRows /\ usage[u].reserved \in Nat /\ usage[u].used \in Nat
  <1>1. usage[u] \in UsageRows
    BY Zenon DEF TypeOK, UsageRows
  <1>2. Costs \union {0} \subseteq Nat
    BY AccountAssumption
  <1> QED BY Zenon, <1>1, <1>2 DEF UsageRows

LEMMA BeginTypes ==
  ASSUME TypeOK, NEW u \in Usages, NEW need \in Costs, BeginUsage(u, need),
         UNCHANGED billingVars
  PROVE  TypeOK'
  <1>1. usage' \in [Usages -> UsageRows]
    <2>1. [status |-> "pending", reserved |-> need, used |-> 0] \in UsageRows
      BY Zenon DEF UsageRows
    <2> QED BY Zenon, <2>1 DEF TypeOK, UsageRows, BeginUsage
  <1>2. balance' \in Nat /\ need \in Nat
    BY AccountAssumption DEF TypeOK, BeginUsage
  <1>3. handlers' \subseteq Pending'
    BY SMTT(30) DEF TypeOK, BeginUsage, Pending
  <1> QED BY Zenon, <1>1, <1>2, <1>3 DEF TypeOK, billingVars, UsageRows, BeginUsage

\* A step that only moves a job.
LEMMA JobTypes ==
  ASSUME TypeOK, NEW u \in Usages, UNCHANGED billingVars,
         AttachJob(u) \/ \E how \in {"completed", "ended"} : JobEnds(u, how)
  PROVE  TypeOK'
  <1>1. job' \in [Usages -> JobStatuses]
    BY Zenon DEF AttachJob, JobEnds, TypeOK, JobStatuses
  <1> QED BY Zenon, <1>1 DEF AttachJob, JobEnds, Pending, TypeOK, billingVars

LEMMA SettleTypes ==
  ASSUME TypeOK, NEW u \in Usages, UNCHANGED billingVars,
         FailUsage(u) \/ \E actual \in Costs : CompleteUsage(u, actual)
  PROVE  TypeOK'
  <1>1. CASE FailUsage(u)
    <2>1. balance' \in Nat
      BY <1>1, UsageTypes DEF FailUsage, TypeOK
    <2>2. usage' \in [Usages -> UsageRows]
      BY Zenon, <1>1 DEF FailUsage, TypeOK, UsageRows
    <2>3. handlers' \subseteq Pending'
      BY Zenon, <1>1 DEF FailUsage, TypeOK, Pending
    <2> QED BY Zenon, <1>1, <2>1, <2>2, <2>3 DEF FailUsage, TypeOK, billingVars, UsageRows
  <1>2. ASSUME NEW actual \in Costs, CompleteUsage(u, actual) PROVE TypeOK'
    <2>1. usage[u].reserved \in Nat /\ actual \in Nat /\ balance \in Nat /\ forgiven \in Nat
      BY Zenon, UsageTypes, AccountAssumption DEF TypeOK
    <2>2. balance' \in Nat /\ forgiven' \in Nat
      <3>1. \A i \in Int : Larger(0, i) \in Nat
        BY DEF Larger
      <3>2. Larger(0, usage[u].reserved - actual) \in Nat
            /\ Larger(0, actual - usage[u].reserved) \in Nat
            /\ Larger(0, actual - usage[u].reserved - balance) \in Nat
        BY <2>1, <3>1
      <3>3. SettledBalance(u, actual) \in Nat
        BY <2>1, <3>1, <3>2 DEF SettledBalance
      <3> QED BY <1>2, <2>1, <3>2, <3>3 DEF CompleteUsage
    <2>3. usage' \in [Usages -> UsageRows]
      BY Zenon, <1>2 DEF CompleteUsage, TypeOK, UsageRows
    <2>4. handlers' \subseteq Pending'
      BY Zenon, <1>2 DEF CompleteUsage, TypeOK, Pending
    <2> QED BY Zenon, <1>2, <2>2, <2>3, <2>4 DEF CompleteUsage, TypeOK, billingVars, UsageRows
  <1> QED BY Zenon, <1>1, <1>2

LEMMA GrantTokensTypes ==
  ASSUME TypeOK, GrantTokens, UNCHANGED billingVars
  PROVE  TypeOK'
  BY AccountAssumption DEF TypeOK, billingVars, GrantTokens, Pending

LEMMA RestartTypes ==
  ASSUME TypeOK, Restart
  PROVE  TypeOK'
  <1>1. usage' \in [Usages -> UsageRows]
    <2> SUFFICES ASSUME NEW u \in Usages PROVE usage'[u] \in UsageRows
      BY Zenon DEF Restart, AccountRestart
    <2>1. usage[u] \in UsageRows
      BY Zenon, UsageTypes
    <2> QED BY Zenon, <2>1 DEF Restart, AccountRestart, UsageRows
  <1>2. handlers' \subseteq Pending'
    BY Zenon DEF Restart, AccountRestart
  <1>3. job' \in [Usages -> JobStatuses]
    BY Zenon DEF TypeOK, Restart, AccountRestart, JobStatuses
  <1>4. crashes' \in 0 .. MaxCrashes
    BY BillingAssumption DEF Restart, TypeOK
  <1> QED BY Zenon, <1>1, <1>2, <1>3, <1>4 DEF TypeOK, Restart, AccountRestart, UsageRows

LEMMA CheckoutTypes ==
  ASSUME TypeOK, NEW k \in Keys,
         Checkout(k) \/ CompleteOperation(k) \/ ProviderFails(k) \/ Expire(k)
  PROVE  TypeOK'
  BY SMTT(60), BillingAssumption DEF TypeOK, Checkout, CompleteOperation, ProviderFails, Expire,
     accountVars, Pending, Free, NoQuote

\* A new event leaves the earlier ones where they are.
LEMMA OccursAppends ==
  ASSUME TypeOK, NEW k \in Keys,
         NEW what \in {"paid", "past_due", "resumed", "cancelled", "refund"},
         NEW of \in 0 .. MaxEvents, NEW amount \in Refunds \union {0},
         Occurs(what, k, of, amount)
  PROVE  /\ events' \in Seq(Records)
         /\ Len(events') = Len(events) + 1
         /\ DOMAIN events' = DOMAIN events \union {Len(events) + 1}
         /\ \A e \in DOMAIN events : events'[e] = events[e]
         /\ events'[Len(events) + 1].what = what /\ events'[Len(events) + 1].key = k
  <1>1. events \in Seq(Records)
    BY Zenon DEF TypeOK, Records
  <1>2. Now \in Nat
    <2>1. CASE events = <<>>
      BY Zenon, <2>1 DEF Now
    <2>2. CASE events # <<>>
      <3>1. Len(events) \in 1 .. Len(events)
        BY <1>1, <2>2
      <3>2. events[Len(events)] \in Records
        BY <1>1, <3>1
      <3> QED BY Zenon, <2>2, <3>2 DEF Now, Records
    <2> QED BY Zenon, <2>1, <2>2
  <1>3. PICK at \in {Now, Now + 1} :
          events' = Append(events, Event(what, k, at, k \in expired, of, amount))
    BY Zenon DEF Occurs
  <1>4. Event(what, k, at, k \in expired, of, amount) \in Records
    BY <1>2 DEF Event, Records
  <1> QED BY <1>1, <1>3, <1>4 DEF Event

LEMMA OccursTypes ==
  ASSUME TypeOK, NEW k \in Keys,
         NEW what \in {"paid", "past_due", "resumed", "cancelled", "refund"},
         NEW of \in 0 .. MaxEvents, NEW amount \in Refunds \union {0},
         Occurs(what, k, of, amount)
  PROVE  TypeOK'
  <1>1. events' \in Seq(Records) /\ Len(events') <= MaxEvents /\ DOMAIN events \subseteq DOMAIN events'
    BY SMTT(30), OccursAppends, BillingAssumption DEF Occurs, TypeOK
  <1> QED BY Zenon, <1>1 DEF TypeOK, Records, Occurs, accountVars, Pending

\* What an event in the log looks like.
LEMMA EventTypes ==
  ASSUME TypeOK, NEW e \in DOMAIN events
  PROVE  /\ events[e] \in Records /\ events[e].key \in Keys /\ e \in 1 .. MaxEvents
         /\ events[e].at \in Nat /\ events[e].amount \in Nat
         /\ Tokens(e) \in Nat /\ SubOf(events[e].key) \in Subscriptions
  <1>1. events \in Seq(Records)
    BY Zenon DEF TypeOK, Records
  <1>2. events[e] \in Records /\ e \in 1 .. MaxEvents
    BY <1>1, BillingAssumption DEF TypeOK
  <1>3. events[e].key \in Keys /\ events[e].at \in Nat /\ events[e].amount \in Refunds \union {0}
    BY Zenon, <1>2 DEF Records
  <1>4. Tokens(e) \in Nat /\ events[e].amount \in Nat
    <2>1. Pack \in Nat /\ Plan \in Nat /\ Refunds \union {0} \subseteq Nat
      BY BillingAssumption
    <2> QED BY Zenon, <1>3, <2>1 DEF Tokens
  <1>5. SubOf(events[e].key) \in Subscriptions
    BY ZenonT(60), <1>3 DEF SubOf, Subscriptions
  <1> QED BY Zenon, <1>2, <1>3, <1>4, <1>5

LEMMA ApplyPaidTypes ==
  ASSUME TypeOK, NEW e \in DOMAIN events, ApplyPaid(e)
  PROVE  TypeOK'
  <1>1. events[e].key \in Keys /\ e \in 1 .. MaxEvents /\ events[e].at \in Nat
        /\ Tokens(e) \in Nat /\ SubOf(events[e].key) \in Subscriptions
    BY Zenon, EventTypes
  <1>2. balance' \in Nat /\ debt' \in Nat
    BY SMTT(60), <1>1 DEF ApplyPaid, Grant, Smaller, TypeOK
  <1>3. sub' \in [Subscriptions -> [status : Statuses, at : Nat]]
    <2>1. PaidSubscription(SubOf(events[e].key), e) \in [status : Statuses, at : Nat]
      BY Zenon, <1>1 DEF PaidSubscription, TypeOK, Statuses
    <2> QED BY Zenon, <1>1, <2>1 DEF ApplyPaid, TypeOK
  <1>4. quote' \in [Keys -> {NoQuote, Free} \union EventIds]
    BY Zenon, <1>1 DEF ApplyPaid, TypeOK, EventIds
  <1>5. granted' \subseteq DOMAIN events
    BY Zenon DEF ApplyPaid, TypeOK
  <1> QED BY Zenon, <1>2, <1>3, <1>4, <1>5 DEF ApplyPaid, TypeOK, Pending

LEMMA ApplyReversalTypes ==
  ASSUME TypeOK, NEW e \in DOMAIN events, ApplyReversal(e)
  PROVE  TypeOK'
  <1>1. events[e].amount \in Nat
    BY Zenon, EventTypes
  <1>2. balance' \in Nat /\ debt' \in Nat
    <2>1. balance \in Nat /\ debt \in Nat
      BY Zenon DEF TypeOK
    <2>2. /\ balance' = balance - Smaller(balance, events[e].amount)
          /\ debt' = debt + (events[e].amount - Smaller(balance, events[e].amount))
      BY Zenon DEF ApplyReversal
    <2> QED BY <1>1, <2>1, <2>2 DEF Smaller
  <1>3. reversed' \subseteq DOMAIN events
    BY Zenon DEF ApplyReversal, TypeOK
  <1> QED BY Zenon, <1>2, <1>3 DEF ApplyReversal, TypeOK, Pending

LEMMA ApplyStatusTypes ==
  ASSUME TypeOK, NEW e \in DOMAIN events, ApplyStatus(e)
  PROVE  TypeOK'
  <1>1. events[e].key \in Keys /\ events[e].at \in Nat
    BY Zenon, EventTypes
  <1>2. sub' \in [Subscriptions -> [status : Statuses, at : Nat]]
    BY Zenon, <1>1 DEF ApplyStatus, TypeOK, Statuses, Subscriptions
  <1>3. noted' \subseteq DOMAIN events
    BY Zenon DEF ApplyStatus, TypeOK
  <1> QED BY Zenon, <1>2, <1>3 DEF ApplyStatus, TypeOK, Pending, accountVars

-----------------------------------------------------------------------------
\* Requests and restarts: the billing tables do not change.

LEMMA StatusKept ==
  ASSUME UNCHANGED <<kind, granted, noted, sub, events>>, StatusIsNewest
  PROVE  StatusIsNewest'
  <1> SUFFICES ASSUME NEW s \in Subscriptions
               PROVE  IF Seen(s)' = {} THEN sub'[s].status = "none"
                                       ELSE IsNewest(s, Seen(s))'
    BY Zenon DEF StatusIsNewest
  <1>1. \A e : About(e, s)' <=> About(e, s)
    BY Zenon DEF About, SubOf
  <1>2. Seen(s)' = Seen(s)
    BY Zenon, <1>1 DEF Seen
  <1>3. IsNewest(s, Seen(s)) => IsNewest(s, Seen(s))'
    BY Zenon, <1>2 DEF IsNewest, StatusOf
  <1> QED BY Zenon, <1>2, <1>3 DEF StatusIsNewest

LEMMA AccountKeepsLedger ==
  ASSUME UNCHANGED <<kind, op, quote, granted, noted, sub, events>>,
         Rows, QuotesAreGrantedOnce, StatusIsNewest
  PROVE  Rows' /\ QuotesAreGrantedOnce' /\ StatusIsNewest'
  <1>1. Rows'
    BY Zenon DEF Rows
  <1>2. QuotesAreGrantedOnce'
    BY Zenon DEF QuotesAreGrantedOnce
  <1> QED BY Zenon, <1>1, <1>2, StatusKept

LEMMA AccountPreserves ==
  ASSUME IInv, AccountStep, UNCHANGED billingVars
  PROVE  IInv'
  <1>1. TypeOK'
    BY Zenon, BeginTypes, JobTypes, SettleTypes, GrantTokensTypes DEF IInv, AccountStep
  <1>2. Rows' /\ QuotesAreGrantedOnce' /\ StatusIsNewest'
    BY Zenon, AccountKeepsLedger DEF IInv, billingVars
  <1>3. FreeRequestsAreReleased'
    <2> USE DEF IInv, TypeOK, FreeRequestsAreReleased, Pending
    <2>1. ASSUME NEW u \in Usages, NEW need \in Costs, BeginUsage(u, need)
          PROVE  FreeRequestsAreReleased'
      BY Zenon, <2>1 DEF BeginUsage
    <2>2. ASSUME NEW u \in Usages, AttachJob(u)
          PROVE  FreeRequestsAreReleased'
      BY Zenon, <2>2 DEF AttachJob
    <2>3. ASSUME NEW u \in Usages, NEW actual \in Costs, CompleteUsage(u, actual)
          PROVE  FreeRequestsAreReleased'
      BY Zenon, <2>3 DEF CompleteUsage
    <2>4. ASSUME NEW u \in Usages, NEW how \in {"completed", "ended"}, JobEnds(u, how)
          PROVE  FreeRequestsAreReleased'
      BY Zenon, <2>4 DEF JobEnds
    <2>5. ASSUME NEW u \in Usages, FailUsage(u)
          PROVE  FreeRequestsAreReleased'
      BY Zenon, <2>5 DEF FailUsage
    <2>6. CASE GrantTokens
      BY Zenon, <2>6 DEF GrantTokens
    <2> QED BY ZenonT(60), <2>1, <2>2, <2>3, <2>4, <2>5, <2>6 DEF AccountStep
  <1> QED BY Zenon, <1>1, <1>2, <1>3 DEF IInv

LEMMA RestartPreserves ==
  ASSUME IInv, Restart
  PROVE  IInv'
  <1>1. TypeOK'
    BY Zenon, RestartTypes DEF IInv
  <1>2. Rows' /\ QuotesAreGrantedOnce' /\ StatusIsNewest'
    BY Zenon, AccountKeepsLedger DEF IInv, Restart
  <1>3. FreeRequestsAreReleased'
    <2> SUFFICES ASSUME NEW u \in Usages, usage'[u].status = "pending",
                        job'[u] \notin {"none", "completed", "ended"}
                 PROVE  job'[u] = "restarted" /\ usage'[u].reserved > 0
      BY Zenon DEF FreeRequestsAreReleased, Pending
    <2>1. u \notin Interrupted /\ usage'[u] = usage[u]
      BY Zenon, UsageTypes DEF IInv, Restart, AccountRestart, UsageRows
    <2>2. job[u] \in JobStatuses /\ job'[u] = IF job[u] = "live" THEN "restarted" ELSE job[u]
      BY Zenon DEF IInv, TypeOK, Restart, AccountRestart
    <2>3. job[u] \in {"live", "restarted"} /\ job'[u] = "restarted"
      BY Zenon, <2>2 DEF JobStatuses
    <2>4. usage[u].reserved # 0 /\ usage[u].reserved \in Nat
      BY Zenon, <2>1, <2>3, UsageTypes DEF Interrupted, Pending, IInv
    <2> QED BY <2>1, <2>3, <2>4
  <1> QED BY Zenon, <1>1, <1>2, <1>3 DEF IInv

-----------------------------------------------------------------------------
\* Checkouts and the providers

LEMMA CheckoutPreserves ==
  ASSUME IInv, NEW k \in Keys,
         Checkout(k) \/ CompleteOperation(k) \/ ProviderFails(k) \/ Expire(k)
  PROVE  IInv'
  <1>1. TypeOK'
    BY Zenon, CheckoutTypes DEF IInv
  <1>2. UNCHANGED <<kind, granted, noted, sub, events, usage, handlers, job>>
    BY Zenon DEF Checkout, CompleteOperation, ProviderFails, Expire, accountVars
  <1>3. StatusIsNewest' /\ FreeRequestsAreReleased'
    <2>1. StatusIsNewest'
      BY Zenon, <1>2, StatusKept DEF IInv
    <2>2. FreeRequestsAreReleased'
      BY Zenon, <1>2 DEF IInv, FreeRequestsAreReleased, Pending
    <2> QED BY Zenon, <2>1, <2>2
  <1>4. \A j \in Keys : quote'[j] # quote[j] => quote[j] = NoQuote /\ quote'[j] = Free
    BY SMTT(30) DEF IInv, TypeOK, Rows, Checkout, CompleteOperation, ProviderFails, Expire
  <1>5. QuotesAreGrantedOnce'
    BY SMTT(60), <1>2, <1>4 DEF IInv, QuotesAreGrantedOnce
  <1>6. \A j \in Keys : op'[j] = "none" => op[j] = "none" /\ quote'[j] = quote[j]
    BY ZenonT(60) DEF IInv, TypeOK, Checkout, CompleteOperation, ProviderFails, Expire
  <1>7. Rows'
    BY Zenon, <1>2, <1>6 DEF IInv, Rows
  <1> QED BY Zenon, <1>1, <1>3, <1>5, <1>7 DEF IInv

LEMMA OccursPreserves ==
  ASSUME IInv, NEW k \in Keys,
         NEW what \in {"paid", "past_due", "resumed", "cancelled", "refund"},
         NEW of \in 0 .. MaxEvents, NEW amount \in Refunds \union {0},
         what \in {"past_due", "cancelled"} => kind[k] = "subscription",
         Occurs(what, k, of, amount)
  PROVE  IInv'
  <1>1. TypeOK'
    BY Zenon, OccursTypes DEF IInv
  <1>2. /\ DOMAIN events' = DOMAIN events \union {Len(events) + 1}
        /\ \A e \in DOMAIN events : events'[e] = events[e]
        /\ events'[Len(events) + 1].what = what /\ events'[Len(events) + 1].key = k
    BY Zenon, OccursAppends DEF IInv
  <1>3. UNCHANGED <<kind, op, quote, granted, noted, sub, usage, handlers, job>>
    BY Zenon DEF Occurs, accountVars
  <1>4. granted \subseteq DOMAIN events /\ noted \subseteq DOMAIN events
    BY Zenon DEF IInv, TypeOK
  <1>5. Rows'
    BY ZenonT(60), <1>2, <1>3, <1>4 DEF IInv, Rows
  <1>6. QuotesAreGrantedOnce'
    BY SMTT(60), <1>2, <1>3, <1>4 DEF IInv, QuotesAreGrantedOnce
  <1>7. StatusIsNewest'
    <2> SUFFICES ASSUME NEW s \in Subscriptions
                 PROVE  IF Seen(s)' = {} THEN sub'[s].status = "none"
                                         ELSE IsNewest(s, Seen(s))'
      BY Zenon DEF StatusIsNewest
    <2>1. \A e \in granted \union noted : About(e, s)' <=> About(e, s)
      BY ZenonT(60), <1>2, <1>3, <1>4 DEF About, SubOf
    <2>2. Seen(s)' = Seen(s)
      BY Zenon, <1>3, <2>1 DEF Seen
    <2>3. IF Seen(s) = {} THEN sub[s].status = "none" ELSE IsNewest(s, Seen(s))
      BY Zenon DEF IInv, StatusIsNewest
    <2>4. Seen(s) \subseteq DOMAIN events
      BY Zenon, <1>4 DEF Seen
    <2>5. IsNewest(s, Seen(s)) => IsNewest(s, Seen(s))'
      BY ZenonT(60), <1>2, <1>3, <2>2, <2>4 DEF IsNewest, StatusOf
    <2> QED BY Zenon, <1>3, <2>2, <2>3, <2>5
  <1>8. FreeRequestsAreReleased'
    BY Zenon, <1>3 DEF IInv, FreeRequestsAreReleased, Pending
  <1> QED BY Zenon, <1>1, <1>5, <1>6, <1>7, <1>8 DEF IInv

-----------------------------------------------------------------------------
\* Deliveries

\* A subscription updated by event e, or left alone because e is older, stands
\* as the newest event seen once e is one of them.
LEMMA NewestStep ==
  ASSUME TypeOK, StatusIsNewest, NEW e \in DOMAIN events, NEW s \in Subscriptions,
         UNCHANGED <<kind, events>>,
         Seen(s)' = Seen(s) \union {e},
         IF sub[s].status = "none" \/ events[e].at >= sub[s].at
         THEN sub'[s] = [status |-> StatusOf(e), at |-> events[e].at]
         ELSE sub'[s] = sub[s]
  PROVE  IsNewest(s, Seen(s))'
  <1>1. \A f \in Seen(s) : events[f].at \in Nat
    BY Zenon, EventTypes DEF Seen, TypeOK
  <1>2. events[e].at \in Nat /\ sub[s].at \in Nat
    BY Zenon, EventTypes DEF TypeOK
  <1>3. \A f : StatusOf(f)' = StatusOf(f)
    BY Zenon DEF StatusOf
  <1>4. CASE Seen(s) = {}
    <2>1. sub[s].status = "none"
      BY Zenon, <1>4 DEF StatusIsNewest
    <2> QED BY <1>2, <1>3, <1>4, <2>1 DEF IsNewest
  <1>5. CASE Seen(s) # {}
    <2>1. PICK d \in Seen(s) : /\ sub[s].status = StatusOf(d) /\ sub[s].at = events[d].at
                              /\ \A f \in Seen(s) : events[f].at <= events[d].at
      BY Zenon, <1>5 DEF StatusIsNewest, IsNewest
    <2>2. CASE events[e].at >= sub[s].at
      <3>1. \A f \in Seen(s) \union {e} : events[f].at <= events[e].at
        BY SMTT(30), <1>1, <1>2, <2>1, <2>2
      <3> QED BY SMTT(60), <1>3, <2>2, <3>1 DEF IsNewest
    <2>3. CASE ~(events[e].at >= sub[s].at)
      <3>1. StatusOf(d) # "none"
        <4>1. d \in DOMAIN events
          BY Zenon DEF Seen, TypeOK
        <4>2. events[d] \in Records
          BY Zenon, <4>1, EventTypes
        <4> QED BY Zenon, <4>2 DEF StatusOf, Records
      <3>2. \A f \in Seen(s) \union {e} : events[f].at <= events[d].at
        BY SMTT(30), <1>1, <1>2, <2>1, <2>3
      <3> QED BY Zenon, <1>3, <2>1, <2>3, <3>1, <3>2 DEF IsNewest
    <2> QED BY Zenon, <2>2, <2>3
  <1> QED BY Zenon, <1>4, <1>5

\* The other subscriptions do not notice.
LEMMA NewestElsewhere ==
  ASSUME StatusIsNewest, NEW s \in Subscriptions, UNCHANGED <<kind, events>>,
         Seen(s)' = Seen(s), sub'[s] = sub[s]
  PROVE  IF Seen(s)' = {} THEN sub'[s].status = "none" ELSE IsNewest(s, Seen(s))'
  <1>1. \A f : StatusOf(f)' = StatusOf(f)
    BY Zenon DEF StatusOf
  <1> QED BY <1>1 DEF StatusIsNewest, IsNewest

LEMMA ApplyPaidPreserves ==
  ASSUME IInv, NEW e \in DOMAIN events, ApplyPaid(e)
  PROVE  IInv'
  <1> DEFINE k == events[e].key
  <1>1. TypeOK'
    BY Zenon, ApplyPaidTypes DEF IInv
  <1>2. /\ k \in Keys /\ e \in 1 .. MaxEvents /\ SubOf(k) \in Subscriptions
        /\ kind[k] \in Kinds
    <2>1. kind \in [Keys -> Kinds]
      BY Zenon, BillingAssumption DEF IInv, TypeOK
    <2> QED BY Zenon, <2>1, EventTypes DEF IInv
  <1>3. UNCHANGED <<usage, handlers, job, kind, op, noted, events>>
        /\ granted' = granted \union {e} /\ events[e].what = "paid"
    BY Zenon DEF ApplyPaid
  <1>4. FreeRequestsAreReleased'
    BY Zenon, <1>3 DEF IInv, FreeRequestsAreReleased, Pending
  <1>5. quote' = [quote EXCEPT ![k] = IF kind[k] = "subscription" THEN @ ELSE e]
        /\ (kind[k] # "subscription" => quote[k] = Free)
    BY Zenon DEF ApplyPaid, Payable
  <1>6. Rows'
    BY SMTT(30), <1>2, <1>3, <1>5 DEF IInv, Rows, TypeOK, Free, NoQuote
  <1>7. QuotesAreGrantedOnce'
    <2> SUFFICES ASSUME NEW j \in Keys, kind[j] # "subscription"
                 PROVE  {f \in granted' : events[f].key = j} = {quote'[j]} \ {Free, NoQuote}
      BY Zenon, <1>3 DEF QuotesAreGrantedOnce
    <2>1. {f \in granted : events[f].key = j} = {quote[j]} \ {Free, NoQuote}
      BY Zenon DEF IInv, QuotesAreGrantedOnce
    <2>2. CASE j = k
      <3>1. quote'[j] = e /\ quote[j] = Free /\ e \notin {Free, NoQuote}
        BY SMTT(30), <1>2, <1>5, <2>2 DEF IInv, TypeOK, Free, NoQuote
      <3> QED BY Zenon, <1>3, <2>1, <2>2, <3>1
    <2>3. CASE j # k
      <3>1. quote'[j] = quote[j]
        BY Zenon, <1>5, <2>3 DEF IInv, TypeOK
      <3> QED BY Zenon, <1>3, <2>1, <2>3, <3>1
    <2> QED BY Zenon, <2>2, <2>3
  <1>8. StatusIsNewest'
    <2> SUFFICES ASSUME NEW s \in Subscriptions
                 PROVE  IF Seen(s)' = {} THEN sub'[s].status = "none"
                                         ELSE IsNewest(s, Seen(s))'
      BY Zenon DEF StatusIsNewest
    <2>1. \A f : About(f, s)' <=> About(f, s)
      BY Zenon, <1>3 DEF About, SubOf
    <2>2. About(e, s) <=> kind[k] \notin TopUps /\ SubOf(k) = s
      BY Zenon, <1>3 DEF About
    <2>3. CASE About(e, s)
      <3>1. Seen(s)' = Seen(s) \union {e}
        BY Zenon, <1>3, <2>1, <2>3 DEF Seen
      <3>2. IF sub[s].status = "none" \/ events[e].at >= sub[s].at
            THEN sub'[s] = [status |-> StatusOf(e), at |-> events[e].at]
            ELSE sub'[s] = sub[s]
        BY Zenon, <1>3, <2>2, <2>3 DEF ApplyPaid, PaidSubscription, StatusOf, IInv, TypeOK
      <3>3. IsNewest(s, Seen(s))'
        BY Zenon, <1>3, <3>1, <3>2, NewestStep DEF IInv
      <3> QED BY Zenon, <3>1, <3>3
    <2>4. CASE ~About(e, s)
      <3>1. Seen(s)' = Seen(s)
        BY Zenon, <1>3, <2>1, <2>4 DEF Seen
      <3>2. sub'[s] = sub[s]
        BY Zenon, <2>2, <2>4 DEF ApplyPaid, IInv, TypeOK
      <3> QED BY Zenon, <1>3, <3>1, <3>2, NewestElsewhere DEF IInv
    <2> QED BY Zenon, <2>3, <2>4
  <1> QED BY Zenon, <1>1, <1>4, <1>6, <1>7, <1>8 DEF IInv

LEMMA ApplyReversalPreserves ==
  ASSUME IInv, NEW e \in DOMAIN events, ApplyReversal(e)
  PROVE  IInv'
  <1>1. TypeOK'
    BY Zenon, ApplyReversalTypes DEF IInv
  <1>2. UNCHANGED <<kind, op, quote, granted, noted, sub, events, usage, handlers, job>>
    BY Zenon DEF ApplyReversal
  <1>3. Rows' /\ QuotesAreGrantedOnce' /\ StatusIsNewest'
    BY Zenon, <1>2, AccountKeepsLedger DEF IInv
  <1>4. FreeRequestsAreReleased'
    BY Zenon, <1>2 DEF IInv, FreeRequestsAreReleased, Pending
  <1> QED BY Zenon, <1>1, <1>3, <1>4 DEF IInv

LEMMA ApplyStatusPreserves ==
  ASSUME IInv, NEW e \in DOMAIN events, ApplyStatus(e)
  PROVE  IInv'
  <1> DEFINE k == events[e].key
  <1>1. TypeOK'
    BY Zenon, ApplyStatusTypes DEF IInv
  <1>2. UNCHANGED <<kind, op, quote, granted, events, usage, handlers, job>>
        /\ noted' = noted \union {e} /\ events[e].what \in {"past_due", "cancelled"}
    BY Zenon DEF ApplyStatus, accountVars
  <1>3. k \in Keys /\ kind[k] = "subscription" /\ SubOf(k) = k
    BY ZenonT(30), <1>2, EventTypes DEF IInv, Rows, SubOf
  <1>4. Rows'
    BY Zenon, <1>2 DEF IInv, Rows
  <1>5. QuotesAreGrantedOnce'
    BY Zenon, <1>2 DEF IInv, QuotesAreGrantedOnce
  <1>6. FreeRequestsAreReleased'
    BY Zenon, <1>2 DEF IInv, FreeRequestsAreReleased, Pending
  <1>7. StatusIsNewest'
    <2> SUFFICES ASSUME NEW s \in Subscriptions
                 PROVE  IF Seen(s)' = {} THEN sub'[s].status = "none"
                                         ELSE IsNewest(s, Seen(s))'
      BY Zenon DEF StatusIsNewest
    <2>1. \A f : About(f, s)' <=> About(f, s)
      BY Zenon, <1>2 DEF About, SubOf
    <2>2. About(e, s) <=> k = s
      BY Zenon, <1>2, <1>3 DEF About, TopUps
    <2>3. CASE k = s
      <3>1. Seen(s)' = Seen(s) \union {e}
        BY Zenon, <1>2, <2>1, <2>2, <2>3 DEF Seen
      <3>2. IF sub[s].status = "none" \/ events[e].at >= sub[s].at
            THEN sub'[s] = [status |-> StatusOf(e), at |-> events[e].at]
            ELSE sub'[s] = sub[s]
        BY Zenon, <1>2, <2>3 DEF ApplyStatus, StatusKnown, StatusOf, IInv, TypeOK
      <3>3. IsNewest(s, Seen(s))'
        BY Zenon, <1>2, <3>1, <3>2, NewestStep DEF IInv
      <3> QED BY Zenon, <3>1, <3>3
    <2>4. CASE k # s
      <3>1. Seen(s)' = Seen(s)
        BY Zenon, <1>2, <2>1, <2>2, <2>4 DEF Seen
      <3>2. sub'[s] = sub[s]
        BY Zenon, <2>4 DEF ApplyStatus, IInv, TypeOK
      <3> QED BY Zenon, <1>2, <3>1, <3>2, NewestElsewhere DEF IInv
    <2> QED BY Zenon, <2>3, <2>4
  <1> QED BY Zenon, <1>1, <1>4, <1>5, <1>6, <1>7 DEF IInv

-----------------------------------------------------------------------------
LEMMA ProviderPreserves ==
  ASSUME IInv, ProviderStep
  PROVE  IInv'
  <1>1. ASSUME NEW k \in Keys, Expire(k) PROVE IInv'
    BY Zenon, <1>1, CheckoutPreserves
  <1>2. ASSUME NEW k \in Keys, Pay(k) PROVE IInv'
    BY <1>2, OccursPreserves, BillingAssumption DEF Pay
  <1>3. ASSUME NEW k \in Keys, NEW what \in {"paid", "past_due", "resumed", "cancelled"},
               Continue(k, what)
        PROVE  IInv'
    BY SMTT(60), <1>3, OccursPreserves, BillingAssumption DEF Continue
  <1>4. ASSUME NEW e \in DOMAIN events, NEW amount \in Refunds, Refund(e, amount)
        PROVE  IInv'
    <2>1. events[e].key \in Keys /\ e \in 0 .. MaxEvents
      BY EventTypes, BillingAssumption DEF IInv
    <2> QED BY Zenon, <1>4, <2>1, OccursPreserves DEF Refund
  <1> QED BY Zenon, <1>1, <1>2, <1>3, <1>4 DEF ProviderStep

LEMMA InitInvariant == Init => IInv
  <1> SUFFICES ASSUME Init PROVE IInv
    BY Zenon
  <1>1. TypeOK
    BY Zenon, InitTypes
  <1>2. DOMAIN events = {} /\ granted = {} /\ noted = {}
    BY SMTT(30) DEF Init
  <1>3. Rows /\ QuotesAreGrantedOnce
    BY Zenon, <1>2 DEF Init, Rows, QuotesAreGrantedOnce, Free, NoQuote
  <1>4. StatusIsNewest
    BY Zenon, <1>2 DEF Init, StatusIsNewest, Seen
  <1>5. FreeRequestsAreReleased
    BY Zenon DEF Init, AccountInit, FreeRequestsAreReleased, Pending, NoUsage
  <1> QED BY Zenon, <1>1, <1>3, <1>4, <1>5 DEF IInv

LEMMA NextInvariant == IInv /\ [Next]_vars => IInv'
  <1> SUFFICES ASSUME IInv, [Next]_vars PROVE IInv'
    BY Zenon
  <1>1. CASE AccountStep /\ UNCHANGED billingVars
    BY Zenon, <1>1, AccountPreserves
  <1>2. CASE CheckoutStep
    BY Zenon, <1>2, CheckoutPreserves DEF CheckoutStep
  <1>3. CASE ProviderStep
    BY Zenon, <1>3, ProviderPreserves
  <1>4. CASE \E e \in DOMAIN events : Deliver(e)
    BY Zenon, <1>4, ApplyPaidPreserves, ApplyReversalPreserves, ApplyStatusPreserves DEF Deliver
  <1>5. CASE Restart
    BY Zenon, <1>5, RestartPreserves
  <1>6. CASE UNCHANGED vars
    <2>1. UNCHANGED <<accountVars, billingVars>>
      BY Zenon, <1>6 DEF vars
    <2>2. Rows' /\ QuotesAreGrantedOnce' /\ StatusIsNewest'
      BY Zenon, <2>1, AccountKeepsLedger DEF IInv, billingVars
    <2>3. TypeOK' /\ FreeRequestsAreReleased'
      BY Zenon, <2>1 DEF IInv, TypeOK, FreeRequestsAreReleased, Pending, accountVars, billingVars
    <2> QED BY Zenon, <2>2, <2>3 DEF IInv
  <1> QED BY Zenon, <1>1, <1>2, <1>3, <1>4, <1>5, <1>6 DEF Next

\* The inductive invariant holds of every behaviour of the account.
THEOREM BillingInvariant == Spec => []IInv
  BY InitInvariant, NextInvariant, PTL DEF Spec

\* Types; no order of requests, settlements, grants and refunds makes the
\* balance or the debt negative.
THEOREM BalancesAreNeverNegative == Spec => []TypeOK
  <1>1. IInv => TypeOK
    BY Zenon DEF IInv
  <1> QED BY <1>1, BillingInvariant, PTL

\* A quote or intent is granted once, whatever transfers name it and however
\* often each is delivered.
THEOREM QuotesGrantOnce == Spec => []QuotesAreGrantedOnce
  <1>1. IInv => QuotesAreGrantedOnce
    BY Zenon DEF IInv
  <1> QED BY <1>1, BillingInvariant, PTL

\* A subscription stands as the newest event applied to it says, for any
\* number of events delivered in any order, any number of times.
THEOREM SubscriptionsFollowTheNewestEvent == Spec => []StatusIsNewest
  <1>1. IInv => StatusIsNewest
    BY Zenon DEF IInv
  <1> QED BY <1>1, BillingInvariant, PTL

\* A restart settles the free requests it interrupted, for any number of requests
\* and restarts: one that stays pending without a handler had no job yet or one
\* that was over when the coordinator went down, or has tokens at stake.
THEOREM RestartsSettleFreeRequests == Spec => []FreeRequestsAreReleased
  <1>1. IInv => FreeRequestsAreReleased
    BY Zenon DEF IInv
  <1> QED BY <1>1, BillingInvariant, PTL

\* A payment or refund never leaves more to spend while there is a debt.
THEOREM PaymentsRepayDebtFirst == Spec => PaymentsRepayFirst
  <1> DEFINE Repays == debt' > 0 /\ balance' > balance => usage' # usage \/ gifts' # gifts
  <1>1. IInv /\ [Next]_vars => [Repays]_vars
    <2> SUFFICES ASSUME IInv, Next, debt' > 0, balance' > balance
                 PROVE  usage' # usage \/ gifts' # gifts
      BY Zenon
    <2>1. balance \in Nat /\ debt \in Nat /\ usage \in [Usages -> UsageRows] /\ gifts \in {0, 1}
      BY Zenon DEF IInv, TypeOK, UsageRows
    <2>2. CASE AccountStep
      <3>1. ASSUME NEW u \in Usages, NEW need \in Costs, BeginUsage(u, need)
            PROVE  usage' # usage
        <4>1. usage'[u].status # usage[u].status
          BY SMTT(30), <2>1, <3>1 DEF BeginUsage, UsageRows
        <4> QED BY Zenon, <4>1
      <3>2. ASSUME NEW u \in Usages, NEW actual \in Costs, CompleteUsage(u, actual)
            PROVE  usage' # usage
        <4>1. usage'[u].status # usage[u].status
          BY Zenon, <2>1, <3>2 DEF CompleteUsage
        <4> QED BY Zenon, <4>1
      <3>3. ASSUME NEW u \in Usages, FailUsage(u) PROVE usage' # usage
        <4>1. usage'[u].status # usage[u].status
          BY Zenon, <2>1, <3>3 DEF FailUsage
        <4> QED BY Zenon, <4>1
      <3>4. ASSUME NEW u \in Usages,
                   AttachJob(u) \/ \E how \in {"completed", "ended"} : JobEnds(u, how)
            PROVE  FALSE
        <4>1. balance' = balance
          BY Zenon, <3>4 DEF AttachJob, JobEnds
        <4> QED BY <2>1, <4>1
      <3>5. CASE GrantTokens
        BY <3>5 DEF GrantTokens
      <3> QED BY Zenon, <2>2, <3>1, <3>2, <3>3, <3>4, <3>5 DEF AccountStep
    <2>3. CASE CheckoutStep \/ ProviderStep \/ Restart
      <3>1. balance' = balance
        BY Zenon, <2>3 DEF CheckoutStep, ProviderStep, Checkout, CompleteOperation, ProviderFails,
           Expire, Pay, Continue, Refund, Occurs, Restart, AccountRestart, accountVars
      <3> QED BY SMTT(60), <2>1, <3>1
    <2>4. ASSUME NEW e \in DOMAIN events, Deliver(e) PROVE FALSE
      <3>1. Tokens(e) \in Nat /\ events[e].amount \in Nat
        BY Zenon, EventTypes DEF IInv
      <3>2. CASE ApplyPaid(e)
        BY <2>1, <3>1, <3>2 DEF ApplyPaid, Grant, Smaller
      <3>3. CASE ApplyReversal(e)
        <4>1. balance' = balance - Smaller(balance, events[e].amount)
          BY Zenon, <3>3 DEF ApplyReversal
        <4> QED BY SMTT(30), <2>1, <3>1, <4>1 DEF Smaller
      <3>4. CASE ApplyStatus(e)
        BY <2>1, <3>4 DEF ApplyStatus, accountVars
      <3> QED BY Zenon, <2>4, <3>2, <3>3, <3>4 DEF Deliver
    <2> QED BY Zenon, <2>2, <2>3, <2>4 DEF Next
  <1> QED BY <1>1, BillingInvariant, PTL DEF Spec, PaymentsRepayFirst

-----------------------------------------------------------------------------
\* Sums over finite sets

\* Complete induction over a set of naturals.
LEMMA Naturally ==
    ASSUME NEW G, \A n \in Nat : (\A m \in Nat : m < n => m \in G) => n \in G
    PROVE  \A n \in Nat : n \in G
<1>1. SUFFICES ASSUME Nat \ G # {} PROVE FALSE
  BY Zenon
<1>2. PICK x \in Nat \ G : \A y \in Nat \ G : ~(<<y, x>> \in OpToRel(<, Nat))
  <2>1. Nat \ G \subseteq Nat
    BY Zenon
  <2> QED
    BY <1>1, <2>1, NatLessThanWellFounded, WFMin, Zenon
<1>3. ASSUME NEW y \in Nat, y < x PROVE y \in G
  <2>1. <<y, x>> \in Nat \X Nat /\ <<y, x>>[1] = y /\ <<y, x>>[2] = x
    BY Zenon
  <2>2. <<y, x>> \in OpToRel(<, Nat)
    BY <1>3, <2>1, Zenon DEF OpToRel
  <2> QED
    BY <1>2, <2>2, Zenon
<1> QED
  BY <1>3, Zenon

\* The recursive function in the definition of SumFunctionOnSet.
Pick(t) == CHOOSE x \in t : TRUE
Body(g, f, t) == IF t = {} THEN 0 ELSE f[Pick(t)] + g[t \ {Pick(t)}]
Sums(g, f, S) == g = [t \in SUBSET S |-> Body(g, f, t)]

LEMMA PickIsIn == \A t : t # {} => Pick(t) \in t
BY Zenon DEF Pick

\* A picked element makes a finite set one smaller.
LEMMA OneLess ==
    ASSUME NEW t, IsFiniteSet(t), NEW x \in t
    PROVE  /\ IsFiniteSet(t \ {x}) /\ Cardinality(t) \in Nat /\ Cardinality(t \ {x}) \in Nat
           /\ Cardinality(t \ {x}) + 1 = Cardinality(t)
<1>1. IsFiniteSet(t \ {x}) /\ Cardinality(t \ {x}) = Cardinality(t) - 1
  BY FS_RemoveElement, Zenon
<1>2. Cardinality(t) \in Nat /\ Cardinality(t \ {x}) \in Nat
  BY <1>1, FS_CardinalityType, Zenon
<1>3. \A a, b \in Nat : b = a - 1 => b + 1 = a
  OBVIOUS
<1> QED
  BY <1>1, <1>2, <1>3, Zenon

LEMMA SumsExist ==
    ASSUME NEW f, NEW S, IsFiniteSet(S)
    PROVE  \E g : Sums(g, f, S)
<1> DEFINE D(n) == {t \in SUBSET S : Cardinality(t) <= n}
           G == {n \in Nat : \E g : g = [t \in D(n) |-> Body(g, f, t)]}
<1>1. ASSUME NEW n \in Nat, \A m \in Nat : m < n => m \in G
      PROVE  n \in G
  <2>1. CASE n = 0
    <3>1. \A t \in D(0) : t = {}
      <4>1. \A a \in Nat : a <= 0 => a = 0
        OBVIOUS
      <4> QED
        BY <4>1, FS_Subset, FS_CardinalityType, FS_EmptySet, Zenon
    <3> DEFINE g == [t \in D(0) |-> 0]
    <3>2. g = [t \in D(0) |-> Body(g, f, t)]
      BY <3>1, Zenon DEF Body
    <3> QED
      BY <2>1, <3>2, Zenon
  <2>2. CASE n # 0
    <3>1. PICK m \in Nat : n = m + 1 /\ m < n
      <4>1. n - 1 \in Nat /\ n = (n - 1) + 1 /\ n - 1 < n
        BY <2>2
      <4> QED
        BY <4>1, Zenon
    <3>2. PICK g : g = [t \in D(m) |-> Body(g, f, t)]
      BY <3>1, <1>1, Zenon
    <3> DEFINE h == [t \in D(n) |-> Body(g, f, t)]
    <3>3. ASSUME NEW t \in D(n), t # {} PROVE t \ {Pick(t)} \in D(m) /\ t \ {Pick(t)} \in D(n)
      <4>1. IsFiniteSet(t) /\ Pick(t) \in t
        BY <3>3, FS_Subset, PickIsIn, Zenon
      <4>2. PICK a \in Nat, b \in Nat : a = Cardinality(t) /\ b = Cardinality(t \ {Pick(t)}) /\ b + 1 = a
        BY <4>1, OneLess, Zenon
      <4>3. \A c, d, e, k \in Nat : d + 1 = c /\ c <= e /\ e = k + 1 => d <= k /\ d <= e
        OBVIOUS
      <4>4. b <= m /\ b <= n
        BY <3>1, <4>2, <4>3, Zenon
      <4> QED
        BY <4>2, <4>4, Zenon
    <3>4. \A t \in D(m) : t \in D(n) => h[t] = g[t]
      BY <3>2, Zenon
    <3>5. \A t \in D(n) : Body(g, f, t) = Body(h, f, t)
      BY <3>3, <3>4, Zenon DEF Body
    <3>6. h = [t \in D(n) |-> Body(h, f, t)]
      BY <3>5, Zenon
    <3> QED
      BY <3>6, Zenon
  <2> QED
    BY <2>1, <2>2, Zenon
<1>2. \A n \in Nat : n \in G
  <2> HIDE DEF G
  <2> QED
    BY <1>1, Naturally, Zenon
<1>3. Cardinality(S) \in Nat
  BY FS_CardinalityType, Zenon
<1>4. D(Cardinality(S)) = SUBSET S
  BY FS_Subset, Zenon
<1> QED
  BY <1>2, <1>3, <1>4, Zenon DEF Sums

\* So the sum of f over S is what such a function says of S.
LEMMA SumIsSums ==
    ASSUME NEW f, NEW S, IsFiniteSet(S)
    PROVE  \E g : Sums(g, f, S) /\ SumFunctionOnSet(f, S) = g[S]
<1> DEFINE it == CHOOSE g : Sums(g, f, S)
<1>1. Sums(it, f, S)
  <2>1. \E g : Sums(g, f, S)
    BY SumsExist, Zenon
  <2> QED
    BY <2>1, Zenon
<1>2. SumFunctionOnSet(f, S) = it[S]
  BY Zenon DEF SumFunctionOnSet, FoldFunctionOnSet, MapThenFoldSet, Sums, Body, Pick
<1> QED
  BY <1>1, <1>2, Zenon

\* Such functions agree wherever what they sum does.
LEMMA SumsAgree ==
    ASSUME NEW f, NEW S, IsFiniteSet(S), NEW g, Sums(g, f, S),
           NEW k, NEW T, NEW h, Sums(h, k, T),
           NEW u \in SUBSET S, u \in SUBSET T, \A x \in u : f[x] = k[x]
    PROVE  g[u] = h[u]
<1> DEFINE G == {n \in Nat : \A t \in SUBSET S : Cardinality(t) = n /\ t \subseteq T /\ (\A x \in t : f[x] = k[x]) => g[t] = h[t]}
<1>1. ASSUME NEW n \in Nat, \A m \in Nat : m < n => m \in G
      PROVE  n \in G
  <2>1. SUFFICES ASSUME NEW t \in SUBSET S, Cardinality(t) = n, t \subseteq T, \A x \in t : f[x] = k[x]
                 PROVE  g[t] = h[t]
    BY Zenon
  <2>2. g[t] = Body(g, f, t) /\ h[t] = Body(h, k, t)
    BY <2>1, Zenon DEF Sums
  <2>3. CASE t = {}
    BY <2>2, <2>3, Zenon DEF Body
  <2>4. CASE t # {}
    <3>1. IsFiniteSet(t) /\ Pick(t) \in t
      BY <2>4, FS_Subset, PickIsIn, Zenon
    <3>2. PICK b \in Nat : b = Cardinality(t \ {Pick(t)}) /\ b + 1 = n
      BY <2>1, <3>1, OneLess, Zenon
    <3>3. \A a, c \in Nat : a + 1 = c => a < c
      OBVIOUS
    <3>4. b \in G
      BY <1>1, <3>2, <3>3, Zenon
    <3>5. g[t \ {Pick(t)}] = h[t \ {Pick(t)}]
      BY <2>1, <3>2, <3>4, Zenon
    <3> QED
      BY <2>1, <2>2, <2>4, <3>1, <3>5, Zenon DEF Body
  <2> QED
    BY <2>3, <2>4, Zenon
<1>2. \A n \in Nat : n \in G
  <2> HIDE DEF G
  <2> QED
    BY <1>1, Naturally, Zenon
<1> QED
  BY <1>2, FS_Subset, FS_CardinalityType, Zenon

\* The sum over the empty set, the sum over a set from one of its elements, and
\* sums of functions that agree.
LEMMA SumOfNone == \A f : SumFunctionOnSet(f, {}) = 0
<1> SUFFICES ASSUME NEW f PROVE SumFunctionOnSet(f, {}) = 0
  BY Zenon
<1>1. PICK g : Sums(g, f, {}) /\ SumFunctionOnSet(f, {}) = g[{}]
  BY SumIsSums, FS_EmptySet, Zenon
<1>2. {} \in SUBSET {}
  BY Zenon
<1> QED
  BY <1>1, <1>2, Zenon DEF Sums, Body

LEMMA SumAgrees ==
    ASSUME NEW f, NEW k, NEW S, IsFiniteSet(S), \A x \in S : f[x] = k[x]
    PROVE  SumFunctionOnSet(f, S) = SumFunctionOnSet(k, S)
<1>1. PICK g : Sums(g, f, S) /\ SumFunctionOnSet(f, S) = g[S]
  BY SumIsSums, Zenon
<1>2. PICK h : Sums(h, k, S) /\ SumFunctionOnSet(k, S) = h[S]
  BY SumIsSums, Zenon
<1>3. S \in SUBSET S
  BY Zenon
<1>4. g[S] = h[S]
  BY <1>1, <1>2, <1>3, SumsAgree, SMT
<1> QED
  BY <1>1, <1>2, <1>4, Zenon

LEMMA SumPicks ==
    ASSUME NEW f, NEW S, IsFiniteSet(S), S # {}
    PROVE  SumFunctionOnSet(f, S) = f[Pick(S)] + SumFunctionOnSet(f, S \ {Pick(S)})
<1> DEFINE T == S \ {Pick(S)}
<1>0. T \in SUBSET S /\ T \in SUBSET T /\ IsFiniteSet(T)
  BY FS_RemoveElement, Zenon
<1> HIDE DEF T
<1>1. PICK g : Sums(g, f, S) /\ SumFunctionOnSet(f, S) = g[S]
  BY SumIsSums, Zenon
<1>2. PICK h : Sums(h, f, T) /\ SumFunctionOnSet(f, T) = h[T]
  BY <1>0, SumIsSums, Zenon
<1>3. g[T] = h[T]
  <2>1. \A x \in T : f[x] = f[x]
    BY Zenon
  <2> QED
    BY <1>0, <1>1, <1>2, <2>1, SumsAgree, SMT
<1>4. g[S] = Body(g, f, S)
  <2>1. S \in SUBSET S
    BY Zenon
  <2> QED
    BY <1>1, <2>1, Zenon DEF Sums
<1> QED
  BY <1>1, <1>2, <1>3, <1>4, Zenon DEF Body, T

\* Sums of integers are integers, those of naturals naturals.
LEMMA SumIsNumber ==
    ASSUME NEW N \in {Nat, Int, {0}}, NEW f, NEW S, IsFiniteSet(S), \A x \in S : f[x] \in N
    PROVE  SumFunctionOnSet(f, S) \in N
<1> DEFINE G == {n \in Nat : \A t \in SUBSET S : Cardinality(t) = n => SumFunctionOnSet(f, t) \in N}
<1>0. 0 \in N /\ \A a, b \in N : a + b \in N
  <2>1. CASE N = Nat
    BY <2>1
  <2>2. CASE N = Int
    BY <2>2
  <2>3. CASE N = {0}
    BY <2>3
  <2> QED
    BY <2>1, <2>2, <2>3, Zenon
<1>1. ASSUME NEW n \in Nat, \A m \in Nat : m < n => m \in G
      PROVE  n \in G
  <2>1. SUFFICES ASSUME NEW t \in SUBSET S, Cardinality(t) = n
                 PROVE  SumFunctionOnSet(f, t) \in N
    BY Zenon
  <2>2. CASE t = {}
    BY <1>0, <2>2, SumOfNone, Zenon
  <2>3. CASE t # {}
    <3>1. IsFiniteSet(t) /\ Pick(t) \in t
      BY <2>3, FS_Subset, PickIsIn, Zenon
    <3>2. PICK b \in Nat : b = Cardinality(t \ {Pick(t)}) /\ b + 1 = n
      BY <2>1, <3>1, OneLess, Zenon
    <3>3. \A a, c \in Nat : a + 1 = c => a < c
      OBVIOUS
    <3>4. b \in G
      BY <1>1, <3>2, <3>3, Zenon
    <3>5. SumFunctionOnSet(f, t \ {Pick(t)}) \in N
      BY <3>2, <3>4, Zenon
    <3>6. SumFunctionOnSet(f, t) = f[Pick(t)] + SumFunctionOnSet(f, t \ {Pick(t)})
      BY <2>3, <3>1, SumPicks, Zenon
    <3> QED
      BY <1>0, <3>1, <3>5, <3>6, Zenon
  <2> QED
    BY <2>2, <2>3, Zenon
<1>2. \A n \in Nat : n \in G
  <2> HIDE DEF G
  <2> QED
    BY <1>1, Naturally, Zenon
<1> QED
  BY <1>2, FS_CardinalityType, Zenon

\* A sum from any of its elements.
LEMMA SumTakes ==
    ASSUME NEW f, NEW S, IsFiniteSet(S), \A x \in S : f[x] \in Int
    PROVE  \A x \in S : SumFunctionOnSet(f, S) = f[x] + SumFunctionOnSet(f, S \ {x})
<1> DEFINE G == {n \in Nat : \A t \in SUBSET S : Cardinality(t) = n =>
                    \A x \in t : SumFunctionOnSet(f, t) = f[x] + SumFunctionOnSet(f, t \ {x})}
<1>1. ASSUME NEW n \in Nat, \A m \in Nat : m < n => m \in G
      PROVE  n \in G
  <2>1. SUFFICES ASSUME NEW t \in SUBSET S, Cardinality(t) = n, NEW x \in t
                 PROVE  SumFunctionOnSet(f, t) = f[x] + SumFunctionOnSet(f, t \ {x})
    BY Zenon
  <2>2. PICK p : p = Pick(t)
    BY Zenon
  <2>3. IsFiniteSet(t) /\ p \in t
    BY <2>2, FS_Subset, PickIsIn, Zenon
  <2>4. SumFunctionOnSet(f, t) = f[p] + SumFunctionOnSet(f, t \ {p})
    BY <2>2, <2>3, SumPicks, Zenon
  <2>5. CASE x # p
    <3>1. \A y \in t : \E b \in Nat : b = Cardinality(t \ {y}) /\ b + 1 = n
      BY <2>1, <2>3, OneLess, Zenon
    <3>2. \A a, c \in Nat : a + 1 = c => a < c
      OBVIOUS
    <3>3. \A y \in t : \E b \in G : b = Cardinality(t \ {y})
      BY <1>1, <3>1, <3>2, Zenon
    <3>4. \A y \in t, z \in t : y # z =>
             SumFunctionOnSet(f, t \ {y}) = f[z] + SumFunctionOnSet(f, (t \ {y}) \ {z})
      <4>1. SUFFICES ASSUME NEW y \in t, NEW z \in t, y # z
                     PROVE  SumFunctionOnSet(f, t \ {y}) = f[z] + SumFunctionOnSet(f, (t \ {y}) \ {z})
        BY Zenon
      <4>2. t \ {y} \in SUBSET S /\ z \in t \ {y}
        BY <4>1, Zenon
      <4> QED
        BY <3>3, <4>2, Zenon
    <3>5. (t \ {p}) \ {x} = (t \ {x}) \ {p}
      BY Zenon
    <3>6. PICK u : u = SumFunctionOnSet(f, (t \ {p}) \ {x})
      BY Zenon
    <3>7. /\ SumFunctionOnSet(f, t \ {p}) = f[x] + u
          /\ SumFunctionOnSet(f, t \ {x}) = f[p] + u
      BY <2>3, <2>5, <3>4, <3>5, <3>6, Zenon
    <3>8. u \in Int
      <4>1. IsFiniteSet((t \ {p}) \ {x}) /\ \A y \in (t \ {p}) \ {x} : f[y] \in Int
        BY <2>3, FS_RemoveElement, Zenon
      <4>2. Int \in {Nat, Int, {0}}
        BY Zenon
      <4> QED
        BY <3>6, <4>1, <4>2, SumIsNumber, Zenon
    <3>9. f[x] \in Int /\ f[p] \in Int
      BY <2>3, Zenon
    <3>10. \A a, b, c \in Int : a + (b + c) = b + (a + c)
      OBVIOUS
    <3>11. f[p] + (f[x] + u) = f[x] + (f[p] + u)
      BY <3>8, <3>9, <3>10, Zenon
    <3> QED
      BY <2>4, <3>7, <3>11, Zenon
  <2> QED
    BY <2>4, <2>5, Zenon
<1>2. \A n \in Nat : n \in G
  <2> HIDE DEF G
  <2> QED
    BY <1>1, Naturally, Zenon
<1>3. S \in SUBSET S /\ Cardinality(S) \in Nat
  BY FS_CardinalityType, Zenon
<1> QED
  BY <1>2, <1>3, Zenon

\* One more element, and one whose value changes.
LEMMA SumAdds ==
    ASSUME NEW f, NEW S, IsFiniteSet(S), NEW x, x \notin S, \A y \in S \union {x} : f[y] \in Int
    PROVE  SumFunctionOnSet(f, S \union {x}) = f[x] + SumFunctionOnSet(f, S)
<1>1. IsFiniteSet(S \union {x}) /\ x \in S \union {x} /\ (S \union {x}) \ {x} = S
  BY FS_AddElement, Zenon
<1> QED
  BY <1>1, SumTakes, SMT

LEMMA SumChanges ==
    ASSUME NEW f, NEW k, NEW S, IsFiniteSet(S), NEW x \in S,
           \A y \in S : f[y] \in Int /\ k[y] \in Int /\ (y # x => f[y] = k[y])
    PROVE  SumFunctionOnSet(k, S) = SumFunctionOnSet(f, S) + (k[x] - f[x])
<1>1. /\ SumFunctionOnSet(f, S) = f[x] + SumFunctionOnSet(f, S \ {x})
      /\ SumFunctionOnSet(k, S) = k[x] + SumFunctionOnSet(k, S \ {x})
  BY SumTakes, SMT
<1>2. IsFiniteSet(S \ {x}) /\ Int \in {Nat, Int, {0}}
  BY FS_RemoveElement, Zenon
<1>3. SumFunctionOnSet(f, S \ {x}) = SumFunctionOnSet(k, S \ {x})
  BY <1>2, SumAgrees, SMT
<1>4. SumFunctionOnSet(f, S \ {x}) \in Int
  BY <1>2, SumIsNumber, Zenon
<1>5. \A a, b, c \in Int : a + c = (b + c) + (a - b)
  OBVIOUS
<1>6. k[x] + SumFunctionOnSet(f, S \ {x}) = (f[x] + SumFunctionOnSet(f, S \ {x})) + (k[x] - f[x])
  BY <1>4, <1>5, Zenon
<1> QED
  BY <1>1, <1>3, <1>6, Zenon

\* Sums over disjoint sets add up.
LEMMA SumJoins ==
    ASSUME NEW f, NEW S, IsFiniteSet(S), NEW T, IsFiniteSet(T), S \intersect T = {},
           \A x \in S \union T : f[x] \in Int
    PROVE  SumFunctionOnSet(f, S \union T) = SumFunctionOnSet(f, S) + SumFunctionOnSet(f, T)
<1> DEFINE G == {n \in Nat : \A t \in SUBSET T : Cardinality(t) = n =>
                    SumFunctionOnSet(f, S \union t) = SumFunctionOnSet(f, S) + SumFunctionOnSet(f, t)}
<1>0. \A t \in SUBSET T : /\ IsFiniteSet(t) /\ IsFiniteSet(S \union t)
                          /\ SumFunctionOnSet(f, S) \in Int /\ SumFunctionOnSet(f, t) \in Int
  <2>1. Int \in {Nat, Int, {0}}
    BY Zenon
  <2> SUFFICES ASSUME NEW t \in SUBSET T
               PROVE  /\ IsFiniteSet(t) /\ IsFiniteSet(S \union t)
                      /\ SumFunctionOnSet(f, S) \in Int /\ SumFunctionOnSet(f, t) \in Int
    BY Zenon
  <2>2. IsFiniteSet(t) /\ IsFiniteSet(S \union t)
    BY FS_Subset, FS_Union, Zenon
  <2>3. SumFunctionOnSet(f, S) \in Int
    BY <2>1, SumIsNumber, Zenon
  <2>4. SumFunctionOnSet(f, t) \in Int
    BY <2>1, <2>2, SumIsNumber, Zenon
  <2> QED
    BY <2>2, <2>3, <2>4, Zenon
<1>1. ASSUME NEW n \in Nat, \A m \in Nat : m < n => m \in G
      PROVE  n \in G
  <2>1. SUFFICES ASSUME NEW t \in SUBSET T, Cardinality(t) = n
                 PROVE  SumFunctionOnSet(f, S \union t) = SumFunctionOnSet(f, S) + SumFunctionOnSet(f, t)
    BY Zenon
  <2>2. CASE t = {}
    <3>1. S \union t = S /\ SumFunctionOnSet(f, t) = 0
      BY <2>2, SumOfNone, Zenon
    <3>2. \A a \in Int : a = a + 0
      OBVIOUS
    <3> QED
      BY <1>0, <3>1, <3>2, Zenon
  <2>3. CASE t # {}
    <3>1. PICK p \in t : TRUE
      BY <2>3, Zenon
    <3>2. PICK b \in Nat : b = Cardinality(t \ {p}) /\ b + 1 = n
      BY <1>0, <2>1, OneLess, Zenon
    <3>3. \A a, c \in Nat : a + 1 = c => a < c
      OBVIOUS
    <3>4. b \in G
      BY <1>1, <3>2, <3>3, Zenon
    <3>5. SumFunctionOnSet(f, S \union (t \ {p})) = SumFunctionOnSet(f, S) + SumFunctionOnSet(f, t \ {p})
      BY <3>2, <3>4, Zenon
    <3>6. p \in S \union t /\ (S \union t) \ {p} = S \union (t \ {p})
      BY Zenon
    <3>7. SumFunctionOnSet(f, S \union t) = f[p] + SumFunctionOnSet(f, S \union (t \ {p}))
      <4>1. PICK u : u = S \union t
        BY Zenon
      <4>2. IsFiniteSet(u) /\ p \in u /\ u \ {p} = S \union (t \ {p})
        BY <1>0, <3>6, <4>1, Zenon
      <4>3. \A x \in u : f[x] \in Int
        BY <4>1, Zenon
      <4>4. SumFunctionOnSet(f, u) = f[p] + SumFunctionOnSet(f, u \ {p})
        BY <4>2, <4>3, SumTakes, SMT
      <4> QED
        BY <4>1, <4>2, <4>4, Zenon
    <3>8. SumFunctionOnSet(f, t) = f[p] + SumFunctionOnSet(f, t \ {p})
      <4>1. IsFiniteSet(t) /\ \A x \in t : f[x] \in Int
        BY <1>0, Zenon
      <4> QED
        BY <4>1, SumTakes, SMT
    <3>9. f[p] \in Int /\ SumFunctionOnSet(f, S) \in Int /\ SumFunctionOnSet(f, t \ {p}) \in Int
      <4>1. t \ {p} \in SUBSET T
        BY Zenon
      <4> QED
        BY <1>0, <4>1, Zenon
    <3>10. \A a, c, d \in Int : a + (c + d) = c + (a + d)
      OBVIOUS
    <3>11. f[p] + (SumFunctionOnSet(f, S) + SumFunctionOnSet(f, t \ {p}))
             = SumFunctionOnSet(f, S) + (f[p] + SumFunctionOnSet(f, t \ {p}))
      BY <3>9, <3>10, Zenon
    <3> QED
      BY <3>5, <3>7, <3>8, <3>11, Zenon
  <2> QED
    BY <2>2, <2>3, Zenon
<1>2. \A n \in Nat : n \in G
  <2> HIDE DEF G
  <2> QED
    BY <1>1, Naturally, Zenon
<1>3. T \in SUBSET T /\ Cardinality(T) \in Nat
  BY FS_CardinalityType, Zenon
<1> QED
  BY <1>2, <1>3, Zenon

-----------------------------------------------------------------------------
\* Conservation

Reserves == [u \in Usages |-> usage[u].reserved]
Uses     == [u \in Usages |-> usage[u].used]
Prices   == [e \in DOMAIN events |-> Tokens(e)]

Reserved  == SumFunctionOnSet(Reserves, Pending)
Spent     == SumFunctionOnSet(Uses, Usages)
TakenBack == SumFunctionOnSet(Amounts, reversed)
Given     == SumFunctionOnSet(Prices, granted)

\* What is refunded was granted, and what is not settled has used nothing.
CInv ==
    /\ TokensAreConserved
    /\ \A e \in reversed : events[e].of \in granted
    /\ \A u \in Usages : usage[u].status \in {"none", "pending"} => usage[u].used = 0

\* What is summed is finite and natural numbers.
LEMMA SumTypes ==
  ASSUME TypeOK
  PROVE  /\ \A u \in Usages : /\ Reserves[u] = usage[u].reserved /\ Reserves[u] \in Nat
                              /\ Uses[u] = usage[u].used /\ Uses[u] \in Nat
         /\ \A e \in DOMAIN events : /\ Amounts[e] = events[e].amount /\ Amounts[e] \in Nat
                                     /\ Prices[e] = Tokens(e) /\ Prices[e] \in Nat
         /\ IsFiniteSet(Pending) /\ IsFiniteSet(Usages)
         /\ \A S \in SUBSET DOMAIN events : IsFiniteSet(S)
         /\ reversed \in SUBSET DOMAIN events /\ granted \in SUBSET DOMAIN events
<1>1. \A u \in Usages : /\ Reserves[u] = usage[u].reserved /\ Reserves[u] \in Nat
                        /\ Uses[u] = usage[u].used /\ Uses[u] \in Nat
  BY UsageTypes, Zenon DEF Reserves, Uses
<1>2. \A e \in DOMAIN events : /\ Amounts[e] = events[e].amount /\ Amounts[e] \in Nat
                               /\ Prices[e] = Tokens(e) /\ Prices[e] \in Nat
  BY EventTypes, Zenon DEF Amounts, Prices
<1>3. IsFiniteSet(Pending) /\ IsFiniteSet(Usages)
  BY AccountAssumption, FS_Subset, Zenon DEF Pending
<1>4. IsFiniteSet(DOMAIN events)
  <2>1. events \in Seq(Records)
    BY Zenon DEF TypeOK, Records
  <2>2. DOMAIN events = 1 .. Len(events) /\ Len(events) \in Nat
    BY <2>1, SMT
  <2>3. \A n \in Nat : n \in Int /\ 1 \in Int
    OBVIOUS
  <2> QED
    BY <2>2, <2>3, FS_Interval, Zenon
<1>5. \A S \in SUBSET DOMAIN events : IsFiniteSet(S)
  BY <1>4, FS_Subset, Zenon
<1>6. reversed \in SUBSET DOMAIN events /\ granted \in SUBSET DOMAIN events
  BY Zenon DEF TypeOK
<1> QED
  BY <1>1, <1>2, <1>3, <1>5, <1>6, Zenon

LEMMA SumsAreNatural ==
  ASSUME TypeOK
  PROVE  /\ Reserved \in Nat /\ Spent \in Nat /\ TakenBack \in Nat /\ Given \in Nat
         /\ \A S \in SUBSET DOMAIN events : SumFunctionOnSet(Amounts, S) \in Nat
<1>1. Nat \in {Nat, Int, {0}}
  BY Zenon
<1>2. \A u \in Pending : u \in Usages
  BY Zenon DEF Pending
<1>3. Reserved \in Nat
  BY <1>1, <1>2, SumTypes, SumIsNumber, Zenon DEF Reserved
<1>4. Spent \in Nat
  BY <1>1, SumTypes, SumIsNumber, Zenon DEF Spent
<1>5. \A S \in SUBSET DOMAIN events : SumFunctionOnSet(Amounts, S) \in Nat
  BY <1>1, SumTypes, SumIsNumber, Zenon
<1>6. TakenBack \in Nat
  BY <1>5, SumTypes, Zenon DEF TakenBack
<1>7. Given \in Nat
  <2>1. IsFiniteSet(granted) /\ \A e \in granted : Prices[e] \in Nat
    BY SumTypes, Zenon
  <2> QED
    BY <1>1, <2>1, SumIsNumber, Zenon DEF Given
<1> QED
  BY <1>3, <1>4, <1>5, <1>6, <1>7, Zenon

\* The two sides of the account, as numbers.
LEMMA Sides ==
  ASSUME TypeOK, TokensAreConserved
  PROVE  \E b, r, s, t, g, d, f, v \in Nat :
            /\ b = balance /\ r = Reserved /\ s = Spent /\ t = TakenBack
            /\ g = gifts * Gift /\ d = debt /\ f = forgiven /\ v = Given
            /\ b + r + s + t = Starter + g + d + f + v
<1>1. balance \in Nat /\ debt \in Nat /\ forgiven \in Nat
  BY Zenon DEF TypeOK
<1>2. gifts * Gift \in Nat
  BY AccountAssumption, SMT DEF TypeOK
<1>3. balance + Reserved + Spent + TakenBack
        = Starter + gifts * Gift + debt + forgiven + Given
  BY Zenon DEF TokensAreConserved, Reserved, Reserves, Spent, Uses, TakenBack, Given, Prices
<1> QED
  BY <1>1, <1>2, <1>3, SumsAreNatural, Zenon

LEMMA Conserves ==
  ASSUME balance' + Reserved' + Spent' + TakenBack'
           = Starter + gifts' * Gift + debt' + forgiven' + Given',
         \A e \in granted' : ReversedOf(e)' <= Tokens(e)'
  PROVE  TokensAreConserved'
BY Zenon DEF TokensAreConserved, Reserved, Reserves, Spent, Uses, TakenBack, Given, Prices

\* A step that leaves the ledger of payments and refunds alone.
LEMMA LedgerStays ==
  ASSUME CInv, UNCHANGED <<kind, events, granted, reversed>>
  PROVE  /\ TakenBack' = TakenBack /\ Given' = Given
         /\ \A e \in granted' : ReversedOf(e)' <= Tokens(e)'
         /\ \A e \in reversed' : events'[e].of \in granted'
<1>1. Amounts' = Amounts /\ Prices' = Prices
  BY Zenon DEF Amounts, Prices, Tokens
<1>2. TakenBack' = TakenBack /\ Given' = Given
  BY <1>1, Zenon DEF TakenBack, Given
<1>3. \A e : ReversedOf(e)' = ReversedOf(e) /\ Tokens(e)' = Tokens(e)
  BY <1>1, Zenon DEF ReversedOf, Tokens
<1> QED
  BY <1>2, <1>3, Zenon DEF CInv, TokensAreConserved

\* A step that leaves the requests alone.
LEMMA RequestsStay ==
  ASSUME CInv, usage' = usage
  PROVE  /\ Reserved' = Reserved /\ Spent' = Spent
         /\ \A u \in Usages : usage'[u].status \in {"none", "pending"} => usage'[u].used = 0
BY Zenon DEF CInv, Reserved, Reserves, Pending, Spent, Uses

\* A request that begins sets tokens aside.
LEMMA BeginReserves ==
  ASSUME TypeOK, CInv, NEW u \in Usages, NEW need \in Costs, BeginUsage(u, need)
  PROVE  /\ Reserved' = need + Reserved /\ Spent' = Spent
         /\ \A w \in Usages : usage'[w].status \in {"none", "pending"} => usage'[w].used = 0
<1> DEFINE row == [status |-> "pending", reserved |-> need, used |-> 0]
<1>1. usage[u].status = "none" /\ usage' = [usage EXCEPT ![u] = row]
  BY Zenon DEF BeginUsage
<1>2. row.status = "pending" /\ row.reserved = need /\ row.used = 0
  BY Zenon
<1>3. usage'[u] = row /\ \A w \in Usages : w # u => usage'[w] = usage[w]
  BY <1>1, Zenon DEF TypeOK
<1> HIDE DEF row
<1>4. Pending' = Pending \union {u} /\ u \notin Pending
  <2>1. "none" # "pending"
    OBVIOUS
  <2>2. \A w \in Usages : usage'[w].status = "pending" <=> w = u \/ usage[w].status = "pending"
    BY <1>2, <1>3, Zenon
  <2> QED
    BY <1>1, <2>1, <2>2, Zenon DEF Pending
<1>5. usage[u].used = 0
  BY <1>1, Zenon DEF CInv
<1>6. Uses' = Uses
  BY <1>2, <1>3, <1>5, Zenon DEF Uses
<1>7. PICK k : k = Reserves'
  BY Zenon
<1>8. k[u] = need /\ \A w \in Usages : w # u => k[w] = Reserves[w]
  BY <1>2, <1>3, <1>7, Zenon DEF Reserves
<1>9. SumFunctionOnSet(k, Pending) = SumFunctionOnSet(Reserves, Pending)
  <2>1. \A w \in Pending : k[w] = Reserves[w]
    BY <1>4, <1>8, Zenon DEF Pending
  <2>2. IsFiniteSet(Pending)
    BY SumTypes, Zenon
  <2> QED
    BY <2>1, <2>2, SumAgrees, SMT
<1>10. SumFunctionOnSet(k, Pending \union {u}) = k[u] + SumFunctionOnSet(k, Pending)
  <2>1. \A n \in Nat : n \in Int
    OBVIOUS
  <2>2. need \in Nat /\ \A w \in Pending : w \in Usages
    BY AccountAssumption, Zenon DEF Pending
  <2>3. \A w \in Pending \union {u} : k[w] \in Int
    BY <1>4, <1>8, <2>1, <2>2, SumTypes, Zenon
  <2>4. IsFiniteSet(Pending)
    BY SumTypes, Zenon
  <2> QED
    BY <1>4, <2>3, <2>4, SumAdds, SMT
<1>11. Reserved' = need + Reserved
  BY <1>4, <1>7, <1>8, <1>9, <1>10, Zenon DEF Reserved
<1>12. \A w \in Usages : usage'[w].status \in {"none", "pending"} => usage'[w].used = 0
  BY <1>2, <1>3, Zenon DEF CInv
<1> QED
  BY <1>6, <1>11, <1>12, Zenon DEF Spent

\* A request that is settled gives its reservation up for what it used.
LEMMA SettleReleases ==
  ASSUME TypeOK, CInv, NEW u \in Usages, NEW row, NEW used \in Nat,
         usage[u].status = "pending", usage' = [usage EXCEPT ![u] = row],
         row.status \in {"completed", "failed"}, row.used = used
  PROVE  /\ Reserved = usage[u].reserved + Reserved' /\ Spent' = Spent + used
         /\ Reserved' \in Nat
         /\ \A w \in Usages : usage'[w].status \in {"none", "pending"} => usage'[w].used = 0
<1>1. usage'[u] = row /\ \A w \in Usages : w # u => usage'[w] = usage[w]
  BY Zenon DEF TypeOK
<1>2. row.status # "pending" /\ row.status # "none"
  BY Zenon
<1>3. Pending' = Pending \ {u} /\ u \in Pending
  BY <1>1, <1>2, Zenon DEF Pending
<1>4. PICK k, j : k = Reserves' /\ j = Uses'
  BY Zenon
<1>5. /\ \A w \in Usages : w # u => k[w] = Reserves[w] /\ j[w] = Uses[w]
      /\ j[u] = used /\ Uses[u] = 0
  <2>1. usage[u].used = 0
    BY Zenon DEF CInv
  <2>2. \A w \in Usages : /\ k[w] = usage'[w].reserved /\ Reserves[w] = usage[w].reserved
                          /\ j[w] = usage'[w].used /\ Uses[w] = usage[w].used
    BY <1>4, Zenon DEF Reserves, Uses
  <2>3. ASSUME NEW w \in Usages, w # u PROVE k[w] = Reserves[w] /\ j[w] = Uses[w]
    <3>1. usage'[w] = usage[w]
      BY <1>1, <2>3, Zenon
    <3>2. /\ k[w] = usage'[w].reserved /\ Reserves[w] = usage[w].reserved
          /\ j[w] = usage'[w].used /\ Uses[w] = usage[w].used
      BY <2>2, Zenon
    <3> QED
      BY <3>1, <3>2, Zenon
  <2>4. j[u] = used /\ Uses[u] = 0
    BY <1>1, <2>1, <2>2, Zenon
  <2> QED
    BY <2>3, <2>4, Zenon
<1>6. \A n \in Nat : n \in Int /\ n - 0 = n
  OBVIOUS
<1>7. SumFunctionOnSet(Reserves, Pending) = Reserves[u] + SumFunctionOnSet(Reserves, Pending \ {u})
  <2>1. IsFiniteSet(Pending) /\ \A w \in Pending : Reserves[w] \in Int
    BY <1>6, SumTypes, Zenon DEF Pending
  <2> QED
    BY <1>3, <2>1, SumTakes, SMT
<1>8. SumFunctionOnSet(k, Pending \ {u}) = SumFunctionOnSet(Reserves, Pending \ {u})
  <2>1. IsFiniteSet(Pending \ {u}) /\ \A w \in Pending \ {u} : k[w] = Reserves[w]
    BY <1>5, SumTypes, FS_RemoveElement, Zenon DEF Pending
  <2> QED
    BY <2>1, SumAgrees, SMT
<1>9. SumFunctionOnSet(j, Usages) = SumFunctionOnSet(Uses, Usages) + (j[u] - Uses[u])
  <2>1. /\ IsFiniteSet(Usages)
        /\ \A w \in Usages : Uses[w] \in Int /\ j[w] \in Int /\ (w # u => Uses[w] = j[w])
    BY <1>5, <1>6, SumTypes, Zenon
  <2> QED
    BY <2>1, SumChanges, SMT
<1>10. Reserved = usage[u].reserved + Reserved'
  BY <1>3, <1>4, <1>7, <1>8, SumTypes, Zenon DEF Reserved
<1>11. Spent' = Spent + used
  BY <1>4, <1>5, <1>6, <1>9, Zenon DEF Spent
<1>12. \A w \in Usages : usage'[w].status \in {"none", "pending"} => usage'[w].used = 0
  BY <1>1, <1>2, Zenon DEF CInv
<1>13. Reserved' \in Nat
  <2>1. /\ IsFiniteSet(Pending \ {u}) /\ Nat \in {Nat, Int, {0}}
        /\ \A w \in Pending \ {u} : k[w] \in Nat
    BY <1>5, SumTypes, FS_RemoveElement, Zenon DEF Pending
  <2>2. SumFunctionOnSet(k, Pending \ {u}) \in Nat
    BY <2>1, SumIsNumber, Zenon
  <2> QED
    BY <1>3, <1>4, <2>2, Zenon DEF Reserved
<1> QED
  BY <1>10, <1>11, <1>12, <1>13, Zenon

\* A request that is not admitted after all, and those a restart gives up, had
\* nothing set aside.
LEMMA DropsNothing ==
  ASSUME TypeOK, CInv, NEW gone \in SUBSET Usages,
         \A u \in gone : u \in Pending => usage[u].reserved = 0,
         \A u \in Usages : /\ usage'[u].reserved = usage[u].reserved
                           /\ usage'[u].used = usage[u].used,
         \A u \in gone : usage'[u].status = "failed",
         \A u \in Usages \ gone : usage'[u].status = usage[u].status
  PROVE  /\ Reserved' = Reserved /\ Spent' = Spent
         /\ \A w \in Usages : usage'[w].status \in {"none", "pending"} => usage'[w].used = 0
<1>1. "failed" # "pending" /\ "failed" # "none"
  OBVIOUS
<1>2. Reserves' = Reserves /\ Uses' = Uses
  BY Zenon DEF Reserves, Uses
<1>3. PICK K, D : K = Pending \ gone /\ D = Pending \intersect gone
  BY Zenon
<1>4. Pending' = K /\ K \union D = Pending /\ K \intersect D = {}
  BY <1>1, <1>3, Zenon DEF Pending
<1>5. IsFiniteSet(K) /\ IsFiniteSet(D)
  <2>1. K \subseteq Pending /\ D \subseteq Pending
    BY <1>3, Zenon
  <2> QED
    BY <2>1, SumTypes, FS_Subset, Zenon
<1>6. \A n \in Nat : n \in Int /\ n + 0 = n
  OBVIOUS
<1>7. SumFunctionOnSet(Reserves, K \union D)
        = SumFunctionOnSet(Reserves, K) + SumFunctionOnSet(Reserves, D)
  <2>1. \A u \in K \union D : Reserves[u] \in Int
    BY <1>4, <1>6, SumTypes, Zenon DEF Pending
  <2> QED
    BY <1>4, <1>5, <2>1, SumJoins, SMT
<1>8. SumFunctionOnSet(Reserves, D) \in {0}
  <2>1. {0} \in {Nat, Int, {0}}
    BY Zenon
  <2>2. \A u \in D : u \in Usages /\ usage[u].reserved = 0
    BY <1>3, Zenon DEF Pending
  <2>3. \A u \in D : Reserves[u] \in {0}
    BY <2>2, SumTypes, Zenon
  <2> QED
    BY <1>5, <2>1, <2>3, SumIsNumber, Zenon
<1>9. SumFunctionOnSet(Reserves, K) \in Nat
  <2>1. Nat \in {Nat, Int, {0}} /\ \A u \in K : Reserves[u] \in Nat
    BY <1>3, SumTypes, Zenon DEF Pending
  <2> QED
    BY <1>5, <2>1, SumIsNumber, Zenon
<1>10. Reserved' = Reserved
  <2>1. SumFunctionOnSet(Reserves, D) = 0
    BY <1>8, Zenon
  <2>2. SumFunctionOnSet(Reserves, Pending) = SumFunctionOnSet(Reserves, K)
    BY <1>4, <1>6, <1>7, <1>9, <2>1, Zenon
  <2> QED
    BY <1>2, <1>4, <2>2, Zenon DEF Reserved
<1>11. \A w \in Usages : usage'[w].status \in {"none", "pending"} => usage'[w].used = 0
  <2>1. \A w \in Usages : usage'[w].status \in {"none", "pending"} => w \notin gone
    BY <1>1, Zenon
  <2> QED
    BY <2>1, Zenon DEF CInv
<1> QED
  BY <1>2, <1>10, <1>11, Zenon DEF Spent

\* The steps of a request.
LEMMA AccountConserves ==
  ASSUME TypeOK, CInv, AccountStep, UNCHANGED billingVars
  PROVE  CInv'
<1>1. /\ TakenBack' = TakenBack /\ Given' = Given /\ debt' = debt
      /\ \A e \in granted' : ReversedOf(e)' <= Tokens(e)'
      /\ \A e \in reversed' : events'[e].of \in granted'
  BY LedgerStays, Zenon DEF billingVars
<1>2. PICK b \in Nat, r \in Nat, s \in Nat, t \in Nat, g \in Nat, d \in Nat, f \in Nat, v \in Nat :
         /\ b = balance /\ r = Reserved /\ s = Spent /\ t = TakenBack
         /\ g = gifts * Gift /\ d = debt /\ f = forgiven /\ v = Given
         /\ b + r + s + t = Starter + g + d + f + v
  BY Sides, Zenon DEF CInv
<1>3. Starter \in Nat /\ Gift \in Nat
  BY AccountAssumption, Zenon
<1>4. ASSUME NEW u \in Usages, NEW need \in Costs, BeginUsage(u, need) PROVE CInv'
  <2>1. balance >= need /\ balance' = balance - need /\ UNCHANGED <<gifts, forgiven>>
    BY <1>4, Zenon DEF BeginUsage
  <2>2. need \in Nat
    BY AccountAssumption, Zenon
  <2>3. /\ Reserved' = need + Reserved /\ Spent' = Spent
        /\ \A w \in Usages : usage'[w].status \in {"none", "pending"} => usage'[w].used = 0
    BY <1>4, BeginReserves, Zenon
  <2>4. (b - need) + (need + r) + s + t = Starter + g + d + f + v
    BY <1>2, <1>3, <2>2, SMT
  <2>5. TokensAreConserved'
    <3>1. balance' + Reserved' + Spent' + TakenBack'
            = Starter + gifts' * Gift + debt' + forgiven' + Given'
      BY <1>1, <1>2, <2>1, <2>3, <2>4, Zenon
    <3> QED
      BY <1>1, <3>1, Conserves, Zenon
  <2> QED
    BY <1>1, <2>3, <2>5, Zenon DEF CInv
<1>5. ASSUME NEW u \in Usages, NEW actual \in Costs, CompleteUsage(u, actual) PROVE CInv'
  <2> DEFINE row == [status |-> "completed", reserved |-> 0, used |-> actual]
  <2>1. /\ usage[u].status = "pending" /\ usage' = [usage EXCEPT ![u] = row]
        /\ balance' = SettledBalance(u, actual) /\ gifts' = gifts
        /\ forgiven' = forgiven + Larger(0, actual - usage[u].reserved - balance)
    BY <1>5, Zenon DEF CompleteUsage
  <2>2. actual \in Nat
    BY AccountAssumption, Zenon
  <2>3. row.status \in {"completed", "failed"} /\ row.used = actual
    BY Zenon
  <2> HIDE DEF row
  <2>4. /\ Reserved = usage[u].reserved + Reserved' /\ Spent' = Spent + actual /\ Reserved' \in Nat
        /\ \A w \in Usages : usage'[w].status \in {"none", "pending"} => usage'[w].used = 0
    BY <2>1, <2>2, <2>3, SettleReleases, Zenon
  <2>5. PICK x \in Nat, q \in Nat : x = usage[u].reserved /\ q = Reserved'
    <3>1. usage[u].reserved \in Nat
      BY UsageTypes, Zenon
    <3> QED
      BY <2>4, <3>1, Zenon
  <2>6. PICK c, h : /\ c = Larger(0, b + Larger(0, x - actual) - Larger(0, actual - x))
                    /\ h = Larger(0, actual - x - b)
    BY Zenon
  <2>7. balance' = c /\ forgiven' = f + h
    BY <1>2, <2>1, <2>5, <2>6, Zenon DEF SettledBalance
  <2>8. c + q + (s + actual) + t = Starter + g + d + (f + h) + v
    <3>1. r = x + q
      BY <1>2, <2>4, <2>5, Zenon
    <3>2. c \in Nat /\ h \in Nat /\ c + actual = b + x + h
      BY <2>2, <2>6, SMT DEF Larger
    <3> QED
      BY <1>2, <1>3, <2>2, <3>1, <3>2, SMT
  <2>9. TokensAreConserved'
    <3>1. balance' + Reserved' + Spent' + TakenBack'
            = Starter + gifts' * Gift + debt' + forgiven' + Given'
      BY <1>1, <1>2, <2>1, <2>4, <2>5, <2>7, <2>8, Zenon
    <3> QED
      BY <1>1, <3>1, Conserves, Zenon
  <2> QED
    BY <1>1, <2>4, <2>9, Zenon DEF CInv
<1>6. ASSUME NEW u \in Usages, FailUsage(u) PROVE CInv'
  <2> DEFINE row == [status |-> "failed", reserved |-> 0, used |-> 0]
  <2>1. /\ usage[u].status = "pending" /\ usage' = [usage EXCEPT ![u] = row]
        /\ balance' = balance + usage[u].reserved /\ UNCHANGED <<gifts, forgiven>>
    BY <1>6, Zenon DEF FailUsage
  <2>2. row.status \in {"completed", "failed"} /\ row.used = 0 /\ 0 \in Nat
    BY Zenon
  <2> HIDE DEF row
  <2>3. /\ Reserved = usage[u].reserved + Reserved' /\ Spent' = Spent + 0 /\ Reserved' \in Nat
        /\ \A w \in Usages : usage'[w].status \in {"none", "pending"} => usage'[w].used = 0
    BY <2>1, <2>2, SettleReleases, Zenon
  <2>4. PICK x, q : x = usage[u].reserved /\ q = Reserved'
    BY Zenon
  <2>5. x \in Nat /\ q \in Nat
    <3>1. usage[u].reserved \in Nat
      BY UsageTypes, Zenon
    <3> QED
      BY <2>3, <2>4, <3>1, Zenon
  <2>6. (b + x) + q + (s + 0) + t = Starter + g + d + f + v
    <3>1. r = x + q
      BY <1>2, <2>3, <2>4, Zenon
    <3> QED
      BY <1>2, <1>3, <2>5, <3>1, SMT
  <2>7. TokensAreConserved'
    <3>1. balance' + Reserved' + Spent' + TakenBack'
            = Starter + gifts' * Gift + debt' + forgiven' + Given'
      BY <1>1, <1>2, <2>1, <2>3, <2>4, <2>6, Zenon
    <3> QED
      BY <1>1, <3>1, Conserves, Zenon
  <2> QED
    BY <1>1, <2>3, <2>7, Zenon DEF CInv
<1>7. ASSUME NEW u \in Usages,
             AttachJob(u) \/ \E how \in {"completed", "ended"} : JobEnds(u, how)
      PROVE  CInv'
  <2>1. UNCHANGED <<balance, usage, gifts, forgiven>>
    BY <1>7, Zenon DEF AttachJob, JobEnds
  <2>2. /\ Reserved' = Reserved /\ Spent' = Spent
        /\ \A w \in Usages : usage'[w].status \in {"none", "pending"} => usage'[w].used = 0
    BY <2>1, RequestsStay, Zenon
  <2>3. TokensAreConserved'
    <3>1. balance' + Reserved' + Spent' + TakenBack'
            = Starter + gifts' * Gift + debt' + forgiven' + Given'
      BY <1>1, <1>2, <2>1, <2>2, Zenon
    <3> QED
      BY <1>1, <3>1, Conserves, Zenon
  <2> QED
    BY <1>1, <2>2, <2>3, Zenon DEF CInv
<1>8. CASE GrantTokens
  <2>1. /\ gifts = 0 /\ gifts' = 1 /\ balance' = balance + Gift
        /\ UNCHANGED <<usage, forgiven>>
    BY <1>8, Zenon DEF GrantTokens
  <2>2. /\ Reserved' = Reserved /\ Spent' = Spent
        /\ \A w \in Usages : usage'[w].status \in {"none", "pending"} => usage'[w].used = 0
    BY <2>1, RequestsStay, Zenon
  <2>3. gifts' * Gift = Gift /\ g = 0
    BY <1>2, <1>3, <2>1, SMT
  <2>4. (b + Gift) + r + s + t = Starter + Gift + d + f + v
    BY <1>2, <1>3, <2>3, SMT
  <2>5. TokensAreConserved'
    <3>1. balance' + Reserved' + Spent' + TakenBack'
            = Starter + gifts' * Gift + debt' + forgiven' + Given'
      BY <1>1, <1>2, <2>1, <2>2, <2>3, <2>4, Zenon
    <3> QED
      BY <1>1, <3>1, Conserves, Zenon
  <2> QED
    BY <1>1, <2>2, <2>5, Zenon DEF CInv
<1> QED
  BY <1>4, <1>5, <1>6, <1>7, <1>8, Zenon DEF AccountStep

\* A restart.
LEMMA RestartConserves ==
  ASSUME TypeOK, CInv, Restart
  PROVE  CInv'
<1>1. /\ TakenBack' = TakenBack /\ Given' = Given
      /\ \A e \in granted' : ReversedOf(e)' <= Tokens(e)'
      /\ \A e \in reversed' : events'[e].of \in granted'
  BY LedgerStays, Zenon DEF Restart
<1>2. /\ UNCHANGED <<balance, gifts, forgiven, debt>>
      /\ usage' = [u \in Usages |-> IF u \in Interrupted
                                    THEN [usage[u] EXCEPT !.status = "failed"] ELSE usage[u]]
  BY Zenon DEF Restart, AccountRestart
<1>3. \A u \in Usages : /\ [usage[u] EXCEPT !.status = "failed"].status = "failed"
                        /\ [usage[u] EXCEPT !.status = "failed"].reserved = usage[u].reserved
                        /\ [usage[u] EXCEPT !.status = "failed"].used = usage[u].used
  <2>1. \A u \in Usages : usage[u] \in UsageRows
    BY UsageTypes, Zenon
  <2> QED
    BY <2>1, SMT DEF UsageRows
<1>4. PICK gone : gone = Interrupted
  BY Zenon
<1>5. gone \in SUBSET Usages /\ \A u \in gone : u \in Pending => usage[u].reserved = 0
  BY <1>4, Zenon DEF Interrupted, Pending
<1>6. /\ \A u \in gone : usage'[u] = [usage[u] EXCEPT !.status = "failed"]
      /\ \A u \in Usages \ gone : usage'[u] = usage[u]
  BY <1>2, <1>4, <1>5, Zenon
<1>7. \A u \in Usages : /\ usage'[u].reserved = usage[u].reserved
                        /\ usage'[u].used = usage[u].used
  BY <1>3, <1>6, Zenon
<1>8. /\ \A u \in gone : usage'[u].status = "failed"
      /\ \A u \in Usages \ gone : usage'[u].status = usage[u].status
  BY <1>3, <1>5, <1>6, Zenon
<1>9. /\ Reserved' = Reserved /\ Spent' = Spent
      /\ \A w \in Usages : usage'[w].status \in {"none", "pending"} => usage'[w].used = 0
  BY <1>5, <1>7, <1>8, DropsNothing, Zenon
<1>10. PICK b \in Nat, r \in Nat, s \in Nat, t \in Nat, g \in Nat, d \in Nat, f \in Nat, v \in Nat :
         /\ b = balance /\ r = Reserved /\ s = Spent /\ t = TakenBack
         /\ g = gifts * Gift /\ d = debt /\ f = forgiven /\ v = Given
         /\ b + r + s + t = Starter + g + d + f + v
  BY Sides, Zenon DEF CInv
<1>11. TokensAreConserved'
  <2>1. balance' + Reserved' + Spent' + TakenBack'
          = Starter + gifts' * Gift + debt' + forgiven' + Given'
    BY <1>1, <1>2, <1>9, <1>10, Zenon
  <2> QED
    BY <1>1, <2>1, Conserves, Zenon
<1> QED
  BY <1>1, <1>9, <1>11, Zenon DEF CInv

\* A step that moves no tokens, whatever it appends to the log.
LEMMA NothingMoves ==
  ASSUME TypeOK, CInv, UNCHANGED <<accountVars, kind, debt, granted, reversed>>,
         DOMAIN events \subseteq DOMAIN events',
         \A e \in DOMAIN events : events'[e] = events[e]
  PROVE  CInv'
<1>1. \A e \in DOMAIN events : e \in DOMAIN events' /\ Tokens(e)' = Tokens(e)
  BY Zenon DEF Tokens
<1>2. PICK k, j : k = Amounts' /\ j = Prices'
  BY Zenon
<1>3. \A e \in DOMAIN events : k[e] = Amounts[e] /\ j[e] = Prices[e]
  BY <1>1, <1>2, Zenon DEF Amounts, Prices
<1>4. \A S \in SUBSET DOMAIN events : SumFunctionOnSet(k, S) = SumFunctionOnSet(Amounts, S)
  <2>1. SUFFICES ASSUME NEW S \in SUBSET DOMAIN events
                 PROVE  SumFunctionOnSet(k, S) = SumFunctionOnSet(Amounts, S)
    BY Zenon
  <2>2. IsFiniteSet(S) /\ \A e \in S : k[e] = Amounts[e]
    BY <1>3, SumTypes, Zenon
  <2> QED
    BY <2>2, SumAgrees, SMT
<1>5. SumFunctionOnSet(j, granted) = SumFunctionOnSet(Prices, granted)
  <2>1. IsFiniteSet(granted) /\ \A e \in granted : j[e] = Prices[e]
    BY <1>3, SumTypes, Zenon
  <2> QED
    BY <2>1, SumAgrees, SMT
<1>6. TakenBack' = TakenBack /\ Given' = Given
  <2>1. SumFunctionOnSet(k, reversed) = SumFunctionOnSet(Amounts, reversed)
    BY <1>4, SumTypes, Zenon
  <2> QED
    BY <1>2, <1>5, <2>1, Zenon DEF TakenBack, Given
<1>7. \A p : ReversedOf(p)' = ReversedOf(p)
  <2>1. SUFFICES ASSUME NEW p PROVE ReversedOf(p)' = ReversedOf(p)
    BY Zenon
  <2>2. PICK R : R = {e \in reversed : events[e].of = p}
    BY Zenon
  <2>3. R \in SUBSET DOMAIN events /\ {e \in reversed' : events'[e].of = p} = R
    BY <2>2, SumTypes, Zenon
  <2>4. SumFunctionOnSet(k, R) = SumFunctionOnSet(Amounts, R)
    BY <1>4, <2>3, Zenon
  <2> QED
    BY <1>2, <2>2, <2>3, <2>4, Zenon DEF ReversedOf
<1>8. \A e \in granted' : ReversedOf(e)' <= Tokens(e)'
  BY <1>1, <1>7, SumTypes, Zenon DEF CInv, TokensAreConserved
<1>9. \A e \in reversed' : events'[e].of \in granted'
  BY SumTypes, Zenon DEF CInv
<1>10. /\ Reserved' = Reserved /\ Spent' = Spent
       /\ \A w \in Usages : usage'[w].status \in {"none", "pending"} => usage'[w].used = 0
  BY RequestsStay, Zenon DEF accountVars
<1>11. PICK b \in Nat, r \in Nat, s \in Nat, t \in Nat, g \in Nat, d \in Nat, f \in Nat, v \in Nat :
         /\ b = balance /\ r = Reserved /\ s = Spent /\ t = TakenBack
         /\ g = gifts * Gift /\ d = debt /\ f = forgiven /\ v = Given
         /\ b + r + s + t = Starter + g + d + f + v
  BY Sides, Zenon DEF CInv
<1>12. TokensAreConserved'
  <2>1. balance' + Reserved' + Spent' + TakenBack'
          = Starter + gifts' * Gift + debt' + forgiven' + Given'
    BY <1>6, <1>8, <1>10, <1>11, Zenon DEF accountVars
  <2> QED
    BY <1>8, <2>1, Conserves, Zenon
<1> QED
  BY <1>9, <1>10, <1>12, Zenon DEF CInv

\* A grant: nothing was taken back of it yet.
LEMMA PaidConserves ==
  ASSUME TypeOK, CInv, NEW e \in DOMAIN events, ApplyPaid(e)
  PROVE  CInv'
<1>1. /\ e \notin granted /\ granted' = granted \union {e} /\ Grant(Tokens(e))
      /\ UNCHANGED <<usage, gifts, forgiven, kind, events, reversed>>
  BY Zenon DEF ApplyPaid
<1>2. PICK p \in Nat : p = Tokens(e)
  BY EventTypes, Zenon
<1>3. debt' = debt - Smaller(debt, p) /\ balance' = balance + p - Smaller(debt, p)
  BY <1>1, <1>2, Zenon DEF Grant
<1>4. /\ Reserved' = Reserved /\ Spent' = Spent
      /\ \A w \in Usages : usage'[w].status \in {"none", "pending"} => usage'[w].used = 0
  BY <1>1, RequestsStay, Zenon
<1>5. /\ Amounts' = Amounts /\ Prices' = Prices /\ TakenBack' = TakenBack
      /\ \A q : Tokens(q)' = Tokens(q) /\ ReversedOf(q)' = ReversedOf(q)
  BY <1>1, Zenon DEF Amounts, Prices, Tokens, TakenBack, ReversedOf
<1>6. Given' = p + Given
  <2>1. \A n \in Nat : n \in Int
    OBVIOUS
  <2>2. IsFiniteSet(granted) /\ \A q \in granted \union {e} : Prices[q] \in Int
    BY <2>1, SumTypes, Zenon
  <2>3. SumFunctionOnSet(Prices, granted \union {e}) = Prices[e] + SumFunctionOnSet(Prices, granted)
    BY <1>1, <2>2, SumAdds, SMT
  <2> QED
    BY <1>1, <1>2, <1>5, <2>3, SumTypes, Zenon DEF Given
<1>7. \A q \in granted' : ReversedOf(q)' <= Tokens(q)'
  <2>1. {q \in reversed : events[q].of = e} = {}
    BY <1>1, Zenon DEF CInv
  <2>2. ReversedOf(e) = 0
    BY <2>1, SumOfNone, Zenon DEF ReversedOf
  <2>3. \A n \in Nat : 0 <= n
    OBVIOUS
  <2> QED
    BY <1>1, <1>2, <1>5, <2>2, <2>3, Zenon DEF CInv, TokensAreConserved
<1>8. \A q \in reversed' : events'[q].of \in granted'
  BY <1>1, Zenon DEF CInv
<1>9. PICK b \in Nat, r \in Nat, s \in Nat, t \in Nat, g \in Nat, d \in Nat, f \in Nat, v \in Nat :
         /\ b = balance /\ r = Reserved /\ s = Spent /\ t = TakenBack
         /\ g = gifts * Gift /\ d = debt /\ f = forgiven /\ v = Given
         /\ b + r + s + t = Starter + g + d + f + v
  BY Sides, Zenon DEF CInv
<1>10. PICK m : m = Smaller(d, p)
  BY Zenon
<1>11. (b + p - m) + r + s + t = Starter + g + (d - m) + f + (p + v)
  <2>1. m \in Nat /\ Starter \in Nat
    BY <1>10, AccountAssumption, SMT DEF Smaller
  <2> QED
    BY <1>9, <2>1, SMT
<1>12. TokensAreConserved'
  <2>1. balance' + Reserved' + Spent' + TakenBack'
          = Starter + gifts' * Gift + debt' + forgiven' + Given'
    BY <1>1, <1>3, <1>4, <1>5, <1>6, <1>7, <1>9, <1>10, <1>11, Zenon
  <2> QED
    BY <1>7, <2>1, Conserves, Zenon
<1> QED
  BY <1>4, <1>8, <1>12, Zenon DEF CInv

\* A refund, of what is left of its grant.
LEMMA ReversalConserves ==
  ASSUME TypeOK, CInv, NEW e \in DOMAIN events, ApplyReversal(e)
  PROVE  CInv'
<1>1. /\ e \notin reversed /\ reversed' = reversed \union {e} /\ events[e].of \in granted
      /\ Reversible(e) /\ UNCHANGED <<usage, gifts, forgiven, kind, events, granted>>
      /\ balance' = balance - Smaller(balance, events[e].amount)
      /\ debt' = debt + (events[e].amount - Smaller(balance, events[e].amount))
  BY Zenon DEF ApplyReversal
<1>2. PICK a \in Nat : a = events[e].amount
  BY EventTypes, Zenon
<1>3. /\ Reserved' = Reserved /\ Spent' = Spent
      /\ \A w \in Usages : usage'[w].status \in {"none", "pending"} => usage'[w].used = 0
  BY <1>1, RequestsStay, Zenon
<1>4. /\ Amounts' = Amounts /\ Prices' = Prices /\ Given' = Given
      /\ \A q : Tokens(q)' = Tokens(q)
  BY <1>1, Zenon DEF Amounts, Prices, Tokens, Given
<1>5. \A S \in SUBSET DOMAIN events : e \notin S =>
         SumFunctionOnSet(Amounts, S \union {e}) = a + SumFunctionOnSet(Amounts, S)
  <2>1. \A n \in Nat : n \in Int
    OBVIOUS
  <2>2. SUFFICES ASSUME NEW S \in SUBSET DOMAIN events, e \notin S
                 PROVE  SumFunctionOnSet(Amounts, S \union {e}) = a + SumFunctionOnSet(Amounts, S)
    BY Zenon
  <2>3. IsFiniteSet(S) /\ Amounts[e] = a /\ \A q \in S \union {e} : Amounts[q] \in Int
    BY <1>2, <2>1, SumTypes, Zenon
  <2> QED
    BY <2>2, <2>3, SumAdds, SMT
<1>6. TakenBack' = a + TakenBack
  BY <1>1, <1>4, <1>5, SumTypes, Zenon DEF TakenBack
<1>7. \A q \in granted' : ReversedOf(q)' <= Tokens(q)'
  <2>1. SUFFICES ASSUME NEW q \in granted PROVE ReversedOf(q)' <= Tokens(q)
    BY <1>1, <1>4, Zenon
  <2>2. PICK R : R = {r \in reversed : events[r].of = q}
    BY Zenon
  <2>3. R \in SUBSET DOMAIN events /\ e \notin R
    BY <1>1, <2>2, SumTypes, Zenon
  <2>4. CASE events[e].of = q
    <3>1. {r \in reversed' : events'[r].of = q} = R \union {e}
      BY <1>1, <2>2, <2>4, Zenon
    <3>2. ReversedOf(q)' = a + ReversedOf(q)
      BY <1>4, <1>5, <2>2, <2>3, <3>1, Zenon DEF ReversedOf
    <3>3. a <= Tokens(q) - ReversedOf(q)
      BY <1>1, <1>2, <2>4, Zenon DEF Reversible
    <3>4. Tokens(q) \in Nat /\ ReversedOf(q) \in Nat
      BY <2>2, <2>3, SumTypes, EventTypes, SumsAreNatural, Zenon DEF ReversedOf
    <3>5. \A x, y, z \in Nat : x <= y - z => x + z <= y
      OBVIOUS
    <3> QED
      BY <1>2, <3>2, <3>3, <3>4, <3>5, Zenon
  <2>5. CASE events[e].of # q
    <3>1. {r \in reversed' : events'[r].of = q} = R
      BY <1>1, <2>2, <2>5, Zenon
    <3>2. ReversedOf(q)' = ReversedOf(q)
      BY <1>4, <2>2, <3>1, Zenon DEF ReversedOf
    <3> QED
      BY <3>2, Zenon DEF CInv, TokensAreConserved
  <2> QED
    BY <2>4, <2>5, Zenon
<1>8. \A q \in reversed' : events'[q].of \in granted'
  BY <1>1, Zenon DEF CInv
<1>9. PICK b \in Nat, r \in Nat, s \in Nat, t \in Nat, g \in Nat, d \in Nat, f \in Nat, v \in Nat :
         /\ b = balance /\ r = Reserved /\ s = Spent /\ t = TakenBack
         /\ g = gifts * Gift /\ d = debt /\ f = forgiven /\ v = Given
         /\ b + r + s + t = Starter + g + d + f + v
  BY Sides, Zenon DEF CInv
<1>10. PICK m : m = Smaller(b, a)
  BY Zenon
<1>11. (b - m) + r + s + (a + t) = Starter + g + (d + (a - m)) + f + v
  <2>1. m \in Nat /\ Starter \in Nat
    BY <1>10, AccountAssumption, SMT DEF Smaller
  <2> QED
    BY <1>9, <2>1, SMT
<1>12. TokensAreConserved'
  <2>1. balance' + Reserved' + Spent' + TakenBack'
          = Starter + gifts' * Gift + debt' + forgiven' + Given'
    BY <1>1, <1>2, <1>3, <1>4, <1>6, <1>7, <1>9, <1>10, <1>11, Zenon
  <2> QED
    BY <1>7, <2>1, Conserves, Zenon
<1> QED
  BY <1>3, <1>8, <1>12, Zenon DEF CInv

\* The account opens with its starter tokens.
LEMMA InitConserves == Init => CInv
<1> SUFFICES ASSUME Init PROVE CInv
  BY Zenon
<1>1. /\ balance = Starter /\ debt = 0 /\ forgiven = 0 /\ gifts = 0
      /\ granted = {} /\ reversed = {} /\ usage = [u \in Usages |-> NoUsage]
  BY Zenon DEF Init, AccountInit
<1>2. NoUsage.status = "none" /\ NoUsage.used = 0
  BY Zenon DEF NoUsage
<1>3. Pending = {}
  <2>1. "none" # "pending"
    OBVIOUS
  <2> QED
    BY <1>1, <1>2, <2>1, Zenon DEF Pending
<1>4. Reserved = 0 /\ TakenBack = 0 /\ Given = 0
  BY <1>1, <1>3, SumOfNone, Zenon DEF Reserved, TakenBack, Given
<1>5. Spent = 0
  <2>1. {0} \in {Nat, Int, {0}} /\ \A u \in Usages : Uses[u] \in {0}
    BY <1>1, <1>2, Zenon DEF Uses
  <2>2. Spent \in {0}
    BY <2>1, AccountAssumption, SumIsNumber, Zenon DEF Spent
  <2> QED
    BY <2>2, Zenon
<1>6. Starter + 0 + 0 + 0 = Starter + 0 * Gift + 0 + 0 + 0
  BY AccountAssumption, SMT
<1>7. balance + Reserved + Spent + TakenBack
        = Starter + gifts * Gift + debt + forgiven + Given
  BY <1>1, <1>4, <1>5, <1>6, Zenon
<1>8. TokensAreConserved
  BY <1>1, <1>7, Zenon
     DEF TokensAreConserved, Reserved, Reserves, Spent, Uses, TakenBack, Given, Prices
<1> QED
  BY <1>1, <1>2, <1>8, Zenon DEF CInv

\* Every step conserves the tokens.
LEMMA NextConserves == IInv /\ CInv /\ [Next]_vars => CInv'
<1> SUFFICES ASSUME TypeOK, CInv, [Next]_vars PROVE CInv'
  BY Zenon DEF IInv
<1>1. CASE AccountStep /\ UNCHANGED billingVars
  BY <1>1, AccountConserves, Zenon
<1>2. ASSUME UNCHANGED <<accountVars, kind, debt, granted, reversed, events>> PROVE CInv'
  <2>1. DOMAIN events \subseteq DOMAIN events' /\ \A e \in DOMAIN events : events'[e] = events[e]
    BY <1>2, Zenon
  <2> QED
    BY <1>2, <2>1, NothingMoves, Zenon
<1>3. CASE CheckoutStep
  BY <1>2, <1>3, Zenon DEF CheckoutStep, Checkout, CompleteOperation, ProviderFails
<1>4. ASSUME NEW k \in Keys, NEW what \in {"paid", "past_due", "resumed", "cancelled", "refund"},
             NEW of \in 0 .. MaxEvents, NEW amount \in Refunds \union {0},
             Occurs(what, k, of, amount)
      PROVE  CInv'
  <2>1. DOMAIN events \subseteq DOMAIN events' /\ \A e \in DOMAIN events : events'[e] = events[e]
    BY <1>4, OccursAppends, Zenon
  <2>2. UNCHANGED <<accountVars, kind, debt, granted, reversed>>
    BY <1>4, Zenon DEF Occurs
  <2> QED
    BY <2>1, <2>2, NothingMoves, Zenon
<1>5. CASE ProviderStep
  <2>1. 0 \in 0 .. MaxEvents
    BY BillingAssumption, SMT
  <2>2. ASSUME NEW k \in Keys, Expire(k) PROVE CInv'
    BY <1>2, <2>2, Zenon DEF Expire
  <2>3. ASSUME NEW k \in Keys, Pay(k) PROVE CInv'
    BY <1>4, <2>1, <2>3, Zenon DEF Pay
  <2>4. ASSUME NEW k \in Keys, NEW what \in {"paid", "past_due", "resumed", "cancelled"},
               Continue(k, what)
        PROVE  CInv'
    BY <1>4, <2>1, <2>4, Zenon DEF Continue
  <2>5. ASSUME NEW e \in DOMAIN events, NEW amount \in Refunds, Refund(e, amount)
        PROVE  CInv'
    <3>1. events[e].key \in Keys /\ e \in 1 .. MaxEvents
      BY EventTypes, Zenon
    <3>2. e \in 0 .. MaxEvents
      BY <3>1, BillingAssumption, SMT
    <3> QED
      BY <1>4, <2>5, <3>1, <3>2, Zenon DEF Refund
  <2> QED
    BY <1>5, <2>2, <2>3, <2>4, <2>5, Zenon DEF ProviderStep
<1>6. CASE \E e \in DOMAIN events : Deliver(e)
  <2>1. ASSUME NEW e \in DOMAIN events, ApplyStatus(e) PROVE CInv'
    BY <1>2, <2>1, Zenon DEF ApplyStatus
  <2> QED
    BY <1>6, <2>1, PaidConserves, ReversalConserves, Zenon DEF Deliver
<1>7. CASE Restart
  BY <1>7, RestartConserves, Zenon
<1>8. CASE UNCHANGED vars
  BY <1>2, <1>8, Zenon DEF vars, billingVars
<1> QED
  BY <1>1, <1>3, <1>5, <1>6, <1>7, <1>8, Zenon DEF Next

\* Through every interleaving of requests, payments, refunds, settlements and
\* restarts no token is created or lost, and refunds of one payment never take
\* back more than it granted, for any number of requests and events.
THEOREM ConservationOfTokens == Spec => []TokensAreConserved
<1>1. CInv => TokensAreConserved
  BY Zenon DEF CInv
<1> QED BY <1>1, InitConserves, NextConserves, BillingInvariant, PTL DEF Spec
=============================================================================
