------------------------------ MODULE ApiAccess ------------------------------
(***************************************************************************)
(* The prepaid account of one user: its token balance and the reservations *)
(* that chat requests make on it (coordinator/api-access.ts and the        *)
(* handler of POST /v1/chat/completions in coordinator/server.ts).         *)
(*                                                                         *)
(* A request reserves the most it can cost before it is dispatched and is  *)
(* settled when its stream ends: the unused part comes back, a cost above  *)
(* the reservation is charged as far as the balance goes.  Every step is   *)
(* one database transaction; between them the request lives in the memory  *)
(* of the coordinator, which a restart forgets.                            *)
(*                                                                         *)
(* Every row is keyed by the user, so one account stands for all.  The     *)
(* requests-per-minute window only refuses requests and is left out.       *)
(***************************************************************************)
EXTENDS Integers, FiniteSets

CONSTANTS
    Usages,         \* chat requests of the account
    Starter,        \* limits.starterTokens
    MaxConcurrent,  \* limits.maxConcurrent
    Costs,          \* tokens a request may need: estimates and real counts
    Gift            \* tokens of the administrator's grant

ASSUME AccountAssumption ==
    /\ IsFiniteSet(Usages)
    /\ Starter \in Nat
    /\ MaxConcurrent \in Nat
    /\ Costs \subseteq Nat
    /\ Gift \in Nat

VARIABLES
    balance,   \* api_accounts.token_balance
    usage,     \* api_usage: the row of each request
    handlers,  \* requests whose handler is still reading the job's stream
    job,       \* the job each row names: its status, or none (job_id is NULL)
    gifts,     \* administrator grants so far
    forgiven   \* history: tokens used that the balance could not cover

accountVars == <<balance, usage, handlers, job, gifts, forgiven>>

\* reserved is what the row sets aside: a settled row sets nothing aside.
NoUsage == [status |-> "none", reserved |-> 0, used |-> 0]

\* ended: failed, cancelled or expired; restarted: failed by a restart, with
\* failure_code coordinator_restarted.
JobStatuses == {"none", "live", "completed", "ended", "restarted"}

Larger(a, b)  == IF a > b THEN a ELSE b
Smaller(a, b) == IF a < b THEN a ELSE b

AccountInit ==
    /\ balance = Starter
    /\ usage = [u \in Usages |-> NoUsage]
    /\ handlers = {}
    /\ job = [u \in Usages |-> "none"]
    /\ gifts = 0
    /\ forgiven = 0

Pending == {u \in Usages : usage[u].status = "pending"}

\* beginUsage.  A request for a model that the operator funds reserves nothing.
BeginUsage(u, need) ==
    /\ usage[u].status = "none"
    /\ Cardinality(Pending) < MaxConcurrent
    /\ balance >= need
    /\ balance' = balance - need
    /\ usage' = [usage EXCEPT ![u] = [status |-> "pending", reserved |-> need, used |-> 0]]
    /\ handlers' = handlers \union {u}
    /\ UNCHANGED <<job, gifts, forgiven>>

\* submit made the job, and attachJob writes its id to the row: a transaction
\* of its own, which a crash may forestall.
AttachJob(u) ==
    /\ u \in handlers /\ job[u] = "none"
    /\ job' = [job EXCEPT ![u] = "live"]
    /\ UNCHANGED <<balance, usage, handlers, gifts, forgiven>>

\* The job completes, fails, expires or is cancelled: its row is final, the
\* event is on its way to the handler.
JobEnds(u, how) ==
    /\ job[u] = "live"
    /\ job' = [job EXCEPT ![u] = how]
    /\ UNCHANGED <<balance, usage, handlers, gifts, forgiven>>

\* token_balance = MAX(0, token_balance + refund - additionalCharge)
SettledBalance(u, actual) ==
    Larger(0, balance + Larger(0, usage[u].reserved - actual)
                      - Larger(0, actual - usage[u].reserved))

\* completeUsage, once the stream ended with a result of actual tokens.
\* Operator-funded usage costs nothing whatever it used.
CompleteUsage(u, actual) ==
    /\ u \in handlers /\ job[u] = "completed"
    /\ usage[u].status = "pending"
    /\ usage[u].reserved = 0 => actual = 0
    /\ balance' = SettledBalance(u, actual)
    /\ forgiven' = forgiven + Larger(0, actual - usage[u].reserved - balance)
    /\ usage' = [usage EXCEPT ![u] = [status |-> "completed", reserved |-> 0, used |-> actual]]
    /\ handlers' = handlers \ {u}
    /\ UNCHANGED <<job, gifts>>

\* failUsage, once submit threw, or the stream failed or ended without a
\* result; the request of a completed job fails too when its execution receipt
\* cannot be recorded, and that of a live one when the stream cannot be written.
FailUsage(u) ==
    /\ u \in handlers
    /\ usage[u].status = "pending"
    /\ balance' = balance + usage[u].reserved
    /\ usage' = [usage EXCEPT ![u] = [status |-> "failed", reserved |-> 0, used |-> 0]]
    /\ handlers' = handlers \ {u}
    /\ UNCHANGED <<job, gifts, forgiven>>

\* POST /v1/admin/accounts/:userId/tokens
GrantTokens ==
    /\ gifts = 0
    /\ gifts' = 1
    /\ balance' = balance + Gift
    /\ UNCHANGED <<usage, handlers, job, forgiven>>

\* A restart that gives up reservations of tokens too: a variant.
InterruptedAll == Pending

\* reconcileRestartedZeroTokenUsage: the rows that reserved nothing and whose
\* job a restart failed, this one (recoverOrphanedJobs comes first) or an earlier
\* one.  Such a job counted no tokens, which only completeJob writes.  A row
\* without a job, or whose job was over before the crash, is not one of them.
Interrupted ==
    {u \in Pending : usage[u].reserved = 0 /\ job[u] \in {"live", "restarted"}}

\* The coordinator restarts: the handlers are gone, the rows remain.
AccountRestart ==
    /\ usage' = [u \in Usages |-> IF u \in Interrupted
                                  THEN [usage[u] EXCEPT !.status = "failed"]
                                  ELSE usage[u]]
    /\ job' = [u \in Usages |-> IF job[u] = "live" THEN "restarted" ELSE job[u]]
    /\ handlers' = {}
    /\ UNCHANGED <<balance, gifts, forgiven>>

AccountStep ==
    \/ \E u \in Usages, need \in Costs : BeginUsage(u, need)
    \/ \E u \in Usages, actual \in Costs : CompleteUsage(u, actual)
    \/ \E u \in Usages, how \in {"completed", "ended"} : JobEnds(u, how)
    \/ \E u \in Usages : AttachJob(u) \/ FailUsage(u)
    \/ GrantTokens
=============================================================================
