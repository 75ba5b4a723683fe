--------------------------- MODULE CommandLedger ---------------------------
(***************************************************************************)
(* What the owner of a node is promised about each control command, with   *)
(* no queue, journal, poll loop or process in sight: a command is issued,  *)
(* handed to the node, and closed once and for all.  The node performs     *)
(* only what it was handed, and a command is closed as applied only after  *)
(* its effect ran to its end.                                              *)
(***************************************************************************)
CONSTANT Commands

VARIABLES
    status,    \* none, queued, delivered, applied, rejected, expired
    performed  \* the commands whose effect ran to its end

ledgerVars == <<status, performed>>
StillOpen(c) == status[c] \in {"queued", "delivered"}

LedgerInit ==
    /\ status = [c \in Commands |-> "none"]
    /\ performed = {}

Issue(c) ==
    /\ status[c] = "none"
    /\ status' = [status EXCEPT ![c] = "queued"]
    /\ UNCHANGED performed

\* One poll hands over every open command but those that have expired.
Serve(expiring) ==
    /\ \A c \in expiring : StillOpen(c)
    /\ status' = [c \in Commands |-> IF c \in expiring THEN "expired"
                                     ELSE IF StillOpen(c) THEN "delivered"
                                     ELSE status[c]]
    /\ UNCHANGED performed

Perform(c) ==
    /\ status[c] \notin {"none", "queued"}
    /\ performed' = performed \cup {c}
    /\ UNCHANGED status

Close(c, s) ==
    /\ StillOpen(c)
    /\ s = "applied" => c \in performed
    /\ status' = [status EXCEPT ![c] = s]
    /\ UNCHANGED performed

LedgerNext ==
    \/ \E c \in Commands :
          Issue(c) \/ Perform(c) \/ \E s \in {"applied", "rejected", "expired"} : Close(c, s)
    \/ \E expiring \in SUBSET Commands : Serve(expiring)

LedgerSpec == LedgerInit /\ [][LedgerNext]_ledgerVars
=============================================================================
