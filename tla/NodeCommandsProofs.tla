------------------------ MODULE NodeCommandsProofs ------------------------
(***************************************************************************)
(* Proofs about NodeCommands, for any number of commands, any kinds and    *)
(* any number of faults: what the owner reads is true, an uninstall is     *)
(* armed only once it is acknowledged, the cursor does not regress, every  *)
(* table and file keeps its type, and the queue, the journal and the poll  *)
(* loop implement CommandLedger.                                           *)
(*                                                                         *)
(* The inductive invariant says of each command how far its row, its       *)
(* journal entry and its result may be apart.  What an await of the        *)
(* applicator does to the agent, the control state or the configuration    *)
(* takes no part: Awaits is all that such a step can do.                   *)
(* TInv adds the types; that the replay of the commands yields a desired   *)
(* state is an induction over the number of commands it has folded.        *)
(***************************************************************************)
EXTENDS NodeCommands, FiniteSetTheorems, WellFoundedInduction,
        SequenceTheorems, TLAPS

Reconciling == {"store pause", "store resume", "store drain", "store undrain", "agent off",
                "agent on", "release", "begin drain", "save desired", "arm"}
Plain == Reconciling \cup {"wait idle", "save limits", "save policy", "save channel",
                        "components", "refuse"}
Names(k) == IF k = "uninstall" THEN Plain \cup {"schedule"} ELSE Plain
Busy == {"execute", "apply", "post", "acknowledged"}

Types ==
    /\ row \in [Commands -> {"none"} \cup Open \cup Verdicts]
    /\ kind \in [Commands -> {"none"} \cup Kinds]
    /\ result = [c \in Commands |-> result[c]]
    /\ journal \in [Commands -> [phase : {"none", "applying", "complete"},
                                 result : [verdict : Verdicts \cup {"none"}, id : Nat]]]
    /\ seen \in Int /\ events \in Nat /\ cursor \in Nat
    /\ batch \subseteq Commands /\ ran \subseteq Commands
    /\ requests \subseteq Commands /\ armed \subseteq Commands
    /\ after \in [restart : Commands \cup {0}, stop : Commands \cup {0}]
    /\ verdict \in Verdicts

\* A command is on the node only once it was delivered.
Delivered(c) == row[c] \notin {"none", "queued"}
Handed ==
    /\ \A c \in batch : Delivered(c)
    /\ \A c \in Commands : journal[c].phase # "none" => Delivered(c)
    /\ \A c \in requests \cup armed : journal[c].phase # "none"

\* Where the loop is, and what the journal says of the command it is at.
AtCurrent ==
    /\ pc \in Busy => batch # {}
    /\ pc = "apply" => /\ journal[Current].phase = "applying"
                       /\ todo \in Seq(Names(kind[Current]))
                       /\ verdict = "applied" /\ todo = <<>> => Current \in ran
    /\ pc \in {"post", "acknowledged"} => journal[Current].phase = "complete"
    /\ pc = "acknowledged" => result[Current] = journal[Current].result
    /\ pc = "reconcile" => todo \in Seq(Reconciling)

\* A sealed result, a recorded one and one that is under way are the same.
Sealed ==
    \A c \in Commands :
        /\ journal[c].phase # "complete" => journal[c].result = NoResult
        /\ journal[c].phase = "complete" => journal[c].result.verdict \in Verdicts
        /\ journal[c].result.verdict = "applied" => c \in ran
        /\ result[c] \in {NoResult, journal[c].result}
        /\ row[c] = "applied" => result[c].verdict = "applied"
UnderWay ==
    \A m \in lateResults : /\ m.command \in Commands
                           /\ journal[m.command].phase = "complete"
                           /\ m.result = journal[m.command].result

\* The uninstall requests, and what the node has been told of them.
Uninstalls ==
    /\ \A c \in requests : kind[c] = "uninstall"
    /\ after.stop # 0 => after.stop \in requests
    /\ \A c \in reply.acked : c \in Commands => row[c] = "applied"

Cursors ==
    /\ CursorNeverRegresses
    /\ pc = "reconcile" => reply.latest \in Nat /\ cursor <= reply.latest /\ reply.latest <= events

IInv == Types /\ Handed /\ AtCurrent /\ Sealed /\ UnderWay /\ Uninstalls /\ Cursors
        /\ ArmedIsAcknowledged

\* The order on the naturals as the relation of the library's theorems.
LEMMA LessIsRelated ==
    ASSUME NEW x \in Nat, NEW y \in Nat, y < x
    PROVE  <<y, x>> \in OpToRel(<, Nat)
<1>1. <<y, x>> \in Nat \X Nat /\ <<y, x>>[1] = y /\ <<y, x>>[2] = x
  BY ZenonT(30)
<1>2. QED
  BY <1>1, ZenonT(30) DEF OpToRel

\* A set of commands that is not empty has a least element.
LEMMA CurrentIsInBatch ==
    ASSUME batch \subseteq Commands, batch # {}
    PROVE  Current \in batch
<1>1. batch \subseteq Nat
  BY SMTT(60), NodeCommandsAssumption DEF Commands
<1>2. \E x \in batch : \A y \in batch : ~(<<y, x>> \in OpToRel(<, Nat))
  BY ZenonT(60), <1>1, NatLessThanWellFounded, WFMin
<1>3. \E x \in batch : \A y \in batch : ~(y < x)
  BY <1>1, <1>2, LessIsRelated, ZenonT(60)
<1>4. \E x \in batch : \A y \in batch : x <= y
  BY SMTT(60), <1>1, <1>3
<1>5. QED
  BY <1>4, ZenonT(30) DEF Current

LEMMA CurrentStays == UNCHANGED batch => Current' = Current
BY ZenonT(30) DEF Current

-----------------------------------------------------------------------------
(* The awaits of the applicator *)

Awaits ==
    /\ pc \in {"apply", "reconcile"} /\ todo # <<>>
    /\ Proceed \/ Fail
    /\ after' \in [restart : Commands \cup {0}, stop : {after.stop}]
    /\ UNCHANGED <<coordinatorVars, journal, cursor, requests, armed, reply>>

LEMMA StepIsAwait ==
    ASSUME Types, AtCurrent,
           \/ StoreControl \/ SetContribution \/ BeginDrain \/ Release \/ WaitForIdle
           \/ SaveConfiguration \/ ApplyComponents \/ Refuse
    PROVE  Awaits
<1> USE DEF Awaits, At, coordinatorVars, diskVars
<1>0. after \in [restart : Commands \cup {0}, stop : {after.stop}]
  BY ZenonT(60) DEF Types
<1>a. pc = "apply" => Current \in Commands
  BY ZenonT(60), CurrentIsInBatch DEF AtCurrent, Busy, Types
<1>b. pc = "reconcile" => Head(todo) \in Reconciling \/ todo = <<>>
  BY DEF AtCurrent
<1>1. CASE StoreControl
  BY <1>1, <1>0, ZenonT(60) DEF StoreControl
<1>2. CASE SetContribution
  BY <1>2, <1>0, ZenonT(60) DEF SetContribution
<1>3. CASE BeginDrain
  BY <1>3, <1>0, ZenonT(60) DEF BeginDrain
<1>4. CASE Release
  BY <1>4, <1>0, ZenonT(60) DEF Release
<1>5. CASE WaitForIdle
  BY <1>5, <1>0, ZenonT(60) DEF WaitForIdle
<1>6. CASE SaveConfiguration
  <2>1. At("save limits") \/ At("save policy") => Current \in Commands
    BY ZenonT(60), <1>a, <1>b DEF Reconciling
  <2>2. after' \in [restart : Commands \cup {0}, stop : {after.stop}]
    BY ZenonT(60), <1>6, <1>0, <2>1 DEF SaveConfiguration
  <2>3. QED
    BY <1>6, <2>2, ZenonT(60) DEF SaveConfiguration
<1>7. CASE ApplyComponents
  <2>1. At("components") => Current \in Commands
    BY ZenonT(60), <1>a, <1>b DEF Reconciling
  <2>2. after' \in [restart : Commands \cup {0}, stop : {after.stop}]
    BY ZenonT(60), <1>7, <1>0, <2>1 DEF ApplyComponents
  <2>3. QED
    BY <1>7, <2>2, ZenonT(60) DEF ApplyComponents
<1>8. CASE Refuse
  BY <1>8, <1>0, ZenonT(60) DEF Refuse
<1>9. QED
  BY ZenonT(30), <1>1, <1>2, <1>3, <1>4, <1>5, <1>6, <1>7, <1>8

\* One element fewer of a sequence.
LEMMA TailIsShorter ==
    ASSUME NEW S, NEW s \in Seq(S), s # <<>>
    PROVE  /\ Tail(s) \in Seq(S)
           /\ Tail(s) = <<>> => Len(s) = 1
<1>1. Tail(s) \in Seq(S) /\ Len(Tail(s)) = Len(s) - 1 /\ Len(s) \in Nat
  BY SMTT(60), HeadTailProperties
<1>2. Tail(s) = <<>> => Len(Tail(s)) = 0
  BY <1>1, EmptySeq, ZenonT(60)
<1>3. QED
  BY SMTT(30), <1>1, <1>2

\* An await keeps everything but its own place in the command.
LEMMA AwaitStep ==
    ASSUME IInv, Awaits
    PROVE  IInv'
<1> USE DEF IInv, Awaits, coordinatorVars, netVars
<1>a. pc = "apply" => Current \in Commands /\ Current \in batch
  BY ZenonT(60), CurrentIsInBatch DEF AtCurrent, Busy, Types
<1>b. pc = "apply" => UNCHANGED <<batch, pc>>
  BY ZenonT(60) DEF Proceed, Fail
<1>c. \/ UNCHANGED batch /\ pc' = pc
      \/ pc' = "poll" /\ batch' = {} /\ todo' = <<>> /\ verdict' = "applied" /\ UNCHANGED ran
  BY ZenonT(30) DEF Proceed, Fail, Retry
<1>d. ran \subseteq ran' /\ ran' \subseteq Commands
  BY ZenonT(60), <1>a DEF Proceed, Fail, Types
<1>1. Types'
  BY ZenonT(60), <1>c, <1>d DEF Types, Proceed, Fail, Retry, Verdicts
<1>2. Handed'
  BY ZenonT(60), <1>c DEF Handed, Delivered
<1>3. AtCurrent'
  <2>1. CASE pc = "apply"
    <3>1. Current' = Current /\ pc' = "apply"
      BY ZenonT(60), <2>1, <1>b, CurrentStays
    <3>2. todo \in Seq(Names(kind[Current]))
      BY ZenonT(30), <2>1 DEF AtCurrent
    <3>a. Tail(todo) \in Seq(Names(kind[Current])) /\ (Tail(todo) = <<>> => Len(todo) = 1)
      BY ZenonT(60), <3>2, TailIsShorter
    <3>b. <<>> \in Seq(Names(kind[Current]))
      OBVIOUS
    <3>3. todo' \in Seq(Names(kind[Current]))
      BY <2>1, <3>a, <3>b, ZenonT(60) DEF Proceed, Fail
    <3>4. verdict' = "applied" /\ todo' = <<>> => Current \in ran'
      BY ZenonT(30), <2>1, <3>a DEF Proceed, Fail
    <3>5. QED
      BY ZenonT(60), <2>1, <1>b, <3>1, <3>3, <3>4 DEF AtCurrent
  <2>2. CASE pc = "reconcile"
    <3>1. todo \in Seq(Reconciling)
      BY ZenonT(60), <2>2 DEF AtCurrent
    <3>2. CASE Proceed
      BY ZenonT(60), <2>2, <3>1, <3>2, TailIsShorter DEF Proceed, AtCurrent, Busy
    <3>3. CASE Fail
      BY ZenonT(60), <2>2, <3>3 DEF Fail, Retry, AtCurrent, Busy
    <3>4. QED
      BY ZenonT(30), <3>2, <3>3
  <2>3. QED
    BY ZenonT(60), <2>1, <2>2
<1>4. Sealed'
  BY ZenonT(60), <1>d DEF Sealed
<1>5. UnderWay' /\ ArmedIsAcknowledged'
  BY ZenonT(60) DEF UnderWay, ArmedIsAcknowledged
<1>6. Uninstalls'
  BY ZenonT(60) DEF Uninstalls
<1>7. Cursors'
  BY ZenonT(60), <1>c DEF Cursors, CursorNeverRegresses
<1>8. QED
  BY ZenonT(30), <1>1, <1>2, <1>3, <1>4, <1>5, <1>6, <1>7

-----------------------------------------------------------------------------
(* What a transaction of the coordinator does to a command *)

Rows == [Commands -> {"none"} \cup Open \cup Verdicts]

Advances ==
    /\ row' \in Rows /\ kind' \in [Commands -> {"none"} \cup Kinds]
    /\ result' = [c \in Commands |-> result'[c]]
    /\ events' \in Nat /\ events <= events' /\ UNCHANGED seen
    /\ \A c \in Commands :
          /\ Delivered(c) => row'[c] \notin {"none", "queued"} /\ kind'[c] = kind[c]
          /\ row[c] = "applied" => row'[c] = "applied"
          /\ row'[c] = "applied" => result'[c].verdict = "applied"
          /\ result'[c] = result[c] \/ (result[c] = NoResult /\ result'[c] = journal[c].result)

LEMMA EnqueueAdvances ==
    ASSUME IInv, NEW c \in Commands, NEW k \in Kinds, Enqueue(c, k)
    PROVE  Advances
BY SMTT(30), SMT DEF IInv, Types, Sealed, Enqueue, Advances, Delivered, Rows, Open

LEMMA PullAdvances ==
    ASSUME IInv, NEW expiring \in SUBSET Commands, Pull(expiring)
    PROVE  Advances /\ \A c \in Pulled(expiring) : c \in Commands /\ row'[c] = "delivered"
<1> USE DEF Pull, Pulled, Open
<1>1. IsFiniteSet(Commands)
  BY SMTT(60), FS_Interval, NodeCommandsAssumption DEF Commands
<1>2. \A S \in SUBSET Commands : Cardinality(S) \in Nat
  BY ZenonT(30), <1>1, FS_Subset, FS_CardinalityType
<1>3. events' \in Nat /\ events <= events'
  <2>1. Cardinality(expiring) \in Nat
        /\ Cardinality({c \in Pulled(expiring) : row[c] = "queued"}) \in Nat
    BY ZenonT(30), <1>2
  <2>2. QED
    BY SMTT(60), <2>1 DEF IInv, Types
<1>4. \A c \in Commands :
         row'[c] = IF c \in expiring THEN "expired"
                   ELSE IF c \in Pulled(expiring) THEN "delivered" ELSE row[c]
  BY ZenonT(30)
<1>5. row' \in Rows
  BY ZenonT(30) DEF IInv, Types, Rows, Verdicts
<1>6. QED
  BY ZenonT(30), <1>3, <1>4, <1>5 DEF IInv, Types, Sealed, Advances, Delivered

LEMMA RecordAdvances ==
    ASSUME IInv, NEW c \in Commands, journal[c].phase = "complete",
           Acceptable(c, journal[c].result), RecordResult(c, journal[c].result)
    PROVE  Advances /\ result'[c] = journal[c].result
<1>1. journal[c].result.verdict \in Verdicts /\ journal[c].result # NoResult
  BY SMTT(60) DEF IInv, Sealed, NoResult, Verdicts
<1>2. row' \in Rows /\ result'[c] = journal[c].result
  BY ZenonT(30), <1>1 DEF RecordResult, IInv, Types, Rows
<1>3. events' \in Nat /\ events <= events'
  BY SMTT(60) DEF RecordResult, IInv, Types
<1>4. result' = [d \in Commands |-> result'[d]]
      /\ \A d \in Commands \ {c} : result'[d] = result[d] /\ row'[d] = row[d]
  BY ZenonT(30) DEF RecordResult, IInv, Types
<1>5. result[c] = NoResult \/ result[c] = journal[c].result
  BY ZenonT(30) DEF Acceptable
<1>6. row'[c] = row[c] \/ (Delivered(c) /\ row'[c] = journal[c].result.verdict /\ row[c] # "applied")
  <2>1. Delivered(c)
    BY ZenonT(30) DEF IInv, Handed
  <2>2. QED
    BY ZenonT(30), <2>1 DEF RecordResult, IInv, Types, Open
<1>7. \A d \in Commands : row[d] = "applied" => result[d].verdict = "applied"
  BY ZenonT(30) DEF IInv, Sealed
<1>8. UNCHANGED <<kind, seen>> /\ kind \in [Commands -> {"none"} \cup Kinds]
  BY ZenonT(60) DEF RecordResult, IInv, Types
<1>9. ASSUME NEW d \in Commands
      PROVE  /\ Delivered(d) => row'[d] \notin {"none", "queued"} /\ kind'[d] = kind[d]
             /\ row[d] = "applied" => row'[d] = "applied"
             /\ row'[d] = "applied" => result'[d].verdict = "applied"
             /\ result'[d] = result[d] \/ (result[d] = NoResult /\ result'[d] = journal[d].result)
  <2>1. CASE d = c
    BY SMTT(30), <2>1, <1>1, <1>2, <1>5, <1>6, <1>7, <1>8 DEF Delivered, Verdicts, NoResult
  <2>2. CASE d # c
    BY ZenonT(60), <2>2, <1>4, <1>7, <1>8 DEF Delivered
  <2>3. QED
    BY ZenonT(60), <2>1, <2>2
<1>10. QED
  BY ZenonT(30), <1>2, <1>3, <1>4, <1>8, <1>9 DEF Advances

\* A transaction keeps what the node's side of the invariant says, as long as
\* the node's loop stays where it is or drops its batch.
LEMMA AdvanceStep ==
    ASSUME IInv, Advances,
           UNCHANGED <<journal, cursor, requests, armed, after, reply, ran>>,
           \/ UNCHANGED <<pc, batch, todo, verdict>>
           \/ pc' = "poll" /\ batch' = {} /\ verdict' = "applied",
           \A m \in lateResults' : m \in lateResults
               \/ (m.command \in Commands /\ journal[m.command].phase = "complete"
                   /\ m.result = journal[m.command].result)
    PROVE  IInv'
<1> USE DEF IInv
<1>1. Types'
  BY ZenonT(30) DEF Types, Advances, Rows, Verdicts
<1>2. Handed'
  BY ZenonT(30) DEF Handed, Delivered, Advances, Types
<1>3. AtCurrent'
  <2>1. CASE UNCHANGED <<pc, batch, todo, verdict>>
    <3>1. Current' = Current
      BY ZenonT(60), <2>1, CurrentStays
    <3>2. pc \in Busy => Current \in Commands /\ Delivered(Current)
      BY ZenonT(60), CurrentIsInBatch DEF AtCurrent, Types, Handed
    <3>3. pc = "apply" => kind'[Current] = kind[Current]
      BY ZenonT(60), <3>2 DEF Advances, Busy
    <3>4. pc = "acknowledged" => result'[Current] = result[Current]
      <4>1. SUFFICES ASSUME pc = "acknowledged" PROVE result'[Current] = result[Current]
        BY ZenonT(30)
      <4>2. result[Current] = journal[Current].result /\ Current \in Commands
        BY ZenonT(60), <4>1, <3>2 DEF AtCurrent, Busy
      <4>3. QED
        BY ZenonT(60), <4>2 DEF Advances
    <3>5. QED
      BY ZenonT(60), <2>1, <3>1, <3>3, <3>4 DEF AtCurrent
  <2>2. CASE pc' = "poll" /\ batch' = {} /\ verdict' = "applied"
    BY ZenonT(60), <2>2 DEF AtCurrent, Busy
  <2>3. QED
    BY ZenonT(60), <2>1, <2>2
<1>4. Sealed'
  BY ZenonT(30) DEF Sealed, Advances, NoResult
<1>5. UnderWay'
  BY ZenonT(30) DEF UnderWay
<1>6. ArmedIsAcknowledged'
  <2>1. ASSUME NEW c \in armed PROVE kind'[c] = "uninstall" /\ result'[c].verdict = "applied"
    <3>1. c \in Commands /\ Delivered(c) /\ kind[c] = "uninstall" /\ result[c].verdict = "applied"
      BY ZenonT(30), <2>1 DEF Handed, ArmedIsAcknowledged, Types
    <3>2. result[c] # NoResult
      BY SMTT(60), <3>1 DEF NoResult
    <3>3. QED
      BY ZenonT(60), <3>1, <3>2 DEF Advances
  <2>2. QED
    BY ZenonT(60), <2>1 DEF ArmedIsAcknowledged
<1>7. Uninstalls'
  <2>1. ASSUME NEW c \in requests PROVE kind'[c] = "uninstall"
    BY ZenonT(60), <2>1 DEF Uninstalls, Handed, Types, Advances
  <2>2. QED
    BY ZenonT(60), <2>1 DEF Uninstalls, Advances
<1>8. Cursors'
  BY DEF Cursors, CursorNeverRegresses, Advances, Types
<1>9. QED
  BY ZenonT(60), <1>1, <1>2, <1>3, <1>4, <1>5, <1>6, <1>7, <1>8

-----------------------------------------------------------------------------
(* The steps of the loop *)

\* A node that dies, boots or polls again keeps what is durable.
Quiet ==
    /\ UNCHANGED <<row, kind, result, seen, events, lateResults, journal, cursor, requests,
                   armed, ran>>
    /\ \/ UNCHANGED <<pc, batch, todo, verdict, after, reply>>
       \/ /\ pc' \notin Busy \cup {"reconcile"}
          /\ batch' \in {batch, {}} /\ verdict' \in Verdicts
          /\ after' \in {after, Idle} /\ reply' \in {reply, NoReply}

LEMMA QuietStep ==
    ASSUME IInv, Quiet
    PROVE  IInv'
<1> USE DEF IInv, Quiet
<1>1. Types'
  BY SMTT(30) DEF Types, Idle
<1>2. Handed' /\ Sealed' /\ UnderWay' /\ ArmedIsAcknowledged'
  BY ZenonT(30) DEF Handed, Delivered, Sealed, UnderWay, ArmedIsAcknowledged
<1>3. AtCurrent'
  <2>1. CASE UNCHANGED <<pc, batch, todo, verdict>>
    BY SMTT(30), <2>1, CurrentStays DEF AtCurrent
  <2>2. CASE pc' \notin Busy \cup {"reconcile"}
    BY ZenonT(60), <2>2 DEF AtCurrent, Busy
  <2>3. QED
    BY ZenonT(30), <2>1, <2>2
<1>4. Uninstalls'
  BY SMTT(60) DEF Uninstalls, Idle, NoReply
<1>5. Cursors'
  BY ZenonT(30) DEF Cursors, CursorNeverRegresses
<1>6. QED
  BY ZenonT(30), <1>1, <1>2, <1>3, <1>4, <1>5

LEMMA ProcessIsQuiet ==
    ASSUME IInv,
           \/ SnapshotRefused \/ Crash \/ Start \/ RemoveNode
           \/ \E c \in Commands : HelperEnds(c)
    PROVE  Quiet
<1> USE DEF Quiet, coordinatorVars, netVars, diskVars, processVars, Busy, Verdicts
<1>1. CASE SnapshotRefused
  BY ZenonT(30), <1>1 DEF SnapshotRefused, Retry
<1>2. CASE Crash
  BY ZenonT(30), <1>2 DEF Crash, Forget
<1>3. CASE Start
  <2>1. CASE Boot
    BY ZenonT(60), <2>1 DEF Boot
  <2>2. CASE MarkHealthy
    BY ZenonT(60), <2>2 DEF MarkHealthy, IInv, Types
  <2>3. CASE Undrain
    BY ZenonT(60), <2>3 DEF Undrain, IInv, Types
  <2>4. CASE BootFails
    BY ZenonT(60), <2>4 DEF BootFails, Forget
  <2>5. QED
    BY ZenonT(30), <1>3, <2>1, <2>2, <2>3, <2>4 DEF Start
<1>4. CASE RemoveNode
  BY ZenonT(60), <1>4 DEF RemoveNode, Forget
<1>5. CASE \E c \in Commands : HelperEnds(c)
  BY ZenonT(60), <1>5 DEF HelperEnds
<1>6. QED
  BY ZenonT(30), <1>1, <1>2, <1>3, <1>4, <1>5

LEMMA PullCommandsStep ==
    ASSUME IInv, NEW expiring \in SUBSET Commands, PullCommands(expiring)
    PROVE  IInv'
<1> USE DEF PullCommands, diskVars, netVars
<1>1. CASE Pull(expiring) /\ UNCHANGED <<pc, batch, netVars>>
  <2>1. Advances
    BY ZenonT(60), <1>1, PullAdvances
  <2>2. QED
    BY ZenonT(60), <1>1, <2>1, AdvanceStep
<1>2. CASE UNCHANGED <<row, kind, result, desired, seen, events, lateResults, pc, batch>>
  <2>1. Quiet
    BY ZenonT(60), <1>2 DEF Quiet
  <2>2. QED
    BY ZenonT(60), <2>1, QuietStep
<1>3. CASE /\ Pull(expiring) /\ batch' = Pulled(expiring) /\ UNCHANGED netVars
           /\ pc' = IF Pulled(expiring) = {} THEN "snapshot" ELSE "execute"
  <2>0. Advances /\ \A c \in Pulled(expiring) : c \in Commands /\ row'[c] = "delivered"
    BY ZenonT(60), <1>3, PullAdvances
  <2>1. Types'
    BY ZenonT(60), <1>3, <2>0 DEF IInv, Types, Advances, Rows
  <2>2. Handed'
    <3>1. \A c \in batch' : Delivered(c)'
      BY ZenonT(60), <1>3, <2>0 DEF Delivered
    <3>2. QED
      BY ZenonT(60), <3>1, <2>0 DEF IInv, Handed, Delivered, Advances, Types
  <2>3. AtCurrent'
    BY ZenonT(60), <1>3 DEF AtCurrent, Busy
  <2>4. Sealed' /\ UnderWay'
    BY ZenonT(60), <1>3, <2>0 DEF IInv, Sealed, UnderWay, Advances, NoResult
  <2>5. ArmedIsAcknowledged' /\ Uninstalls'
    BY ZenonT(60), <1>3, <2>0 DEF IInv, ArmedIsAcknowledged, Uninstalls, Handed, Types, Advances, NoResult,
                      Pull
  <2>6. Cursors'
    BY <1>3, <2>0 DEF IInv, Cursors, CursorNeverRegresses, Types, Advances
  <2>7. QED
    BY ZenonT(60), <2>1, <2>2, <2>3, <2>4, <2>5, <2>6 DEF IInv
<1>4. QED
  BY ZenonT(60), <1>1, <1>2, <1>3

\* Every command has something to await, and only an uninstall schedules one.
LEMMA StepsAreNamed ==
    ASSUME NEW k
    PROVE  Steps(k) \in Seq(Names(k)) /\ Steps(k) # <<>>
<1> USE DEF Steps, Names, Plain, Reconciling
<1>1. CASE k = "pause"
  BY SMTT(60), <1>1
<1>2. CASE k = "resume"
  BY SMTT(60), <1>2
<1>3. CASE k = "drain"
  BY SMTT(60), <1>3
<1>4. CASE k = "set-limits"
  BY SMTT(60), <1>4
<1>5. CASE k = "set-policy"
  BY SMTT(60), <1>5
<1>6. CASE k \in {"update", "update-dev"}
  <2>1. Steps(k) = <<"store drain", "begin drain", "wait idle", "save channel", "components">>
        /\ Names(k) = Plain
    BY ZenonT(60), <1>6
  <2>2. <<"store drain", "begin drain", "wait idle", "save channel", "components">> \in Seq(Plain)
    BY SMTT(60)
  <2>3. <<"store drain", "begin drain", "wait idle", "save channel", "components">> # <<>>
    BY SMTT(60)
  <2>4. QED
    BY ZenonT(30), <2>1, <2>2, <2>3
<1>7. CASE k = "uninstall"
  BY SMTT(60), <1>7
<1>8. CASE k \notin {"pause", "resume", "drain", "set-limits", "set-policy", "update", "update-dev",
                     "uninstall"}
  <2>1. Steps(k) = <<"refuse">>
    BY ZenonT(60), <1>8
  <2>2. <<"refuse">> \in Seq(Plain)
    BY SMTT(60)
  <2>3. QED
    BY ZenonT(30), <1>8, <2>1, <2>2
<1>9. QED
  BY ZenonT(60), <1>1, <1>2, <1>3, <1>4, <1>5, <1>6, <1>7, <1>8

LEMMA CaseIsOneOf ==
    ASSUME NEW S, NEW x \in S, NEW y \in S, NEW z \in S, NEW p \in BOOLEAN, NEW q \in BOOLEAN
    PROVE  (CASE p -> x [] q -> y [] OTHER -> z) \in S
BY ZenonT(60)

LEMMA ReconcileStepsAreNamed ==
    ASSUME NEW d, NEW acked
    PROVE  ReconcileSteps(d, acked) \in Seq(Reconciling)
<1> DEFINE a == CASE d.drain = control.draining -> <<>>
                  [] d.drain /\ ~control.draining -> <<"store drain", "begin drain">>
                  [] OTHER -> <<"release", "store undrain">>
           b == CASE d.contribution = control.contribution -> <<>>
                  [] d.contribution /\ ~control.contribution -> <<"store resume">>
                  [] OTHER -> <<"store pause">>
           e == IF d.contribution /\ ~d.drain THEN <<"agent on">> ELSE <<"agent off">>
           f == IF config = [limits |-> d.limits, policy |-> d.policy, channel |-> d.channel] THEN <<>>
                ELSE <<"save desired">>
<1>1. a \in Seq(Reconciling)
  <2> DEFINE p == d.drain = control.draining
             q == d.drain /\ ~control.draining
  <2>1. p \in BOOLEAN /\ q \in BOOLEAN
    BY ZenonT(60)
  <2>2. <<>> \in Seq(Reconciling) /\ <<"store drain", "begin drain">> \in Seq(Reconciling) /\ <<"release", "store undrain">> \in Seq(Reconciling)
    BY DEF Reconciling
  <2> HIDE DEF p, q
  <2>3. (CASE p -> <<>> [] q -> <<"store drain", "begin drain">> [] OTHER -> <<"release", "store undrain">>) \in Seq(Reconciling)
    BY ZenonT(30), <2>1, <2>2, CaseIsOneOf
  <2>4. QED
    BY <2>3, ZenonT(60) DEF p, q
<1>2. b \in Seq(Reconciling)
  <2> DEFINE p == d.contribution = control.contribution
             q == d.contribution /\ ~control.contribution
  <2>1. p \in BOOLEAN /\ q \in BOOLEAN
    BY ZenonT(30)
  <2>2. <<>> \in Seq(Reconciling) /\ <<"store resume">> \in Seq(Reconciling) /\ <<"store pause">> \in Seq(Reconciling)
    BY SMTT(60) DEF Reconciling
  <2> HIDE DEF p, q
  <2>3. (CASE p -> <<>> [] q -> <<"store resume">> [] OTHER -> <<"store pause">>) \in Seq(Reconciling)
    BY ZenonT(30), <2>1, <2>2, CaseIsOneOf
  <2>4. QED
    BY <2>3, ZenonT(60) DEF p, q
<1>3. e \in Seq(Reconciling) /\ f \in Seq(Reconciling) /\ <<"arm">> \in Seq(Reconciling)
  <2>1. /\ <<"agent on">> \in Seq(Reconciling) /\ <<"agent off">> \in Seq(Reconciling)
        /\ <<>> \in Seq(Reconciling) /\ <<"save desired">> \in Seq(Reconciling)
        /\ <<"arm">> \in Seq(Reconciling)
    BY DEF Reconciling
  <2>2. QED
    BY <2>1, ZenonT(60)
<1>4. ReconcileSteps(d, acked) = IF requests \cap acked # {} THEN <<"arm">> ELSE a \o b \o e \o f
  BY ZenonT(60) DEF ReconcileSteps
<1> HIDE DEF a, b, e, f
<1>5. a \o b \o e \o f \in Seq(Reconciling)
  BY ZenonT(60), <1>1, <1>2, <1>3, ConcatProperties
<1>6. QED
  BY ZenonT(60), <1>3, <1>4, <1>5

LEMMA ExecuteOnceStep ==
    ASSUME IInv, ExecuteOnce
    PROVE  IInv'
<1> USE DEF IInv, ExecuteOnce, coordinatorVars, netVars
<1> DEFINE c == Current
<1>1. Current \in batch /\ Current \in Commands /\ Delivered(Current) /\ Current' = Current
  BY ZenonT(60), CurrentIsInBatch, CurrentStays DEF AtCurrent, Busy, Types, Handed
<1>2. \/ journal[c].phase = "complete" /\ pc' = "post" /\ UNCHANGED <<journal, todo, verdict>>
      \/ /\ journal[c].phase # "complete" /\ pc' = "apply"
         /\ journal' = [journal EXCEPT ![c].phase = "applying"]
         /\ \/ todo' = Steps(kind[c]) /\ verdict' = "applied"
            \/ todo' = <<>> /\ verdict' = "expired"
  BY ZenonT(30)
<1> HIDE DEF c, ExecuteOnce
<1>3. c \in Commands /\ Delivered(c) /\ c = Current
  BY ZenonT(60), <1>1 DEF c
<1>f. UNCHANGED <<row, kind, result, seen, events, lateResults, cursor, requests, armed, batch,
                  after, reply, ran>>
  BY ZenonT(60) DEF ExecuteOnce
<1>4. /\ journal' \in [Commands -> [phase : {"none", "applying", "complete"},
                                   result : [verdict : Verdicts \cup {"none"}, id : Nat]]]
      /\ pc' = "apply" => journal'[c].phase = "applying"
      /\ \A d \in Commands : /\ journal'[d].result = journal[d].result
                             /\ d # c => journal'[d] = journal[d]
                             /\ journal[d].phase = "complete" <=> journal'[d].phase = "complete"
                             /\ journal[d].phase # "none" => journal'[d].phase # "none"
  <2>1. CASE UNCHANGED journal /\ pc' = "post"
    BY ZenonT(60), <2>1 DEF Types
  <2>2. CASE journal[c].phase # "complete" /\ pc' = "apply"
             /\ journal' = [journal EXCEPT ![c].phase = "applying"]
    <3>1. journal' = [d \in Commands |-> IF d = c THEN [journal[c] EXCEPT !.phase = "applying"]
                                        ELSE journal[d]]
      BY ZenonT(30), <2>2, <1>3 DEF Types
    <3>2. journal[c] \in [phase : {"none", "applying", "complete"},
                          result : [verdict : Verdicts \cup {"none"}, id : Nat]]
      BY ZenonT(60), <1>3 DEF Types
    <3>3. /\ journal'[c] = [journal[c] EXCEPT !.phase = "applying"]
          /\ \A d \in Commands \ {c} : journal'[d] = journal[d]
      BY ZenonT(60), <3>1, <1>3
    <3>4. /\ journal'[c].phase = "applying" /\ journal'[c].result = journal[c].result
          /\ journal'[c] \in [phase : {"none", "applying", "complete"},
                              result : [verdict : Verdicts \cup {"none"}, id : Nat]]
      BY ZenonT(60), <3>2, <3>3
    <3>5. QED
      BY ZenonT(60), <2>2, <3>1, <3>3, <3>4 DEF Types
  <2>3. QED
    BY ZenonT(60), <1>2, <2>1, <2>2
<1>5. Types'
  BY ZenonT(60), <1>f, <1>2, <1>4 DEF Types, Verdicts
<1>6. Handed'
  BY ZenonT(60), <1>f, <1>2, <1>3, <1>4 DEF Handed, Delivered, Types
<1>7. AtCurrent'
  <2>1. Current' = c
    BY ZenonT(60), <1>1 DEF c
  <2>2. <<>> \in Seq(Names(kind[c])) /\ Steps(kind[c]) \in Seq(Names(kind[c]))
        /\ Steps(kind[c]) # <<>>
    BY SMTT(30), StepsAreNamed
  <2>3. batch' # {}
    BY ZenonT(60), <1>1, <1>f
  <2>4. CASE pc' = "post"
    BY ZenonT(60), <2>1, <2>3, <2>4, <1>2 DEF AtCurrent, Busy
  <2>5. CASE pc' = "apply"
    <3>1. journal'[c].phase = "applying" /\ todo' \in Seq(Names(kind'[c]))
          /\ (verdict' = "applied" => todo' # <<>>)
      BY ZenonT(30), <2>2, <2>5, <1>2, <1>4, <1>f
    <3>2. QED
      BY ZenonT(60), <2>1, <2>3, <2>5, <3>1 DEF AtCurrent, Busy
  <2>6. QED
    BY ZenonT(60), <2>4, <2>5, <1>2
<1>8. Sealed'
  BY ZenonT(60), <1>f, <1>4 DEF Sealed
<1>9. UnderWay' /\ ArmedIsAcknowledged' /\ Uninstalls'
  BY SMTT(30), <1>f, <1>4 DEF UnderWay, ArmedIsAcknowledged, Uninstalls
<1>10. Cursors'
  BY ZenonT(30), <1>f, <1>2 DEF Cursors, CursorNeverRegresses
<1>11. QED
  BY ZenonT(60), <1>5, <1>6, <1>7, <1>8, <1>9, <1>10

\* Only the command being applied is sealed, with a verdict that is its own.
LEMMA FinishStep ==
    ASSUME IInv, Finish
    PROVE  IInv'
<1> USE DEF IInv, coordinatorVars, netVars
<1> DEFINE c == Current
           n == 1 + Cardinality({d \in Commands : journal[d].phase = "complete"})
<1>1. Current \in batch /\ Current \in Commands /\ Delivered(Current) /\ Current' = Current
  BY ZenonT(30), CurrentIsInBatch, CurrentStays DEF AtCurrent, Busy, Types, Handed, Finish
<1>2. /\ pc = "apply" /\ todo = <<>> /\ pc' = "post" /\ verdict' = "applied"
      /\ journal' = [journal EXCEPT ![c] = [phase |-> "complete",
                                            result |-> [verdict |-> verdict, id |-> n]]]
  BY ZenonT(30) DEF Finish
<1>f. UNCHANGED <<row, kind, result, seen, events, lateResults, cursor, requests, armed, batch,
                  after, reply, ran>>
  BY ZenonT(30) DEF Finish
<1>n. n \in Nat
  <2>1. IsFiniteSet(Commands)
    BY SMTT(30), FS_Interval, NodeCommandsAssumption DEF Commands
  <2>2. Cardinality({d \in Commands : journal[d].phase = "complete"}) \in Nat
    BY ZenonT(60), <2>1, FS_Subset, FS_CardinalityType
  <2>3. QED
    BY SMTT(30), <2>2
<1> HIDE DEF c, n
<1>3. c \in Commands /\ Delivered(c) /\ c = Current /\ journal[c].phase = "applying"
      /\ (verdict = "applied" => c \in ran)
  BY ZenonT(60), <1>1, <1>2 DEF c, AtCurrent
<1>4. journal' \in [Commands -> [phase : {"none", "applying", "complete"},
                                 result : [verdict : Verdicts \cup {"none"}, id : Nat]]]
  BY ZenonT(60), <1>2, <1>3, <1>n DEF Types
<1>5. /\ journal'[c].phase = "complete" /\ journal'[c].result.verdict = verdict
      /\ \A d \in Commands \ {c} : journal'[d] = journal[d]
  BY ZenonT(60), <1>2, <1>3 DEF Types
<1>6. Types'
  BY ZenonT(60), <1>f, <1>2, <1>4 DEF Types, Verdicts
<1>7. Handed'
  BY ZenonT(60), <1>f, <1>3, <1>5 DEF Handed, Delivered, Types
<1>8. AtCurrent'
  BY ZenonT(30), <1>1, <1>2, <1>3, <1>5, <1>f DEF AtCurrent, Busy
<1>9. Sealed'
  <2>1. verdict \in Verdicts
    BY ZenonT(30) DEF Types
  <2>2. ASSUME NEW d \in Commands
        PROVE  /\ journal'[d].phase # "complete" => journal'[d].result = NoResult
               /\ journal'[d].phase = "complete" => journal'[d].result.verdict \in Verdicts
               /\ journal'[d].result.verdict = "applied" => d \in ran'
               /\ result'[d] \in {NoResult, journal'[d].result}
               /\ row'[d] = "applied" => result'[d].verdict = "applied"
    BY ZenonT(60), <2>1, <1>3, <1>5, <1>f DEF Sealed
  <2>3. QED
    BY ZenonT(30), <2>2, ZenonT(30) DEF Sealed
<1>10. UnderWay' /\ ArmedIsAcknowledged' /\ Uninstalls'
  BY ZenonT(60), <1>f, <1>3, <1>5 DEF UnderWay, ArmedIsAcknowledged, Uninstalls
<1>11. Cursors'
  BY ZenonT(30), <1>f, <1>2 DEF Cursors, CursorNeverRegresses
<1>12. QED
  BY ZenonT(30), <1>6, <1>7, <1>8, <1>9, <1>10, <1>11

\* What is scheduled is the uninstall being applied.
LEMMA SchedulesCurrent ==
    ASSUME IInv, At("schedule")
    PROVE  /\ pc = "apply" /\ todo # <<>>
           /\ Current \in Commands /\ kind[Current] = "uninstall"
           /\ journal[Current].phase = "applying" /\ todo \in Seq(Names(kind[Current]))
<1> USE DEF IInv
<1>a. pc \in {"apply", "reconcile"} /\ todo # <<>> /\ Head(todo) = "schedule"
  BY ZenonT(30) DEF At
<1>b. pc = "apply"
  <2>1. SUFFICES ASSUME pc = "reconcile" PROVE FALSE
    BY ZenonT(60), <1>a
  <2>2. Head(todo) \in Reconciling
    BY ZenonT(60), <1>a, <2>1, HeadTailProperties DEF AtCurrent
  <2>3. QED
    BY ZenonT(60), <1>a, <2>2 DEF Reconciling
<1>c. todo \in Seq(Names(kind[Current])) /\ journal[Current].phase = "applying"
  BY ZenonT(60), <1>b DEF AtCurrent
<1>d. kind[Current] = "uninstall"
  <2>1. Head(todo) \in Names(kind[Current])
    BY ZenonT(60), <1>a, <1>c, HeadTailProperties
  <2>2. QED
    BY ZenonT(30), <1>a, <2>1 DEF Names, Plain, Reconciling
<1>e. Current \in Commands
  BY ZenonT(60), <1>b, CurrentIsInBatch DEF AtCurrent, Busy, Types
<1>1. QED
  BY ZenonT(30), <1>a, <1>b, <1>c, <1>d, <1>e

\* The three ways of ScheduleUninstall: the request is written, its helper is
\* started, or either throws.
LEMMA ScheduleUninstallStep ==
    ASSUME IInv, ScheduleUninstall
    PROVE  IInv'
<1> USE DEF IInv, coordinatorVars, netVars
<1>a. At("schedule")
  BY ZenonT(30) DEF ScheduleUninstall
<1> DEFINE c == Current
<1>b. /\ pc = "apply" /\ todo # <<>> /\ c \in Commands /\ kind[c] = "uninstall"
      /\ journal[c].phase = "applying" /\ todo \in Seq(Names(kind[c]))
  BY ZenonT(60), <1>a, SchedulesCurrent
<1>c. UNCHANGED <<row, kind, result, seen, events, lateResults, journal, cursor, armed, reply>>
  BY ZenonT(60) DEF ScheduleUninstall
<1>1. CASE WriteRequest
  <2>1. /\ requests' = requests \cup {c}
        /\ UNCHANGED <<pc, batch, todo, verdict, after, ran>>
    BY ZenonT(30), <1>1 DEF WriteRequest
  <2>2. Current' = c
    BY ZenonT(30), <2>1, CurrentStays
  <2>3. Types' /\ Handed'
    <3> HIDE DEF c
    <3>1. QED
      BY ZenonT(60), <1>b, <1>c, <2>1 DEF Types, Handed, Delivered
  <2>4. AtCurrent'
    BY ZenonT(60), <1>b, <1>c, <2>1, <2>2 DEF AtCurrent, Busy
  <2>5. Sealed' /\ UnderWay' /\ ArmedIsAcknowledged'
    BY ZenonT(60), <1>c, <2>1 DEF Sealed, UnderWay, ArmedIsAcknowledged
  <2>6. Uninstalls' /\ Cursors'
    <3> HIDE DEF c
    <3>1. QED
      BY ZenonT(60), <1>b, <1>c, <2>1 DEF Uninstalls, Cursors, CursorNeverRegresses
  <2>7. QED
    BY ZenonT(30), <2>3, <2>4, <2>5, <2>6
<1>2. CASE StartHelper
  <2>1. /\ c \in requests /\ after' = [after EXCEPT !.stop = c]
        /\ todo' = Tail(todo) /\ ran' = IF Len(todo) = 1 THEN ran \cup {c} ELSE ran
        /\ UNCHANGED <<pc, batch, verdict, requests>>
    BY ZenonT(60), <1>b, <1>2 DEF StartHelper, Proceed
  <2>2. Current' = c
    BY ZenonT(30), <2>1, CurrentStays
  <2>3. Types' /\ Handed'
    <3> HIDE DEF c
    <3>1. QED
      BY ZenonT(60), <1>b, <1>c, <2>1 DEF Types, Handed, Delivered
  <2>4. AtCurrent'
    <3>1. Tail(todo) \in Seq(Names(kind[c])) /\ (Tail(todo) = <<>> => Len(todo) = 1)
      <4> HIDE DEF c
      <4>1. QED
        BY ZenonT(60), <1>b, TailIsShorter
    <3>2. todo' = <<>> => c \in ran'
      <4> HIDE DEF c
      <4>1. QED
        BY ZenonT(60), <3>1, <2>1
    <3>3. QED
      BY ZenonT(60), <1>b, <1>c, <2>1, <2>2, <3>1, <3>2 DEF AtCurrent, Busy
  <2>5. Sealed' /\ UnderWay' /\ ArmedIsAcknowledged'
    <3> HIDE DEF c
    <3>1. QED
      BY ZenonT(60), <1>c, <2>1 DEF Sealed, UnderWay, ArmedIsAcknowledged
  <2>6. Uninstalls' /\ Cursors'
    <3> HIDE DEF c
    <3>1. QED
      BY ZenonT(60), <1>b, <1>c, <2>1 DEF Uninstalls, Cursors, CursorNeverRegresses, Types
  <2>7. QED
    BY ZenonT(30), <2>3, <2>4, <2>5, <2>6
<1>3. CASE Fail /\ Fault /\ UNCHANGED <<requests, helpers, after>>
  <2>1. after' \in [restart : Commands \cup {0}, stop : {after.stop}]
    BY ZenonT(60), <1>3 DEF Types
  <2>2. Awaits
    BY ZenonT(60), <1>a, <1>3, <2>1 DEF Awaits, ScheduleUninstall, At
  <2>3. QED
    BY ZenonT(30), <2>2, AwaitStep
<1>4. QED
  BY ZenonT(30), <1>1, <1>2, <1>3 DEF ScheduleUninstall

LEMMA PostResultStep ==
    ASSUME IInv, PostResult
    PROVE  IInv'
<1> DEFINE c == Current
           r == journal[c].result
<1>a. c \in batch /\ c \in Commands /\ journal[c].phase = "complete" /\ batch # {}
  BY ZenonT(60), CurrentIsInBatch DEF PostResult, IInv, AtCurrent, Busy, Types
<1>f. UNCHANGED <<journal, cursor, requests, armed, after, reply, ran>>
  BY ZenonT(30) DEF PostResult, diskVars
<1>b. \/ /\ Acceptable(c, r) /\ RecordResult(c, r) /\ pc' = "acknowledged"
         /\ UNCHANGED <<lateResults, batch, todo, verdict>>
      \/ Acceptable(c, r) /\ RecordResult(c, r) /\ Retry /\ UNCHANGED lateResults
      \/ /\ lateResults' = lateResults \cup {[command |-> c, result |-> r]} /\ Retry
         /\ UNCHANGED <<row, kind, result, seen, events>>
      \/ Retry /\ UNCHANGED <<row, kind, result, seen, events, lateResults>>
  BY ZenonT(30) DEF PostResult, coordinatorVars, netVars
<1>s. Current' = c \/ batch' # batch
  BY ZenonT(60), CurrentStays
<1> HIDE DEF c
<1>r. UNCHANGED <<row, kind, result, seen, events>> => Advances
  BY SMTT(60) DEF IInv, Types, Sealed, Advances, Delivered, Rows
<1>1. CASE /\ Acceptable(c, r) /\ RecordResult(c, r) /\ pc' = "acknowledged"
           /\ UNCHANGED <<lateResults, batch, todo, verdict>>
  <2>1. Advances /\ result'[c] = r
    BY ZenonT(30), <1>1, <1>a, RecordAdvances
  <2> HIDE DEF r
  <2>2. Types'
    BY ZenonT(30), <1>1, <1>f, <2>1 DEF IInv, Types, Advances, Rows
  <2>3. Handed'
    BY ZenonT(30), <1>1, <1>f, <2>1 DEF IInv, Handed, Delivered, Advances, Types
  <2>4. AtCurrent'
    BY ZenonT(60), <1>1, <1>a, <1>f, <1>s, <2>1 DEF AtCurrent, Busy, r
  <2>5. Sealed' /\ UnderWay'
    BY ZenonT(60), <1>1, <1>f, <2>1 DEF IInv, Sealed, UnderWay, Advances, NoResult
  <2>6. ArmedIsAcknowledged' /\ Uninstalls'
    <3>1. UNCHANGED kind
      BY ZenonT(60), <1>1 DEF RecordResult
    <3>2. ASSUME NEW d \in armed PROVE kind'[d] = "uninstall" /\ result'[d].verdict = "applied"
      <4>1. d \in Commands /\ kind[d] = "uninstall" /\ result[d].verdict = "applied"
        BY ZenonT(30), <3>2 DEF IInv, ArmedIsAcknowledged, Types
      <4>2. result[d] # NoResult
        BY SMTT(60), <4>1 DEF NoResult
      <4>3. QED
        BY ZenonT(60), <3>1, <2>1, <4>1, <4>2 DEF Advances
    <3>3. \A d \in reply'.acked : d \in Commands => row'[d] = "applied"
      BY ZenonT(60), <1>f, <2>1 DEF IInv, Uninstalls, Advances
    <3>4. QED
      BY ZenonT(60), <1>f, <3>1, <3>2, <3>3 DEF IInv, ArmedIsAcknowledged, Uninstalls
  <2>7. Cursors'
    BY SMTT(60), <1>1, <1>f, <2>1 DEF IInv, Cursors, CursorNeverRegresses, Types, Advances
  <2>8. QED
    BY ZenonT(30), <2>2, <2>3, <2>4, <2>5, <2>6, <2>7 DEF IInv
<1>2. CASE Acceptable(c, r) /\ RecordResult(c, r) /\ Retry /\ UNCHANGED lateResults
  <2>1. Advances
    BY ZenonT(30), <1>2, <1>a, RecordAdvances
  <2>2. QED
    BY ZenonT(30), <1>2, <1>f, <2>1, AdvanceStep DEF Retry
<1>3. CASE /\ lateResults' = lateResults \cup {[command |-> c, result |-> r]} /\ Retry
           /\ UNCHANGED <<row, kind, result, seen, events>>
  BY SMTT(30), <1>3, <1>a, <1>f, <1>r, AdvanceStep DEF Retry
<1>4. CASE Retry /\ UNCHANGED <<row, kind, result, seen, events, lateResults>>
  BY ZenonT(30), <1>4, <1>f, <1>r, AdvanceStep DEF Retry
<1>5. QED
  BY ZenonT(60), <1>b, <1>1, <1>2, <1>3, <1>4

LEMMA LateResultStep ==
    ASSUME IInv, NEW m \in lateResults, LateResult(m)
    PROVE  IInv'
<1>1. m.command \in Commands /\ journal[m.command].phase = "complete"
      /\ m.result = journal[m.command].result
  BY ZenonT(30) DEF IInv, UnderWay
<1>2. UNCHANGED <<journal, cursor, requests, armed, after, reply, ran, pc, batch, todo, verdict>>
      /\ lateResults' \subseteq lateResults
  BY ZenonT(30) DEF LateResult, diskVars, processVars
<1>3. Advances
  <2>1. CASE Acceptable(m.command, m.result) /\ RecordResult(m.command, m.result)
    BY ZenonT(60), <2>1, <1>1, RecordAdvances
  <2>2. CASE UNCHANGED <<row, kind, result, seen, events>>
    BY SMTT(30), <2>2 DEF IInv, Types, Sealed, Advances, Delivered, Rows
  <2>3. QED
    BY ZenonT(60), <2>1, <2>2 DEF LateResult
<1>4. QED
  BY ZenonT(60), <1>2, <1>3, AdvanceStep

\* The stop that follows the acknowledgement is of the uninstall acknowledged.
LEMMA OnAcknowledgedStep ==
    ASSUME IInv, OnAcknowledged
    PROVE  IInv'
<1> DEFINE c == Current
<1>a. c \in batch /\ c \in Commands /\ journal[c].phase = "complete"
      /\ result[c] = journal[c].result
  BY ZenonT(30), CurrentIsInBatch DEF OnAcknowledged, IInv, AtCurrent, Busy, Types
<1>f. UNCHANGED <<row, kind, result, seen, events, lateResults, journal, cursor, requests, todo,
                  verdict, reply, ran>>
  BY ZenonT(30) DEF OnAcknowledged, coordinatorVars, netVars
<1>b. /\ \/ UNCHANGED armed
         \/ armed' = armed \cup {c} /\ journal[c].result.verdict = "applied" /\ after.stop = c
      /\ after'.restart \in {0, after.restart} /\ after'.stop \in {0, after.stop}
      /\ after' = [restart |-> after'.restart, stop |-> after'.stop]
      /\ batch' = batch \ {c}
      /\ pc' \in {"exited", "snapshot", "execute"}
      /\ pc' = "execute" => batch # {c}
  BY ZenonT(30) DEF OnAcknowledged
<1> HIDE DEF c
<1>1. Types'
  BY ZenonT(30), <1>b, <1>f, <1>a DEF IInv, Types
<1>2. Handed'
  BY ZenonT(60), <1>a, <1>b, <1>f DEF IInv, Handed, Delivered
<1>3. AtCurrent'
  BY ZenonT(60), <1>a, <1>b DEF AtCurrent, Busy
<1>4. Sealed' /\ UnderWay'
  BY ZenonT(60), <1>f DEF IInv, Sealed, UnderWay
<1>5. ArmedIsAcknowledged'
  <2>1. CASE UNCHANGED armed
    BY ZenonT(60), <2>1, <1>f DEF IInv, ArmedIsAcknowledged
  <2>2. CASE armed' = armed \cup {c} /\ journal[c].result.verdict = "applied" /\ after.stop = c
    <3>1. c # 0
      BY SMTT(30), <1>a, NodeCommandsAssumption DEF Commands
    <3>2. kind[c] = "uninstall" /\ result[c].verdict = "applied"
      BY ZenonT(60), <1>a, <2>2, <3>1 DEF IInv, Uninstalls
    <3>3. QED
      BY ZenonT(60), <2>2, <3>2, <1>f DEF IInv, ArmedIsAcknowledged
  <2>3. QED
    BY ZenonT(60), <1>b, <2>1, <2>2
<1>6. Uninstalls'
  BY ZenonT(60), <1>b, <1>f DEF IInv, Uninstalls
<1>7. Cursors'
  BY ZenonT(60), <1>b, <1>f DEF IInv, Cursors, CursorNeverRegresses
<1>8. QED
  BY ZenonT(30), <1>1, <1>2, <1>3, <1>4, <1>5, <1>6, <1>7 DEF IInv

LEMMA PostSnapshotStep ==
    ASSUME IInv, PostSnapshot
    PROVE  IInv'
<1> DEFINE d == ReadOrSeedDesired
           acked == {c \in Commands : row[c] = "applied"}
<1>a. /\ pc = "snapshot" /\ seen' = cursor
      /\ \/ /\ reply' = [limits |-> d.limits, policy |-> d.policy, channel |-> d.channel,
                          acked |-> acked, latest |-> events]
            /\ todo' = ReconcileSteps(d, acked) /\ pc' = "reconcile"
            /\ UNCHANGED <<batch, verdict>>
         \/ Retry /\ UNCHANGED reply
  BY ZenonT(60) DEF PostSnapshot
<1>f. UNCHANGED <<row, kind, result, events, lateResults, journal, cursor, requests, armed,
                  after, ran>>
  BY ZenonT(30) DEF PostSnapshot, netVars, diskVars
<1>r. ReconcileSteps(d, acked) \in Seq(Reconciling)
  BY ZenonT(60), ReconcileStepsAreNamed
<1> HIDE DEF d
<1>1. Types'
  BY SMTT(60), <1>a, <1>f DEF IInv, Types, Retry, Verdicts
<1>2. Handed'
  BY ZenonT(30), <1>a, <1>f DEF IInv, Handed, Delivered, Retry
<1>3. AtCurrent'
  BY ZenonT(30), <1>a, <1>r, ZenonT(30) DEF AtCurrent, Busy, Retry
<1>4. Sealed' /\ UnderWay' /\ ArmedIsAcknowledged'
  BY ZenonT(30), <1>f DEF IInv, Sealed, UnderWay, ArmedIsAcknowledged
<1>5. Uninstalls'
  BY SMTT(30), <1>a, <1>f DEF IInv, Uninstalls
<1>6. Cursors'
  BY SMTT(30), <1>a, <1>f DEF IInv, Cursors, CursorNeverRegresses, Types, Retry
<1>7. QED
  BY ZenonT(60), <1>1, <1>2, <1>3, <1>4, <1>5, <1>6 DEF IInv

\* What armAcknowledged arms has been acknowledged.
LEMMA ArmAcknowledgedStep ==
    ASSUME IInv, ArmAcknowledged
    PROVE  IInv'
<1>a. /\ pc \in {"apply", "reconcile"} /\ todo # <<>> /\ Head(todo) = "arm"
      /\ armed' = armed \cup (requests \cap reply.acked)
      /\ Proceed
      /\ UNCHANGED <<row, kind, result, seen, events, lateResults, journal, cursor, requests,
                     after, reply>>
  BY ZenonT(60) DEF ArmAcknowledged, At, coordinatorVars, netVars
<1>b. pc = "apply" => Current \in Commands /\ Current \in batch
  BY ZenonT(30), CurrentIsInBatch DEF IInv, AtCurrent, Busy, Types
<1>c. ran \subseteq ran' /\ ran' \subseteq Commands /\ UNCHANGED <<pc, batch, verdict>>
      /\ todo' = Tail(todo)
  BY ZenonT(30), <1>a, <1>b DEF Proceed, IInv, Types
<1>1. Types'
  BY ZenonT(30), <1>a, <1>c DEF IInv, Types
<1>2. Handed'
  BY ZenonT(60), <1>a, <1>c DEF IInv, Handed, Delivered
<1>3. AtCurrent'
  <2>0. Current' = Current
    BY ZenonT(60), <1>c, CurrentStays
  <2>1. CASE pc = "apply"
    <3>1. todo \in Seq(Names(kind[Current]))
      BY ZenonT(60), <2>1 DEF IInv, AtCurrent
    <3>2. Tail(todo) \in Seq(Names(kind[Current])) /\ (Tail(todo) = <<>> => Len(todo) = 1)
      BY ZenonT(60), <1>a, <3>1, TailIsShorter
    <3>3. todo' = <<>> => Current \in ran'
      BY ZenonT(30), <1>a, <2>1, <3>2 DEF Proceed
    <3>4. QED
      BY ZenonT(30), <1>a, <1>c, <2>0, <2>1, <3>2, <3>3 DEF IInv, AtCurrent
  <2>2. CASE pc = "reconcile"
    BY ZenonT(30), <1>a, <1>c, <2>2, TailIsShorter DEF IInv, AtCurrent, Busy
  <2>3. QED
    BY ZenonT(60), <1>a, <2>1, <2>2
<1>4. Sealed' /\ UnderWay'
  BY ZenonT(60), <1>a, <1>c DEF IInv, Sealed, UnderWay
<1>5. ArmedIsAcknowledged'
  BY ZenonT(60), <1>a DEF IInv, ArmedIsAcknowledged, Uninstalls, Types, Sealed
<1>6. Uninstalls'
  BY ZenonT(60), <1>a DEF IInv, Uninstalls
<1>7. Cursors'
  BY ZenonT(60), <1>a, <1>c DEF IInv, Cursors, CursorNeverRegresses
<1>8. QED
  BY ZenonT(30), <1>1, <1>2, <1>3, <1>4, <1>5, <1>6, <1>7 DEF IInv

LEMMA SaveCursorStep ==
    ASSUME IInv, SaveCursor
    PROVE  IInv'
<1>a. /\ pc = "reconcile" /\ cursor' = reply.latest /\ pc' \in {"exited", "poll"}
      /\ reply' = NoReply
      /\ UNCHANGED <<row, kind, result, seen, events, lateResults, journal, requests, armed,
                     after, batch, todo, verdict, ran>>
  BY ZenonT(60) DEF SaveCursor, coordinatorVars, netVars
<1>1. Types'
  BY ZenonT(60), <1>a DEF IInv, Types, Cursors
<1>2. Handed' /\ Sealed' /\ UnderWay' /\ ArmedIsAcknowledged'
  BY ZenonT(60), <1>a DEF IInv, Handed, Delivered, Sealed, UnderWay, ArmedIsAcknowledged
<1>3. AtCurrent'
  BY ZenonT(60), <1>a DEF AtCurrent, Busy
<1>4. Uninstalls'
  BY ZenonT(60), <1>a DEF IInv, Uninstalls, NoReply
<1>5. Cursors'
  BY SMTT(60), <1>a DEF IInv, Cursors, CursorNeverRegresses, Types
<1>6. QED
  BY ZenonT(60), <1>1, <1>2, <1>3, <1>4, <1>5 DEF IInv

-----------------------------------------------------------------------------
(* The theorems *)

LEMMA InitIInv == Init => IInv
<1> SUFFICES ASSUME Init PROVE IInv
  BY ZenonT(30)
<1> USE DEF Init
<1>1. Types
  BY SMTT(30) DEF Types, NoResult, Verdicts, Idle
<1>2. Handed /\ AtCurrent /\ UnderWay /\ ArmedIsAcknowledged
  BY ZenonT(60) DEF Handed, AtCurrent, Busy, UnderWay, ArmedIsAcknowledged
<1>3. Sealed
  BY ZenonT(30) DEF Sealed, NoResult
<1>4. Uninstalls /\ Cursors
  BY SMTT(60) DEF Uninstalls, Cursors, CursorNeverRegresses, Idle, NoReply
<1>5. QED
  BY ZenonT(30), <1>1, <1>2, <1>3, <1>4 DEF IInv

LEMMA EnqueueStep ==
    ASSUME IInv, NEW c \in Commands, NEW k \in Kinds, Enqueue(c, k)
    PROVE  IInv'
<1>1. Advances
  BY ZenonT(30), EnqueueAdvances
<1>2. UNCHANGED <<journal, cursor, requests, armed, after, reply, ran, pc, batch, todo, verdict,
                  lateResults>>
  BY ZenonT(30) DEF Enqueue, netVars, diskVars, processVars
<1>3. QED
  BY ZenonT(30), <1>1, <1>2, AdvanceStep

LEMMA LatePullStep ==
    ASSUME IInv, NEW expiring \in SUBSET Commands, LatePull(expiring)
    PROVE  IInv'
<1>1. Advances
  BY ZenonT(60), PullAdvances DEF LatePull
<1>2. UNCHANGED <<journal, cursor, requests, armed, after, reply, ran, pc, batch, todo, verdict,
                  lateResults>>
  BY ZenonT(30) DEF LatePull, diskVars, processVars
<1>3. QED
  BY ZenonT(60), <1>1, <1>2, AdvanceStep

\* Each step of the loop, of a late request and of the process keeps IInv.
LEMMA NextIInv ==
    ASSUME IInv, [Next]_vars
    PROVE  IInv'
<1>1. CASE \E c \in Commands, k \in Kinds : Enqueue(c, k)
  BY ZenonT(60), <1>1, EnqueueStep
<1>2. CASE \E expiring \in SUBSET Commands : PullCommands(expiring)
  BY ZenonT(60), <1>2, PullCommandsStep
<1>3. CASE ExecuteOnce
  BY ZenonT(60), <1>3, ExecuteOnceStep
<1>4. CASE \/ StoreControl \/ SetContribution \/ BeginDrain \/ Release \/ WaitForIdle
           \/ SaveConfiguration \/ ApplyComponents \/ Refuse
  BY ZenonT(60), <1>4, StepIsAwait, AwaitStep DEF IInv
<1>5. CASE ScheduleUninstall
  BY ZenonT(30), <1>5, ScheduleUninstallStep
<1>6. CASE ArmAcknowledged
  BY ZenonT(30), <1>6, ArmAcknowledgedStep
<1>7. CASE Finish
  BY ZenonT(30), <1>7, FinishStep
<1>8. CASE PostResult
  BY ZenonT(30), <1>8, PostResultStep
<1>9. CASE OnAcknowledged
  BY ZenonT(30), <1>9, OnAcknowledgedStep
<1>10. CASE PostSnapshot
  BY ZenonT(30), <1>10, PostSnapshotStep
<1>11. CASE SaveCursor
  BY ZenonT(30), <1>11, SaveCursorStep
<1>12. CASE \E expiring \in SUBSET Commands : LatePull(expiring)
  BY ZenonT(30), <1>12, LatePullStep
<1>13. CASE \E m \in lateResults : LateResult(m)
  BY ZenonT(60), <1>13, LateResultStep
<1>14. CASE \/ SnapshotRefused \/ Crash \/ Start \/ RemoveNode
            \/ \E c \in Commands : HelperEnds(c)
  BY ZenonT(60), <1>14, ProcessIsQuiet, QuietStep
<1>15. CASE UNCHANGED vars
  <2>1. Quiet
    BY ZenonT(60), <1>15 DEF Quiet, vars, coordinatorVars, netVars, diskVars, processVars
  <2>2. QED
    BY ZenonT(60), <2>1, QuietStep
<1>16. QED
  BY ZenonT(60), <1>1, <1>2, <1>3, <1>4, <1>5, <1>6, <1>7, <1>8, <1>9, <1>10, <1>11, <1>12, <1>13, <1>14,
     <1>15 DEF Next, Loop, Step

\* The inductive invariant holds of every behaviour.
THEOREM CommandsInvariant == Spec => []IInv
<1>1. Init => IInv
  BY ZenonT(60), InitIInv
<1>2. IInv /\ [Next]_vars => IInv'
  BY ZenonT(60), NextIInv
<1>3. QED
  BY <1>1, <1>2, PTL DEF Spec

\* recordResult never meets another result than the one the node's journal
\* sealed, and never records as applied a command whose effect did not run.
THEOREM RecordedReportsAreTrue == Spec => []ReportsAreTrue
<1>1. IInv => ReportsAreTrue
  BY ZenonT(60) DEF IInv, Sealed, ReportsAreTrue
<1>2. QED
  BY <1>1, CommandsInvariant, PTL

\* armStopAfterAck and armAcknowledged arm the helper only of an uninstall that
\* the coordinator has recorded as applied.
THEOREM ArmedUninstallsAreAcknowledged == Spec => []ArmedIsAcknowledged
<1>1. IInv => ArmedIsAcknowledged
  BY ZenonT(60) DEF IInv
<1>2. QED
  BY <1>1, CommandsInvariant, PTL

\* reconcile never meets a cursor smaller than the one it stored.
THEOREM CursorsNeverRegress == Spec => []CursorNeverRegresses
<1>1. IInv => CursorNeverRegresses
  BY ZenonT(60) DEF IInv, Cursors
<1>2. QED
  BY <1>1, CommandsInvariant, PTL

-----------------------------------------------------------------------------
(* The refinement: NodeCommands implements CommandLedger *)

LEMMA ProceedIsPerform ==
    ASSUME IInv, pc \in {"apply", "reconcile"}, Proceed, UNCHANGED row
    PROVE  (\E c \in Commands : Ledger!Perform(c)) \/ UNCHANGED <<row, ran>>
<1>1. pc = "apply" => Current \in Commands /\ row[Current] \notin {"none", "queued"}
  BY ZenonT(60), CurrentIsInBatch DEF IInv, AtCurrent, Busy, Types, Handed, Delivered
<1>2. CASE pc = "apply" /\ Len(todo) = 1
  <2>1. ran' = ran \cup {Current}
    BY ZenonT(60), <1>2 DEF Proceed
  <2>2. Ledger!Perform(Current)
    BY ZenonT(60), <1>1, <1>2, <2>1 DEF Ledger!Perform
  <2>3. QED
    BY ZenonT(30), <1>1, <1>2, <2>2, ZenonT(30)
<1>3. CASE ~(pc = "apply" /\ Len(todo) = 1)
  BY ZenonT(60), <1>3 DEF Proceed
<1>4. QED
  BY ZenonT(60), <1>2, <1>3

LEMMA RecordIsClose ==
    ASSUME IInv, NEW c \in Commands, journal[c].phase = "complete",
           RecordResult(c, journal[c].result), UNCHANGED ran
    PROVE  (\E s \in {"applied", "rejected", "expired"} : Ledger!Close(c, s))
           \/ UNCHANGED <<row, ran>>
<1>1. CASE result[c] = NoResult /\ row[c] \in Open
  <2> DEFINE s == journal[c].result.verdict
  <2>1. s \in {"applied", "rejected", "expired"} /\ (s = "applied" => c \in ran)
    BY ZenonT(30) DEF IInv, Sealed, Verdicts
  <2>2. row' = [row EXCEPT ![c] = s]
    BY ZenonT(60), <1>1 DEF RecordResult
  <2>3. Ledger!Close(c, s)
    BY ZenonT(60), <1>1, <2>1, <2>2 DEF Ledger!Close, Ledger!StillOpen, Open
  <2>4. QED
    BY ZenonT(60), <2>1, <2>3, ZenonT(30)
<1>2. CASE ~(result[c] = NoResult /\ row[c] \in Open)
  BY ZenonT(30), <1>2, ZenonT(30) DEF RecordResult
<1>3. QED
  BY ZenonT(60), <1>1, <1>2

LEMMA PullIsServe ==
    ASSUME NEW expiring \in SUBSET Commands, Pull(expiring), UNCHANGED ran
    PROVE  Ledger!Serve(expiring)
<1>1. \A c \in Commands : Ledger!StillOpen(c) <=> row[c] \in Open
  BY ZenonT(60) DEF Ledger!StillOpen, Open
<1>2. row' = [c \in Commands |-> IF c \in expiring THEN "expired"
                                 ELSE IF Ledger!StillOpen(c) THEN "delivered" ELSE row[c]]
  BY ZenonT(60), <1>1 DEF Pull, Pulled
<1>3. QED
  BY ZenonT(60), <1>1, <1>2 DEF Ledger!Serve, Pull

LEMMA NextIsLedgerStep ==
    ASSUME IInv, [Next]_vars
    PROVE  Ledger!LedgerNext \/ UNCHANGED <<row, ran>>
<1> USE DEF coordinatorVars, netVars
<1>1. CASE \E c \in Commands, k \in Kinds : Enqueue(c, k)
  <2>1. PICK c \in Commands, k \in Kinds : Enqueue(c, k)
    BY ZenonT(60), <1>1
  <2>2. Ledger!Issue(c)
    BY ZenonT(60), <2>1 DEF Enqueue, Ledger!Issue
  <2>3. QED
    BY ZenonT(30), <2>2, ZenonT(30) DEF Ledger!LedgerNext
<1>2. CASE \E expiring \in SUBSET Commands : PullCommands(expiring)
  <2>1. PICK expiring \in SUBSET Commands : PullCommands(expiring)
    BY ZenonT(60), <1>2
  <2>2. UNCHANGED ran /\ (Pull(expiring) \/ UNCHANGED row)
    BY ZenonT(60), <2>1 DEF PullCommands
  <2>3. QED
    BY ZenonT(30), <2>2, PullIsServe, ZenonT(30) DEF Ledger!LedgerNext
<1>3. CASE ExecuteOnce \/ Finish \/ OnAcknowledged \/ PostSnapshot \/ SaveCursor
  BY ZenonT(60), <1>3 DEF ExecuteOnce, Finish, OnAcknowledged, PostSnapshot, SaveCursor
<1>4. CASE \/ StoreControl \/ SetContribution \/ BeginDrain \/ Release \/ WaitForIdle
           \/ SaveConfiguration \/ ApplyComponents \/ Refuse
  <2>1. Awaits
    BY ZenonT(60), <1>4, StepIsAwait DEF IInv
  <2>2. CASE Proceed
    BY ZenonT(30), <2>1, <2>2, ProceedIsPerform, ZenonT(30) DEF Awaits, Ledger!LedgerNext
  <2>3. CASE Fail
    BY ZenonT(60), <2>1, <2>3 DEF Awaits, Fail
  <2>4. QED
    BY ZenonT(60), <2>1, <2>2, <2>3 DEF Awaits
<1>5. CASE ScheduleUninstall
  <2>1. CASE StartHelper
    BY ZenonT(30), <1>5, <2>1, ProceedIsPerform, ZenonT(30) DEF ScheduleUninstall, StartHelper, At,
       Ledger!LedgerNext
  <2>2. CASE WriteRequest
    BY ZenonT(30), <1>5, <2>2 DEF ScheduleUninstall, WriteRequest
  <2>3. CASE Fail
    BY ZenonT(60), <1>5, <2>3 DEF ScheduleUninstall, Fail
  <2>4. QED
    BY ZenonT(30), <1>5, <2>1, <2>2, <2>3 DEF ScheduleUninstall
<1>6. CASE ArmAcknowledged
  BY ZenonT(30), <1>6, ProceedIsPerform, ZenonT(30) DEF ArmAcknowledged, At, Ledger!LedgerNext
<1>7. CASE PostResult
  <2>1. Current \in Commands /\ journal[Current].phase = "complete"
    BY ZenonT(60), <1>7, CurrentIsInBatch DEF PostResult, IInv, AtCurrent, Busy, Types
  <2>2. UNCHANGED ran /\ (RecordResult(Current, journal[Current].result) \/ UNCHANGED row)
    BY ZenonT(30), <1>7, ZenonT(30) DEF PostResult
  <2>3. QED
    BY ZenonT(30), <2>1, <2>2, RecordIsClose, ZenonT(30) DEF Ledger!LedgerNext
<1>8. CASE \E expiring \in SUBSET Commands : LatePull(expiring)
  <2>1. PICK expiring \in SUBSET Commands : LatePull(expiring)
    BY ZenonT(30), <1>8
  <2>2. Ledger!Serve(expiring)
    BY ZenonT(60), <2>1, PullIsServe DEF LatePull
  <2>3. QED
    BY ZenonT(30), <2>2, ZenonT(30) DEF Ledger!LedgerNext
<1>9. CASE \E m \in lateResults : LateResult(m)
  <2>1. PICK m \in lateResults : LateResult(m)
    BY ZenonT(60), <1>9
  <2>2. m.command \in Commands /\ journal[m.command].phase = "complete"
        /\ m.result = journal[m.command].result
    BY ZenonT(60), <2>1 DEF IInv, UnderWay
  <2>3. UNCHANGED ran /\ (RecordResult(m.command, journal[m.command].result) \/ UNCHANGED row)
    BY ZenonT(60), <2>1, <2>2 DEF LateResult
  <2>4. QED
    BY ZenonT(30), <2>2, <2>3, RecordIsClose, ZenonT(30) DEF Ledger!LedgerNext
<1>10. CASE \/ SnapshotRefused \/ Crash \/ Start \/ RemoveNode
            \/ \E c \in Commands : HelperEnds(c)
  BY ZenonT(60), <1>10, ProcessIsQuiet DEF Quiet
<1>11. CASE UNCHANGED vars
  BY ZenonT(60), <1>11 DEF vars
<1>12. QED
  BY ZenonT(60), <1>1, <1>2, <1>3, <1>4, <1>5, <1>6, <1>7, <1>8, <1>9, <1>10, <1>11 DEF Next, Loop, Step

\* The queue, the journal and the poll loop implement what the owner is
\* promised: Enqueue is Issue, a pull is Serve, the last await of a command is
\* Perform, and the first recording of its result is Close; every other step
\* leaves the ledger alone.
THEOREM CommandsImplementLedger == Spec => IsLedger
<1>1. Init => Ledger!LedgerInit
  BY ZenonT(30) DEF Init, Ledger!LedgerInit
<1>2. IInv /\ [Next]_vars => [Ledger!LedgerNext]_(Ledger!ledgerVars)
  BY ZenonT(30), NextIsLedgerStep DEF Ledger!ledgerVars
<1>3. QED
  BY <1>1, <1>2, CommandsInvariant, PTL DEF Spec, IsLedger, Ledger!LedgerSpec

-----------------------------------------------------------------------------
(* The replay of the commands: a fold over their numbers, from the first.   *)

\* Complete induction over a set of naturals.
LEMMA Naturally ==
    ASSUME NEW G, \A n \in Nat : (\A m \in Nat : m < n => m \in G) => n \in G
    PROVE  \A n \in Nat : n \in G
<1>1. SUFFICES ASSUME Nat \ G # {} PROVE FALSE
  BY Zenon
<1>2. PICK x \in Nat \ G : \A y \in Nat \ G : ~(<<y, x>> \in OpToRel(<, Nat))
  <2>1. Nat \ G \subseteq Nat
    BY Zenon
  <2>2. QED
    BY Zenon, <1>1, <2>1, NatLessThanWellFounded, WFMin
<1>3. \A y \in Nat : y < x => y \in G
  BY Zenon, <1>2, LessIsRelated
<1>4. QED
  BY Zenon, <1>1, <1>2, <1>3

LEMMA CommandsAreFinite ==
    /\ IsFiniteSet(Commands) /\ Cardinality(Commands) = MaxCommands
    /\ \A S \in SUBSET Commands : /\ IsFiniteSet(S) /\ Cardinality(S) \in Nat
                                  /\ Cardinality(S) <= MaxCommands
<1>1. MaxCommands \in Nat /\ 1 \in Int /\ MaxCommands \in Int /\ 1 <= MaxCommands
  BY SMT, NodeCommandsAssumption
<1>2. IsFiniteSet(Commands) /\ Cardinality(Commands) = MaxCommands
  <2>1. IsFiniteSet(1 .. MaxCommands)
        /\ Cardinality(1 .. MaxCommands) = IF 1 > MaxCommands THEN 0 ELSE MaxCommands - 1 + 1
    BY Zenon, <1>1, FS_Interval
  <2>2. Cardinality(1 .. MaxCommands) = MaxCommands
    BY SMT, <1>1, <2>1
  <2>3. QED
    BY Zenon, <2>1, <2>2 DEF Commands
<1>3. QED
  BY Zenon, <1>2, FS_Subset, FS_CardinalityType

\* A set of commands has a last one.
LEMMA LastIsIn ==
    ASSUME NEW t \in SUBSET Commands, t # {}
    PROVE  Max(t) \in t
<1> DEFINE G == {n \in Nat : \A x \in t : MaxCommands - x # n}
<1>1. \A x \in t : MaxCommands - x \in Nat
  BY SMT, NodeCommandsAssumption DEF Commands
<1>2. \E x \in t : \A y \in t : x >= y
  <2>1. SUFFICES ASSUME \A x \in t : \E y \in t : ~(x >= y) PROVE FALSE
    BY Zenon
  <2>2. ASSUME NEW n \in Nat, \A m \in Nat : m < n => m \in G PROVE n \in G
    <3>1. ASSUME NEW x \in t, MaxCommands - x = n PROVE FALSE
      <4>1. PICK y \in t : ~(x >= y)
        BY Zenon, <2>1
      <4>2. MaxCommands - y \in Nat /\ MaxCommands - y < n
        BY SMT, <1>1, <3>1, <4>1, NodeCommandsAssumption DEF Commands
      <4>3. QED
        BY Zenon, <2>2, <4>2
    <3>2. QED
      BY Zenon, <3>1
  <2>3. \A n \in Nat : n \in G
    <3> HIDE DEF G
    <3>1. QED
      BY Zenon, <2>2, Naturally
  <2>4. QED
    BY Zenon, <1>1, <2>3
<1>3. QED
  BY Zenon, <1>2 DEF Max

\* A set without one of its elements is one smaller.
LEMMA OneLess ==
    ASSUME NEW t \in SUBSET Commands, NEW x \in t
    PROVE  \E n \in Nat : Cardinality(t \ {x}) = n /\ Cardinality(t) = n + 1
<1>1. IsFiniteSet(t) /\ Cardinality(t) \in Nat /\ t \ {x} \in SUBSET Commands
  BY Zenon, CommandsAreFinite
<1>2. Cardinality(t \ {x}) = Cardinality(t) - 1 /\ Cardinality(t \ {x}) \in Nat
  BY Zenon, <1>1, CommandsAreFinite, FS_RemoveElement
<1>3. \A a, b \in Nat : b = a - 1 => a = b + 1
  OBVIOUS
<1>4. QED
  BY Zenon, <1>1, <1>2, <1>3

Body(g, t) == IF t = {} THEN Seed ELSE Replay(Max(t), g[t \ {Max(t)}])
Replays(g) == g = [t \in SUBSET Commands |-> Body(g, t)]

\* The recursive function in the definition of the fold exists.
LEMMA FoldExists == \E g : Replays(g)
<1> DEFINE D(n) == {t \in SUBSET Commands : Cardinality(t) <= n}
           G == {n \in Nat : \E g : g = [t \in D(n) |-> Body(g, t)]}
<1>1. ASSUME NEW n \in Nat, \A m \in Nat : m < n => m \in G
      PROVE  n \in G
  <2>1. CASE n = 0
    <3>1. \A t \in D(0) : t = {}
      <4>1. \A a \in Nat : a <= 0 => a = 0
        OBVIOUS
      <4>2. QED
        BY Zenon, <4>1, CommandsAreFinite, FS_EmptySet
    <3> DEFINE g == [t \in D(0) |-> Seed]
    <3>2. g = [t \in D(0) |-> Body(g, t)]
      BY Zenon, <3>1 DEF Body
    <3>3. QED
      BY Zenon, <2>1, <3>2
  <2>2. CASE n # 0
    <3>1. PICK m \in Nat : n = m + 1 /\ m < n
      <4>1. n - 1 \in Nat /\ n = (n - 1) + 1 /\ n - 1 < n
        BY SMT, <2>2
      <4>2. QED
        BY Zenon, <4>1
    <3>2. PICK g : g = [t \in D(m) |-> Body(g, t)]
      BY Zenon, <3>1, <1>1
    <3> DEFINE h == [t \in D(n) |-> Body(g, t)]
    <3>3. ASSUME NEW t \in D(n), t # {} PROVE t \ {Max(t)} \in D(m) /\ t \ {Max(t)} \in D(n)
      <4>1. PICK b \in Nat : Cardinality(t \ {Max(t)}) = b /\ Cardinality(t) = b + 1
        BY Zenon, <3>3, LastIsIn, OneLess
      <4>2. \A d, e, k \in Nat : d + 1 <= e /\ e = k + 1 => d <= k /\ d <= e
        OBVIOUS
      <4>3. b <= m /\ b <= n
        BY Zenon, <3>1, <4>1, <4>2
      <4>4. QED
        BY Zenon, <4>1, <4>3
    <3>4. \A t \in D(m) : t \in D(n) => h[t] = g[t]
      BY Zenon, <3>2
    <3>5. \A t \in D(n) : Body(g, t) = Body(h, t)
      BY Zenon, <3>3, <3>4 DEF Body
    <3>6. h = [t \in D(n) |-> Body(h, t)]
      BY Zenon, <3>5
    <3>7. QED
      BY Zenon, <3>6
  <2>3. QED
    BY Zenon, <2>1, <2>2
<1>2. \A n \in Nat : n \in G
  <2> HIDE DEF G
  <2>1. QED
    BY Zenon, <1>1, Naturally
<1>3. D(MaxCommands) = SUBSET Commands /\ MaxCommands \in Nat
  BY Zenon, CommandsAreFinite, NodeCommandsAssumption
<1>4. QED
  BY Zenon, <1>2, <1>3 DEF Replays

LEMMA FoldIs == \E g : Replays(g) /\ Replayed = g[Commands]
<1> DEFINE it == CHOOSE g : Replays(g)
<1>1. Replays(it)
  BY Zenon, FoldExists
<1>2. Replayed = it[Commands]
  BY Zenon DEF Replayed, MapThenFoldSet, Replays, Body
<1> HIDE DEF it
<1>3. QED
  BY Zenon, <1>1, <1>2

\* What updateDesiredState makes of a desired state is one.
Wishes == [seeded : BOOLEAN, contribution : BOOLEAN, drain : BOOLEAN,
           limits : 0 .. MaxCommands, policy : 0 .. MaxCommands, channel : {"stable", "dev"}]

LEMMA ProjectIsWish ==
    ASSUME NEW d \in Wishes, NEW k, NEW c \in Commands
    PROVE  Project(d, k, c) \in Wishes
<1>1. c \in 0 .. MaxCommands
  BY SMT, NodeCommandsAssumption DEF Commands
<1>2. /\ [d EXCEPT !.contribution = FALSE] \in Wishes
      /\ [d EXCEPT !.contribution = TRUE, !.drain = FALSE] \in Wishes
      /\ [d EXCEPT !.drain = TRUE] \in Wishes
      /\ [d EXCEPT !.limits = c] \in Wishes
      /\ [d EXCEPT !.policy = c] \in Wishes
      /\ [d EXCEPT !.channel = Channel(k)] \in Wishes
      /\ [d EXCEPT !.contribution = FALSE, !.drain = TRUE] \in Wishes
  BY Zenon, <1>1 DEF Wishes, Channel
<1>3. QED
  BY Zenon, <1>2 DEF Project

LEMMA ReplayIsWish ==
    ASSUME Seed \in Wishes
    PROVE  Replayed \in Wishes
<1>1. PICK g : Replays(g) /\ Replayed = g[Commands]
  BY Zenon, FoldIs
<1> DEFINE G == {n \in Nat : \A t \in SUBSET Commands : Cardinality(t) = n => g[t] \in Wishes}
<1>2. ASSUME NEW n \in Nat, \A m \in Nat : m < n => m \in G
      PROVE  n \in G
  <2>1. SUFFICES ASSUME NEW t \in SUBSET Commands, Cardinality(t) = n PROVE g[t] \in Wishes
    BY Zenon
  <2>2. g[t] = Body(g, t)
    BY Zenon, <1>1 DEF Replays
  <2>3. CASE t = {}
    BY Zenon, <2>2, <2>3 DEF Body
  <2>4. CASE t # {}
    <3>1. Max(t) \in t /\ Max(t) \in Commands
      BY Zenon, <2>4, LastIsIn
    <3>2. PICK b \in Nat : Cardinality(t \ {Max(t)}) = b /\ n = b + 1
      BY Zenon, <2>1, <3>1, OneLess
    <3>3. \A a \in Nat : a < a + 1
      OBVIOUS
    <3>4. g[t \ {Max(t)}] \in Wishes
      BY Zenon, <1>2, <2>1, <3>2, <3>3
    <3>5. QED
      BY Zenon, <2>2, <2>4, <3>1, <3>4, ProjectIsWish DEF Body, Replay
  <2>5. QED
    BY Zenon, <2>3, <2>4
<1>3. \A n \in Nat : n \in G
  <2> HIDE DEF G
  <2>1. QED
    BY Zenon, <1>2, Naturally
<1>4. g[Commands] \in Wishes
  BY Zenon, <1>3, CommandsAreFinite
<1>5. QED
  BY Zenon, <1>1, <1>4

-----------------------------------------------------------------------------
(* Types: TInv is what they are beyond IInv.  A result gets one of as many  *)
(* ids as there are commands, the desired state is one however it was       *)
(* seeded, and what is armed or has a helper was requested on disk.         *)

Ids == \A c \in Commands : journal[c].result.id \in 0 .. MaxCommands
Wire ==
    /\ seen \in Nat \cup {-1} /\ latePull \in BOOLEAN
    /\ lateResults \subseteq [command : Commands, result : Results]
Disk ==
    /\ control \in [contribution : BOOLEAN, draining : BOOLEAN]
    /\ config \in Sections /\ backup \in Sections /\ pending \in BOOLEAN
Requested == armed \subseteq requests /\ helpers \subseteq requests
Process ==
    /\ pc \in {"poll", "execute", "apply", "post", "acknowledged", "snapshot",
               "reconcile", "mark", "undrain", "crashed", "exited", "removed"}
    /\ agent \in [enabled : BOOLEAN, draining : BOOLEAN]
    /\ release \in {"none", "held", "spent"}
    /\ loaded \in Sections /\ quit \in BOOLEAN
Answer == reply \in [limits : 0 .. MaxCommands, policy : 0 .. MaxCommands, channel : {"stable", "dev"},
                     acked : SUBSET Commands, latest : Nat]
Model == expired \subseteq Commands /\ faults \in 0 .. MaxFaults

TInv == Ids /\ desired \in Wishes /\ Wire /\ Disk /\ Requested /\ Process /\ Answer /\ Model

\* The results that are recorded are those of the journal.
LEMMA TypesFollow == IInv /\ TInv => TypeOK
<1> SUFFICES ASSUME IInv, TInv PROVE TypeOK
  BY Zenon
<1>1. \A c \in Commands : journal[c].result \in Results
  <2>1. \A c \in Commands : journal[c].result \in [verdict : Verdicts \cup {"none"}, id : Nat]
    BY Zenon DEF IInv, Types
  <2>2. \A r \in [verdict : Verdicts \cup {"none"}, id : Nat] : r.id \in 0 .. MaxCommands => r \in Results
    BY Zenon DEF Results
  <2>3. QED
    BY Zenon, <2>1, <2>2 DEF TInv, Ids
<1>2. journal \in [Commands -> [phase : {"none", "applying", "complete"}, result : Results]]
  BY Zenon, <1>1 DEF IInv, Types
<1>3. 0 \in 0 .. MaxCommands /\ Commands \subseteq 0 .. MaxCommands
  BY SMT, NodeCommandsAssumption DEF Commands
<1>4. result \in [Commands -> Results]
  <2>1. NoResult \in Results
    BY Zenon, <1>3 DEF NoResult, Results
  <2>2. \A c \in Commands : result[c] \in Results
    BY Zenon, <1>1, <2>1 DEF IInv, Sealed
  <2>3. QED
    BY Zenon, <2>2 DEF IInv, Types
<1>5. after \in [restart : 0 .. MaxCommands, stop : 0 .. MaxCommands]
  BY Zenon, <1>3 DEF IInv, Types
<1>6. QED
  BY Zenon, <1>2, <1>4, <1>5 DEF IInv, Types, TInv, Wishes, Wire, Disk, Sections, Requested, Process,
     Answer, Model, TypeOK

LEMMA FaultsAreCounted ==
    ASSUME faults \in 0 .. MaxFaults, Fault \/ NoFault
    PROVE  faults' \in 0 .. MaxFaults
BY SMT, NodeCommandsAssumption DEF Fault, NoFault

LEMMA TypesInit == Init => TInv
<1> SUFFICES ASSUME Init PROVE TInv
  BY Zenon
<1>1. 0 \in 0 .. MaxCommands /\ 0 \in 0 .. MaxFaults /\ 0 \in Nat
  BY SMT, NodeCommandsAssumption
<1>2. Ids /\ Wire /\ Disk /\ Requested
  BY Zenon, <1>1 DEF Init, Ids, NoResult, Wire, Disk, Sections, Requested
<1>3. desired \in Wishes
  BY Zenon, <1>1 DEF Init, Wishes
<1>4. Process /\ Answer /\ Model
  BY Zenon, <1>1 DEF Init, Process, Sections, Answer, NoReply, Model
<1>5. QED
  BY Zenon, <1>2, <1>3, <1>4 DEF TInv

\* The parts that a step leaves alone.
LEMMA SameParts ==
    ASSUME TInv
    PROVE  /\ UNCHANGED journal => Ids'
           /\ UNCHANGED desired => desired' \in Wishes
           /\ UNCHANGED <<seen, latePull, lateResults>> => Wire'
           /\ UNCHANGED <<control, config, backup, pending>> => Disk'
           /\ UNCHANGED <<requests, armed, helpers>> => Requested'
           /\ UNCHANGED <<pc, agent, release, loaded, quit>> => Process'
           /\ UNCHANGED reply => Answer'
           /\ UNCHANGED expired /\ (Fault \/ NoFault) => Model'
BY Zenon, FaultsAreCounted DEF TInv, Ids, Wire, Disk, Requested, Process, Answer, Model

\* The awaits of the applicator.
LEMMA CurrentIsCommand ==
    ASSUME IInv, pc \in Busy
    PROVE  Current \in Commands /\ Current \in 0 .. MaxCommands
<1>1. Current \in Commands
  BY Zenon, CurrentIsInBatch DEF IInv, AtCurrent, Types
<1>2. QED
  BY SMT, <1>1, NodeCommandsAssumption DEF Commands

LEMMA AtAwait ==
    ASSUME IInv, NEW step, At(step), step \notin Reconciling
    PROVE  Current \in Commands /\ Current \in 0 .. MaxCommands
<1>1. pc \in {"apply", "reconcile"} /\ todo # <<>> /\ Head(todo) = step
  BY Zenon DEF At
<1>2. pc # "reconcile"
  <2>1. SUFFICES ASSUME pc = "reconcile" PROVE FALSE
    BY Zenon
  <2>2. todo \in Seq(Reconciling)
    BY Zenon, <2>1 DEF IInv, AtCurrent
  <2>3. Head(todo) \in Reconciling
    BY SMT, <1>1, <2>2
  <2>4. QED
    BY Zenon, <1>1, <2>3
<1>3. QED
  BY Zenon, <1>1, <1>2, CurrentIsCommand DEF Busy

\* What is left of TInv' for a step that changes the node's own state only.
Mine ==
    /\ Disk' /\ (Fault \/ NoFault)
    /\ agent' \in [enabled : BOOLEAN, draining : BOOLEAN]
    /\ release' \in {"none", "held", "spent"} /\ quit' \in BOOLEAN
    /\ UNCHANGED <<desired, seen, latePull, lateResults, journal, reply, expired, loaded>>

LEMMA MineStays ==
    ASSUME TInv
    PROVE  /\ control \in [contribution : BOOLEAN, draining : BOOLEAN]
           /\ config \in Sections /\ backup \in Sections /\ loaded \in Sections /\ pending \in BOOLEAN
           /\ agent \in [enabled : BOOLEAN, draining : BOOLEAN]
           /\ release \in {"none", "held", "spent"} /\ quit \in BOOLEAN
           /\ UNCHANGED faults => Fault \/ NoFault
           /\ UNCHANGED <<control, config, backup, pending>> => Disk'
BY Zenon DEF TInv, Disk, Process, NoFault

\* The four flags that an await of the applicator may set.
LEMMA FlagsAreTyped ==
    ASSUME TInv, NEW b \in BOOLEAN
    PROVE  /\ [control EXCEPT !.contribution = b] \in [contribution : BOOLEAN, draining : BOOLEAN]
           /\ [control EXCEPT !.draining = b] \in [contribution : BOOLEAN, draining : BOOLEAN]
           /\ [agent EXCEPT !.enabled = b] \in [enabled : BOOLEAN, draining : BOOLEAN]
           /\ [agent EXCEPT !.draining = b] \in [enabled : BOOLEAN, draining : BOOLEAN]
BY Zenon, MineStays

LEMMA AwaitIsMine ==
    ASSUME IInv, TInv,
           \/ StoreControl \/ SetContribution \/ BeginDrain \/ Release \/ WaitForIdle
           \/ SaveConfiguration \/ ApplyComponents \/ Refuse
    PROVE  Mine /\ (Proceed \/ Fail) /\ UNCHANGED <<requests, armed, helpers>>
<1> USE DEF Mine, coordinatorVars, netVars, diskVars
<1>0. TRUE \in BOOLEAN /\ FALSE \in BOOLEAN
  BY Zenon
<1>1. CASE StoreControl
  <2>1. control' \in [contribution : BOOLEAN, draining : BOOLEAN]
    BY Zenon, <1>1, <1>0, FlagsAreTyped DEF StoreControl
  <2>2. Disk'
    BY Zenon, <1>1, <2>1, MineStays DEF StoreControl, Disk
  <2>3. QED
    BY Zenon, <1>1, <2>2, MineStays DEF StoreControl
<1>2. CASE SetContribution
  <2>1. agent' \in [enabled : BOOLEAN, draining : BOOLEAN]
    BY Zenon, <1>2, <1>0, FlagsAreTyped DEF SetContribution
  <2>2. QED
    BY Zenon, <1>2, <2>1, MineStays DEF SetContribution
<1>3. CASE BeginDrain
  <2>1. agent' \in [enabled : BOOLEAN, draining : BOOLEAN] /\ release' \in {"none", "held", "spent"}
    BY Zenon, <1>3, <1>0, FlagsAreTyped, MineStays DEF BeginDrain
  <2>2. QED
    BY Zenon, <1>3, <2>1, MineStays DEF BeginDrain
<1>4. CASE Release
  <2>1. agent' \in [enabled : BOOLEAN, draining : BOOLEAN] /\ release' \in {"none", "held", "spent"}
    BY Zenon, <1>4, <1>0, FlagsAreTyped, MineStays DEF Release
  <2>2. QED
    BY Zenon, <1>4, <2>1, MineStays DEF Release
<1>5. CASE WaitForIdle
  BY Zenon, <1>5, MineStays DEF WaitForIdle
<1>6. CASE SaveConfiguration
  <2>1. config' \in Sections /\ quit' \in BOOLEAN
    <3>1. CASE At("save limits") \/ At("save policy")
      <4>1. Current \in 0 .. MaxCommands
        BY Zenon, <3>1, AtAwait DEF Reconciling
      <4>2. [loaded EXCEPT !.limits = Current] \in Sections /\ [loaded EXCEPT !.policy = Current] \in Sections
        BY Zenon, <4>1, MineStays DEF Sections
      <4>3. ~At("save desired") /\ ~At("save channel")
        BY Zenon, <3>1 DEF At
      <4>4. QED
        BY Zenon, <1>6, <4>2, <4>3, MineStays DEF SaveConfiguration, Save
    <3>2. CASE At("save channel")
      <4>1. [loaded EXCEPT !.channel = Channel(kind[Current])] \in Sections
        BY Zenon, MineStays DEF Sections, Channel
      <4>2. ~At("save desired") /\ ~At("save limits") /\ ~At("save policy")
        BY Zenon, <3>2 DEF At
      <4>3. QED
        BY Zenon, <1>6, <4>1, <4>2, MineStays DEF SaveConfiguration, Save
    <3>3. CASE At("save desired")
      <4>1. ~At("save channel") /\ ~At("save limits") /\ ~At("save policy")
        BY Zenon, <3>3 DEF At
      <4>2. /\ config' = [limits |-> reply.limits, policy |-> reply.policy, channel |-> reply.channel]
            /\ quit' = TRUE
        BY Zenon, <1>6, <4>1 DEF SaveConfiguration, Save
      <4>3. [limits |-> reply.limits, policy |-> reply.policy, channel |-> reply.channel] \in Sections
        BY Zenon DEF TInv, Answer, Sections
      <4>4. QED
        BY Zenon, <4>2, <4>3
    <3>4. QED
      BY Zenon, <1>6, <3>1, <3>2, <3>3 DEF SaveConfiguration
  <2>2. backup' \in {backup, config}
    BY Zenon, <1>6 DEF SaveConfiguration, Save
  <2>3. Disk'
    BY Zenon, <1>6, <2>1, <2>2, MineStays DEF SaveConfiguration, Disk, Sections
  <2>4. QED
    BY Zenon, <1>6, <2>1, <2>3, MineStays DEF SaveConfiguration
<1>7. CASE ApplyComponents
  <2>1. config' \in {config, backup} /\ pending' \in BOOLEAN /\ UNCHANGED <<control, backup>>
    BY Zenon, <1>0, <1>7, MineStays DEF ApplyComponents
  <2>2. Disk'
    BY Zenon, <2>1, MineStays DEF Disk, Sections
  <2>3. QED
    BY Zenon, <1>7, <2>2, MineStays DEF ApplyComponents
<1>8. CASE Refuse
  BY Zenon, <1>8, MineStays DEF Refuse
<1>9. QED
  BY Zenon, <1>1, <1>2, <1>3, <1>4, <1>5, <1>6, <1>7, <1>8

\* A step of the node that goes on or polls again.
LEMMA MineStep ==
    ASSUME TInv, Mine, Proceed \/ Fail, Requested'
    PROVE  TInv'
<1>1. pc' \in {pc, "poll"}
  BY Zenon DEF Proceed, Fail, Retry
<1>2. Process'
  BY Zenon, <1>1 DEF Mine, TInv, Process, Sections
<1>3. Ids' /\ desired' \in Wishes /\ Wire' /\ Answer' /\ Model'
  BY Zenon, SameParts DEF Mine
<1>4. Disk'
  BY Zenon DEF Mine
<1>5. QED
  BY Zenon, <1>2, <1>3, <1>4 DEF TInv

LEMMA AwaitTypes ==
    ASSUME IInv, TInv,
           \/ StoreControl \/ SetContribution \/ BeginDrain \/ Release \/ WaitForIdle
           \/ SaveConfiguration \/ ApplyComponents \/ Refuse
    PROVE  TInv'
<1>1. Mine /\ (Proceed \/ Fail) /\ Requested'
  BY Zenon, AwaitIsMine, SameParts
<1>2. QED
  BY Zenon, <1>1, MineStep

\* A request is on disk before its helper starts, and armed only from there.
LEMMA ScheduleTypes ==
    ASSUME IInv, TInv, ScheduleUninstall \/ ArmAcknowledged
    PROVE  TInv'
<1> USE DEF coordinatorVars, netVars
<1>1. CASE ScheduleUninstall
  <2>1. Mine
    BY Zenon, <1>1, MineStays DEF ScheduleUninstall, WriteRequest, StartHelper, Mine
  <2>2. Requested'
    BY Zenon, <1>1 DEF ScheduleUninstall, WriteRequest, StartHelper, TInv, Requested
  <2>3. CASE Proceed \/ Fail
    BY Zenon, <2>1, <2>2, <2>3, MineStep
  <2>4. CASE WriteRequest
    <3>1. /\ UNCHANGED <<desired, seen, latePull, lateResults, journal, control, config, backup, pending>>
          /\ UNCHANGED <<reply, expired, pc, agent, release, loaded, quit>>
          /\ NoFault
      BY Zenon, <1>1, <2>4 DEF ScheduleUninstall, WriteRequest, NoFault
    <3>2. QED
      BY Zenon, <2>2, <3>1, SameParts DEF TInv
  <2>5. QED
    BY Zenon, <1>1, <2>3, <2>4 DEF ScheduleUninstall, StartHelper
<1>2. CASE ArmAcknowledged
  <2>1. Mine /\ Proceed
    BY Zenon, <1>2, MineStays DEF ArmAcknowledged, Mine
  <2>2. Requested'
    BY Zenon, <1>2 DEF ArmAcknowledged, TInv, Requested
  <2>3. QED
    BY Zenon, <2>1, <2>2, MineStep
<1>3. QED
  BY Zenon, <1>1, <1>2

\* What a dead or a booting process starts from.
LEMMA FreshIsTyped ==
    /\ NoReply \in [limits : 0 .. MaxCommands, policy : 0 .. MaxCommands, channel : {"stable", "dev"},
                    acked : SUBSET Commands, latest : Nat]
    /\ \A a, b \in BOOLEAN :
          [enabled |-> a, draining |-> b] \in [enabled : BOOLEAN, draining : BOOLEAN]
<1>1. 0 \in 0 .. MaxCommands /\ 0 \in Nat
  BY SMT, NodeCommandsAssumption
<1>2. QED
  BY Zenon, <1>1 DEF NoReply

LEMMA ProcessTypes ==
    ASSUME IInv, TInv,
           \/ SnapshotRefused \/ Crash \/ Start \/ RemoveNode
           \/ \E c \in Commands : HelperEnds(c)
    PROVE  TInv'
<1> USE DEF coordinatorVars, netVars, diskVars, processVars
<1>a. TRUE \in BOOLEAN /\ FALSE \in BOOLEAN
  BY Zenon
<1>1. CASE SnapshotRefused
  <2>1. /\ UNCHANGED <<desired, seen, latePull, lateResults, journal, control, config, backup, pending>>
        /\ UNCHANGED <<requests, armed, helpers, reply, expired, agent, release, loaded, quit>>
        /\ pc' = "poll" /\ NoFault
    BY Zenon, <1>1 DEF SnapshotRefused, Retry, NoFault
  <2>2. Process'
    BY Zenon, <2>1 DEF TInv, Process, Sections
  <2>3. QED
    BY Zenon, <2>1, <2>2, SameParts DEF TInv
<1>2. CASE Crash \/ RemoveNode
  <2>1. /\ UNCHANGED <<desired, seen, latePull, lateResults, journal, control, config, backup, pending>>
        /\ UNCHANGED <<requests, armed, helpers, expired>>
        /\ pc' \in {"crashed", "removed"} /\ Forget /\ (Fault \/ NoFault)
    BY Zenon, <1>2 DEF Crash, RemoveNode, NoFault
  <2>2. Process' /\ Answer'
    BY Zenon, <1>a, <2>1, FreshIsTyped, MineStays DEF Forget, Process, Answer, Sections
  <2>3. QED
    BY Zenon, <2>1, <2>2, SameParts DEF TInv
<1>3. CASE Boot
  <2>1. /\ UNCHANGED <<desired, seen, latePull, lateResults, journal, control, config, backup, pending>>
        /\ UNCHANGED <<requests, armed, helpers, expired>> /\ NoFault
    BY Zenon, <1>3 DEF Boot, NoFault
  <2>2. agent' \in [enabled : BOOLEAN, draining : BOOLEAN] /\ release' \in {"none", "held", "spent"}
    <3>1. control.draining \in BOOLEAN
          /\ (control.contribution /\ ~control.draining) \in BOOLEAN
      BY Zenon, MineStays
    <3>2. QED
      BY Zenon, <1>3, <3>1, FreshIsTyped DEF Boot
  <2>3. Process' /\ Answer'
    BY Zenon, <1>a, <1>3, <2>2, FreshIsTyped, MineStays DEF Boot, Process, Answer, Sections
  <2>4. QED
    BY Zenon, <2>1, <2>3, SameParts DEF TInv
<1>4. CASE MarkHealthy \/ Undrain
  <2>1. /\ UNCHANGED <<desired, seen, latePull, lateResults, journal, config, backup>>
        /\ UNCHANGED <<requests, armed, helpers, reply, expired, release, loaded, quit>> /\ NoFault
        /\ pc' \in {"undrain", "poll"} /\ pending' \in {pending, FALSE}
    BY Zenon, <1>4 DEF MarkHealthy, Undrain, NoFault
  <2>2. /\ control' \in [contribution : BOOLEAN, draining : BOOLEAN]
        /\ agent' \in [enabled : BOOLEAN, draining : BOOLEAN]
    BY Zenon, <1>a, <1>4, FlagsAreTyped, MineStays DEF MarkHealthy, Undrain
  <2>3. Process' /\ Disk'
    BY Zenon, <1>a, <2>1, <2>2, MineStays DEF Process, Disk, Sections
  <2>4. QED
    BY Zenon, <2>1, <2>3, SameParts DEF TInv
<1>5. CASE BootFails
  <2>1. /\ UNCHANGED <<desired, seen, latePull, lateResults, journal, control, config, backup>>
        /\ UNCHANGED <<requests, armed, helpers, expired>>
        /\ pc' = "crashed" /\ pending' = FALSE /\ Forget /\ NoFault
    BY Zenon, <1>5 DEF BootFails, NoFault
  <2>2. Process' /\ Answer' /\ Disk'
    BY Zenon, <1>a, <2>1, FreshIsTyped, MineStays DEF Forget, Process, Answer, Disk, Sections
  <2>3. QED
    BY Zenon, <2>1, <2>2, SameParts DEF TInv
<1>6. CASE \E c \in Commands : HelperEnds(c)
  <2>1. /\ UNCHANGED <<desired, seen, latePull, lateResults, journal, control, config, backup, pending>>
        /\ UNCHANGED <<requests, armed, reply, expired, pc, agent, release, loaded, quit>>
        /\ helpers' \subseteq helpers /\ Fault
    BY Zenon, <1>6 DEF HelperEnds
  <2>2. Requested'
    BY Zenon, <2>1 DEF TInv, Requested
  <2>3. QED
    BY Zenon, <2>1, <2>2, SameParts DEF TInv
<1>7. QED
  BY Zenon, <1>1, <1>2, <1>3, <1>4, <1>5, <1>6 DEF Start

\* The coordinator's transactions: none but enqueue and reconcile touches the
\* desired state.
LEMMA EnqueueTypes ==
    ASSUME IInv, TInv, NEW c \in Commands, NEW k \in Kinds, Enqueue(c, k)
    PROVE  TInv'
<1>1. /\ UNCHANGED <<seen, latePull, lateResults, journal, control, config, backup, pending>>
      /\ UNCHANGED <<requests, armed, helpers, reply, expired, pc, agent, release, loaded, quit>>
      /\ NoFault
  BY Zenon DEF Enqueue, netVars, diskVars, processVars, NoFault
<1>2. desired' \in Wishes
  BY Zenon, ProjectIsWish DEF Enqueue, TInv
<1>3. QED
  BY Zenon, <1>1, <1>2, SameParts DEF TInv

LEMMA PullTypes ==
    ASSUME IInv, TInv, NEW expiring \in SUBSET Commands,
           PullCommands(expiring) \/ LatePull(expiring)
    PROVE  TInv'
<1>1. /\ UNCHANGED <<desired, seen, lateResults, journal, control, config, backup, pending>>
      /\ UNCHANGED <<requests, armed, helpers, reply, expired, agent, release, loaded, quit>>
  BY Zenon DEF PullCommands, LatePull, Pull, netVars, diskVars, processVars
<1>2. (Fault \/ NoFault) /\ pc' \in {pc, "snapshot", "execute"} /\ latePull' \in {latePull, TRUE, FALSE}
  BY Zenon DEF PullCommands, LatePull, netVars, processVars, NoFault
<1>3. Process' /\ Wire'
  <2>1. Process'
    BY Zenon, <1>1, <1>2 DEF TInv, Process, Sections
  <2>2. Wire'
    BY Zenon, <1>1, <1>2 DEF TInv, Wire
  <2>3. QED
    BY Zenon, <2>1, <2>2
<1>4. QED
  BY Zenon, <1>1, <1>2, <1>3, SameParts DEF TInv

LEMMA ExecuteTypes ==
    ASSUME IInv, TInv, ExecuteOnce
    PROVE  TInv'
<1>1. /\ UNCHANGED <<desired, seen, latePull, lateResults, control, config, backup, pending>>
      /\ UNCHANGED <<requests, armed, helpers, reply, agent, release, loaded, quit, faults>>
  BY Zenon DEF ExecuteOnce, coordinatorVars, netVars
<1>2. pc = "execute" /\ pc' \in {"post", "apply"} /\ expired' \in {expired, expired \cup {Current}}
  BY Zenon DEF ExecuteOnce
<1>3. Current \in Commands
  BY Zenon, <1>2, CurrentIsCommand DEF Busy
<1>4. Process' /\ Model'
  BY Zenon, <1>1, <1>2, <1>3 DEF TInv, Process, Model, Sections
<1>5. Ids'
  <2>1. journal' = journal \/ journal' = [journal EXCEPT ![Current].phase = "applying"]
    BY Zenon DEF ExecuteOnce
  <2>2. \A d \in Commands : journal'[d].result = journal[d].result
    <3>1. journal \in [Commands -> [phase : {"none", "applying", "complete"},
                                    result : [verdict : Verdicts \cup {"none"}, id : Nat]]]
      BY Zenon DEF IInv, Types
    <3>2. CASE journal' = [journal EXCEPT ![Current].phase = "applying"]
      <4>1. journal' = [d \in Commands |-> IF d = Current THEN [journal[d] EXCEPT !.phase = "applying"]
                                          ELSE journal[d]]
        BY Zenon, <1>3, <3>1, <3>2
      <4>2. \A d \in Commands : [journal[d] EXCEPT !.phase = "applying"].result = journal[d].result
        BY Zenon, <3>1
      <4>3. QED
        BY Zenon, <4>1, <4>2
    <3>3. QED
      BY Zenon, <2>1, <3>2
  <2>3. QED
    BY Zenon, <2>2 DEF TInv, Ids
<1>6. QED
  BY Zenon, <1>1, <1>4, <1>5, SameParts DEF TInv

\* The command being sealed is not among the complete ones, so that there are
\* fewer of these than commands.
LEMMA FinishTypes ==
    ASSUME IInv, TInv, Finish
    PROVE  TInv'
<1> DEFINE done == {d \in Commands : journal[d].phase = "complete"}
           c == Current
<1>1. /\ UNCHANGED <<desired, seen, latePull, lateResults, control, config, backup, pending>>
      /\ UNCHANGED <<requests, armed, helpers, reply, expired, agent, release, loaded, quit>>
      /\ NoFault /\ pc' = "post" /\ pc = "apply"
      /\ journal' = [journal EXCEPT ![c] = [phase |-> "complete",
                       result |-> [verdict |-> verdict, id |-> 1 + Cardinality(done)]]]
  BY Zenon DEF Finish, coordinatorVars, netVars, NoFault
<1>2. c \in Commands /\ c \notin done
  <2>1. c \in Commands
    BY Zenon, <1>1, CurrentIsCommand DEF Busy
  <2>2. journal[c].phase = "applying"
    BY Zenon, <1>1 DEF IInv, AtCurrent
  <2>3. QED
    BY Zenon, <2>1, <2>2
<1>3. 1 + Cardinality(done) \in 0 .. MaxCommands
  <2>1. PICK n \in Nat : Cardinality(Commands \ {c}) = n /\ MaxCommands = n + 1
    BY Zenon, <1>2, OneLess, CommandsAreFinite
  <2>2. Cardinality(done) \in Nat /\ Cardinality(done) <= Cardinality(Commands \ {c})
    <3>1. done \subseteq Commands \ {c} /\ Commands \ {c} \in SUBSET Commands /\ done \in SUBSET Commands
      BY Zenon, <1>2
    <3> HIDE DEF done, c
    <3>2. QED
      BY Zenon, <3>1, CommandsAreFinite, FS_Subset
  <2>3. \A a, b \in Nat : a <= b => 1 + a \in 0 .. b + 1
    OBVIOUS
  <2>4. QED
    BY Zenon, <2>1, <2>2, <2>3
<1> HIDE DEF done, c
<1>4. Ids'
  <2>1. ASSUME NEW d \in Commands PROVE journal'[d].result.id \in 0 .. MaxCommands
    <3>1. journal = [e \in Commands |-> journal[e]]
      BY Zenon DEF IInv, Types
    <3>2. CASE d = c
      BY Zenon, <1>1, <1>3, <3>1, <3>2
    <3>3. CASE d # c
      <4>1. journal'[d] = journal[d]
        BY Zenon, <1>1, <3>1, <3>3
      <4>2. QED
        BY Zenon, <4>1 DEF TInv, Ids
    <3>4. QED
      BY Zenon, <3>2, <3>3
  <2>2. QED
    BY Zenon, <2>1 DEF Ids
<1>5. Process'
  BY Zenon, <1>1 DEF TInv, Process, Sections
<1>6. QED
  BY Zenon, <1>1, <1>4, <1>5, SameParts DEF TInv

\* A result on its way is one of the journal.
LEMMA SealedIsResult ==
    ASSUME IInv, TInv, NEW c \in Commands
    PROVE  journal[c].result \in Results
<1>1. journal \in [Commands -> [phase : {"none", "applying", "complete"}, result : Results]]
  BY Zenon, TypesFollow DEF TypeOK
<1>2. QED
  BY Zenon, <1>1

LEMMA PostResultTypes ==
    ASSUME IInv, TInv, PostResult
    PROVE  TInv'
<1> DEFINE c == Current
           r == journal[c].result
<1>1. /\ UNCHANGED <<journal, control, config, backup, pending, requests, armed, helpers>>
      /\ UNCHANGED <<reply, expired, agent, release, loaded, quit>>
      /\ pc = "post"
  BY Zenon DEF PostResult, diskVars
<1>2. (Fault \/ NoFault) /\ pc' \in {"poll", "acknowledged"}
  BY Zenon DEF PostResult, Retry
<1>3. /\ UNCHANGED <<desired, seen, latePull>>
      /\ lateResults' \in {lateResults, lateResults \cup {[command |-> c, result |-> r]}}
  BY Zenon DEF PostResult, RecordResult, coordinatorVars, netVars
<1>4. c \in Commands /\ r \in Results
  <2>1. c \in Commands
    BY Zenon, <1>1, CurrentIsCommand DEF Busy
  <2> HIDE DEF c
  <2>2. QED
    BY Zenon, <2>1, SealedIsResult
<1> HIDE DEF c, r
<1>5. Wire'
  <2>1. [command |-> c, result |-> r] \in [command : Commands, result : Results]
    BY Zenon, <1>4
  <2>2. lateResults' \subseteq [command : Commands, result : Results]
    BY Zenon, <1>3, <2>1 DEF TInv, Wire
  <2>3. QED
    BY Zenon, <1>3, <2>2 DEF TInv, Wire
<1>6. Process'
  BY Zenon, <1>1, <1>2 DEF TInv, Process, Sections
<1>7. QED
  BY Zenon, <1>1, <1>2, <1>3, <1>5, <1>6, SameParts DEF TInv

LEMMA LateResultTypes ==
    ASSUME IInv, TInv, NEW m \in lateResults, LateResult(m)
    PROVE  TInv'
<1>1. /\ UNCHANGED <<desired, seen, latePull, journal, control, config, backup, pending>>
      /\ UNCHANGED <<requests, armed, helpers, reply, expired, pc, agent, release, loaded, quit>>
      /\ NoFault /\ lateResults' \subseteq lateResults
  BY Zenon DEF LateResult, RecordResult, diskVars, processVars, NoFault
<1>2. Wire'
  BY Zenon, <1>1 DEF TInv, Wire
<1>3. QED
  BY Zenon, <1>1, <1>2, SameParts DEF TInv

\* armStopAfterAck arms a request that the scheduler wrote.
LEMMA OnAcknowledgedTypes ==
    ASSUME IInv, TInv, OnAcknowledged
    PROVE  TInv'
<1>1. /\ UNCHANGED <<desired, seen, latePull, lateResults, journal, control, config, backup, pending>>
      /\ UNCHANGED <<requests, helpers, reply, expired, agent, release, loaded, quit>>
      /\ NoFault /\ pc = "acknowledged"
  BY Zenon DEF OnAcknowledged, coordinatorVars, netVars, NoFault
<1>2. pc' \in {"exited", "snapshot", "execute"}
  BY Zenon DEF OnAcknowledged
<1>3. armed' = armed \/ (armed' = armed \cup {Current} /\ after.stop = Current)
  BY Zenon DEF OnAcknowledged
<1>4. after.stop = Current => Current \in requests
  <2>1. Current \in Commands
    BY Zenon, <1>1, CurrentIsCommand DEF Busy
  <2>2. \A c \in Commands : c # 0
    BY SMT, NodeCommandsAssumption DEF Commands
  <2>3. QED
    BY Zenon, <2>1, <2>2 DEF IInv, Uninstalls
<1>5. Requested'
  BY Zenon, <1>1, <1>3, <1>4 DEF TInv, Requested
<1>6. Process'
  BY Zenon, <1>1, <1>2 DEF TInv, Process, Sections
<1>7. QED
  BY Zenon, <1>1, <1>5, <1>6, SameParts DEF TInv

\* reconcile: the desired state is seeded from what the node reports, or is the
\* one that is stored, and the reply repeats it.
LEMMA DesiredIsWish ==
    ASSUME TInv
    PROVE  ReadOrSeedDesired \in Wishes
<1>1. Seed \in Wishes
  BY Zenon, MineStays DEF Seed, Wishes, Sections
<1>2. Replayed \in Wishes
  BY Zenon, <1>1, ReplayIsWish
<1>3. QED
  BY Zenon, <1>2 DEF ReadOrSeedDesired, TInv

LEMMA PostSnapshotTypes ==
    ASSUME IInv, TInv, PostSnapshot
    PROVE  TInv'
<1> DEFINE d == ReadOrSeedDesired
           acked == {c \in Commands : row[c] = "applied"}
<1>1. /\ UNCHANGED <<latePull, lateResults, journal, control, config, backup, pending>>
      /\ UNCHANGED <<requests, armed, helpers, expired, agent, release, loaded, quit>>
      /\ desired' = d /\ seen' = cursor
  BY Zenon DEF PostSnapshot, netVars, diskVars
<1>2. /\ Fault \/ NoFault
      /\ pc' \in {"reconcile", "poll"}
      /\ reply' \in {reply, [limits |-> d.limits, policy |-> d.policy, channel |-> d.channel,
                           acked |-> acked, latest |-> events]}
  BY Zenon DEF PostSnapshot, Retry
<1>3. d \in Wishes /\ acked \in SUBSET Commands
  BY Zenon, DesiredIsWish
<1>4. events \in Nat /\ cursor \in Nat
  BY Zenon DEF IInv, Types
<1> HIDE DEF d, acked
<1>5. Answer'
  <2>1. [limits |-> d.limits, policy |-> d.policy, channel |-> d.channel, acked |-> acked,
         latest |-> events]
        \in [limits : 0 .. MaxCommands, policy : 0 .. MaxCommands, channel : {"stable", "dev"},
             acked : SUBSET Commands, latest : Nat]
    BY Zenon, <1>3, <1>4 DEF Wishes
  <2>2. QED
    BY Zenon, <1>2, <2>1 DEF TInv, Answer
<1>6. Wire'
  BY Zenon, <1>1, <1>4 DEF TInv, Wire
<1>7. Process'
  BY Zenon, <1>1, <1>2 DEF TInv, Process, Sections
<1>8. desired' \in Wishes
  BY Zenon, <1>1, <1>3
<1>9. QED
  BY Zenon, <1>1, <1>2, <1>5, <1>6, <1>7, <1>8, SameParts DEF TInv

LEMMA SaveCursorTypes ==
    ASSUME IInv, TInv, SaveCursor
    PROVE  TInv'
<1>1. /\ UNCHANGED <<desired, seen, latePull, lateResults, journal, control, config, backup, pending>>
      /\ UNCHANGED <<requests, armed, helpers, expired, agent, release, loaded, quit>>
      /\ NoFault /\ pc' \in {"exited", "poll"} /\ reply' = NoReply
  BY Zenon DEF SaveCursor, coordinatorVars, netVars, NoFault
<1>2. Process' /\ Answer'
  BY Zenon, <1>1, FreshIsTyped DEF TInv, Process, Answer, Sections
<1>3. QED
  BY Zenon, <1>1, <1>2, SameParts DEF TInv

LEMMA NextTInv ==
    ASSUME IInv, TInv, [Next]_vars
    PROVE  TInv'
<1>1. CASE \E c \in Commands, k \in Kinds : Enqueue(c, k)
  BY Zenon, <1>1, EnqueueTypes
<1>2. CASE \E expiring \in SUBSET Commands : PullCommands(expiring) \/ LatePull(expiring)
  BY Zenon, <1>2, PullTypes
<1>3. CASE ExecuteOnce \/ Finish
  BY Zenon, <1>3, ExecuteTypes, FinishTypes
<1>4. CASE \/ StoreControl \/ SetContribution \/ BeginDrain \/ Release \/ WaitForIdle
           \/ SaveConfiguration \/ ApplyComponents \/ Refuse
  BY Zenon, <1>4, AwaitTypes
<1>5. CASE ScheduleUninstall \/ ArmAcknowledged
  BY Zenon, <1>5, ScheduleTypes
<1>6. CASE PostResult \/ (\E m \in lateResults : LateResult(m))
  BY Zenon, <1>6, PostResultTypes, LateResultTypes
<1>7. CASE OnAcknowledged \/ PostSnapshot \/ SaveCursor
  BY Zenon, <1>7, OnAcknowledgedTypes, PostSnapshotTypes, SaveCursorTypes
<1>8. CASE \/ SnapshotRefused \/ Crash \/ Start \/ RemoveNode
           \/ \E c \in Commands : HelperEnds(c)
  BY Zenon, <1>8, ProcessTypes
<1>9. CASE UNCHANGED vars
  <2>1. /\ UNCHANGED <<desired, seen, latePull, lateResults, journal, control, config, backup, pending>>
        /\ UNCHANGED <<requests, armed, helpers, reply, expired, pc, agent, release, loaded, quit>>
        /\ NoFault
    BY Zenon, <1>9 DEF vars, coordinatorVars, netVars, diskVars, processVars, NoFault
  <2>2. QED
    BY Zenon, <2>1, SameParts DEF TInv
<1>10. QED
  BY Zenon, <1>1, <1>2, <1>3, <1>4, <1>5, <1>6, <1>7, <1>8, <1>9 DEF Next, Loop, Step

\* Every table, file and field of the process keeps its type: a command of any
\* kind, sealed with one of as many ids as there are commands, seeds or changes
\* a desired state that is one; and an uninstall is armed, or has a helper, only
\* when its request is on disk, whatever crash came between.
THEOREM CommandTypes == Spec => []TypeOK
<1>1. Init => IInv /\ TInv
  BY Zenon, InitIInv, TypesInit
<1>2. IInv /\ TInv /\ [Next]_vars => IInv' /\ TInv'
  BY Zenon, NextIInv, NextTInv
<1>3. IInv /\ TInv => TypeOK
  BY Zenon, TypesFollow
<1>4. QED
  BY <1>1, <1>2, <1>3, PTL DEF Spec
=============================================================================
