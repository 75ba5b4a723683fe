--------------------------- MODULE ComponentProofs ---------------------------
(***************************************************************************)
(* Proofs about ComponentUpdate, for any manifests and artifacts and any   *)
(* number of commands, crashes, failed writes and damaged files.           *)
(*                                                                         *)
(* Three facts carry the argument, each stated of the document on disk and *)
(* of the one about to be written: its roots are intact (Kept), its        *)
(* fallback has been seen to boot (Proven), and so has its active root     *)
(* unless the boot-health marker names it (Marked).                        *)
(***************************************************************************)
EXTENDS ComponentUpdate, WellFoundedInduction, TLAPS

\* A root is intact, or a fault has damaged it, or there is none.
Sound(r) == r = NoRoot \/ r \in hurt \/ (r \in roots /\ r.artifact \in cache)
Kept(d) == Sound(d.active.root) /\ Sound(d.previous.root)

Good(r) == r \in roots => quality[r.artifact] = "good"
Proven(d) == Good(d.previous.root)
Booted(d) == Good(d.active.root)
Marked(d) == Booted(d) \/ (pending # 0 /\ pending = d.active.manifest)
Excused == hasty \/ restored

\* Where the process runs from, and what its start has shown.
Up == {"healthy", "ready", "check", "stage", "canary", "mark", "collect", "swap", "seal",
       "acknowledge"}
Process1 ==
    /\ pc \in {"down", "exited", "resolve"} => leased = NoRoot
    /\ pc \in {"start", "healthy", "revert"} =>
          IF leased = NoRoot THEN state.active.root \notin roots ELSE leased = state.active.root
    /\ pc \in Up \/ (pc \in {"write", "copy"} /\ purpose # "revert") =>
          leased = NoRoot \/ quality[leased.artifact] = "good"

\* How the documents in memory stand to the one on disk.
Jobs ==
    /\ pc \in {"stage", "canary", "mark"} => before = state /\ target \in Manifests
    /\ pc \in {"canary", "mark"} => candidate \in Roots
    /\ pc \in {"write", "copy"} => purpose # "none"
    /\ pc \in {"write", "copy"} /\ purpose \in {"commit", "undo", "accept"} =>
          target \in Manifests
    /\ pc = "copy" => state = doc
    /\ pc = "collect" => state = doc

Intact ==
    restored \/ /\ Kept(state) /\ Sound(leased)
                /\ pc \in {"canary", "mark"} => Sound(candidate)
                /\ pc \in {"write", "copy"} => Kept(doc)
                /\ pc \in {"write", "copy"} /\ purpose = "commit" => Kept(before)

Safe ==
    Excused \/ /\ Marked(state) /\ Proven(state)
               /\ pc \in {"write", "copy"} => Marked(doc) /\ Proven(doc)
               /\ pc \in {"write", "copy"} /\ purpose = "commit" => Booted(before) /\ Proven(before)
               /\ pc \in {"write", "copy"} /\ purpose = "revert" => Booted(doc)
               /\ pc = "forget" => Booted(state)
               /\ pc = "resolve" => guarded \/ Booted(state)
               /\ pc = "start" => guarded \/ leased = NoRoot \/ quality[leased.artifact] = "good"

IInv == TypeOK /\ Process1 /\ Jobs /\ Intact /\ Safe

-----------------------------------------------------------------------------
(* Types *)

Rejections == [manifest : Manifests \cup {0}, retry : {"later", "never"}]

LEMMA Constants ==
    /\ Empty \in Documents /\ NoEntry \in Entries /\ NoRoot \notin Roots
    /\ NoRejection \in Rejections
    /\ \A d \in Documents : /\ d.accepted \in Manifests \cup {0}
                            /\ d.active \in Entries /\ d.previous \in Entries
                            /\ d.rejected \in Rejections
    /\ \A e \in Entries : /\ e.root \in Roots \cup {NoRoot} /\ e.manifest \in Manifests \cup {0}
                          /\ e # NoEntry => e.root \in Roots /\ e.manifest \in Manifests
                          /\ e.root = NoRoot => e = NoEntry
    /\ \A r \in Roots : r.artifact \in Artifacts
    /\ 0 \notin Manifests
<1>1. NoRoot \notin Roots
  BY Zenon, ComponentAssumption DEF NoRoot, Roots
<1>2. NoEntry \in Entries /\ NoRejection \in Rejections
  BY Zenon DEF Entries, NoRejection, Rejections
<1>3. Empty \in Documents
  BY Zenon, <1>2 DEF Empty, Documents, Rejections
<1>4. \A d \in Documents : /\ d.accepted \in Manifests \cup {0}
                           /\ d.active \in Entries /\ d.previous \in Entries
                           /\ d.rejected \in Rejections
  BY Zenon DEF Documents, Rejections
<1>5. ASSUME NEW e \in Entries
      PROVE  /\ e.root \in Roots \cup {NoRoot} /\ e.manifest \in Manifests \cup {0}
             /\ e # NoEntry => e.root \in Roots /\ e.manifest \in Manifests
             /\ e.root = NoRoot => e = NoEntry
  <2>1. CASE e = NoEntry
    BY Zenon, <2>1 DEF NoEntry
  <2>2. CASE e \in [root : Roots, manifest : Manifests]
    BY Zenon, <2>2, <1>1
  <2>3. QED
    BY Zenon, <2>1, <2>2 DEF Entries
<1>6. \A r \in Roots : r.artifact \in Artifacts
  BY Zenon DEF Roots
<1>7. 0 \notin Manifests
  BY Zenon, ComponentAssumption
<1>8. QED
  BY Zenon, <1>1, <1>2, <1>3, <1>4, <1>5, <1>6, <1>7

\* The documents that the code writes are documents.
LEMMA DocumentTypes ==
    ASSUME NEW d \in Documents, NEW m \in Manifests, NEW e \in Entries, NEW f \in Entries,
           NEW x \in Rejections
    PROVE  /\ [d EXCEPT !.active = e, !.previous = f] \in Documents
           /\ [d EXCEPT !.active = e, !.previous = f].active = e
           /\ [d EXCEPT !.active = e, !.previous = f].previous = f
           /\ [d EXCEPT !.rejected = x] \in Documents
           /\ [d EXCEPT !.rejected = x].active = d.active
           /\ [d EXCEPT !.rejected = x].previous = d.previous
           /\ Accept(d, m) \in Documents
           /\ Accept(d, m).active = d.active /\ Accept(d, m).previous = d.previous
<1>1. NoRejection \in Rejections
  BY Zenon, Constants
<1>2. QED
  BY Zenon, <1>1 DEF Documents, Rejections, Accept

LEMMA ActivateType ==
    ASSUME NEW d \in Documents, NEW m \in Manifests, NEW e \in Entries
    PROVE  /\ Activate(d, m, e) \in Documents
           /\ Activate(d, m, e).active = e
           /\ Activate(d, m, e).previous = IF Usable(d.active) THEN d.active ELSE NoEntry
<1> DEFINE f == IF Usable(d.active) THEN d.active ELSE NoEntry
           c == Accept(d, m)
<1>1. f \in Entries
  BY Zenon, Constants
<1>2. c \in Documents
  BY Zenon, DocumentTypes, Constants
<1>3. Activate(d, m, e) = [c EXCEPT !.active = e, !.previous = f]
  BY Zenon DEF Activate
<1> HIDE DEF c, f
<1>4. Activate(d, m, e) \in Documents /\ Activate(d, m, e).active = e
      /\ Activate(d, m, e).previous = f
  BY ZenonT(30), <1>1, <1>2, <1>3 DEF Documents
<1>5. QED
  BY Zenon, <1>4 DEF f

LEMMA RenameType ==
    ASSUME NEW d \in Documents, NEW m \in Manifests, d.active # NoEntry
    PROVE  /\ [Accept(d, m) EXCEPT !.active.manifest = m] \in Documents
           /\ [Accept(d, m) EXCEPT !.active.manifest = m].active.root = d.active.root
           /\ [Accept(d, m) EXCEPT !.active.manifest = m].active.manifest = m
           /\ [Accept(d, m) EXCEPT !.active.manifest = m].previous = d.previous
<1> DEFINE c == Accept(d, m)
           e == [c.active EXCEPT !.manifest = m]
<1>1. c \in Documents /\ c.active = d.active /\ c.previous = d.previous
  BY Zenon, DocumentTypes, Constants
<1>2. d.active \in [root : Roots, manifest : Manifests]
  BY Zenon, Constants DEF Entries
<1>3. e \in [root : Roots, manifest : Manifests] /\ e.root = d.active.root /\ e.manifest = m
  BY Zenon, <1>1, <1>2
<1>4. e \in Entries
  BY Zenon, <1>3 DEF Entries
<1>5. [Accept(d, m) EXCEPT !.active.manifest = m] = [c EXCEPT !.active = e]
  BY Zenon, <1>1 DEF Documents
<1> HIDE DEF c, e
<1>6. [c EXCEPT !.active = e] \in Documents /\ [c EXCEPT !.active = e].active = e
      /\ [c EXCEPT !.active = e].previous = c.previous
  BY Zenon, <1>1, <1>4 DEF Documents
<1>7. QED
  BY Zenon, <1>1, <1>3, <1>5, <1>6

\* A new install id names a root that nothing uses or refers to.
LEMMA LessIsRelated ==
    ASSUME NEW x \in Nat, NEW y \in Nat, y < x
    PROVE  <<y, x>> \in OpToRel(<, Nat)
<1>1. <<y, x>> \in Nat \X Nat /\ <<y, x>>[1] = y /\ <<y, x>>[2] = x
  BY Zenon
<1>2. QED
  BY <1>1, Zenon DEF OpToRel

LEMMA FreshIsFree ==
    ASSUME NEW a \in Artifacts, FreeInstalls(a) # {}
    PROVE  /\ Fresh(a) \in Roots /\ Fresh(a).artifact = a
           /\ Fresh(a) \notin roots \cup partial \cup Referenced(state)
<1> DEFINE S == FreeInstalls(a)
<1>1. S \subseteq Nat /\ S \subseteq 1 .. MaxInstalls
  BY ComponentAssumption DEF FreeInstalls
<1>2. \E x \in S : \A y \in S : ~(<<y, x>> \in OpToRel(<, Nat))
  BY ZenonT(60), <1>1, NatLessThanWellFounded, WFMin
<1>3. \E x \in S : \A y \in S : ~(y < x)
  BY <1>1, <1>2, LessIsRelated, Zenon
<1>4. \E x \in S : \A y \in S : x <= y
  BY <1>1, <1>3
<1>5. Min(S) \in S
  BY <1>4, Zenon DEF Min
<1>6. [artifact |-> a, install |-> Min(S)] \notin roots \cup partial \cup Referenced(state)
      /\ Min(S) \in 1 .. MaxInstalls
  BY <1>5, Zenon DEF FreeInstalls
<1> HIDE DEF S
<1>7. Fresh(a) = [artifact |-> a, install |-> Min(S)]
  BY Zenon DEF Fresh, S
<1>8. QED
  BY <1>6, <1>7 DEF Roots

-----------------------------------------------------------------------------
(* Booting *)

LEMMA FaultType ==
    ASSUME TypeOK, Fault \/ NoFault
    PROVE  faults' \in 0 .. MaxFaults
BY ComponentAssumption DEF TypeOK, Fault, NoFault

LEMMA BootStep ==
    ASSUME IInv, Boot
    PROVE  IInv'
<1> USE DEF IInv, Boot, jobVars, historyVars
<1>1. TypeOK'
  BY DEF TypeOK, PendingCurrent
<1>2. Process1' /\ Jobs'
  BY Zenon DEF Process1, Jobs, Up
<1>3. Intact'
  BY Zenon DEF Intact, Kept, Sound
<1>4. Safe'
  BY Zenon DEF Safe, Excused, Marked, Booted, Proven, Good, PendingCurrent, TypeOK
<1>5. QED
  BY Zenon, <1>1, <1>2, <1>3, <1>4

LEMMA ResolveStep ==
    ASSUME IInv, Resolve
    PROVE  IInv'
<1> USE DEF IInv, jobVars, historyVars
<1>0. /\ pc = "resolve" /\ pc' = "start" /\ roots' \subseteq roots /\ partial' \subseteq partial
      /\ \/ Usable(state.active) /\ leased' = state.active.root /\ UNCHANGED <<roots, partial>>
         \/ /\ ~Usable(state.active) /\ leased' = NoRoot
            /\ roots' = roots \ {state.active.root}
      /\ UNCHANGED <<state, lastGood, pending, cache, command, guarded, jobVars,
                     historyVars, issued, faults>>
  BY Zenon DEF Resolve
<1>1. TypeOK'
  BY <1>0, Constants DEF TypeOK, Usable
<1>a. state.active.root = NoRoot <=> state.active = NoEntry
  BY ZenonT(60), Constants DEF TypeOK, NoEntry
<1>2. Process1' /\ Jobs'
  BY Zenon, <1>0, <1>a DEF Process1, Jobs, Up, Usable
<1>3. Intact'
  BY Zenon, <1>0, <1>a DEF Intact, Kept, Sound, Usable
<1>4. Safe'
  BY Zenon, <1>0 DEF Safe, Excused, Marked, Booted, Proven, Good, Usable
<1>5. QED
  BY Zenon, <1>1, <1>2, <1>3, <1>4

LEMMA StartsStep ==
    ASSUME IInv, Starts \/ FailsToStart
    PROVE  IInv'
<1> USE DEF IInv, jobVars, historyVars, diskVars
<1>0. /\ pc = "start"
      /\ pc' \in {"healthy", "ready", "revert", "down"}
      /\ UNCHANGED <<diskVars, command, guarded, jobVars, goal, hurt, hasty, restored, issued>>
      /\ leased' \in {leased, NoRoot} /\ (pc' = "down" => leased' = NoRoot)
      /\ pc' # "down" => UNCHANGED leased
  BY Zenon DEF Starts, FailsToStart
<1>1. /\ quality' \in [Artifacts -> {"unknown", "good", "bad"}]
      /\ \A a \in Artifacts : quality[a] = "good" => quality'[a] = "good"
      /\ pc' \in {"healthy", "ready"} => leased = NoRoot \/ quality'[leased.artifact] = "good"
  <2>1. leased = NoRoot \/ leased.artifact \in Artifacts
    BY Zenon, Constants DEF TypeOK
  <2>2. CASE Starts
    BY Zenon, <2>1, <2>2 DEF Starts, TypeOK
  <2>3. CASE FailsToStart
    BY Zenon, <2>1, <2>3 DEF FailsToStart, TypeOK
  <2>4. QED
    BY Zenon, <2>2, <2>3
<1>2. TypeOK'
  <2>1. faults' \in 0 .. MaxFaults
    BY Zenon, FaultType DEF Starts, FailsToStart, NoFault
  <2>2. QED
    BY <1>0, <1>1, <2>1 DEF TypeOK
<1>3. Process1' /\ Jobs'
  BY Zenon, <1>0, <1>1 DEF Process1, Jobs, Up
<1>4. Intact'
  BY Zenon, <1>0 DEF Intact, Kept, Sound
<1>5. Safe'
  <2>1. \A r : Good(r) => Good(r)'
    BY Zenon, <1>0, <1>1, Constants DEF Good, TypeOK
  <2>2. QED
    BY Zenon, <1>0, <2>1 DEF Safe, Excused, Marked, Booted, Proven
<1>6. QED
  BY Zenon, <1>2, <1>3, <1>4, <1>5

LEMMA MarkActivationHealthyStep ==
    ASSUME IInv, MarkActivationHealthy
    PROVE  IInv'
<1> USE DEF IInv, MarkActivationHealthy, jobVars, historyVars
<1>1. TypeOK'
  <2>1. guarded' \in BOOLEAN /\ pending' \in Manifests \cup {0}
    BY Zenon
  <2>2. QED
    BY <2>1 DEF TypeOK
<1>2. Process1' /\ Jobs'
  BY Zenon DEF Process1, Jobs, Up
<1>3. Intact'
  BY Zenon DEF Intact, Kept, Sound
<1>4. Safe'
  <2>1. Booted(state)
    BY Zenon DEF Process1, Booted, Good, Up
  <2>2. QED
    BY Zenon, <2>1 DEF Safe, Excused, Marked, Booted, Proven, Good
<1>5. QED
  BY Zenon, <1>1, <1>2, <1>3, <1>4

LEMMA ForgetActivationStep ==
    ASSUME IInv, ForgetActivation
    PROVE  IInv'
<1> USE DEF IInv, ForgetActivation, jobVars, historyVars
<1>1. TypeOK'
  <2>1. guarded' \in BOOLEAN /\ pending' \in Manifests \cup {0}
    BY Zenon
  <2>2. QED
    BY <2>1 DEF TypeOK
<1>2. Process1' /\ Jobs'
  BY Zenon DEF Process1, Jobs, Up
<1>3. Intact'
  BY Zenon DEF Intact, Kept, Sound
<1>4. Safe'
  BY Zenon DEF Safe, Excused, Marked, Booted, Proven, Good
<1>5. QED
  BY Zenon, <1>1, <1>2, <1>3, <1>4

LEMMA RollbackFailedActivationStep ==
    ASSUME IInv, RollbackFailedActivation
    PROVE  IInv'
<1> USE DEF IInv, jobVars, historyVars, diskVars
<1> DEFINE d == [state EXCEPT !.active = state.previous, !.previous = NoEntry]
<1>0. /\ pc = "revert" /\ faults' \in 0 .. MaxFaults
      /\ UNCHANGED <<diskVars, command, guarded, before, target, candidate, verdict,
                     historyVars, issued>>
      /\ \/ pc' = "down" /\ leased' = NoRoot /\ UNCHANGED <<doc, purpose>>
         \/ pc' = "write" /\ doc' = d /\ purpose' = "revert" /\ UNCHANGED leased
  BY Zenon, FaultType DEF RollbackFailedActivation
<1>a. d \in Documents /\ d.active = state.previous /\ d.previous = NoEntry
  BY Zenon, DocumentTypes, Constants DEF TypeOK, Documents
<1>b. NoEntry.root = NoRoot /\ NoRoot \notin roots
  BY Zenon, Constants DEF NoEntry, TypeOK
<1> HIDE DEF d
<1>1. TypeOK'
  BY SMTT(60), <1>0, <1>a DEF TypeOK
<1>2. Process1' /\ Jobs'
  BY Zenon, <1>0 DEF Process1, Jobs, Up
<1>3. Intact'
  BY Zenon, <1>0, <1>a, <1>b DEF Intact, Kept, Sound
<1>4. Safe'
  BY Zenon, <1>0, <1>a, <1>b DEF Safe, Excused, Marked, Booted, Proven, Good
<1>5. QED
  BY Zenon, <1>1, <1>2, <1>3, <1>4

-----------------------------------------------------------------------------
(* Writing *)

\* The two ends of an update or a rollback: its verdict, or the write that
\* records its failure in a document with the same roots.
Sealing ==
    /\ pc' = "seal" /\ verdict' \in {"applied", "unchanged", "rejected"}
    /\ before' = Empty /\ target' = 0 /\ candidate' = NoRoot /\ doc' = Empty /\ purpose' = "none"
Recording ==
    /\ pc' = "write" /\ purpose' = "record"
    /\ doc' \in Documents /\ doc'.active = state.active /\ doc'.previous = state.previous
    /\ UNCHANGED <<before, target, candidate, verdict>>
Unhurried == leased = NoRoot \/ quality[leased.artifact] = "good"

LEMMA RecordManifestFailureEnds ==
    ASSUME TypeOK, NEW retry \in {"later", "never"}, RecordManifestFailure(retry)
    PROVE  Sealing \/ Recording
<1>1. [manifest |-> target, retry |-> retry] \in Rejections
  BY Zenon DEF TypeOK, Rejections
<1> DEFINE d == [state EXCEPT !.rejected = [manifest |-> target, retry |-> retry]]
<1>2. d \in Documents /\ d.active = state.active /\ d.previous = state.previous
  BY Zenon, <1>1 DEF TypeOK, Documents, Rejections
<1>3. QED
  BY Zenon, <1>2 DEF RecordManifestFailure, Sealing, Recording, Seal, ClearJob, Write

LEMMA EndsStep ==
    ASSUME IInv, Unhurried, Sealing \/ Recording, lastGood' \in Documents \cup {Missing},
           faults' \in 0 .. MaxFaults,
           UNCHANGED <<state, pending, roots, partial, cache, command, leased, guarded,
                       historyVars, issued>>
    PROVE  IInv'
<1> USE DEF IInv, historyVars, Sealing, Recording
<1>1. TypeOK'
  BY SMTT(60), Constants DEF TypeOK
<1>2. Process1' /\ Jobs'
  BY Zenon DEF Process1, Jobs, Up, Unhurried
<1>3. Intact'
  BY Zenon DEF Intact, Kept, Sound
<1>4. Safe'
  BY Zenon DEF Safe, Excused, Marked, Booted, Proven, Good
<1>5. QED
  BY Zenon, <1>1, <1>2, <1>3, <1>4

\* A document takes its place on disk.
LEMMA PointerMoves ==
    ASSUME IInv, pc = "write", state' = doc, pc' = "copy",
           UNCHANGED <<lastGood, pending, roots, partial, cache, command, leased, guarded,
                       jobVars, historyVars, issued, faults>>
    PROVE  IInv'
<1> USE DEF IInv, historyVars, jobVars
<1>1. TypeOK'
  BY SMTT(60) DEF TypeOK
<1>2. Process1' /\ Jobs'
  BY Zenon DEF Process1, Jobs, Up
<1>3. Intact'
  BY Zenon DEF Intact, Kept, Sound
<1>4. Safe'
  BY Zenon DEF Safe, Excused, Marked, Booted, Proven, Good
<1>5. QED
  BY Zenon, <1>1, <1>2, <1>3, <1>4

LEMMA WriteFailedStep ==
    ASSUME IInv, pc \in {"write", "copy"}, WriteFailed, faults' \in 0 .. MaxFaults,
           UNCHANGED <<state, lastGood, pending, roots, partial, cache, command, guarded,
                       historyVars, issued>>
    PROVE  IInv'
<1> USE DEF IInv, historyVars
<1>1. CASE /\ purpose = "commit" /\ Write(before, "undo")
           /\ UNCHANGED <<before, target, candidate, verdict, leased>>
  <2> USE DEF Write
  <2>1. TypeOK'
    BY SMTT(60), <1>1 DEF TypeOK
  <2>2. Process1' /\ Jobs'
    BY Zenon, <1>1 DEF Process1, Jobs, Up
  <2>3. Intact'
    BY Zenon, <1>1 DEF Intact, Kept, Sound
  <2>4. Safe'
    BY Zenon, <1>1 DEF Safe, Excused, Marked, Booted, Proven, Good
  <2>5. QED
    BY Zenon, <2>1, <2>2, <2>3, <2>4
<1>2. CASE (Sealing \/ Recording) /\ purpose # "revert" /\ UNCHANGED leased
  <2>1. Unhurried
    BY Zenon, <1>2 DEF Process1, Unhurried
  <2>2. lastGood' \in Documents \cup {Missing}
    BY Zenon DEF TypeOK
  <2>3. QED
    BY Zenon, <1>2, <2>1, <2>2, EndsStep
<1>3. CASE purpose = "revert" /\ pc' = "down" /\ ClearJob /\ leased' = NoRoot /\ UNCHANGED verdict
  <2> USE DEF ClearJob
  <2>1. TypeOK'
    BY SMTT(60), <1>3, Constants DEF TypeOK
  <2>2. Process1' /\ Jobs'
    BY Zenon, <1>3 DEF Process1, Jobs, Up
  <2>3. Intact'
    BY Zenon, <1>3 DEF Intact, Kept, Sound
  <2>4. Safe'
    BY Zenon, <1>3 DEF Safe, Excused, Marked, Booted, Proven, Good
  <2>5. QED
    BY Zenon, <2>1, <2>2, <2>3, <2>4
<1>4. \A v \in {"applied", "unchanged", "rejected"} : Seal(v) => Sealing
  BY Zenon DEF Seal, Sealing, ClearJob
<1>5. QED
  BY Zenon, <1>1, <1>2, <1>3, <1>4, RecordManifestFailureEnds DEF WriteFailed

LEMMA WriteStateStep ==
    ASSUME IInv, WriteState
    PROVE  IInv'
<1>1. CASE state' = doc /\ pc' = "copy" /\ NoFault /\ UNCHANGED <<jobVars, leased>>
  BY Zenon, <1>1, PointerMoves DEF WriteState, NoFault
<1>2. CASE WriteFailed /\ Fault /\ UNCHANGED state
  <2>1. faults' \in 0 .. MaxFaults
    BY Zenon, <1>2, FaultType DEF IInv
  <2>2. QED
    BY Zenon, <1>2, <2>1, WriteFailedStep DEF WriteState
<1>3. QED
  BY Zenon, <1>1, <1>2 DEF WriteState

LEMMA WriteLastGoodStep ==
    ASSUME IInv, WriteLastGood
    PROVE  IInv'
<1> USE DEF IInv, historyVars
<1>f. /\ pc = "copy" /\ state = doc
      /\ UNCHANGED <<state, pending, roots, partial, cache, command, guarded, historyVars, issued>>
  BY Zenon DEF WriteLastGood, Jobs
<1>1. CASE WriteFailed /\ Fault /\ UNCHANGED lastGood
  <2>1. faults' \in 0 .. MaxFaults
    BY Zenon, <1>1, FaultType
  <2>2. QED
    BY ZenonT(60), <1>1, <1>f, <2>1, WriteFailedStep
<1>2. CASE lastGood' = doc /\ Written /\ NoFault
  <2>0. lastGood' \in Documents \cup {Missing} /\ faults' \in 0 .. MaxFaults
    BY Zenon, <1>2 DEF TypeOK, NoFault
  <2>1. CASE /\ purpose \in {"commit", "accept"} /\ pc' = "collect"
             /\ verdict' = IF purpose = "commit" THEN "applied" ELSE "unchanged"
             /\ UNCHANGED <<before, target, candidate, doc, purpose, leased>>
    <3>1. TypeOK'
      BY SMTT(30), <1>f, <2>0, <2>1 DEF TypeOK
    <3>2. Process1' /\ Jobs'
      BY ZenonT(30), <1>f, <2>1 DEF Process1, Jobs, Up
    <3>3. Intact'
      BY Zenon, <1>f, <2>1 DEF Intact, Kept, Sound
    <3>4. Safe'
      BY Zenon, <1>f, <2>1 DEF Safe, Excused, Marked, Booted, Proven, Good
    <3>5. QED
      BY Zenon, <3>1, <3>2, <3>3, <3>4
  <2>2. CASE (Sealing \/ Recording) /\ purpose # "revert" /\ UNCHANGED leased
    <3>1. Unhurried
      BY Zenon, <1>f, <2>2 DEF Process1, Unhurried
    <3>2. QED
      BY Zenon, <1>f, <2>0, <2>2, <3>1, EndsStep
  <2>3. CASE purpose = "revert" /\ pc' = "forget" /\ ClearJob /\ UNCHANGED <<verdict, leased>>
    <3> USE DEF ClearJob
    <3>1. TypeOK'
      BY ZenonT(60), <1>f, <2>0, <2>3, Constants DEF TypeOK
    <3>2. Process1' /\ Jobs'
      BY Zenon, <1>f, <2>3 DEF Process1, Jobs, Up
    <3>3. Intact'
      BY Zenon, <1>f, <2>3 DEF Intact, Kept, Sound
    <3>4. Safe'
      BY Zenon, <1>f, <2>3 DEF Safe, Excused, Marked, Booted, Proven, Good
    <3>5. QED
      BY Zenon, <3>1, <3>2, <3>3, <3>4
  <2>4. \A v \in {"applied", "unchanged", "rejected"} : Seal(v) => Sealing
    BY Zenon DEF Seal, Sealing, ClearJob
  <2>5. QED
    BY ZenonT(60), <1>2, <2>1, <2>2, <2>3, <2>4, RecordManifestFailureEnds DEF Written
<1>3. QED
  BY Zenon, <1>1, <1>2 DEF WriteLastGood

-----------------------------------------------------------------------------
(* Updating *)

LEMMA ExecuteStep ==
    ASSUME IInv, Execute
    PROVE  IInv'
<1> USE DEF IInv, Execute, jobVars, diskVars
<1>1. TypeOK'
  <2>1. issued' \in 0 .. MaxCommands
    BY SMTT(60), ComponentAssumption DEF TypeOK
  <2>2. goal' \in Roots \cup {NoRoot} /\ command' \in {"none", "update", "rollback"}
    BY SMTT(60), Constants DEF TypeOK
  <2>3. QED
    BY SMTT(60), <2>1, <2>2 DEF TypeOK
<1>2. Process1' /\ Jobs'
  BY Zenon DEF Process1, Jobs, Up
<1>3. Intact'
  BY Zenon DEF Intact, Kept, Sound
<1>4. Safe'
  BY Zenon DEF Safe, Excused, Marked, Booted, Proven, Good
<1>5. QED
  BY Zenon, <1>1, <1>2, <1>3, <1>4

\* While the process runs, the active root has booted unless an activation is
\* waiting for its restart.
LEMMA BootedUnlessActivated ==
    ASSUME IInv, pc \in Up, ~Unbooted
    PROVE  Booted(state)
<1>1. leased = NoRoot \/ quality[leased.artifact] = "good"
  BY Zenon DEF IInv, Process1
<1>2. state.active.root \in roots => state.active.root = leased /\ leased # NoRoot
  BY ZenonT(60), Constants DEF Unbooted, IInv, TypeOK
<1>3. QED
  BY Zenon, <1>1, <1>2 DEF Booted, Good

LEMMA CompareStep ==
    ASSUME IInv, pc = "check", NEW m \in Manifests, Compare(m),
           UNCHANGED <<diskVars, command, leased, guarded, quality, goal, hurt, restored,
                       issued, faults>>
    PROVE  IInv'
<1> USE DEF IInv, diskVars, historyVars
<1>0. before' = state /\ target' = m /\ state \in Documents
  BY Zenon DEF Compare, TypeOK
<1>1. CASE /\ doc' = state /\ purpose' = "accept" /\ verdict' = "unchanged"
           /\ pc' = "collect" /\ UNCHANGED <<candidate, hasty>>
  <2>1. TypeOK'
    BY SMTT(60), <1>0, <1>1 DEF TypeOK
  <2>2. Process1' /\ Jobs'
    BY Zenon, <1>0, <1>1 DEF Process1, Jobs, Up
  <2>3. Intact'
    BY Zenon, <1>0, <1>1 DEF Intact, Kept, Sound
  <2>4. Safe'
    BY Zenon, <1>0, <1>1 DEF Safe, Excused, Marked, Booted, Proven, Good
  <2>5. QED
    BY ZenonT(60), <2>1, <2>2, <2>3, <2>4
<1>2. CASE /\ pc' = "write" /\ purpose' \in {"accept", "record"}
           /\ doc' \in Documents /\ doc'.active = state.active /\ doc'.previous = state.previous
           /\ UNCHANGED <<candidate, verdict, hasty>>
  <2>1. TypeOK'
    BY SMTT(30), <1>0, <1>2 DEF TypeOK
  <2>2. Process1' /\ Jobs'
    BY Zenon, <1>0, <1>2 DEF Process1, Jobs, Up
  <2>3. Intact'
    BY Zenon, <1>0, <1>2 DEF Intact, Kept, Sound
  <2>4. Safe'
    BY Zenon, <1>0, <1>2 DEF Safe, Excused, Marked, Booted, Proven, Good
  <2>5. QED
    BY Zenon, <2>1, <2>2, <2>3, <2>4
<1>3. CASE /\ pc' = "write" /\ purpose' = "accept"
           /\ doc' \in Documents /\ doc'.active.root = state.active.root
           /\ doc'.previous = state.previous
           /\ hasty' = (hasty \/ Unbooted) /\ UNCHANGED <<candidate, verdict>>
  <2>1. TypeOK'
    <3>1. hasty' \in BOOLEAN
      BY Zenon, <1>3 DEF TypeOK
    <3>2. QED
      BY SMTT(60), <1>0, <1>3, <3>1 DEF TypeOK
  <2>2. Process1' /\ Jobs'
    BY ZenonT(30), <1>0, <1>3 DEF Process1, Jobs, Up
  <2>3. Intact'
    BY Zenon, <1>0, <1>3 DEF Intact, Kept, Sound
  <2>4. Safe'
    <3>1. CASE Unbooted
      BY ZenonT(30), <1>3, <3>1 DEF Safe, Excused
    <3>2. CASE ~Unbooted
      <4>1. Booted(state)
        BY ZenonT(60), <3>2, BootedUnlessActivated DEF Up
      <4>2. QED
        BY ZenonT(30), <1>0, <1>3, <3>2, <4>1 DEF Safe, Excused, Marked, Booted, Proven, Good
    <3>3. QED
      BY Zenon, <3>1, <3>2
  <2>5. QED
    BY Zenon, <2>1, <2>2, <2>3, <2>4
<1>4. CASE pc' = "stage" /\ UNCHANGED <<candidate, doc, purpose, verdict, hasty>>
  <2>1. TypeOK'
    BY <1>0, <1>4 DEF TypeOK
  <2>2. Process1' /\ Jobs'
    BY ZenonT(60), <1>0, <1>4 DEF Process1, Jobs, Up
  <2>3. Intact'
    BY Zenon, <1>0, <1>4 DEF Intact, Kept, Sound
  <2>4. Safe'
    BY Zenon, <1>0, <1>4 DEF Safe, Excused, Marked, Booted, Proven, Good
  <2>5. QED
    BY Zenon, <2>1, <2>2, <2>3, <2>4
<1>5. [manifest |-> m, retry |-> "never"] \in Rejections
  BY Zenon DEF Rejections
<1>6. /\ Accept(state, m) \in Documents
      /\ Accept(state, m).active = state.active /\ Accept(state, m).previous = state.previous
      /\ [state EXCEPT !.rejected = [manifest |-> m, retry |-> "never"]] \in Documents
      /\ [state EXCEPT !.rejected = [manifest |-> m, retry |-> "never"]].active = state.active
      /\ [state EXCEPT !.rejected = [manifest |-> m, retry |-> "never"]].previous = state.previous
  <2>1. NoEntry \in Entries
    BY Zenon, Constants
  <2>2. QED
    BY ZenonT(30), <1>0, <1>5, <2>1, DocumentTypes
<1>7. Usable(state.active) =>
        /\ [Accept(state, m) EXCEPT !.active.manifest = m] \in Documents
        /\ [Accept(state, m) EXCEPT !.active.manifest = m].active.root = state.active.root
        /\ [Accept(state, m) EXCEPT !.active.manifest = m].previous = state.previous
  BY Zenon, <1>0, RenameType DEF Usable
<1>8. QED
  BY ZenonT(30), <1>1, <1>2, <1>3, <1>4, <1>6, <1>7 DEF Compare, Write

LEMMA CheckStep ==
    ASSUME IInv, Check
    PROVE  IInv'
<1>1. CASE \E m \in Manifests : Compare(m)
  BY Zenon, <1>1, CompareStep DEF Check
<1>2. CASE Seal("rejected") /\ UNCHANGED hasty
  <2>1. Unhurried /\ Sealing
    BY Zenon, <1>2 DEF Check, IInv, Process1, Unhurried, Sealing, Seal, ClearJob, Up
  <2>2. lastGood' \in Documents \cup {Missing} /\ faults' \in 0 .. MaxFaults
    BY Zenon DEF Check, diskVars, IInv, TypeOK
  <2>3. QED
    BY Zenon, <1>2, <2>1, <2>2, EndsStep DEF Check, diskVars, historyVars
<1>3. QED
  BY Zenon, <1>1, <1>2 DEF Check

LEMMA FailureStep ==
    ASSUME IInv, pc \in Up, NEW retry \in {"later", "never"}, RecordManifestFailure(retry),
           UNCHANGED <<diskVars, command, leased, guarded, historyVars, issued, faults>>
    PROVE  IInv'
<1>1. Unhurried /\ (Sealing \/ Recording)
  BY Zenon, RecordManifestFailureEnds DEF IInv, Process1, Unhurried
<1>2. lastGood' \in Documents \cup {Missing} /\ faults' \in 0 .. MaxFaults
  BY Zenon DEF diskVars, IInv, TypeOK
<1>3. QED
  BY Zenon, <1>1, <1>2, EndsStep DEF diskVars

LEMMA StageStep ==
    ASSUME IInv, Stage
    PROVE  IInv'
<1> USE DEF IInv, historyVars
<1> DEFINE a == Artifact[target]
<1>1. CASE /\ \E retry \in {"later", "never"} : RecordManifestFailure(retry)
           /\ UNCHANGED <<roots, partial, cache>>
  BY Zenon, <1>1, FailureStep DEF Stage, Up, diskVars
<1>2. CASE /\ pc = "stage" /\ pc' = "canary" /\ cache' = cache \cup {a}
           /\ candidate' \in roots' /\ candidate'.artifact = a
           /\ partial' \subseteq partial
           /\ \/ UNCHANGED roots
              \/ FreeInstalls(a) # {} /\ roots' = roots \cup {Fresh(a)}
           /\ UNCHANGED <<state, lastGood, pending, command, leased, guarded, historyVars,
                          issued, faults, before, target, doc, purpose, verdict>>
  <2>0. a \in Artifacts
    BY ZenonT(30), <1>2, ComponentAssumption DEF Jobs
  <2> HIDE DEF a
  <2>1. /\ roots' \subseteq Roots /\ partial' \subseteq Roots \ roots'
        /\ roots \subseteq roots'
        /\ \A r \in Referenced(state) : r \in roots' => r \in roots
    BY ZenonT(60), <1>2, <2>0, FreshIsFree DEF TypeOK
  <2>2. TypeOK'
    BY SMTT(60), <1>2, <2>0, <2>1 DEF TypeOK
  <2>3. Process1' /\ Jobs'
    BY Zenon, <1>2, <2>1 DEF Process1, Jobs, Up, TypeOK
  <2>4. Intact'
    BY ZenonT(30), <1>2, <2>1 DEF Intact, Kept, Sound
  <2>5. Safe'
    <3>1. /\ state.active.root \in roots' => state.active.root \in roots
          /\ state.previous.root \in roots' => state.previous.root \in roots
      BY Zenon, <2>1, Constants DEF Referenced
    <3>2. QED
      BY ZenonT(30), <1>2, <3>1 DEF Safe, Excused, Marked, Booted, Proven, Good
  <2>6. QED
    BY Zenon, <2>2, <2>3, <2>4, <2>5
<1>3. Stage => \/ /\ \E retry \in {"later", "never"} : RecordManifestFailure(retry)
                  /\ UNCHANGED <<roots, partial, cache>>
               \/ /\ pc = "stage" /\ pc' = "canary" /\ cache' = cache \cup {a}
                  /\ candidate' \in roots' /\ candidate'.artifact = a
                  /\ partial' \subseteq partial
                  /\ \/ UNCHANGED roots
                     \/ FreeInstalls(a) # {} /\ roots' = roots \cup {Fresh(a)}
                  /\ UNCHANGED <<state, lastGood, pending, command, leased, guarded, historyVars,
                                 issued, faults, before, target, doc, purpose, verdict>>
  <2>1. Fresh(a).artifact = a
    BY Zenon DEF Fresh
  <2>2. QED
    BY SMTT(60), <2>1 DEF Stage
<1>4. QED
  BY Zenon, <1>1, <1>2, <1>3

LEMMA CanaryStep ==
    ASSUME IInv, Canary
    PROVE  IInv'
<1> USE DEF IInv, historyVars, diskVars, jobVars
<1>1. CASE RecordManifestFailure("never")
  BY Zenon, <1>1, FailureStep DEF Canary, Up
<1>2. CASE pc' = "mark" /\ UNCHANGED jobVars
  <2> USE DEF Canary
  <2>1. TypeOK'
    BY SMTT(60), <1>2 DEF TypeOK
  <2>2. Process1' /\ Jobs'
    BY Zenon, <1>2 DEF Process1, Jobs, Up
  <2>3. Intact'
    BY Zenon, <1>2 DEF Intact, Kept, Sound
  <2>4. Safe'
    BY Zenon, <1>2 DEF Safe, Excused, Marked, Booted, Proven, Good
  <2>5. QED
    BY Zenon, <2>1, <2>2, <2>3, <2>4
<1>3. QED
  BY Zenon, <1>1, <1>2 DEF Canary

LEMMA MarkStep ==
    ASSUME IInv, Mark
    PROVE  IInv'
<1> USE DEF IInv
<1> DEFINE d == Activate(before, target, [root |-> candidate, manifest |-> target])
<1>0. /\ pc = "mark" /\ pc' = "write" /\ faults' \in 0 .. MaxFaults
      /\ hasty' = (hasty \/ Unbooted) /\ hasty' \in BOOLEAN
      /\ UNCHANGED <<state, lastGood, roots, partial, cache, command, leased, guarded,
                     before, target, candidate, verdict, quality, goal, hurt, restored, issued>>
      /\ before = state /\ target \in Manifests /\ candidate \in Roots
      /\ state \in Documents
  BY Zenon, FaultType DEF Mark, Write, Jobs, TypeOK
<1>b. ~hasty' => Booted(state)
  BY ZenonT(60), <1>0, BootedUnlessActivated DEF Up
<1>1. CASE pending' = target /\ doc' = d /\ purpose' = "commit"
  <2>1. /\ d \in Documents /\ d.active.root = candidate /\ d.active.manifest = target
        /\ d.previous = IF Usable(state.active) THEN state.active ELSE NoEntry
    <3>1. [root |-> candidate, manifest |-> target] \in Entries
      BY Zenon, <1>0 DEF Entries
    <3>2. QED
      BY SMTT(60), <1>0, <3>1, ActivateType
  <2> HIDE DEF d
  <2>2. TypeOK'
    BY ZenonT(60), <1>0, <1>1, <2>1 DEF TypeOK
  <2>3. Process1' /\ Jobs'
    BY Zenon, <1>0, <1>1 DEF Process1, Jobs, Up
  <2>4. Intact'
    BY <1>0, <1>1, <2>1 DEF Intact, Kept, Sound, Usable, NoEntry
  <2>5. Safe'
    <3>1. ASSUME ~hasty', ~restored
          PROVE  Marked(state)' /\ Proven(state)' /\ Booted(before)' /\ Proven(before)'
      BY ZenonT(60), <1>0, <1>b, <3>1 DEF Safe, Excused, Marked, Booted, Proven, Good
    <3>2. Marked(doc)'
      BY Zenon, <1>0, <1>1, <2>1, Constants DEF Marked
    <3>3. ASSUME ~hasty'
          PROVE  Proven(doc)'
      <4>1. Good(state.active.root) /\ NoRoot \notin roots
        BY ZenonT(60), <1>b, <3>3, Constants DEF Booted, TypeOK
      <4>2. QED
        BY SMTT(60), <1>0, <1>1, <2>1, <4>1 DEF Proven, Good, NoEntry
    <3>4. QED
      BY ZenonT(30), <1>0, <1>1, <3>1, <3>2, <3>3 DEF Safe, Excused
  <2>6. QED
    BY Zenon, <2>2, <2>3, <2>4, <2>5
<1>2. CASE doc' = before /\ purpose' = "undo" /\ UNCHANGED pending
  <2>1. TypeOK'
    BY SMTT(30), <1>0, <1>2 DEF TypeOK
  <2>2. Process1' /\ Jobs'
    BY Zenon, <1>0, <1>2 DEF Process1, Jobs, Up
  <2>3. Intact'
    BY Zenon, <1>0, <1>2 DEF Intact, Kept, Sound
  <2>4. Safe'
    BY ZenonT(30), <1>0, <1>2 DEF Safe, Excused, Marked, Booted, Proven, Good
  <2>5. QED
    BY Zenon, <2>1, <2>2, <2>3, <2>4
<1>3. QED
  BY Zenon, <1>1, <1>2 DEF Mark, Write

LEMMA SealStep ==
    ASSUME IInv, pc \in Up, NEW v \in {"applied", "unchanged", "rejected"}, Seal(v),
           UNCHANGED <<diskVars, command, leased, guarded, historyVars, issued, faults>>
    PROVE  IInv'
<1>1. Unhurried /\ Sealing
  BY Zenon DEF IInv, Process1, Unhurried, Sealing, Seal, ClearJob
<1>2. lastGood' \in Documents \cup {Missing} /\ faults' \in 0 .. MaxFaults
  BY Zenon DEF diskVars, IInv, TypeOK
<1>3. QED
  BY Zenon, <1>1, <1>2, EndsStep DEF diskVars

\* What is collected is referred to by neither the document nor the lease.
LEMMA CollectStep ==
    ASSUME IInv, Collect
    PROVE  IInv'
<1> USE DEF IInv, historyVars, jobVars
<1> DEFINE kept == Referenced(state)
<1>0. /\ pc = "collect" /\ state = doc
      /\ faults' \in 0 .. MaxFaults
      /\ UNCHANGED <<state, lastGood, pending, command, leased, guarded, historyVars,
                     issued>>
  BY Zenon, FaultType DEF Collect, Jobs
<1>1. CASE ~LeaseIntact /\ Seal(verdict) /\ NoFault /\ UNCHANGED <<roots, partial, cache>>
  <2>1. verdict \in {"applied", "unchanged", "rejected"}
    BY Zenon DEF TypeOK
  <2>2. QED
    BY Zenon, <1>0, <1>1, <2>1, SealStep DEF Up, diskVars, NoFault
<1>2. CASE /\ cache' \subseteq cache /\ \A r \in kept : r.artifact \in cache => r.artifact \in cache'
           /\ roots' \subseteq roots /\ kept \cap roots \subseteq roots'
           /\ partial' \subseteq Roots \ roots'
           /\ (pc' = "collect" /\ UNCHANGED jobVars) \/ Sealing
  <2>1. TypeOK'
    BY SMTT(30), <1>0, <1>2, Constants DEF TypeOK, Sealing
  <2>2. Process1' /\ Jobs'
    BY Zenon, <1>0, <1>2 DEF Process1, Jobs, Up, Sealing
  <2>3. Intact'
    <3>1. \A r \in kept \cup {NoRoot} : Sound(r) => Sound(r)'
      BY Zenon, <1>0, <1>2 DEF Sound
    <3>2. {state.active.root, state.previous.root, leased} \subseteq kept \cup {NoRoot}
      BY Zenon DEF Referenced
    <3> HIDE DEF kept
    <3>3. QED
      BY Zenon, <1>0, <1>2, <3>1, <3>2 DEF Intact, Kept, Sealing
  <2>4. Safe'
    BY Zenon, <1>0, <1>2 DEF Safe, Excused, Marked, Booted, Proven, Good, Sealing
  <2>5. QED
    BY Zenon, <2>1, <2>2, <2>3, <2>4
<1>3. CASE /\ cache' = {a \in cache : \E r \in kept : r.artifact = a}
           /\ \E r \in roots \ kept : roots' = roots \ {r} /\ partial' = partial \cup {r}
           /\ UNCHANGED <<pc, jobVars>>
  BY Zenon, <1>0, <1>2, <1>3 DEF TypeOK
<1>4. CASE /\ cache' = {a \in cache : \E r \in kept : r.artifact = a}
           /\ partial' = partial \cap kept /\ Seal(verdict) /\ UNCHANGED roots
  <2>1. Sealing
    BY Zenon, <1>4 DEF Seal, Sealing, ClearJob, TypeOK
  <2>2. QED
    BY Zenon, <1>0, <1>2, <1>4, <2>1 DEF TypeOK
<1>5. CASE /\ \E gone \in SUBSET {a \in cache : \A r \in kept : r.artifact # a} :
                 cache' = cache \ gone
           /\ Seal(verdict) /\ UNCHANGED <<roots, partial>>
  <2>1. Sealing
    BY Zenon, <1>5 DEF Seal, Sealing, ClearJob, TypeOK
  <2>2. QED
    BY Zenon, <1>0, <1>2, <1>5, <2>1 DEF TypeOK
<1>6. QED
  BY Zenon, <1>0, <1>1, <1>3, <1>4, <1>5 DEF Collect

LEMMA SwapStep ==
    ASSUME IInv, Swap
    PROVE  IInv'
<1> USE DEF IInv
<1> DEFINE d == [state EXCEPT !.active = state.previous, !.previous = state.active]
<1>1. CASE Seal("rejected") /\ UNCHANGED <<pending, hasty>>
  BY Zenon, <1>1, SealStep DEF Swap, Up, diskVars, historyVars
<1>2. CASE /\ Usable(state.previous) /\ pending' = state.previous.manifest
           /\ Write(d, "rollback") /\ hasty' = (hasty \/ Unbooted)
           /\ UNCHANGED <<before, target, candidate, verdict>>
  <2>0. /\ pc = "swap" /\ pc' = "write" /\ doc' = d /\ purpose' = "rollback"
        /\ UNCHANGED <<state, lastGood, roots, partial, cache, command, leased, guarded,
                       quality, goal, hurt, restored, issued, faults>>
    BY Zenon, <1>2 DEF Swap, Write
  <2>1. d \in Documents /\ d.active = state.previous /\ d.previous = state.active
    BY ZenonT(60), Constants DEF TypeOK, Documents
  <2> HIDE DEF d
  <2>2. TypeOK'
    <3>1. hasty' \in BOOLEAN /\ pending' \in Manifests \cup {0}
      BY Zenon, <1>2, Constants DEF TypeOK
    <3>2. QED
      BY SMTT(60), <1>2, <2>0, <2>1, <3>1 DEF TypeOK
  <2>3. Process1' /\ Jobs'
    BY ZenonT(30), <1>2, <2>0 DEF Process1, Jobs, Up
  <2>4. Intact'
    BY ZenonT(30), <1>2, <2>0, <2>1 DEF Intact, Kept, Sound
  <2>5. Safe'
    <3>1. ~hasty' => Booted(state)
      BY ZenonT(30), <1>2, <2>0, BootedUnlessActivated DEF Up
    <3>2. QED
      BY ZenonT(30), <1>2, <2>0, <2>1, <3>1 DEF Safe, Excused, Marked, Booted, Proven, Good
  <2>6. QED
    BY Zenon, <2>2, <2>3, <2>4, <2>5
<1>3. QED
  BY Zenon, <1>1, <1>2 DEF Swap

-----------------------------------------------------------------------------
(* The end of a command, and the environment *)

LEMMA FinishStep ==
    ASSUME IInv, Finish
    PROVE  IInv'
<1> USE DEF IInv, Finish, jobVars, diskVars
<1>1. TypeOK'
  BY SMTT(60) DEF TypeOK
<1>2. Process1' /\ Jobs'
  BY Zenon DEF Process1, Jobs, Up
<1>3. Intact'
  BY Zenon DEF Intact, Kept, Sound
<1>4. Safe'
  BY Zenon DEF Safe, Excused, Marked, Booted, Proven, Good
<1>5. QED
  BY Zenon, <1>1, <1>2, <1>3, <1>4

LEMMA AcknowledgeStep ==
    ASSUME IInv, Acknowledge
    PROVE  IInv'
<1> USE DEF IInv, Acknowledge, diskVars, historyVars
<1>1. TypeOK'
  BY SMTT(30), FaultType DEF TypeOK
<1>2. Process1' /\ Jobs'
  BY ZenonT(30) DEF Process1, Jobs, Up
<1>3. Intact'
  BY ZenonT(30) DEF Intact, Kept, Sound
<1>4. Safe'
  BY Zenon DEF Safe, Excused, Marked, Booted, Proven, Good
<1>5. QED
  BY Zenon, <1>1, <1>2, <1>3, <1>4

LEMMA CrashStep ==
    ASSUME IInv, Crash
    PROVE  IInv'
<1> USE DEF IInv, Crash, ClearJob, diskVars, historyVars
<1>1. TypeOK'
  <2>1. guarded' \in BOOLEAN /\ faults' \in 0 .. MaxFaults
    BY ZenonT(30), FaultType
  <2>2. QED
    BY Zenon, <2>1, Constants DEF TypeOK
<1>2. Process1' /\ Jobs'
  BY Zenon DEF Process1, Jobs, Up
<1>3. Intact'
  BY Zenon DEF Intact, Kept, Sound
<1>4. Safe'
  BY ZenonT(30) DEF Safe, Excused, Marked, Booted, Proven, Good
<1>5. QED
  BY Zenon, <1>1, <1>2, <1>3, <1>4

LEMMA TamperStep ==
    ASSUME IInv, Tamper
    PROVE  IInv'
<1> USE DEF IInv, jobVars
<1>0. /\ roots' \subseteq roots /\ partial' \subseteq Roots \ roots' /\ cache' \subseteq cache
      /\ hurt \subseteq hurt' /\ hurt' \subseteq Roots
      /\ \A r \in roots : r \in hurt' \/ (r \in roots' /\ (r.artifact \in cache => r.artifact \in cache'))
      /\ faults' \in 0 .. MaxFaults
      /\ UNCHANGED <<state, lastGood, pending, command, pc, leased, guarded, jobVars,
                     quality, goal, hasty, restored, issued>>
  BY Zenon, FaultType DEF Tamper, TypeOK
<1>1. TypeOK'
  BY SMTT(30), <1>0 DEF TypeOK
<1>2. Process1' /\ Jobs'
  BY Zenon, <1>0 DEF Process1, Jobs, Up
<1>3. Intact'
  <2>1. \A r : Sound(r) => Sound(r)'
    BY Zenon, <1>0 DEF Sound
  <2>2. QED
    BY Zenon, <1>0, <2>1 DEF Intact, Kept
<1>4. Safe'
  BY Zenon, <1>0 DEF Safe, Excused, Marked, Booted, Proven, Good
<1>5. QED
  BY Zenon, <1>1, <1>2, <1>3, <1>4

LEMMA RecoverLastGoodStep ==
    ASSUME IInv, RecoverLastGood
    PROVE  IInv'
<1> USE DEF IInv, RecoverLastGood, jobVars
<1>1. TypeOK'
  <2>1. restored' \in BOOLEAN /\ faults' \in 0 .. MaxFaults /\ state' \in Documents
    BY Zenon, FaultType, Constants DEF TypeOK
  <2>2. QED
    BY SMTT(30), <2>1 DEF TypeOK
<1>2. Process1' /\ Jobs'
  BY ZenonT(30) DEF Process1, Jobs, Up
<1>3. Intact' /\ Safe'
  BY Zenon DEF Intact, Safe, Excused
<1>4. QED
  BY Zenon, <1>1, <1>2, <1>3

-----------------------------------------------------------------------------
(* The invariant *)

LEMMA InitIInv ==
    Init => IInv
<1> SUFFICES ASSUME Init PROVE IInv
  BY Zenon
<1> USE DEF Init
<1>1. TypeOK
  <2>1. guarded \in BOOLEAN /\ hasty \in BOOLEAN /\ restored \in BOOLEAN
    BY ZenonT(30)
  <2>2. issued \in 0 .. MaxCommands /\ faults \in 0 .. MaxFaults
    BY ComponentAssumption
  <2>3. quality \in [Artifacts -> {"unknown", "good", "bad"}]
    BY Zenon
  <2>4. QED
    BY Zenon, <2>1, <2>2, <2>3, Constants DEF TypeOK
<1>2. Process1 /\ Jobs
  BY Zenon DEF Process1, Jobs, Up
<1>3. Intact
  BY Zenon DEF Intact, Kept, Sound, Empty, NoEntry
<1>4. Safe
  BY Zenon DEF Safe, Marked, Proven, Booted, Good
<1>5. QED
  BY Zenon, <1>1, <1>2, <1>3, <1>4 DEF IInv

LEMMA NextIInv ==
    IInv /\ [Next]_vars => IInv'
<1> SUFFICES ASSUME IInv, [Next]_vars PROVE IInv'
  BY Zenon
<1>1. CASE Process
  BY Zenon, <1>1, BootStep, ResolveStep, StartsStep, MarkActivationHealthyStep,
     RollbackFailedActivationStep, ForgetActivationStep, WriteStateStep, WriteLastGoodStep,
     CheckStep, StageStep, CanaryStep, MarkStep, CollectStep, SwapStep, FinishStep,
     AcknowledgeStep DEF Process
<1>2. CASE Execute \/ Crash \/ Tamper \/ RecoverLastGood
  BY Zenon, <1>2, ExecuteStep, CrashStep, TamperStep, RecoverLastGoodStep
<1>3. CASE UNCHANGED vars
  <2> USE DEF vars, diskVars, jobVars, historyVars
  <2>1. TypeOK'
    BY SMTT(30), <1>3 DEF IInv, TypeOK
  <2>2. Process1' /\ Jobs'
    BY Zenon, <1>3 DEF IInv, Process1, Jobs
  <2>3. Intact'
    BY ZenonT(30), <1>3 DEF IInv, Intact, Kept, Sound
  <2>4. Safe'
    BY Zenon, <1>3 DEF IInv, Safe, Excused, Marked, Booted, Proven, Good
  <2>5. QED
    BY Zenon, <2>1, <2>2, <2>3, <2>4 DEF IInv
<1>4. QED
  BY Zenon, <1>1, <1>2, <1>3 DEF Next

\* The inductive invariant holds in every reachable state.
THEOREM ComponentInvariant == Spec => []IInv
BY InitIInv, NextIInv, PTL DEF Spec

-----------------------------------------------------------------------------
(* What follows *)

\* Every document written by an update, a rollback, an undo or a revert is one
\* that the code can read back, and no complete root is listed as damaged.
THEOREM ComponentTypeCorrect == Spec => []TypeOK
<1>1. IInv => TypeOK
  BY Zenon DEF IInv
<1>2. QED
  BY <1>1, ComponentInvariant, PTL

\* collectGarbage, stageComponent and the undo of a failed commit keep what the
\* pointer, its fallback and the running process need.
THEOREM ReferencedRootsAreKept == Spec => []ReferencedRootsSurvive
<1>1. IInv => ReferencedRootsSurvive
  BY SMTT(30) DEF IInv, Intact, Kept, Sound, ReferencedRootsSurvive, Referenced
<1>2. QED
  BY <1>1, ComponentInvariant, PTL

\* A component that was never seen to boot is started under the marker that
\* onActivate wrote before the pointer moved.
THEOREM UnprovenComponentsAreGuarded == Spec => []UnprovenIsGuarded
<1>1. IInv => UnprovenIsGuarded
  BY ZenonT(30) DEF IInv, Safe, Excused, UnprovenIsGuarded
<1>2. QED
  BY <1>1, ComponentInvariant, PTL

\* rollbackFailedComponentActivation and checkAndApplyOnce make only a component
\* that has booted the fallback.
THEOREM FailedCandidatesAreDropped == Spec => []FailedIsNeverPrevious
<1>1. IInv => FailedIsNeverPrevious
  BY ZenonT(60) DEF IInv, Safe, Excused, Proven, Good, FailedIsNeverPrevious, Usable
<1>2. QED
  BY <1>1, ComponentInvariant, PTL

\* A component that does not boot is under its marker and has an intact
\* fallback, so that the failed start that follows reverts it.
THEOREM FailedBootsAreReverted == Spec => []NoBootLoop
<1>1. ASSUME IInv, BootLoop, ~hasty, ~restored
      PROVE  hurt # {}
  <2>1. ~Booted(state)
    BY Zenon, <1>1 DEF BootLoop, Usable, Booted, Good
  <2>2. PendingCurrent
    BY Zenon, <1>1, <2>1 DEF IInv, Safe, Excused, Marked, PendingCurrent
  <2>3. state.previous # NoEntry /\ ~Usable(state.previous)
    BY Zenon, <1>1, <2>2 DEF BootLoop
  <2>4. state.previous.root # NoRoot
    BY Zenon, <1>1, <2>3, Constants DEF IInv, TypeOK
  <2>5. QED
    BY ZenonT(60), <1>1, <2>3, <2>4 DEF IInv, Intact, Kept, Sound, Usable
<1>2. IInv => NoBootLoop
  BY Zenon, <1>1 DEF NoBootLoop
<1>3. QED
  BY <1>2, ComponentInvariant, PTL
=============================================================================
