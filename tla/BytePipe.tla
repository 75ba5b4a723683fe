------------------------------ MODULE BytePipe ------------------------------
(***************************************************************************)
(* What a runtime stream promises the two processes it joins: each reads   *)
(* the bytes the other wrote, in order and each once, for as long as both  *)
(* sides are up.  A side may break off at any time; but a side that is     *)
(* told the other one has finished has received everything it sent.        *)
(***************************************************************************)
EXTENDS Integers, Sequences

CONSTANTS
  Sizes,      \* sizes of the pieces bytes come in
  MaxBytes    \* MaxBytes[x]: how much the process at x may write

VARIABLES
  read,   \* read[x]: how many bytes were taken from the process at x
  got,    \* got[x]: the bytes handed to the process at x, byte n being n
  how     \* how[x]: "running", or the way x was closed

vars == <<read, got, how>>

Ends == {"source", "destination"}
Peer(x) == IF x = "source" THEN "destination" ELSE "source"

\* The n bytes that follow byte k.
Bytes(k, n) == [i \in 1..n |-> k + i]

Init ==
  /\ read = [x \in Ends |-> 0]
  /\ got = [x \in Ends |-> <<>>]
  /\ how = [x \in Ends |-> "running"]

Read(x, n) ==
  /\ how[x] = "running" /\ read[x] + n <= MaxBytes[x]
  /\ read' = [read EXCEPT ![x] = @ + n]
  /\ UNCHANGED <<got, how>>

Deliver(x, n) ==
  /\ how[x] = "running" /\ Len(got[x]) + n <= read[Peer(x)]
  /\ got' = [got EXCEPT ![x] = @ \o Bytes(Len(@), n)]
  /\ UNCHANGED <<read, how>>

Complete(x) == how[Peer(x)] = "end" /\ Len(got[x]) = read[Peer(x)]

Close(x, w) ==
  /\ how[x] = "running"
  /\ w = "ended" => Complete(x)
  /\ how' = [how EXCEPT ![x] = w]
  /\ UNCHANGED <<read, got>>

Next ==
  \E x \in Ends :
    \/ \E n \in Sizes : Read(x, n) \/ Deliver(x, n)
    \/ \E w \in {"end", "ended", "error"} : Close(x, w)

Spec == Init /\ [][Next]_vars

=============================================================================
