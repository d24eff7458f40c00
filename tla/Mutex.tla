------------------------------- MODULE Mutex -------------------------------
(***************************************************************************)
(* What a blocking mutual exclusion lock promises its callers, whatever    *)
(* the representation: one owner at a time, a caller that finds the lock   *)
(* taken waits, and a release either frees the lock or passes it straight  *)
(* to one of the waiters.  Passing it on is the only way it may leave the  *)
(* owner while somebody waits: no third process can barge in.              *)
(* Qlock.tla (kernel/concurrency/qlock.c) is shown to implement it.        *)
(***************************************************************************)
CONSTANTS Proc,     \* the processes
          NoProc    \* "nobody", the nil of the code

VARIABLES owner,    \* the process the lock belongs to
          waiting   \* the processes blocked on it

vars == <<owner, waiting>>

TypeOK == owner \in Proc \cup {NoProc} /\ waiting \subseteq Proc

Init == owner = NoProc /\ waiting = {}

Acquire(p) ==
    /\ owner = NoProc
    /\ owner' = p
    /\ UNCHANGED waiting

Block(p) ==
    /\ owner \notin {NoProc, p}
    /\ p \notin waiting
    /\ waiting' = waiting \cup {p}
    /\ UNCHANGED owner

Free(p) ==
    /\ owner = p
    /\ waiting = {}
    /\ owner' = NoProc
    /\ UNCHANGED waiting

Pass(p, q) ==
    /\ owner = p
    /\ q \in waiting
    /\ owner' = q
    /\ waiting' = waiting \ {q}

Next ==
    \/ \E p \in Proc : Acquire(p) \/ Block(p) \/ Free(p)
    \/ \E p, q \in Proc : Pass(p, q)

Spec == Init /\ [][Next]_vars
=============================================================================
