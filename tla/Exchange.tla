------------------------------ MODULE Exchange ------------------------------
(***************************************************************************)
(* What rendezvous(2) promises: a process arrives and waits until another  *)
(* one arrives; then, in one moment, each has the value of the other.  Or  *)
(* it is interrupted and has ~0.  Who may meet whom (the tags) is not said *)
(* here; a value is named by the process that brings it.                   *)
(***************************************************************************)
CONSTANTS Proc, Interrupted

VARIABLE call     \* [Proc -> "idle", "waiting", or the value it returns]

Init == call = [p \in Proc |-> "idle"]

Arrive(p) ==
    /\ call[p] = "idle"
    /\ call' = [call EXCEPT ![p] = "waiting"]

Meet(p, q) ==
    /\ call[p] = "idle" /\ call[q] = "waiting"
    /\ call' = [call EXCEPT ![p] = q, ![q] = p]

Interrupt(p) ==
    /\ call[p] = "waiting"
    /\ call' = [call EXCEPT ![p] = Interrupted]

Return(p) ==
    /\ call[p] \in Proc \cup {Interrupted}
    /\ call' = [call EXCEPT ![p] = "idle"]

Next ==
    \E p \in Proc : \/ Arrive(p) \/ Interrupt(p) \/ Return(p)
                    \/ \E q \in Proc : Meet(p, q)

Spec == Init /\ [][Next]_call
=============================================================================
