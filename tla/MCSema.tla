------------------------------- MODULE MCSema -------------------------------
(* Instances of Sema for TLC: a semaphore with units, and one that nobody   *)
(* ever releases.                                                           *)
EXTENDS Sema

CONSTANTS p1, p2, p3, a1, a2, Units

MCPermits == [a \in Addr |-> IF a = a1 THEN Units ELSE 0]

MCCalls ==
    [p \in Proc |->
        CASE p = p1 -> {<<a1, "poll">>, <<a1, "timed">>}
          [] p = p2 -> {<<a1, "block">>}
          [] p = p3 -> {<<a1, "block">>, <<a2, "block">>}]
=============================================================================
