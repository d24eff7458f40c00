------------------------------- MODULE MCMnt -------------------------------
(* The instance of Mnt for TLC.  The tag t3 goes from one process to        *)
(* another and back; everybody finds enough tags, whatever others hold.     *)
EXTENDS Mnt

CONSTANTS p1, p2, p3, t1, t2, t3, t4

MCPool ==
    [p \in Proc |->
        CASE p = p1 -> {t1, t2, t3} [] p = p2 -> {t3} [] p = p3 -> {t4}]
=============================================================================
