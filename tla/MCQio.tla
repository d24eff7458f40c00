------------------------------- MODULE MCQio -------------------------------
(* Instances of Qio for TLC.                                                *)
EXTENDS Qio

\* A write of nothing, and one that a read of one byte has to split.
MCData == {<<>>, <<"x", "y">>}
=============================================================================
