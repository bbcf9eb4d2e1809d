------------------------------- MODULE MCRunLoop -------------------------------
(***************************************************************************)
(* RunLoop with two signals, so that one handler can interrupt another.    *)
(***************************************************************************)
EXTENDS RunLoop

MCSignals == {1, 2}
===============================================================================
