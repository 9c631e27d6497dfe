--------------------------- MODULE MCTimerDriver ----------------------------
(***************************************************************************)
(* Programs for TimerDriver: no timer; one; two whose rates divide each    *)
(* other; two that are coprime; three of which two are equal.              *)
(***************************************************************************)
EXTENDS TimerDriver

MCRates == {<<>>, <<5>>, <<1, 2>>, <<2, 3>>, <<2, 1, 2>>}
=============================================================================
