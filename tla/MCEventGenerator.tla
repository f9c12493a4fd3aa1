-------------------------- MODULE MCEventGenerator --------------------------
(* The instance of EventGenerator for TLC.                                      *)
EXTENDS EventGenerator

\* Below, at and above the bad rates, with a period of five ticks to none.
SomeRates == {-6, -5, -1, 0, 1, 2, 5, 7}
=============================================================================
