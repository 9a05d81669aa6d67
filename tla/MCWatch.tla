------------------------------ MODULE MCWatch ------------------------------
(* Time in units of 100 ms: MIN_INTERVAL_MS is 1, DEBOUNCE_MS is 2.          *)
EXTENDS Watch

MCIntervals == {0, 1, 2, 5}
=============================================================================
