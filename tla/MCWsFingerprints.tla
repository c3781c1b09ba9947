-------------------------- MODULE MCWsFingerprints --------------------------
(* Small instances of WsFingerprints: the ratios of the constants keep the *)
(* order debounce < prune interval < retention of the code.                *)
EXTENDS WsFingerprints

CONSTANTS f1, f2

MCFingerprints == {f1, f2}
MCStepSizes == {-3, 2}
MCClockRange == -3..6
=============================================================================
