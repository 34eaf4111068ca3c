--------------------------- MODULE MCBleTransfer ---------------------------
(* Model values for the runs of BleTransfer.                               *)
EXTENDS BleTransfer
CONSTANTS main, a, fallback
=============================================================================
