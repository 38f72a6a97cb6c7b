--------------------------- MODULE MCWindowCapture ---------------------------
(* A thread that starts and stops, another that only stops, two callbacks.    *)
EXTENDS WindowCapture
=============================================================================
