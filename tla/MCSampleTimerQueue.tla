------------------------- MODULE MCSampleTimerQueue -------------------------
(* Small instances of SampleTimerQueue for TLC. *)
EXTENDS SampleTimerQueue
=============================================================================
