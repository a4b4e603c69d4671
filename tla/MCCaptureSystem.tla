------------------------- MODULE MCCaptureSystem -------------------------
(* Values of -c: none, and more frames than there are buffers.             *)
EXTENDS CaptureSystem

MCFrameCounts == {0, 6}
===========================================================================
