---------------------------- MODULE MCGrabber ----------------------------
(* Values of -c: none, some, and a negative one, which is read as UINT - 1. *)
EXTENDS Grabber

MCFrameCounts == {0, 2, -1}
===========================================================================
