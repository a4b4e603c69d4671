---------------------------- MODULE MCDmTimer ----------------------------
EXTENDS DmTimer
===========================================================================
