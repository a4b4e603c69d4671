---- MODULE MCFakeVid ----
EXTENDS FakeVid
====
