---------------------------- MODULE MCFuseHarness ----------------------------
EXTENDS FuseHarness
=============================================================================
