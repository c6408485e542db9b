--------------------------- MODULE MCClientShell ---------------------------
EXTENDS ClientShell
=============================================================================
