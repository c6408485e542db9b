--------------------------- MODULE MCPerfHarness ---------------------------
(* Model-checking instance of PerfHarness; each .cfg gives the constants. *)
EXTENDS PerfHarness

\* A negative num_messages, as int(sys.argv[2]) accepts.
MCNegativeMessages == -1

=============================================================================
