--------------------------- MODULE MCCrashMonitor ---------------------------
(* CrashMonitor for TLC: hosts that share one socket name, and every call   *)
(* may fail.                                                                *)
EXTENDS CrashMonitor

AnyFailure == Failures
=============================================================================
