---------------------------- MODULE MCAutoReload ----------------------------
(***************************************************************************)
(* AutoReload for TLC.                                                     *)
(***************************************************************************)
EXTENDS AutoReload

\* Where the rate limit is stamped after the callback, the callback may be slow.
SlowCallbackOnWindows == [p \in Platforms |-> IF p = "windows" THEN {"callback"} ELSE {}]
=============================================================================
