----------------------------- MODULE MCEventLoop -----------------------------
(***************************************************************************)
(* EventLoop for TLC: two mods with directories, one enabled by mods.txt   *)
(* (and again by enabled.txt), one by neither.                             *)
(***************************************************************************)
EXTENDS EventLoop

CONSTANTS a, b

TheDirectory == <<a, b>>
TheModsTxt == <<[name |-> b, on |-> FALSE], [name |-> a, on |-> TRUE]>>
TheEnabledTxt == <<a>>

\* modmanagement.md:7: a restart is queued for the next update cycle, so one that
\* has been queued is carried out, unless the program shuts down.
RestartIsCarriedOut == RequestsAreServed
=============================================================================
