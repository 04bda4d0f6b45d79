------------------------ MODULE MCGameThreadActions ------------------------
(***************************************************************************)
(* GameThreadActions for TLC, with what docs/lua-api/global-functions/     *)
(* delayedactions.md says of delayed actions.                              *)
(***************************************************************************)
EXTENDS GameThreadActions

\* delayedactions.md:69: a loop continues until it is cancelled.  One that is
\* marked executing while no pass will settle it never runs again.
LoopsContinue ==
  \A a \in Actions : (act[a].looping /\ act[a].status = "Executing") =>
    \E p \in Passes : \E e \in PassOf(p).ready : e.id = a
=============================================================================
