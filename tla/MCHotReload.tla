----------------------------- MODULE MCHotReload -----------------------------
(***************************************************************************)
(* HotReload for TLC, with what the comment in LuaMod::uninstall says.     *)
(***************************************************************************)
EXTENDS HotReload, TLC

\* The mods are interchangeable.
Symmetry == Permutations(Mods)

\* LuaMod.cpp:6070-6071: the actions are erased before the state is closed, since
\* otherwise a hook may execute them with an invalid Lua state.
NeverInvalidState == CallbackStateOpen
=============================================================================
