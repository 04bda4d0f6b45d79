----------------------------- MODULE MCLuaHooks ------------------------------
(***************************************************************************)
(* LuaHooks for TLC, with what the comment in LuaMod::uninstall says.      *)
(***************************************************************************)
EXTENDS LuaHooks, TLC

\* The mods are interchangeable.
Symmetry == Permutations(Mods)

\* LuaMod.cpp:6046: "Unhook all UFunctions for this mod BEFORE closing Lua state".
UnhookedBeforeClose == CallbackStateOpen
=============================================================================
