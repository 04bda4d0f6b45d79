---------------------------- MODULE MCLinuxStartup ----------------------------
(***************************************************************************)
(* LinuxStartup for TLC: LD_PRELOAD unset, empty, and with libraries of    *)
(* the user's, UE4SS itself among them.                                    *)
(***************************************************************************)
EXTENDS LinuxStartup, TLC

UserPreloads == {{}, {<<>>}, {<<"other">>}, {<<"other", "ue4ss">>}}

\* Processes are interchangeable.
Symmetry == Permutations(Procs)
=============================================================================
