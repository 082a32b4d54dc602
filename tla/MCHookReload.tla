--------------------------- MODULE MCHookReload ---------------------------
(***************************************************************************)
(* HookReload for TLC: two directories of one project, and two commands    *)
(* that trust other projects.  The functions a load is made of are checked *)
(* by the assumptions of the other modules.                                *)
(***************************************************************************)
EXTENDS HookReload, HookSchema, HookImports, ConfigPaths

MCEdits == (Files \X {"absent", "valid", "broken"}) \ {<<"global", "absent">>, <<"imported", "broken">>}

MCSymmetry == Permutations(Dirs) \cup Permutations(Commands)
=============================================================================
