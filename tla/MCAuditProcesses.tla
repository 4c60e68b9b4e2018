-------------------------- MODULE MCAuditProcesses --------------------------
(***************************************************************************)
(* AuditProcesses in chains of three packages.                              *)
(***************************************************************************)
EXTENDS AuditProcesses, MCWorlds

ProcessWorlds ==
    {[w EXCEPT !.rustc = v] : v \in 0 .. 2, w \in
        {Short,
         [Short EXCEPT !.flaky = {<<"q", 10>>}, !.rufs[<<"q", 10>>] = Uses("fresh"),
                       !.refused = @ \cup {<<"q", 10>>}, !.build[<<"d", 12>>] = {"stable"}],
         [Short EXCEPT !.rufs[<<"q", 10>>] = Uses("gone")]}}
    \cup {[Short EXCEPT !.rufs[<<"q", 10>>] = Uses("odd")]}
MCVerbosity == BOOLEAN
=============================================================================
