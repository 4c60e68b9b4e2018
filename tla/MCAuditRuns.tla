---------------------------- MODULE MCAuditRuns -----------------------------
(***************************************************************************)
(* AuditRuns in small diamonds, each with every rustc the project may have: *)
(* a plain one; one whose older d needs an older rustc or a newer one;      *)
(* wrappers that fail now and then; a ruf that the audit's own rustc        *)
(* accepts; a longer chain, in which nothing helps; one with a build script *)
(* and a ruf that comes with an older p.                                    *)
(***************************************************************************)
EXTENDS AuditRuns, MCWorlds

RunWorlds ==
    {[w EXCEPT !.rustc = v] : v \in 0 .. 2, w \in
        {Short,
         [Short EXCEPT !.rufs[<<"d", 12>>] = Uses("gone"), !.refused = @ \cup {<<"d", 12>>}],
         [Short EXCEPT !.rufs[<<"d", 12>>] = Uses("fresh"), !.refused = @ \cup {<<"d", 12>>}],
         [Short EXCEPT !.flaky = {<<"q", 10>>}, !.rufs[<<"q", 10>>] = Uses("fresh"),
                       !.refused = @ \cup {<<"q", 10>>}],
         [Short EXCEPT !.rufs[<<"q", 10>>] = Uses("gone")],
         [Plain EXCEPT !.rufs[<<"d", 12>>] = Uses("odd"), !.rufs[<<"d", 11>>] = Uses("fresh"),
                       !.refused = @ \cup {<<"d", 11>>, <<"d", 12>>}],
         [Plain EXCEPT !.rufs[<<"p", 11>>] = Uses("fresh"), !.build[<<"q", 10>>] = {"stable"},
                       !.refused = @ \cup {<<"p", 11>>}]}}
=============================================================================
