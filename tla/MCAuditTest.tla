---------------------------- MODULE MCAuditTest -----------------------------
(* AuditTest with the worlds of MCWorlds in which every question is met.    *)
EXTENDS AuditTest, MCWorlds

\* The newest d uses a feature the table does not have; the older ones are
\* usable with the project's rustc, with another one, or not at all.
TestWorlds ==
    Corners \cup Climbs \cup TwoMajors \cup
    {[w EXCEPT !.rufs[<<"d", 13>>] = {}] : w \in TwoMajors} \cup
    {[Plain EXCEPT !.rufs[<<"d", 11>>] = d11, !.rufs[<<"d", 12>>] = d12,
                   !.rufs[<<"d", 13>>] = Uses("odd"),
                   !.refused = {<<"d", 11>>, <<"d", 12>>, <<"d", 13>>}, !.rustc = v] :
        d11 \in {Uses("gone"), Uses("odd"), Uses("fresh")},
        d12 \in {Uses("odd"), Uses("fresh")}, v \in {0, 1, 2}}
=============================================================================
