------------------------------ MODULE MCWorlds ------------------------------
(***************************************************************************)
(* Constants and worlds for checking with TLC.  The audited rustc is version *)
(* 1 of the 3 the table covers: "stable" is usable in all of them, "gone"   *)
(* only before it, "fresh" only after it, "odd" is not in the table.        *)
(* The crates app, s, q, p and d make diamonds: each is required by two     *)
(* packages whose requirements have different lowest versions.              *)
(***************************************************************************)
EXTENDS Registry, TLC

MCCrates == {"app", "s", "q", "p", "d"}
MCVersions == {10, 11, 12, 13, 20}
MCCrateNames == MCCrates \cup {"renamed", "build_script_build"}
MCCfgs == {"std", "quoted"}
MCNotJson == {"quoted"}
MCRufs == {"stable", "gone", "fresh", "odd"}
MCKnownRufs == {"stable", "gone", "fresh"}
MCRufLifetime ==
    [ruf \in MCKnownRufs |->
        CASE ruf = "stable" -> [ver \in 0 .. 2 |-> <<1, 3, 3>>[ver + 1]]
          [] ruf = "gone"   -> [ver \in 0 .. 2 |-> <<1, 4, 4>>[ver + 1]]
          [] ruf = "fresh"  -> [ver \in 0 .. 2 |-> <<0, 0, 2>>[ver + 1]]]

App == <<"app", 10>>
Dep(name, lo, hi) == [name |-> name, lo |-> lo, hi |-> hi, dev |-> FALSE]
Uses(feature) == {[cond |-> <<>>, feature |-> feature]}
UsesIf(set, feature) == {[cond |-> <<"std", set>>, feature |-> feature]}

\* A world with given packages and rufs (a package not in rufs uses none):
\* nothing local but app, nothing renamed, nothing that fails, every crate known
\* to the database, and the packages with a ruf the project's rustc lacks
\* refused by the audit's rustc too.
World(deps, rufs) ==
    [deps |-> deps, root |-> App, members |-> {App}, local |-> {App},
     rufs |-> [p \in DOMAIN deps |-> IF p \in DOMAIN rufs THEN rufs[p] ELSE {}],
     cfgs |-> [p \in DOMAIN deps |-> {}],
     features |-> [p \in DOMAIN deps |-> {}],
     build |-> [p \in DOMAIN deps |-> {}],
     lib |-> [c \in MCCrates |-> c],
     broken |-> {},
     refused |-> {p \in DOMAIN rufs : \E r \in rufs[p] : r.feature # "stable"},
     noscript |-> {}, norun |-> {}, flaky |-> {},
     known |-> MCCrates, unlisted |-> {},
     rustc |-> 1]

\* app needs q, p and d; q and p restrict p and d more than app does.
DiamondDeps(oldest) ==
       App :> <<Dep("q", 10, 10), Dep("p", 10, 12), Dep("d", 10, 13)>>
    @@ <<"q", 10>> :> <<Dep("p", 11, 12)>>
    @@ <<"p", 12>> :> <<Dep("d", 12, 13)>>
    @@ <<"p", 11>> :> oldest
    @@ <<"p", 10>> :> <<>>
    @@ [p \in {<<"d", v>> : v \in 10 .. 13} |-> <<>>]

DiamondRufs(p11, p12, d11, d12) ==
       <<"p", 10>> :> Uses("stable") @@ <<"p", 11>> :> p11 @@ <<"p", 12>> :> p12
    @@ <<"d", 10>> :> Uses("stable") @@ <<"d", 11>> :> d11
    @@ <<"d", 12>> :> d12 @@ <<"d", 13>> :> Uses("gone")

Olders == {<<Dep("d", 11, 13)>>, <<>>}
Some == {Uses("stable"), Uses("gone")}

Diamonds ==
    {World(DiamondDeps(oldest), DiamondRufs(p11, Uses("stable"), d11, d12)) :
        oldest \in Olders, p11 \in {Uses("stable"), UsesIf(TRUE, "gone")},
        d11 \in Some \cup {{}}, d12 \in Some \cup {Uses("odd")}}
    \cup
    {World(DiamondDeps(oldest), DiamondRufs(Uses("stable"), Uses("gone"), d11, Uses("gone"))) :
        oldest \in Olders, d11 \in Some \cup {{}}}

\* Diamonds where rufs hang on a cfg, which all versions of a crate get alike.
CfgDiamonds ==
    {[World(DiamondDeps(<<Dep("d", 11, 13)>>),
            DiamondRufs(p11, Uses("stable"), UsesIf(TRUE, "gone"), d12))
        EXCEPT !.cfgs = [p \in DOMAIN @ |-> IF p[1] \in std THEN {"std"} ELSE {}]] :
        p11 \in {UsesIf(TRUE, "gone"), UsesIf(FALSE, "gone")},
        d12 \in {UsesIf(FALSE, "gone"), Uses("gone")}, std \in SUBSET {"p", "d"}}

Searches == Diamonds \cup CfgDiamonds

\* q restricts p, p restricts d, s restricts q: up_fix climbs twice.
ClimbDeps ==
       App :> <<Dep("s", 10, 10), Dep("q", 10, 12), Dep("p", 10, 12), Dep("d", 10, 12)>>
    @@ <<"s", 10>> :> <<Dep("q", 11, 12)>>
    @@ <<"q", 12>> :> <<Dep("p", 12, 12)>> @@ <<"q", 11>> :> <<Dep("p", 11, 12)>>
    @@ <<"q", 10>> :> <<>>
    @@ <<"p", 12>> :> <<Dep("d", 12, 12)>> @@ <<"p", 11>> :> <<Dep("d", 11, 12)>>
    @@ <<"p", 10>> :> <<>>
    @@ [p \in {<<"d", v>> : v \in 10 .. 12} |-> <<>>]

Climbs ==
    {World(ClimbDeps,
           [p \in {<<c, v>> : c \in {"q", "p", "d"}, v \in 10 .. 12} |->
               CASE p = <<"d", 12>> -> d12 [] p = <<"p", 11>> -> p11
                 [] p = <<"q", 11>> -> q11 [] OTHER -> Uses("stable")]) :
        d12 \in Some, p11 \in Some, q11 \in Some \cup {{}}}

\* Settings at the edges of what the audit handles, each in a small diamond:
\* a ruf of the project itself, a crate unknown to the database, a version the
\* scanner cannot parse, a library or build script under another name, rufs
\* the audit's own rustc accepts, cfgs that change with the version or are not
\* JSON, a newer project rustc, a second workspace member, a build script that
\* fails, wrappers that fail now and then, a database that has not heard of the
\* version locked, nor of one that a dependent restricts the package to.
Plain == World(DiamondDeps(<<Dep("d", 11, 13)>>),
               DiamondRufs(Uses("stable"), Uses("stable"), Uses("stable"), Uses("gone")))

Corners ==
    {[Plain EXCEPT !.rufs[App] = Uses("gone")],
     [Plain EXCEPT !.rufs[App] = Uses("fresh"), !.rufs[<<"q", 10>>] = Uses("gone"),
                   !.refused = @ \cup {App, <<"q", 10>>}],
     [Plain EXCEPT !.known = {"p", "q"}],
     [Plain EXCEPT !.unlisted = {<<"d", 13>>}],
     [Plain EXCEPT !.unlisted = {<<"d", 12>>, <<"d", 13>>}],
     [Plain EXCEPT !.broken = {<<"d", 13>>}],
     [Plain EXCEPT !.broken = {<<"p", 12>>}, !.rufs[<<"p", 11>>] = UsesIf(TRUE, "gone")],
     [Plain EXCEPT !.lib["d"] = "renamed"],
     [Plain EXCEPT !.build[<<"q", 10>>] = {"gone"}],
     [Plain EXCEPT !.build[<<"p", 12>>] = {"gone"}, !.noscript = {<<"p", 12>>}],
     [Plain EXCEPT !.rufs[<<"q", 10>>] = Uses("gone"), !.refused = {}],
     [Plain EXCEPT !.rufs[<<"d", 12>>] = UsesIf(TRUE, "gone"),
                   !.cfgs[<<"d", 12>>] = {"std"}, !.cfgs[<<"d", 11>>] = {"std"}],
     [Plain EXCEPT !.rufs[<<"d", 12>>] = UsesIf(TRUE, "gone"), !.cfgs[<<"d", 13>>] = {"quoted"}],
     [Plain EXCEPT !.build[<<"q", 10>>] = {"stable"}, !.norun = {<<"q", 10>>}],
     [Plain EXCEPT !.flaky = {<<"d", 13>>, <<"p", 12>>}, !.rufs[<<"d", 12>>] = UsesIf(TRUE, "gone")],
     [Plain EXCEPT !.flaky = {<<"q", 10>>}, !.rufs[<<"p", 11>>] = UsesIf(TRUE, "gone"),
                   !.build[<<"q", 10>>] = {"stable"},
                   !.cfgs[<<"q", 10>>] = {"std"}, !.features[<<"q", 10>>] = {"std"}],
     [Plain EXCEPT !.rustc = 3],
     [Plain EXCEPT !.rustc = 2, !.rufs[<<"q", 10>>] = Uses("fresh")],
     [Plain EXCEPT !.rufs[<<"d", 10>>] = {}],
     [Plain EXCEPT !.members = @ \cup {<<"q", 10>>}, !.local = @ \cup {<<"q", 10>>},
                   !.deps[App] = <<Dep("p", 10, 12), Dep("d", 10, 13)>>],
     [Plain EXCEPT !.deps[App] = <<Dep("q", 10, 10), Dep("p", 10, 12), Dep("d", 13, 13)>>]}

\* A second major of d, which q needs: the reports of both are merged.
TwoMajors ==
    {World(<<"d", 20>> :> <<>>
             @@ <<"q", 10>> :> <<Dep("p", 11, 12), Dep("d", 20, 20)>>
             @@ DiamondDeps(<<Dep("d", 11, 13)>>),
           <<"d", 20>> :> d20
             @@ DiamondRufs(Uses("stable"), Uses("stable"), Uses("stable"), Uses("stable"))) :
        d20 \in Some}

\* s, a dev-dependency of app, is locked and not compiled, and restricts d.
DevOnly ==
    {World([DiamondDeps(<<Dep("d", 11, 13)>>) EXCEPT
              ![App] = @ \o <<[Dep("s", 10, 11) EXCEPT !.dev = TRUE]>>]
             @@ <<"s", 11>> :> <<Dep("d", 12, 13)>> @@ <<"s", 10>> :> <<Dep("d", 11, 13)>>,
           <<"s", 11>> :> Uses("stable") @@ <<"s", 10>> :> s10
             @@ DiamondRufs(Uses("stable"), Uses("stable"), Uses("stable"), Uses("gone"))) :
        s10 \in {Uses("stable"), UsesIf(TRUE, "gone")}}

\* Downgrades that make Cargo add a package: s comes with the older p or d, and
\* has an issue of its own, and one version of it may need q, above p.
Additions ==
    {World([DiamondDeps(<<Dep("d", 11, 13), Dep("s", 10, 11)>>)
              EXCEPT ![<<"d", 12>>] = d12]
             @@ <<"s", 10>> :> <<>> @@ <<"s", 11>> :> s11,
           <<"s", 11>> :> Uses("gone") @@ <<"s", 10>> :> s10
             @@ DiamondRufs(Uses("stable"), p12, Uses("stable"), Uses("stable"))) :
        d12 \in {<<>>, <<Dep("s", 11, 11)>>}, s11 \in {<<>>, <<Dep("q", 10, 10)>>},
        s10 \in {Uses("stable"), {}}, p12 \in Some}

AuditWorlds == Searches \cup Climbs \cup Corners \cup TwoMajors \cup DevOnly \cup Additions
-----------------------------------------------------------------------------
\* Worlds in which a claim of the code does not hold, one kind per run.

\* d has one dependent.
SingleParent ==
    {World(App :> <<Dep("d", 10, 11)>> @@ [p \in {<<"d", 10>>, <<"d", 11>>} |-> <<>>],
           <<"d", 10>> :> Uses("stable") @@ <<"d", 11>> :> Uses("gone"))}

\* d 1.2 is acceptable to its dependents and uses no ruf.
RufFreeVersion == {[Plain EXCEPT !.rufs[<<"d", 12>>] = {}]}

\* q's build script, not its library, uses an unusable ruf, and so does d.
BuildScriptRuf == {[Plain EXCEPT !.build[<<"q", 10>>] = {"gone"}]}

\* app needs s too, which uses the ruf that d does; the audit's own rustc still
\* accepts it, but not of the newest d.
AcceptedRuf ==
    {[World([DiamondDeps(<<Dep("d", 11, 13)>>) EXCEPT ![App] = @ \o <<Dep("s", 10, 10)>>]
              @@ <<"s", 10>> :> <<>>,
            <<"s", 10>> :> Uses("gone")
              @@ DiamondRufs(Uses("stable"), Uses("stable"), Uses("stable"), Uses("gone")))
        EXCEPT !.refused = {<<"d", 13>>}]}

\* p lists d twice, first as a dev-dependency with a wider requirement.
DevDependency ==
    {[Plain EXCEPT !.deps[<<"p", 12>>] =
        <<[Dep("d", 11, 13) EXCEPT !.dev = TRUE], Dep("d", 13, 13)>>]}

\* Two workspace members, neither of which depends on the other.
TwoMembers ==
    {[Plain EXCEPT !.members = @ \cup {<<"q", 10>>}, !.local = @ \cup {<<"q", 10>>},
                   !.deps[App] = <<Dep("p", 10, 12), Dep("d", 10, 13)>>]}

\* A chain that leads from q to the newest d or to the one before it.
Short ==
    World(App :> <<Dep("q", 10, 10), Dep("d", 10, 13)>>
             @@ <<"q", 10>> :> <<Dep("d", 12, 13)>>
             @@ [n \in {<<"d", v>> : v \in 11 .. 13} |-> <<>>],
          <<"d", 11>> :> Uses("stable") @@ <<"d", 12>> :> Uses("stable")
             @@ <<"d", 13>> :> Uses("gone"))
=============================================================================
