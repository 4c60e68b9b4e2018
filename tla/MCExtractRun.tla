---------------------------- MODULE MCExtractRun ----------------------------
(***************************************************************************)
(* ExtractRun with worlds that have two lock files and at most one thing   *)
(* each that makes an extraction fail in part: a version the scanner cannot *)
(* parse, one rustc refuses, a build script that cannot be compiled or run, *)
(* a wrapper that fails now and then.                                       *)
(***************************************************************************)
EXTENDS ExtractRun, MCWorlds

Small ==
    World(App :> <<Dep("q", 10, 10), Dep("p", 10, 10), Dep("d", 10, 11)>>
       @@ <<"q", 10>> :> <<Dep("d", 10, 11)>> @@ <<"p", 10>> :> <<>>
       @@ [n \in {<<"d", 10>>, <<"d", 11>>} |-> <<>>],
          <<"d", 11>> :> Uses("gone"))

ExtractWorlds ==
    {Small,
     [Small EXCEPT !.broken = {<<"q", 10>>}, !.build[<<"p", 10>>] = {"stable"}],
     [Small EXCEPT !.build[<<"q", 10>>] = {"gone"}, !.noscript = {<<"q", 10>>}],
     [Small EXCEPT !.broken = {<<"d", 10>>}, !.build[<<"d", 10>>] = {"fresh"},
                   !.refused = @ \cup {<<"p", 10>>}],
     [Small EXCEPT !.build[<<"d", 11>>] = {"stable"}, !.norun = {<<"d", 11>>}],
     [Small EXCEPT !.build[<<"q", 10>>] = {"stable"}, !.flaky = {<<"q", 10>>}]}

MCVerbose == {TRUE}
MCAnyVerbosity == BOOLEAN
=============================================================================
