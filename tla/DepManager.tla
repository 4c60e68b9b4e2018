----------------------------- MODULE DepManager -----------------------------
(***************************************************************************)
(* The dependency manager: what it computes from the dependency tree it has *)
(* loaded (g, the packages of Cargo.lock when it was read) and from the     *)
(* registry's index and the ruf database.  The state it keeps, dep_tree and *)
(* req_by, are variables of RufAudit, which calls it.                       *)
(***************************************************************************)
EXTENDS Extraction

\* Mutant: dev-dependencies do not count.
RootsOfBuild(w, g) == {n \in g : \A p \in g : <<p, n>> \notin BuildEdges(w, g)}

\* Tree::roots, and get_dep_parent.
Roots(w, g) == {n \in g : \A p \in g : <<p, n>> \notin LockEdges(w, g)}
GetDepParent(w, g, n) == {p \in g : <<p, n>> \in LockEdges(w, g)}

\* The database's rows for a crate.  A version is a key of the result only
\* when a row of it has a feature: a version that uses no ruf is left out, like
\* one the database has not heard of.
RufVersions(w, crate) ==
    {p[2] : p \in {p \in DOMAIN w.deps \ w.unlisted : p[1] = crate /\ w.rufs[p] # {}}}

\* The first requirement a package's manifest or index entry lists for a
\* crate, dev-dependencies included; FirstReq is called where there is one.
Mentions(w, p, crate) == \E i \in DOMAIN w.deps[p] : w.deps[p][i].name = crate

FirstReq(w, p, crate) ==
    w.deps[p][CHOOSE i \in DOMAIN w.deps[p] :
        /\ w.deps[p][i].name = crate
        /\ \A j \in 1 .. i - 1 : w.deps[p][j].name # crate]

\* Mutant: the greatest version a requirement allows is left out.
AllowedBelow(w, p, crate) ==
    {ver \in RufVersions(w, crate) :
        LET req == FirstReq(w, p, crate) IN req.lo <= ver /\ ver < req.hi}

Allowed(w, p, crate) ==
    {ver \in RufVersions(w, crate) : ReqMatches(FirstReq(w, p, crate), ver)}

Lowest(w, p, crate) ==
    CHOOSE ver \in Allowed(w, p, crate) :
        \A other \in Allowed(w, p, crate) : ver <= other

\* Parents whose lowest version is above another parent's: get_candidates
\* records one of them as the strict one (the first in the order of the
\* graph's edges, which the model leaves open).
StrictParents(w, g, n) ==
    {p \in GetDepParent(w, g, n) : \E q \in GetDepParent(w, g, n) :
        Lowest(w, q, n[1]) < Lowest(w, p, n[1])}

\* get_candidates.  It returns early, with no candidate and nothing recorded,
\* for a local package and for a crate the database has no ruf of.
Searched(w, g, n) ==
    /\ n \notin w.local /\ GetDepParent(w, g, n) # {}
    /\ n[1] \in w.known /\ RufVersions(w, n[1]) # {}

\* Mutant: local packages are not returned early.
GetCandidatesPanicsAtRoot(w, g, n, msg) ==
    \/ msg = "root has no parents" /\ GetDepParent(w, g, n) = {}
    \/ /\ msg = "cannot find lowest allowing version"
       /\ Searched(w, g, n)
       /\ \E p \in GetDepParent(w, g, n) : Allowed(w, p, n[1]) = {}
    \/ /\ msg = "no strict parent found"
       /\ Searched(w, g, n)
       /\ \A p \in GetDepParent(w, g, n) : Allowed(w, p, n[1]) # {}
       /\ StrictParents(w, g, n) = {}

GetCandidatesPanics(w, g, n, msg) ==
    \/ /\ msg = "root has no parents"
       /\ n \notin w.local /\ GetDepParent(w, g, n) = {}
    \/ /\ msg = "cannot find lowest allowing version"
       /\ Searched(w, g, n)
       /\ \E p \in GetDepParent(w, g, n) : Allowed(w, p, n[1]) = {}
    \/ /\ msg = "no strict parent found"
       /\ Searched(w, g, n)
       /\ \A p \in GetDepParent(w, g, n) : Allowed(w, p, n[1]) # {}
       /\ StrictParents(w, g, n) = {}

\* The database has no such crate.
GetCandidatesFails(w, g, n) ==
    n \notin w.local /\ GetDepParent(w, g, n) # {} /\ n[1] \notin w.known

\* Mutant: a newer version is a candidate too.
GetCandidatesAnyAge(w, g, n) ==
    {ver \in RufVersions(w, n[1]) :
        Searched(w, g, n) /\ ver # n[2]
            /\ \A p \in GetDepParent(w, g, n) : ReqMatches(FirstReq(w, p, n[1]), ver)}

\* Mutant: one dependent that accepts a version is enough.
GetCandidatesSomeParent(w, g, n) ==
    {ver \in RufVersions(w, n[1]) :
        Searched(w, g, n) /\ ver < n[2]
            /\ \E p \in GetDepParent(w, g, n) : ReqMatches(FirstReq(w, p, n[1]), ver)}

\* Mutant: the next older version is skipped.
GetCandidatesOffByOne(w, g, n) ==
    {ver \in RufVersions(w, n[1]) :
        Searched(w, g, n) /\ ver < n[2] - 1
            /\ \A p \in GetDepParent(w, g, n) : ReqMatches(FirstReq(w, p, n[1]), ver)}

GetCandidates(w, g, n) ==
    {ver \in RufVersions(w, n[1]) :
        /\ Searched(w, g, n)
        /\ \A p \in GetDepParent(w, g, n) : ReqMatches(FirstReq(w, p, n[1]), ver)
        /\ ver < n[2]}

\* The values req_by may have after get_candidates returned.
ReqByAfter(w, g, n, req_by) ==
    IF Searched(w, g, n)
    THEN {[m \in DOMAIN req_by \cup {n} |-> IF m = n THEN p ELSE req_by[m]] :
             p \in StrictParents(w, g, n)}
    ELSE {req_by}

\* get_candidates_up_fix keeps the candidates of p whose requirement on the
\* package at hand differs from the present one, or that have none.
GetCandidatesUpFix(w, g, p, dep) ==
    {ver \in GetCandidates(w, g, p) :
        LET older == <<p[1], ver>> IN
        Mentions(w, older, dep[1]) =>
            LET req == FirstReq(w, older, dep[1])
                cur_req == FirstReq(w, p, dep[1])
            IN  <<req.lo, req.hi>> # <<cur_req.lo, cur_req.hi>>}
=============================================================================
