----------------------- MODULE DependencyTrackerProofs -----------------------
(***************************************************************************)
(* Proofs about DependencyTracker: its versions, and what its pull         *)
(* requests carry, for all dependencies, releases and numbers of passes.   *)
(***************************************************************************)
EXTENDS DependencyTracker, TLAPS

-----------------------------------------------------------------------------
(* Versions (version.rs, is_major_update, is_minor_update, bump_version).  *)

\* A later version is a major or a minor update, never both, and a version is no
\* update of itself: what was updated is up to date.
THEOREM UpdatesAreMajorOrMinor ==
    ASSUME NEW v \in Version, NEW w \in Version
    PROVE  /\ Later(w, v) <=> IsMajorUpdate(v, w) \/ IsMinorUpdate(v, w)
           /\ ~(IsMajorUpdate(v, w) /\ IsMinorUpdate(v, w))
           /\ ~IsMajorUpdate(v, v) /\ ~IsMinorUpdate(v, v)
BY DEF Version, IsMajorUpdate, IsMinorUpdate, Later

\* A major update stays one when still later versions come out: the newest release is
\* enough to look at, whatever was released before it.
THEOREM MajorUpdateStays ==
    ASSUME NEW v \in Version, NEW w \in Version, NEW x \in Version,
           IsMajorUpdate(v, w), Later(x, w)
    PROVE  IsMajorUpdate(v, x)
<1>1. \A u \in Version : u[1] \in Nat /\ u[2] \in Nat /\ u[3] \in Nat
  BY DEF Version
<1>2. Later(x, v)
  BY <1>1 DEF IsMajorUpdate, Later
<1>3. ~CaretMatches(v, x)
  BY <1>1 DEF IsMajorUpdate, Later, CaretMatches
<1>. QED BY <1>2, <1>3 DEF IsMajorUpdate

\* The bump that the config asks for is a breaking one exactly as long as the package
\* has not reached 1.0 (DEPENDENCY_TRACKER.md, Version Bump Strategy).
THEOREM MinorBumpBreaksBeforeOne ==
    ASSUME NEW v \in Version
    PROVE  /\ BumpVersion(v, "minor") \in Version
           /\ IsMajorUpdate(v, BumpVersion(v, "minor")) <=> v[1] = 0
<1>1. v[1] \in Nat /\ v[2] \in Nat /\ v[3] \in Nat
  BY DEF Version
<1>2. BumpVersion(v, "minor") = <<v[1], v[2] + 1, 0>>
  BY DEF BumpVersion
<1>. QED BY <1>1, <1>2 DEF Version, IsMajorUpdate, Later, CaretMatches

-----------------------------------------------------------------------------
(* Pull requests.                                                          *)

\* Where the tracker is on its way from one dependency to the next.
Between == {"Loop", "Update", "Done"}
OnBranch == {"Add", "Commit", "Push", "Open", "Return"}

\* On a branch of its own, made from main, with the update in the tree.
AtBranch ==
    /\ head = at /\ previous = Main /\ at \in DOMAIN branches
    /\ tree = Updated(Original, at)
    /\ step \in {"Push", "Open", "Return"} => branches[at] = tree

\* What one pull request carries depends on where the branch begins and on what the
\* tree holds, so that the whole of git's state has to be right at every step.
Orderly ==
    /\ branches[Main] = Original
    /\ step \in Between => head = Main /\ tree = Original
    /\ step = "Branch" => head = Main /\ tree = Updated(Original, at)
    /\ step \in OnBranch => AtBranch
    /\ \A d \in DOMAIN prs : prs[d] = Updated(Original, d)

TrackerInv ==
    /\ at \in Dependency
    /\ step \in Between \cup OnBranch \cup {"Branch"}
    /\ Main \in DOMAIN branches /\ branches = [b \in DOMAIN branches |-> branches[b]]
    /\ ~Publishes => step \in Between /\ DOMAIN prs = {}
    /\ failures = {} /\ Publishes => Orderly

LEMMA TrackerInvHolds == ASSUME Main \notin Dependency PROVE Spec => []TrackerInv
<1> USE DEF Between, OnBranch, loopVars, gitVars, originVars
<1>1. Init => TrackerInv
  BY DEF Init, TrackerInv, Orderly, Publishes
<1>2. TrackerInv /\ [Next]_vars => TrackerInv'
  <2> SUFFICES ASSUME TrackerInv, [Next]_vars PROVE TrackerInv'
    OBVIOUS
  <2> USE DEF Failed, Passed, Publishes
  <2>1. ASSUME NEW d \in Dependency, Visit(d) PROVE TrackerInv'
    BY <2>1 DEF Visit, TrackerInv, Orderly
  <2>2. CASE UpdateDependency
    BY <2>2 DEF UpdateDependency, TrackerInv, Orderly
  <2>3. CASE CreateBranch
    BY <2>3 DEF CreateBranch, TrackerInv, Orderly, AtBranch
  <2>4. CASE Add
    BY <2>4 DEF Add, TrackerInv, Orderly, AtBranch
  <2>5. CASE Commit
    BY <2>5 DEF Commit, TrackerInv, Orderly, AtBranch
  <2>6. CASE Push
    BY <2>6 DEF Push, TrackerInv, Orderly, AtBranch
  <2>7. CASE OpenPr
    BY <2>7 DEF OpenPr, TrackerInv, Orderly, AtBranch
  <2>8. CASE Return
    BY <2>8 DEF Return, TrackerInv, Orderly, AtBranch
  <2>9. CASE Finish
    BY <2>9 DEF Finish, TrackerInv, Orderly
  <2>10. CASE Rerun
    BY <2>10 DEF Rerun, TrackerInv, Orderly
  <2>11. CASE UNCHANGED vars
    BY <2>11 DEF vars, TrackerInv, Orderly, AtBranch
  <2>. QED
    BY <2>1, <2>2, <2>3, <2>4, <2>5, <2>6, <2>7, <2>8, <2>9, <2>10, <2>11 DEF Next
<1>. QED BY <1>1, <1>2, PTL DEF Spec

\* While no step has failed every pull request carries its own update alone: branches
\* do not grow on each other and no change is left in the tree (create_pr).
THEOREM PrsCarryTheirOwn ==
    ASSUME Main \notin Dependency PROVE Spec => []OwnUpdateOnly
<1>1. TrackerInv => OwnUpdateOnly
  BY DEF TrackerInv, Orderly, OwnUpdateOnly
<1>. QED BY <1>1, TrackerInvHolds, PTL

\* And the tracker is back on a clean main between two dependencies (create_pr,
\* checkout -).
THEOREM ReturnsToMain ==
    ASSUME Main \notin Dependency PROVE Spec => []BackOnMain
<1>1. TrackerInv => BackOnMain
  BY DEF TrackerInv, Orderly, BackOnMain, Between
<1>. QED BY <1>1, TrackerInvHolds, PTL

-----------------------------------------------------------------------------
(* The lock file.                                                          *)

\* The versions that are asked for and released are versions.
VersionsAssumption ==
    /\ Main \notin Dependency /\ Enabled \subseteq Dependency
    /\ DOMAIN Original.needs = Dependency
    /\ \A d \in Dependency : Stable(d) # {} => Latest(d) \in Version

\* A dependency that is behind, on its way to its pull request.
Underway == {"Update", "Branch", "Add", "Commit", "Push", "Open"}

\* A manifest asks of each dependency what main does, or the latest version.
Plausible(m) ==
    /\ DOMAIN m.needs = Dependency
    /\ \A d \in Dependency : m.needs[d] \in {Original.needs[d], Latest(d)}

ManifestsArePlausible ==
    /\ head \in DOMAIN branches /\ Plausible(tree)
    /\ \A b \in DOMAIN branches : Plausible(branches[b])

Made(d) == d \in remote /\ d \in DOMAIN prs

\* The first pass: what it has still to visit has no branch anywhere, and what it has
\* visited has its pull request.
FirstPass ==
    /\ failures = {}
    /\ \A d \in todo : d \in Dependency /\ d \notin DOMAIN branches /\ d \notin remote
    /\ step \in Underway => at \notin todo
    /\ step \in {"Update", "Branch"} => at \notin DOMAIN branches
    /\ step \in {"Update", "Branch", "Add", "Commit", "Push"} => at \notin remote
    /\ step = "Open" => at \in remote
    /\ \A d \in Outdated : d \in todo \/ (d = at /\ step \in Underway) \/ Made(d)
    /\ step = "Done" => todo = {}

\* Later passes: nothing is pushed any more, so that no pull request changes.
LaterPass ==
    /\ step \notin {"Open", "Return"}
    /\ \A d \in Outdated : Made(d) /\ prs[d] = Updated(Original, d)

MadeInv ==
    Publishes /\ "outside" \notin failures =>
        /\ ManifestsArePlausible
        /\ step \in Underway => at \in Outdated
        /\ FirstPass \/ LaterPass

\* Who is updated is behind, also when the tree holds updates of others or its own.
LEMMA OnlyOutdated ==
    ASSUME VersionsAssumption, Plausible(tree), NEW d \in Dependency, d \in Enabled,
           Stable(d) # {}, IsMajorUpdate(tree.needs[d], Latest(d))
    PROVE  d \in Outdated
<1>1. Latest(d) \in Version
  BY DEF VersionsAssumption
<1>2. ~IsMajorUpdate(Latest(d), Latest(d))
  BY <1>1, UpdatesAreMajorOrMinor
<1>3. tree.needs[d] = Original.needs[d]
  BY <1>2 DEF Plausible
<1>. QED BY <1>3 DEF Outdated

LEMMA UpdatedIsPlausible ==
    ASSUME NEW m, Plausible(m), NEW d \in Dependency PROVE Plausible(Updated(m, d))
<1>1. Updated(m, d).needs = [m.needs EXCEPT ![d] = Latest(d)]
  BY DEF Updated
<1>. QED BY <1>1 DEF Plausible

LEMMA MadeStep ==
    ASSUME VersionsAssumption, ~LockIgnored, TrackerInv, MadeInv, [Next]_vars PROVE MadeInv'
<1> SUFFICES ASSUME Publishes, "outside" \notin failures' PROVE MadeInv'
  BY DEF MadeInv, Publishes, Next, vars, Visit, UpdateDependency, CreateBranch, Add, Commit,
       Push,
     OpenPr, Return, Finish, Rerun
<1> USE DEF Failed, Passed, Between, OnBranch, loopVars, gitVars, originVars, Underway, Made
<1>0. /\ ManifestsArePlausible /\ (step \in Underway => at \in Outdated)
      /\ FirstPass \/ LaterPass
      /\ "outside" \notin failures
  BY DEF MadeInv, Publishes, Next, vars, Visit, UpdateDependency, CreateBranch, Add, Commit,
       Push,
     OpenPr, Return, Finish, Rerun
<1>1. ASSUME NEW d \in Dependency, Visit(d) PROVE MadeInv'
  <2>1. ManifestsArePlausible' /\ (step' \in Underway => at' \in Outdated)
    BY <1>0, <1>1, OnlyOutdated DEF Visit, ManifestsArePlausible, TrackerInv
  <2>2. ASSUME FirstPass PROVE FirstPass' \/ LaterPass'
    BY <1>0, <1>1, <2>2 DEF Visit, FirstPass, LaterPass, TrackerInv, Orderly, AtBranch,
       Publishes, Outdated
  <2>3. ASSUME LaterPass PROVE LaterPass'
    BY <1>0, <1>1, <2>3 DEF Visit, LaterPass
  <2>. QED BY <1>0, <2>1, <2>2, <2>3 DEF MadeInv
<1>2. CASE UpdateDependency
  <2>1. ManifestsArePlausible' /\ (step' \in Underway => at' \in Outdated)
    BY <1>0, <1>2, UpdatedIsPlausible DEF UpdateDependency, ManifestsArePlausible, TrackerInv
  <2>2. ASSUME FirstPass PROVE FirstPass' \/ LaterPass'
    BY <1>0, <1>2, <2>2 DEF UpdateDependency, FirstPass, LaterPass, TrackerInv, Orderly,
       AtBranch, Publishes, Outdated
  <2>3. ASSUME LaterPass PROVE LaterPass'
    BY <1>0, <1>2, <2>3 DEF UpdateDependency, LaterPass
  <2>. QED BY <1>0, <2>1, <2>2, <2>3 DEF MadeInv
<1>3. CASE CreateBranch
  <2>1. ManifestsArePlausible' /\ (step' \in Underway => at' \in Outdated)
    BY <1>0, <1>3 DEF CreateBranch, ManifestsArePlausible, TrackerInv
  <2>2. ASSUME FirstPass PROVE FirstPass' \/ LaterPass'
    BY <1>0, <1>3, <2>2 DEF CreateBranch, FirstPass, LaterPass, TrackerInv, Orderly, AtBranch,
       Publishes, Outdated
  <2>3. ASSUME LaterPass PROVE LaterPass'
    BY <1>0, <1>3, <2>3 DEF CreateBranch, LaterPass
  <2>. QED BY <1>0, <2>1, <2>2, <2>3 DEF MadeInv
<1>4. CASE Add
  <2>1. ManifestsArePlausible' /\ (step' \in Underway => at' \in Outdated)
    BY <1>0, <1>4 DEF Add, ManifestsArePlausible, TrackerInv
  <2>2. ASSUME FirstPass PROVE FirstPass' \/ LaterPass'
    BY <1>0, <1>4, <2>2 DEF Add, FirstPass, LaterPass, TrackerInv, Orderly, AtBranch,
       Publishes, Outdated
  <2>3. ASSUME LaterPass PROVE LaterPass'
    BY <1>0, <1>4, <2>3 DEF Add, LaterPass
  <2>. QED BY <1>0, <2>1, <2>2, <2>3 DEF MadeInv
<1>5. CASE Commit
  <2>1. ManifestsArePlausible' /\ (step' \in Underway => at' \in Outdated)
    BY <1>0, <1>5 DEF Commit, ManifestsArePlausible, TrackerInv
  <2>2. ASSUME FirstPass PROVE FirstPass' \/ LaterPass'
    BY <1>0, <1>5, <2>2 DEF Commit, FirstPass, LaterPass, TrackerInv, Orderly, AtBranch,
       Publishes, Outdated
  <2>3. ASSUME LaterPass PROVE LaterPass'
    BY <1>0, <1>5, <2>3 DEF Commit, LaterPass
  <2>. QED BY <1>0, <2>1, <2>2, <2>3 DEF MadeInv
<1>6. CASE Push
  <2>1. ManifestsArePlausible' /\ (step' \in Underway => at' \in Outdated)
    BY <1>0, <1>6 DEF Push, ManifestsArePlausible, TrackerInv
  <2>2. ASSUME FirstPass PROVE FirstPass' \/ LaterPass'
    BY <1>0, <1>6, <2>2 DEF Push, FirstPass, LaterPass, TrackerInv, Orderly, AtBranch,
       Publishes, Outdated
  <2>3. ASSUME LaterPass PROVE LaterPass'
    BY <1>0, <1>6, <2>3 DEF Push, LaterPass
  <2>. QED BY <1>0, <2>1, <2>2, <2>3 DEF MadeInv
<1>7. CASE OpenPr
  <2>1. ManifestsArePlausible' /\ (step' \in Underway => at' \in Outdated)
    BY <1>0, <1>7 DEF OpenPr, ManifestsArePlausible, TrackerInv
  <2>2. ASSUME FirstPass PROVE FirstPass' \/ LaterPass'
    BY <1>0, <1>7, <2>2 DEF OpenPr, FirstPass, LaterPass, TrackerInv, Orderly, AtBranch,
       Publishes, Outdated
  <2>3. ASSUME LaterPass PROVE LaterPass'
    BY <1>0, <1>7, <2>3 DEF OpenPr, LaterPass
  <2>. QED BY <1>0, <2>1, <2>2, <2>3 DEF MadeInv
<1>8. CASE Return
  <2>1. ManifestsArePlausible' /\ (step' \in Underway => at' \in Outdated)
    BY <1>0, <1>8 DEF Return, ManifestsArePlausible, TrackerInv, Orderly, AtBranch, FirstPass,
       LaterPass
  <2>2. ASSUME FirstPass PROVE FirstPass' \/ LaterPass'
    BY <1>0, <1>8, <2>2 DEF Return, FirstPass, LaterPass, TrackerInv, Orderly, AtBranch,
       Publishes, Outdated
  <2>3. ASSUME LaterPass PROVE LaterPass'
    BY <1>0, <1>8, <2>3 DEF Return, LaterPass
  <2>. QED BY <1>0, <2>1, <2>2, <2>3 DEF MadeInv
<1>9. CASE Finish
  <2>1. ManifestsArePlausible' /\ (step' \in Underway => at' \in Outdated)
    BY <1>0, <1>9 DEF Finish, ManifestsArePlausible, TrackerInv
  <2>2. ASSUME FirstPass PROVE FirstPass' \/ LaterPass'
    BY <1>0, <1>9, <2>2 DEF Finish, FirstPass, LaterPass, TrackerInv, Orderly, AtBranch,
       Publishes, Outdated
  <2>3. ASSUME LaterPass PROVE LaterPass'
    BY <1>0, <1>9, <2>3 DEF Finish, LaterPass
  <2>. QED BY <1>0, <2>1, <2>2, <2>3 DEF MadeInv
<1>10. CASE Rerun
  <2>1. ManifestsArePlausible' /\ (step' \in Underway => at' \in Outdated)
    BY <1>0, <1>10, VersionsAssumption DEF Rerun, VersionsAssumption, ManifestsArePlausible,
       Plausible, TrackerInv
  <2>2. ASSUME FirstPass PROVE FirstPass' \/ LaterPass'
    BY <1>0, <1>10, <2>2 DEF Rerun, FirstPass, LaterPass, TrackerInv, Orderly, AtBranch,
       Publishes, Outdated
  <2>3. ASSUME LaterPass PROVE LaterPass'
    BY <1>0, <1>10, <2>3 DEF Rerun, LaterPass
  <2>. QED BY <1>0, <2>1, <2>2, <2>3 DEF MadeInv
<1>11. CASE UNCHANGED vars
  <2>1. ManifestsArePlausible' /\ (step' \in Underway => at' \in Outdated)
    BY <1>0, <1>11 DEF vars, ManifestsArePlausible, TrackerInv
  <2>2. ASSUME FirstPass PROVE FirstPass' \/ LaterPass'
    BY <1>0, <1>11, <2>2 DEF vars, FirstPass, LaterPass, TrackerInv, Orderly, AtBranch,
       Publishes, Outdated
  <2>3. ASSUME LaterPass PROVE LaterPass'
    BY <1>0, <1>11, <2>3 DEF vars, LaterPass
  <2>. QED BY <1>0, <2>1, <2>2, <2>3 DEF MadeInv
<1>. QED
  BY <1>1, <1>2, <1>3, <1>4, <1>5, <1>6, <1>7, <1>8, <1>9, <1>10, <1>11 DEF Next

\* A lock file that git does not ignore is all it takes: when nothing outside the
\* tracker fails, a pass ends with a pull request for every dependency that is behind,
\* with its own update alone, whatever clones the passes are run in (check_dependencies,
\* create_pr; DEPENDENCY_TRACKER.md, Full CI Mode).
THEOREM PrsAreMade ==
    ASSUME VersionsAssumption, ~LockIgnored PROVE Spec => []PullRequestsMade
<1>1. Init => MadeInv
  BY DEF Init, VersionsAssumption, MadeInv, ManifestsArePlausible, Plausible, FirstPass,
     Underway, Outdated
<1>2. TrackerInv /\ MadeInv => PullRequestsMade
  BY DEF TrackerInv, MadeInv, Orderly, FirstPass, LaterPass, Made, Underway, PullRequestsMade
<1>3. Main \notin Dependency
  BY DEF VersionsAssumption
<1>. QED BY <1>1, <1>2, <1>3, MadeStep, TrackerInvHolds, VersionsAssumption, PTL DEF Spec
=============================================================================
