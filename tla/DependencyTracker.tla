-------------------------- MODULE DependencyTracker --------------------------
(***************************************************************************)
(* cargo xtask check-deps (src/xtask/src/deps): one pass over the tracked  *)
(* dependencies that writes the manifest and drives cargo, git and gh, and *)
(* the passes after it, in the same clone or, as in the weekly workflow,   *)
(* in a fresh one.                                                         *)
(*                                                                         *)
(* A manifest is the versions it asks for and that of the package; the     *)
(* index is not a variable, because whatever is staged is staged and       *)
(* committed whole.  A branch has the name of its dependency: its version  *)
(* does not change here.  A version is <<major, minor, patch>>; build      *)
(* metadata, and a pre-release in the manifest, are left out.              *)
(***************************************************************************)
EXTENDS Naturals, Functions

CONSTANTS
    Dependency,  \* the dependencies of the config
    Enabled,     \* those it enables
    Strategy,    \* the bump_strategy of each
    Published,   \* of each what crates.io lists: a version, yanked, pre-release
    Original,    \* the manifest on main
    Main,        \* the branch the tracker is run on
    LockIgnored, \* whether .gitignore ignores Cargo.lock
    Passes       \* bound: how often it is run

-----------------------------------------------------------------------------
(* Versions.                                                               *)

Version == Nat \X Nat \X Nat

Later(v, w) ==
    \/ v[1] > w[1]
    \/ v[1] = w[1] /\ v[2] > w[2]
    \/ v[1] = w[1] /\ v[2] = w[2] /\ v[3] > w[3]

\* What the requirement ^v admits: nothing that changes the leftmost part of v that
\* is not zero.
CaretMatches(v, w) ==
    /\ ~Later(v, w)
    /\ v[1] = w[1]
    /\ v[1] = 0 => v[2] = w[2]
    /\ v[1] = 0 /\ v[2] = 0 => v[3] = w[3]

IsMajorUpdate(current, latest) == Later(latest, current) /\ ~CaretMatches(current, latest)

IsMinorUpdate(current, latest) == Later(latest, current) /\ CaretMatches(current, latest)

BumpVersion(v, strategy) ==
    CASE strategy = "major" -> <<v[1] + 1, 0, 0>>
      [] strategy = "minor" -> <<v[1], v[2] + 1, 0>>
      [] strategy = "patch" -> <<v[1], v[2], v[3] + 1>>
      [] OTHER -> v

Stable(d) == {r.version : r \in {r \in Published[d] : ~r.yanked /\ ~r.pre}}

Latest(d) == CHOOSE v \in Stable(d) : \A w \in Stable(d) : ~Later(w, v)

-----------------------------------------------------------------------------

VARIABLES
    options,  \* CheckDepsOptions
    todo,     \* the dependencies the loop has still to see
    step,     \* what comes next
    at,       \* the dependency the loop is at
    tree,     \* the manifest in the working tree
    head,     \* the branch that is checked out
    previous, \* the one before it
    branches, \* the branches of the clone, and the manifest each has
    remote,   \* those of origin
    prs,      \* the pull requests, and the manifest each asks to merge
    failures, \* history: of what kinds there have been
    passes    \* passes still to come

loopVars == <<todo, step, at>>
gitVars == <<head, previous, branches>>
originVars == <<remote, prs>>
vars == <<options, loopVars, tree, gitVars, originVars, failures, passes>>

Init ==
    /\ options \in [dry_run : BOOLEAN, no_push : BOOLEAN, ci : BOOLEAN]
    /\ todo = Dependency /\ step = "Loop" /\ at \in Dependency
    /\ tree = Original /\ head = Main /\ previous = Main
    /\ branches = [b \in {Main} |-> Original]
    /\ remote = {} /\ prs = [d \in {} |-> Original]
    /\ failures = {} /\ passes = Passes

Publishes == options.ci /\ ~options.no_push /\ ~options.dry_run

\* A step failed: it is reported, and the loop goes on with the next dependency.
Failed(why) == step' = "Loop" /\ failures' = failures \cup {why}
Passed(next) == step' = next /\ UNCHANGED failures

\* The next dependency, in the order of a hash map, if there is anything to do.
Visit(d) ==
    /\ step = "Loop" /\ d \in todo
    /\ todo' = todo \ {d} /\ at' = d
    /\ \/ d \in Enabled /\ Failed("outside")
       \/ /\ d \in Enabled /\ Stable(d) # {}
          /\ IsMajorUpdate(tree.needs[d], Latest(d)) /\ ~options.dry_run
          /\ Passed("Update")
       \/ /\ d \in Enabled =>
                Stable(d) = {} \/ ~IsMajorUpdate(tree.needs[d], Latest(d)) \/ options.dry_run
          /\ Passed("Loop")
    /\ UNCHANGED <<options, tree, gitVars, originVars, passes>>

Updated(m, d) ==
    [needs |-> [m.needs EXCEPT ![d] = Latest(d)], package |-> BumpVersion(m.package, Strategy[d])]

\* The manifest is written before cargo update is run, and stays when that fails.
UpdateDependency ==
    /\ step = "Update"
    /\ \/ UNCHANGED tree /\ Failed("outside")
       \/ tree' = Updated(tree, at) /\ Failed("outside")
       \/ tree' = Updated(tree, at) /\ Passed(IF Publishes THEN "Branch" ELSE "Loop")
    /\ UNCHANGED <<options, todo, at, gitVars, originVars, passes>>

\* A branch of that name ends it, and the update stays in the tree; a new one begins
\* at whatever is checked out.
CreateBranch ==
    /\ step = "Branch"
    /\ IF at \in DOMAIN branches
       THEN Failed("exists") /\ UNCHANGED gitVars
       ELSE /\ branches' = [b \in DOMAIN branches \cup {at} |->
                                IF b = at THEN branches[head] ELSE branches[b]]
            /\ head' = at /\ previous' = head
            /\ Passed("Add")
    /\ UNCHANGED <<options, todo, at, tree, originVars, passes>>

\* git add refuses a path that is ignored.
Add ==
    /\ step = "Add"
    /\ IF LockIgnored THEN Failed("add") ELSE Passed("Commit")
    /\ UNCHANGED <<options, todo, at, tree, gitVars, originVars, passes>>

Commit ==
    /\ step = "Commit"
    /\ \/ branches' = [branches EXCEPT ![head] = tree] /\ Passed("Push")
       \/ Failed("outside") /\ UNCHANGED branches
    /\ UNCHANGED <<options, todo, at, tree, head, previous, originVars, passes>>

\* What an earlier pass pushed is another commit, and origin keeps it.
Push ==
    /\ step = "Push"
    /\ \/ at \notin remote /\ remote' = remote \cup {at} /\ Passed("Open")
       \/ at \in remote /\ Failed("rejected") /\ UNCHANGED remote
       \/ Failed("outside") /\ UNCHANGED remote
    /\ UNCHANGED <<options, todo, at, tree, gitVars, prs, passes>>

OpenPr ==
    /\ step = "Open"
    /\ \/ /\ prs' = [d \in DOMAIN prs \cup {at} |-> IF d = at THEN branches[head] ELSE prs[d]]
          /\ Passed("Return")
       \/ Failed("outside") /\ UNCHANGED prs
    /\ UNCHANGED <<options, todo, at, tree, gitVars, remote, passes>>

\* git checkout -: the tree is clean, and changes with the branch.
Return ==
    /\ step = "Return"
    /\ \/ /\ head' = previous /\ previous' = head /\ tree' = branches[previous]
          /\ Passed("Loop")
       \/ Failed("outside") /\ UNCHANGED <<tree, head, previous>>
    /\ UNCHANGED <<options, todo, at, branches, originVars, passes>>

Finish ==
    /\ step = "Loop" /\ todo = {} /\ Passed("Done")
    /\ UNCHANGED <<options, todo, at, tree, gitVars, originVars, passes>>

\* The next pass, in this clone or a fresh one.
Rerun ==
    /\ step = "Done" /\ passes > 1 /\ passes' = passes - 1
    /\ todo' = Dependency /\ Passed("Loop")
    /\ \/ UNCHANGED <<tree, gitVars>>
       \/ /\ tree' = Original /\ head' = Main /\ previous' = Main
          /\ branches' = [b \in {Main} |-> Original]
    /\ UNCHANGED <<options, at, originVars>>

Next ==
    \/ \E d \in Dependency : Visit(d)
    \/ UpdateDependency \/ CreateBranch \/ Add \/ Commit \/ Push \/ OpenPr \/ Return
    \/ Finish \/ Rerun

Spec == Init /\ [][Next]_vars

-----------------------------------------------------------------------------
(* Properties.                                                             *)

Outdated == {d \in Enabled : Stable(d) # {} /\ IsMajorUpdate(Original.needs[d], Latest(d))}

\* In CI mode, when nothing outside the tracker fails, every dependency that is behind
\* has at the end of the pass a pull request with its own update and no other
\* (DEPENDENCY_TRACKER.md, Full CI Mode; check_dependencies, create_pr).
PullRequestsMade ==
    step = "Done" /\ Publishes /\ "outside" \notin failures =>
        \A d \in Outdated : d \in DOMAIN prs /\ prs[d] = Updated(Original, d)

\* As long as no step has failed, and no branch was there already, a pull request
\* carries its own update alone (create_pr: commit, checkout -).
OwnUpdateOnly ==
    failures = {} => \A d \in DOMAIN prs : prs[d] = Updated(Original, d)

\* And the tracker is back on a clean main whenever it is between two dependencies.
BackOnMain ==
    failures = {} /\ Publishes /\ step \in {"Loop", "Done"} =>
        head = Main /\ tree = Original
=============================================================================
