------------------------- MODULE MCDependencyTracker -------------------------
(* The manifest and the config of the repository, with one release of ractor and *)
(* of notify that is a major update, one of cron that is not, and none to take    *)
(* for chrono.                                                                    *)
EXTENDS DependencyTracker

CONSTANTS ractor, chrono, cron, notify, main

Bumps == [d \in Dependency |-> "minor"]
Release(v) == [version |-> v, yanked |-> FALSE, pre |-> FALSE]
Releases ==
    [d \in Dependency |->
        CASE d = ractor -> {Release(<<0, 16, 0>>), Release(<<0, 17, 0>>), Release(<<0, 16, 9>>)}
          [] d = chrono -> {Release(<<0, 4, 0>>), [Release(<<0, 5, 0>>) EXCEPT !.yanked = TRUE]}
          [] d = cron   -> {Release(<<0, 17, 2>>), [Release(<<0, 18, 0>>) EXCEPT !.pre = TRUE]}
          [] d = notify -> {Release(<<8, 2, 0>>), Release(<<9, 0, 0>>)}]
Manifest ==
    [needs |-> [d \in Dependency |->
        CASE d = ractor -> <<0, 16, 0>> [] d = chrono -> <<0, 4, 0>>
          [] d = cron   -> <<0, 17, 0>> [] d = notify -> <<8, 0, 0>>],
     package |-> <<0, 7, 0>>]
=============================================================================
