---------------------------- MODULE MCEnsurePackage ----------------------------
EXTENDS EnsurePackage
Plain        == [update |-> FALSE, force |-> FALSE, target |-> FALSE, lockOnly |-> FALSE]
UpdateAll    == [Plain EXCEPT !.update = TRUE]
UpdateForce  == [UpdateAll EXCEPT !.force = TRUE]
UpdateTarget == [UpdateForce EXCEPT !.target = TRUE]
LockOnly     == [Plain EXCEPT !.lockOnly = TRUE]
LockForce    == [UpdateForce EXCEPT !.lockOnly = TRUE]
MCRequests == {Plain, UpdateAll, UpdateForce, UpdateTarget}
MCReferences == {Unpinned, Latest, AtTag(1), AtTag(2), AtCommit(1)}
MCEnvironment == EnvironmentActions

(* A dependency that follows a branch, and the commands of --lock-only.    *)
BranchRequests    == {Plain, UpdateForce, LockOnly}
BranchReferences  == {Branch}
BranchEnvironment == {"push", "network", "edit_vendor", "share_lock", "delete_lock"}

(* The everyday commands, without crashes or edits.                        *)
DailyRequests     == {Plain, UpdateAll}
DailyReferences   == {Latest, AtTag(1), AtTag(2)}
DailyEnvironment  == {"push", "edit_reference"}
LockOnlyRequests  == {Plain, LockOnly}
PinnedReferences  == {AtTag(1)}
================================================================================
