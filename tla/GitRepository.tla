----------------------------- MODULE GitRepository -----------------------------
(***************************************************************************)
(* The git repositories sampctl works with, as the go-git library treats   *)
(* them.  The upstream history of a dependency is linear and its commits   *)
(* are the numbers 1 .. MaxCommit, so "x is an ancestor of y" is x <= y.   *)
(*                                                                         *)
(* Two kinds of copy exist on the user's machine:                          *)
(*  - a CACHED repository, shared by all projects, which sampctl only      *)
(*    clones from upstream and pulls: it is described by its HEAD alone;   *)
(*  - a VENDORED repository (dependencies/<repo>), cloned from the cached  *)
(*    one, whose HEAD sampctl moves around and whose files users edit.     *)
(***************************************************************************)
EXTENDS Integers

CONSTANT MaxCommit

ASSUME MaxCommitAssumption == MaxCommit \in Nat \ {0}

Commits  == 1 .. MaxCommit
NoCommit == 0

(* A cached repository is missing, broken (a clone that was cut short), or *)
(* a clone whose HEAD is the given commit.                                 *)
Missing     == 0
Broken      == -1
CacheStates == Broken .. MaxCommit

(* DependencyMeta.CachePath: packages/<user>/<repo>/<branch or "default">. *)
(* A branch constraint names the one branch of the upstream history, whose *)
(* cached copy nevertheless lies in a directory of its own.                *)
CacheKeys == {"default", "branch"}

Worktrees == {"clean", "edited", "untracked"}

(* head: the commit HEAD resolves to; attached: HEAD names the local       *)
(* branch, whose commit is ref; known: the newest fetched commit; origin:  *)
(* the cached repository the remote "origin" points at.                    *)
Repositories ==
  [ status   : {"missing", "broken", "valid"},
    head     : {NoCommit} \cup Commits,
    ref      : {NoCommit} \cup Commits,
    known    : {NoCommit} \cup Commits,
    attached : BOOLEAN,
    worktree : Worktrees,
    origin   : CacheKeys ]

NoRepository ==
  [ status |-> "missing", head |-> NoCommit, ref |-> NoCommit, known |-> NoCommit,
    attached |-> TRUE, worktree |-> "clean", origin |-> "default" ]

BrokenRepository == [NoRepository EXCEPT !.status = "broken"]

Clone(commit, key) ==
  [ status |-> "valid", head |-> commit, ref |-> commit, known |-> commit,
    attached |-> TRUE, worktree |-> "clean", origin |-> key ]

(* Worktree.Pull from a remote whose HEAD is "tip": fast-forwards HEAD and,*)
(* when HEAD is attached, its branch; edits of tracked files make the      *)
(* final merge-reset fail after HEAD has moved.                            *)
Pull(repo, tip) ==
  IF tip \notin Commits THEN [ok |-> FALSE, repo |-> repo]
  ELSE IF repo.head >= tip THEN [ok |-> TRUE, repo |-> repo]
  ELSE [ ok   |-> repo.worktree # "edited",
         repo |-> [repo EXCEPT !.head  = tip,
                               !.ref   = IF repo.attached THEN tip ELSE repo.ref,
                               !.known = IF repo.known < tip THEN tip ELSE repo.known] ]

(* Worktree.Checkout of a hash with Force: HEAD is detached, tracked files *)
(* are restored, untracked files stay.                                     *)
Checkout(repo, commit) ==
  [repo EXCEPT !.head = commit, !.attached = FALSE,
               !.worktree = IF @ = "edited" THEN "clean" ELSE @]

(* RepairRepository: clean the worktree and hard-reset it to HEAD.         *)
RepairRepository(repo) == [repo EXCEPT !.worktree = "clean"]

(* ValidateRepository: does the directory hold a usable repository?        *)
ValidRepository(repo) == repo.status = "valid"
ValidCache(cached)    == cached \in Commits
================================================================================
