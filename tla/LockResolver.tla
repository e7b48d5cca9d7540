------------------------------ MODULE LockResolver -----------------------------
(***************************************************************************)
(* What pkg/package/lockfile does with the entries of pawn.lock, as pure   *)
(* operators on a lock: a function from dependency keys to entries.        *)
(*                                                                         *)
(* A dependency reference ("meta") is a constraint kind and the commit it  *)
(* names: tag commits stand for tag names, and "none", "latest" and        *)
(* "branch" name no commit.                                                *)
(***************************************************************************)
EXTENDS GitRepository

Metas == [kind : {"none", "latest", "tag", "branch", "commit"},
          at   : {NoCommit} \cup Commits]

Unpinned == [kind |-> "none",   at |-> NoCommit]
Latest   == [kind |-> "latest", at |-> NoCommit]
Branch   == [kind |-> "branch", at |-> NoCommit]
AtTag(commit)    == [kind |-> "tag",    at |-> commit]
AtCommit(commit) == [kind |-> "commit", at |-> commit]

(* The part of LockedDependency the operators below read or write.         *)
(* transitive and requiredBy only inform the reader of the file.           *)
Entries == [constraint : Metas, commit : {NoCommit} \cup Commits]
NoEntry == [constraint |-> Unpinned, commit |-> NoCommit]

(* Lockfile.IsOutdated: no entry, or one recorded for another constraint.  *)
IsOutdated(entry, meta) == entry = NoEntry \/ entry.constraint # meta

(* Faulty variant: an entry of another constraint is used all the same.    *)
GetLockedVersionOutdated(entry, meta) ==
  IF entry = NoEntry THEN meta ELSE AtCommit(entry.commit)

(* Resolver.GetLockedVersion: the locked commit replaces tag and branch.   *)
GetLockedVersion(entry, meta) ==
  IF IsOutdated(entry, meta) THEN meta ELSE AtCommit(entry.commit)

(* Resolver.RecordResolution: an entry that already holds the resolved     *)
(* commit is left alone, its recorded constraint included.                 *)
RecordResolution(entry, meta, commit) ==
  IF entry # NoEntry /\ entry.commit = commit
  THEN entry
  ELSE [constraint |-> meta, commit |-> commit]

(* Faulty variant: edits are tolerated.                                    *)
VerifyIntegrityUnclean(entry, repo) ==
  entry # NoEntry => ValidRepository(repo) /\ repo.head = entry.commit

(* VerifyIntegrity with the "commit:<sha>" hash RecordResolution writes:   *)
(* HEAD is that commit and the worktree has no change of any kind.         *)
VerifyIntegrity(entry, repo) ==
  entry # NoEntry => /\ ValidRepository(repo)
                     /\ repo.head = entry.commit
                     /\ repo.worktree = "clean"

(* DependencyMeta.CachePath.                                               *)
CacheKey(meta) == IF meta.kind = "branch" THEN "branch" ELSE "default"

IsDynamic(meta)   == meta.kind \in {"none", "latest"}
IsPinnedTag(meta) == meta.kind = "tag"
================================================================================
