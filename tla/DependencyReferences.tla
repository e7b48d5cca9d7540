------------------------- MODULE DependencyReferences --------------------------
(***************************************************************************)
(* What a package definition can declare, as the walk over the dependency  *)
(* graph sees it.                                                          *)
(***************************************************************************)
EXTENDS Integers, Sequences

CONSTANTS Packages,    \* the repositories (user/repo) that exist
          Project,     \* the one that holds the project itself
          RepoName,    \* the repo part: two users may have the same
          Definitions  \* what the project and the packages may declare

(* A reference in a definition: "head" is user/repo, "tag" user/repo:tag,  *)
(* "plugin" plugin://user/repo, which stands for the remote references of  *)
(* the four URL schemes; "invalid" is a string that cannot be parsed.      *)
References == [package : Packages, kind : {"head", "tag", "plugin", "invalid"}]

AtHead(package) == [package |-> package, kind |-> "head"]
Root            == AtHead(Project)

(* The revisions of packages whose definition can be looked into.          *)
Sources == {r \in References : r.kind \in {"head", "tag"}}

(* The map of the visited packages has the repository name for its key.    *)
Name(r) == RepoName[r.package]

WellFormed(r) == r.kind # "invalid"
HasScheme(r)  == r.kind = "plugin"

(* The reference under which the repository behind a URL is installed.     *)
Managed(r) == IF HasScheme(r) THEN AtHead(r.package) ELSE r

(* A definition maps the sources that can be read to what they declare.    *)
(* The others have no such tag, two definition files or one that does not  *)
(* parse.  A package without a definition file declares nothing.           *)
ASSUME ProjectAssumption == Project \in Packages
ASSUME DefinitionsAssumption ==
  \A d \in Definitions :
    /\ Root \in DOMAIN d /\ DOMAIN d \subseteq Sources
    /\ \A s \in DOMAIN d : d[s] \in Seq(References)
================================================================================
