---------------------------- MODULE DependencyGraph ----------------------------
(***************************************************************************)
(* refreshDependencyGraph: the walk that flattens the dependencies of a    *)
(* project into AllDependencies and brings their repositories into the     *)
(* cache.  It recurses from the project into the definition of every       *)
(* dependency, marks repository names as visited, and keeps one error      *)
(* variable that every dependency overwrites.                              *)
(*                                                                         *)
(* One step handles one declared dependency, or leaves the definition of   *)
(* one package.  Any access to the network may fail, and the process may   *)
(* be killed between two steps.                                            *)
(***************************************************************************)
EXTENDS DependencyReferences

CONSTANT Requests  \* the update requests the walk is started with

NoTarget == [package |-> Project, kind |-> "invalid"]

AllRequests == {r \in [update : BOOLEAN, force : BOOLEAN, target : Sources \cup {NoTarget}] :
                  (r.force \/ r.target # NoTarget) => r.update}

ASSUME RequestsAssumption == Requests \subseteq AllRequests

VARIABLES
  definition,  \* what the project and the packages declare
  cached,      \* the packages with a usable copy in the cache
  walk,        \* "idle", "walking" or "complete"
  request,     \* the DependencyUpdateRequest
  path,        \* the sources the recursion is in, the deepest one last
  position,    \* how many of its dependencies each source has iterated
  visited,     \* the sources that took their name in the map "visited"
  found,       \* AllDependencies
  failed,      \* errInner # nil
  missed       \* history: the references that failed in this walk

walkVars == <<walk, request, path, position, visited, found, failed, missed>>
vars     == <<definition, cached, walkVars>>

NoRequest == [update |-> FALSE, force |-> FALSE, target |-> NoTarget]

TypeOK ==
  /\ definition \in Definitions
  /\ cached \subseteq Packages
  /\ walk \in {"idle", "walking", "complete"}
  /\ request \in AllRequests
  /\ path \in Seq(DOMAIN definition)
  /\ position \in [DOMAIN definition -> Nat]
  /\ visited \subseteq DOMAIN definition
  /\ found \in Seq(References)
  /\ failed \in BOOLEAN
  /\ missed \subseteq References

Unstarted == [s \in DOMAIN definition |-> 0]

Init ==
  /\ definition \in Definitions
  /\ cached = {}
  /\ walk = "idle"
  /\ request = NoRequest
  /\ path = <<>>
  /\ position = Unstarted
  /\ visited = {}
  /\ found = <<>>
  /\ failed = FALSE
  /\ missed = {}

--------------------------------------------------------------------------------
(* The walk.                                                               *)

Source == path[Len(path)]

(* The loop over the dependencies of the current package has reached r.    *)
Iterating(r) ==
  /\ walk = "walking"
  /\ position[Source] < Len(definition[Source])
  /\ r = definition[Source][position[Source] + 1]
  /\ position' = [position EXCEPT ![Source] = @ + 1]
  /\ UNCHANGED <<definition, walk, request>>

(* Each of the outcomes below assigns errInner.                            *)
Succeeds == failed' = FALSE /\ UNCHANGED missed
Fails(r) == failed' = TRUE /\ missed' = missed \cup {r}

(* Faulty variant: only the same revision counts as visited.               *)
VisitedNameExactly(r) == r \in visited

VisitedName(r) == \E s \in visited : Name(s) = Name(r)

Direct == Source = Root

(* DependencyUpdateRequest.Matches.                                        *)
Matches(r) ==
  request.target # NoTarget =>
    /\ r.package = request.target.package
    /\ request.target.kind = "tag" => r = request.target

(* Faulty variant: every reference is taken for a direct dependency.       *)
ShouldForceAll(r) ==
  /\ request.update
  /\ \/ request.force /\ request.target = NoTarget
     \/ Matches(r) /\ (r.kind = "head" \/ request.force)

(* DependencyUpdateRequest.ShouldForceDependency.                          *)
ShouldForce(r) ==
  /\ request.update
  /\ \/ request.force /\ request.target = NoTarget
     \/ Direct /\ Matches(r) /\ (r.kind = "head" \/ request.force)

(* EnsureDependencyCached goes to the network.                             *)
Fetches(r) == r.package \notin cached \/ ShouldForce(r)

(* Faulty variant: the list of an earlier walk is not cleared.             *)
BeginWalkAgain(req) ==
  /\ walk # "walking"
  /\ walk' = "walking"
  /\ request' = req
  /\ path' = <<Root>> /\ position' = Unstarted /\ visited' = {Root}
  /\ failed' = FALSE /\ missed' = {}
  /\ UNCHANGED <<definition, cached, found>>

(* The names start with that of the project, the lists start empty.        *)
BeginWalk(req) ==
  /\ walk # "walking"
  /\ walk' = "walking"
  /\ request' = req
  /\ path' = <<Root>>
  /\ position' = Unstarted
  /\ visited' = {Root}
  /\ found' = <<>>
  /\ failed' = FALSE
  /\ missed' = {}
  /\ UNCHANGED <<definition, cached>>

SkipInvalid(r) ==
  /\ Iterating(r)
  /\ ~WellFormed(r)
  /\ Fails(r)
  /\ UNCHANGED <<cached, path, visited, found>>

(* A URL scheme: listed whether or not it was visited, and not looked into.*)
Collect(r) ==
  /\ Iterating(r)
  /\ HasScheme(r)
  /\ found' = Append(found, Managed(r))
  /\ Succeeds
  /\ UNCHANGED <<cached, path, visited>>

SkipVisited(r) ==
  /\ Iterating(r)
  /\ r \in Sources /\ VisitedName(r)
  /\ Succeeds
  /\ UNCHANGED <<cached, path, visited, found>>

(* Faulty variants: the clone comes before the look at the map; a package  *)
(* one of whose dependencies failed is gone through again.                 *)
LoseVisited(r) ==
  /\ Iterating(r)
  /\ r \in Sources /\ Fetches(r)
  /\ cached' = cached \ {r.package}
  /\ Fails(r)
  /\ UNCHANGED <<path, visited, found>>

LoseRestarted(r) ==
  /\ walk = "walking"
  /\ position[Source] < Len(definition[Source])
  /\ r = definition[Source][position[Source] + 1]
  /\ r \in Sources /\ ~VisitedName(r) /\ Fetches(r)
  /\ position' = [position EXCEPT ![Source] = 0]
  /\ cached' = cached \ {r.package}
  /\ Fails(r)
  /\ UNCHANGED <<definition, walk, request, path, visited, found>>

(* The clone fails, or the pull and the clone that is to repair it: there  *)
(* is no cached copy any more, and the walk goes on.                       *)
Lose(r) ==
  /\ Iterating(r)
  /\ r \in Sources /\ ~VisitedName(r) /\ Fetches(r)
  /\ cached' = cached \ {r.package}
  /\ Fails(r)
  /\ UNCHANGED <<path, visited, found>>

(* Cached, but this revision holds no definition that can be read: listed, *)
(* and its name is not marked.                                             *)
ListUnread(r) ==
  /\ Iterating(r)
  /\ r \in Sources \ DOMAIN definition /\ ~VisitedName(r)
  /\ cached' = cached \cup {r.package}
  /\ found' = Append(found, r)
  /\ Fails(r)
  /\ UNCHANGED <<path, visited>>

(* Cached and read: the recursion goes into it.                            *)
Visit(r) ==
  /\ Iterating(r)
  /\ r \in DOMAIN definition /\ ~VisitedName(r)
  /\ cached' = cached \cup {r.package}
  /\ found' = Append(found, r)
  /\ path' = Append(path, r)
  /\ visited' = visited \cup {r}
  /\ Succeeds

(* The dependencies of the current package are done; those of the project  *)
(* come last, and errInner is what the last dependency left in it.         *)
Leave ==
  /\ walk = "walking"
  /\ position[Source] >= Len(definition[Source])
  /\ path' = SubSeq(path, 1, Len(path) - 1)
  /\ walk' = IF Len(path) = 1 THEN "complete" ELSE "walking"
  /\ UNCHANGED <<definition, cached, request, position, visited, found, failed, missed>>

Handle(r) ==
  \/ SkipInvalid(r) \/ Collect(r) \/ SkipVisited(r)
  \/ Lose(r) \/ ListUnread(r) \/ Visit(r)

Step == Leave \/ \E r \in References : Handle(r)

--------------------------------------------------------------------------------
(* The environment.                                                        *)

Forget ==
  /\ walk' = "idle"
  /\ request' = NoRequest
  /\ path' = <<>> /\ position' = Unstarted
  /\ visited' = {} /\ found' = <<>> /\ failed' = FALSE /\ missed' = {}

(* The command that asked for the walk ends.                               *)
Exit == walk = "complete" /\ Forget /\ UNCHANGED <<definition, cached>>

(* The process is killed: a copy that was being cloned or pulled is not a  *)
(* valid repository, and the next access removes it.                       *)
Crash ==
  /\ walk = "walking"
  /\ \E p \in Packages : cached' \in {cached, cached \ {p}}
  /\ Forget
  /\ UNCHANGED definition

(* Between two commands pawn.json is edited and the cache cleared.  What   *)
(* the packages declare stays as it is: the walk reads their cached copies.*)
EditProject ==
  /\ walk = "idle"
  /\ definition' \in Definitions
  /\ DOMAIN definition' = DOMAIN definition
  /\ \A s \in DOMAIN definition \ {Root} : definition'[s] = definition[s]
  /\ UNCHANGED <<cached, walkVars>>

ClearCache ==
  /\ walk = "idle"
  /\ cached' = {}
  /\ UNCHANGED <<definition, walkVars>>

Next ==
  \/ \E req \in Requests : BeginWalk(req)
  \/ Step
  \/ Exit \/ Crash \/ EditProject \/ ClearCache

GraphSpec == Init /\ [][Next]_vars /\ WF_vars(Step)

--------------------------------------------------------------------------------
(* Properties.                                                             *)

Listed == {found[i] : i \in 1 .. Len(found)}

(* The order of the walk, the map of names and the error variable          *)
(* implement the closure: what a complete walk lists leaves nothing out    *)
(* that a definition it has opened declares, except what failed, and holds *)
(* nothing else (refreshDependencyGraph as a whole).                       *)
Closure == INSTANCE DependencyClosure
             WITH opened <- visited, found <- Listed, status <- walk

ImplementsClosure == Closure!Spec

(* dependencies/<repo> is one directory: the walk never goes into two      *)
(* revisions, or two forks, of one repository name.                        *)
OneRevisionPerName ==
  \A s, t \in visited : Name(s) = Name(t) => s = t

(* "This prevents an infinite recursion" (cache.go:68-70): whatever cycles *)
(* the definitions have, the recursion is never twice in one repository.   *)
RecursionIsFinite ==
  \A i, j \in 1 .. Len(path) : Name(path[i]) = Name(path[j]) => i = j

(* What the walk has gone into is in the cache while the command uses the  *)
(* list: no forced pull further on in the walk takes it away from the      *)
(* install and the prune that follow, which read the copies.  Other        *)
(* processes, which might, are not in this model.                          *)
OpenedIsCached ==
  \A s \in visited \ {Root} : s.package \in cached

(* A walk loses a usable cached copy, which other projects share, only to  *)
(* an update that was to refresh it: all of them with --force and no       *)
(* target, else what the project itself declares, and of that the target.  *)
DirectPackages ==
  {definition[Root][i].package : i \in 1 .. Len(definition[Root])}

RefreshDue(p) ==
  /\ request.update
  /\ \/ request.force /\ request.target = NoTarget
     \/ /\ p \in DirectPackages
        /\ request.target # NoTarget => p = request.target.package

LosesOnlyRefreshed == walk' # "idle" => \A p \in cached \ cached' : RefreshDue(p)

OnlyRefreshedCopiesAreLost == [][LosesOnlyRefreshed]_vars

(* Whatever cycles the definitions have and whatever fails, a walk ends.   *)
WalkEnds == walk = "walking" ~> walk # "walking"

--------------------------------------------------------------------------------
(* What the documentation and the comments promise, and the code does not  *)
(* do: each is violated in a run of its own.                               *)

(* cache.go:35-36: "visit a parent package dependencies in the cache,      *)
(* pulling them if they do not exist yet".  A walk without an error may    *)
(* have failed to: the next dependency overwrites errInner.                *)
NothingIsMissed == walk = "complete" /\ ~failed => missed = {}

(* docs/migrating-samp-to-openmp.md:37-39: a transitive dependency is      *)
(* avoided by declaring another revision of it in the project.  Of two     *)
(* revisions the one met first is listed, however deep.                    *)
DirectReferenceWins ==
  walk = "complete" /\ missed = {} =>
    \A i \in 1 .. Len(definition[Root]) :
      LET r == definition[Root][i]
      IN (/\ r \in Sources /\ Name(r) # Name(Root)
          /\ \A j \in 1 .. i - 1 : Name(definition[Root][j]) # Name(r))
           => r \in Listed
================================================================================
