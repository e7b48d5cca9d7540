--------------------------- MODULE DependencyClosure ---------------------------
(***************************************************************************)
(* What refreshDependencyGraph promises, without an order: starting from   *)
(* the project, the definition of one revision per repository name is      *)
(* opened, and when the graph is complete every dependency that an opened  *)
(* definition declares is accounted for.                                   *)
(***************************************************************************)
EXTENDS DependencyReferences

VARIABLES
  definition,  \* the declared dependencies of every readable source
  opened,      \* the sources whose definitions have been opened
  found,       \* the references to install
  missed,      \* the references that failed: invalid, not cloned or not readable
  status       \* "idle", "walking" or "complete"

vars == <<definition, opened, found, missed, status>>

(* The references that the opened definitions declare.                     *)
Declared(r) == \E s \in opened : \E i \in DOMAIN definition[s] : definition[s][i] = r

NameTaken(r) == \E s \in opened : Name(s) = Name(r)

(* Accounted for: installed in this revision or another one of that name,  *)
(* installed for the sake of its URL scheme, or known to have failed.      *)
Settled(r) == NameTaken(r) \/ Managed(r) \in found \/ r \in missed

Init ==
  /\ definition \in Definitions
  /\ opened = {} /\ found = {} /\ missed = {}
  /\ status = "idle"

Begin ==
  /\ status # "walking"
  /\ status' = "walking"
  /\ opened' = {Root} /\ found' = {} /\ missed' = {}
  /\ UNCHANGED definition

(* The definition of a reference is opened if no other has its name.       *)
Open(r) ==
  /\ status = "walking"
  /\ Declared(r) /\ WellFormed(r) /\ ~NameTaken(r) /\ r \in DOMAIN definition
  /\ opened' = opened \cup {r}
  /\ found' = found \cup {r}
  /\ UNCHANGED <<definition, missed, status>>

(* What has a URL scheme is installed, and nothing below it is looked at.  *)
Collect(r) ==
  /\ status = "walking"
  /\ Declared(r) /\ WellFormed(r) /\ HasScheme(r)
  /\ found' = found \cup {Managed(r)}
  /\ UNCHANGED <<definition, opened, missed, status>>

(* A reference that fails may be installed all the same, unread.           *)
Miss(r) ==
  /\ status = "walking"
  /\ Declared(r)
  /\ missed' = missed \cup {r}
  /\ found' \in {found} \cup (IF WellFormed(r) THEN {found \cup {r}} ELSE {})
  /\ UNCHANGED <<definition, opened, status>>

Finish ==
  /\ status = "walking"
  /\ \A r \in References : Declared(r) => Settled(r)
  /\ status' = "complete"
  /\ UNCHANGED <<definition, opened, found, missed>>

Forget ==
  /\ status' = "idle"
  /\ opened' = {} /\ found' = {} /\ missed' = {}
  /\ UNCHANGED definition

Edit ==
  /\ status = "idle"
  /\ definition' \in Definitions
  /\ UNCHANGED <<opened, found, missed, status>>

Next ==
  \/ Begin \/ Finish \/ Forget \/ Edit
  \/ \E r \in References : Open(r) \/ Collect(r) \/ Miss(r)

Spec == Init /\ [][Next]_vars
================================================================================
