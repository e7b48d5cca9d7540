------------------------- MODULE DependencyGraph_proofs ------------------------
(***************************************************************************)
(* What DependencyGraph promises, for every set of packages, every graph   *)
(* of definitions, cyclic or not, and every set of update requests.        *)
(***************************************************************************)
EXTENDS DependencyGraph, SequenceTheorems, FiniteSetTheorems, WellFoundedInduction, TLAPS

(* The walk has a path exactly while it runs, and memory only after it has *)
(* begun.                                                                  *)
WalkShape ==
  /\ walk = "walking" <=> Len(path) > 0
  /\ walk = "walking" => Root \in visited
  /\ walk = "idle" => visited = {} /\ found = <<>> /\ missed = {}

(* The recursion is in sources it has marked.                              *)
PathIsVisited == \A i \in 1 .. Len(path) : path[i] \in visited

(* A loop stays within the dependencies of its package, starts with the    *)
(* first one, and is left only at its end.                                 *)
LoopsAreOrderly ==
  /\ \A s \in DOMAIN definition : position[s] <= Len(definition[s])
  /\ \A s \in DOMAIN definition \ visited : position[s] = 0
  /\ \A s \in visited : position[s] < Len(definition[s]) => \E i \in 1 .. Len(path) : path[i] = s

(* What a loop has passed is accounted for.                                *)
Settled(r) == VisitedName(r) \/ Managed(r) \in Listed \/ r \in missed

PassedIsSettled ==
  \A s \in visited : \A i \in 1 .. position[s] : Settled(definition[s][i])

IInv == /\ TypeOK /\ WalkShape /\ PathIsVisited /\ LoopsAreOrderly /\ PassedIsSettled
        /\ OneRevisionPerName /\ RecursionIsFinite /\ OpenedIsCached

--------------------------------------------------------------------------------

LEMMA RootIsReadable ==
  ASSUME TypeOK
  PROVE  /\ Root \in DOMAIN definition /\ DOMAIN definition \subseteq Sources
         /\ \A s \in DOMAIN definition : definition[s] \in Seq(References)
         /\ definition \in Definitions
BY DefinitionsAssumption DEF TypeOK

LEMMA RequestsAreTyped == NoRequest \in AllRequests
BY DEF NoRequest, AllRequests

LEMMA AppendLists ==
  ASSUME found \in Seq(References), NEW r \in References, found' = Append(found, r)
  PROVE  Listed' = Listed \cup {r} /\ found' \in Seq(References)
<1>1. Len(found') = Len(found) + 1 /\ Len(found) \in Nat
  BY DEF Listed
<1>2. \A i \in 1 .. Len(found) : found'[i] = found[i]
  OBVIOUS
<1>3. found'[Len(found) + 1] = r
  OBVIOUS
<1> QED BY <1>1, <1>2, <1>3 DEF Listed

LEMMA ManagedIsReference ==
  ASSUME NEW r \in References PROVE Managed(r) \in References
BY DEF Managed, References, AtHead

LEMMA FrontOfPath ==
  ASSUME NEW S, NEW p \in Seq(S), NEW n \in Nat, n <= Len(p)
  PROVE  /\ SubSeq(p, 1, n) \in Seq(S) /\ Len(SubSeq(p, 1, n)) = n
         /\ \A i \in 1 .. n : SubSeq(p, 1, n)[i] = p[i]
<1>1. \A i \in 1 .. n : p[i] \in S
  OBVIOUS
<1>2. /\ SubSeq(p, 1, n) \in Seq(S)
      /\ Len(SubSeq(p, 1, n)) = IF 1 <= n THEN n - 1 + 1 ELSE 0
      /\ \A i \in 1 .. n - 1 + 1 : SubSeq(p, 1, n)[i] = p[1 + i - 1]
  BY <1>1, SubSeqProperties
<1>3. (IF 1 <= n THEN n - 1 + 1 ELSE 0) = n /\ n - 1 + 1 = n
  OBVIOUS
<1>4. Len(SubSeq(p, 1, n)) = n
  BY <1>2, <1>3, Zenon
<1>5. ASSUME NEW i \in 1 .. n PROVE SubSeq(p, 1, n)[i] = p[i]
  <2>1. i \in 1 .. n - 1 + 1 /\ 1 + i - 1 = i
    OBVIOUS
  <2> QED BY <2>1, <1>2, Zenon
<1> QED BY <1>2, <1>4, <1>5, Zenon

(* The loop the walk is in, and its next dependency.                       *)
LEMMA CurrentLoop ==
  ASSUME IInv, walk = "walking"
  PROVE  /\ Len(path) \in Nat \ {0} /\ Source \in visited /\ Source \in DOMAIN definition
         /\ \A i \in 1 .. Len(path) : path[i] \in DOMAIN definition
         /\ position[Source] \in Nat /\ Len(definition[Source]) \in Nat
<1>1. Len(path) \in Nat \ {0} /\ path \in Seq(DOMAIN definition)
  BY DEF IInv, TypeOK, WalkShape
<1>2. \A i \in 1 .. Len(path) : path[i] \in DOMAIN definition /\ path[i] \in visited
  BY <1>1 DEF IInv, PathIsVisited
<1>3. Source \in visited /\ Source \in DOMAIN definition
  BY <1>1, <1>2 DEF Source
<1> QED BY <1>1, <1>2, <1>3, RootIsReadable DEF IInv, TypeOK

LEMMA NextDependency ==
  ASSUME IInv, NEW r \in References, Iterating(r)
  PROVE  /\ position' \in [DOMAIN definition -> Nat]
         /\ position'[Source] = position[Source] + 1
         /\ \A s \in DOMAIN definition \ {Source} : position'[s] = position[s]
         /\ position[Source] + 1 \in 1 .. Len(definition[Source])
         /\ r = definition[Source][position[Source] + 1]
BY CurrentLoop DEF Iterating, IInv, TypeOK

(* A dependency that does not lead deeper: if it is accounted for, and the *)
(* copies of what the walk has gone into stay, the invariant holds.        *)
LEMMA PassingKeeps ==
  ASSUME IInv, NEW r \in References, Iterating(r), path' = path, visited' = visited,
         cached' \subseteq Packages, found' \in Seq(References), failed' \in BOOLEAN,
         missed' \subseteq References,
         Listed \subseteq Listed', missed \subseteq missed', Settled(r)',
         \A s \in visited \ {Root} : s.package \in cached'
  PROVE  IInv'
<1> USE DEF IInv
<1>1. walk = "walking" /\ walk' = walk /\ definition' = definition /\ request' = request
  BY DEF Iterating
<1>2. TypeOK'
  BY <1>1, NextDependency DEF TypeOK
<1>3. WalkShape'
  BY <1>1 DEF WalkShape
<1>4. PathIsVisited' /\ OneRevisionPerName' /\ RecursionIsFinite' /\ OpenedIsCached'
  BY <1>1 DEF PathIsVisited, OneRevisionPerName, RecursionIsFinite, OpenedIsCached
<1>5. LoopsAreOrderly'
  <2>1. \A s \in DOMAIN definition : position'[s] <= Len(definition[s])
    BY NextDependency DEF LoopsAreOrderly
  <2>2. \A s \in DOMAIN definition \ visited : position'[s] = 0
    BY <1>1, NextDependency, CurrentLoop DEF LoopsAreOrderly
  <2>3. ASSUME NEW s \in visited, position'[s] < Len(definition[s])
        PROVE  \E i \in 1 .. Len(path) : path[i] = s
    <3>1. CASE s = Source
      BY <3>1, <1>1, CurrentLoop DEF Source
    <3>2. CASE s # Source
      BY <3>2, <2>3, NextDependency DEF LoopsAreOrderly, TypeOK
    <3> QED BY <3>1, <3>2
  <2> QED BY <1>1, <2>1, <2>2, <2>3 DEF LoopsAreOrderly
<1>6. PassedIsSettled'
  <2> SUFFICES ASSUME NEW s \in visited, NEW i \in 1 .. position'[s]
               PROVE  Settled(definition[s][i])'
    BY <1>1 DEF PassedIsSettled
  <2>1. ASSUME NEW t, Settled(t) PROVE Settled(t)'
    BY <2>1 DEF Settled, VisitedName
  <2>2. CASE i \in 1 .. position[s]
    BY <2>2, <2>1, <1>1 DEF PassedIsSettled
  <2>3. CASE i \notin 1 .. position[s]
    <3>1. s = Source /\ i = position[Source] + 1
      BY <2>3, NextDependency, CurrentLoop, <1>1 DEF TypeOK
    <3> QED BY <3>1, NextDependency, <1>1
  <2> QED BY <2>2, <2>3
<1> QED BY <1>2, <1>3, <1>4, <1>5, <1>6

--------------------------------------------------------------------------------
(* The actions.                                                            *)

LEMMA VisitKeeps ==
  ASSUME IInv, NEW r \in References, Visit(r) PROVE IInv'
<1> USE DEF IInv
<1>1. /\ walk = "walking" /\ walk' = walk /\ definition' = definition /\ request' = request
      /\ r \in DOMAIN definition /\ ~VisitedName(r)
      /\ path' = Append(path, r) /\ visited' = visited \cup {r}
      /\ found' = Append(found, r) /\ cached' = cached \cup {r.package}
      /\ failed' = FALSE /\ missed' = missed
  BY DEF Visit, Iterating, Succeeds
<1>2. Iterating(r)
  BY DEF Visit
<1>3. /\ Len(path') = Len(path) + 1 /\ path'[Len(path) + 1] = r
      /\ \A i \in 1 .. Len(path) : path'[i] = path[i]
      /\ path' \in Seq(DOMAIN definition)
  BY <1>1 DEF TypeOK
<1>4. Len(path) \in Nat \ {0}
  BY <1>1, CurrentLoop
<1>5. r \notin visited
  BY <1>1 DEF VisitedName
<1>6. Listed' = Listed \cup {r} /\ found' \in Seq(References)
  BY <1>1, AppendLists DEF TypeOK
<1>7. TypeOK'
  <2>1. r.package \in Packages
    BY DEF References
  <2> QED BY <2>1, <1>1, <1>2, <1>3, <1>6, NextDependency DEF TypeOK
<1>8. WalkShape'
  BY <1>1, <1>3, <1>4 DEF WalkShape
<1>9. PathIsVisited'
  BY <1>1, <1>3, <1>4 DEF PathIsVisited
<1>10. OneRevisionPerName'
  BY <1>1 DEF OneRevisionPerName, VisitedName
<1>11. RecursionIsFinite'
  <2>1. \A i \in 1 .. Len(path) : Name(path[i]) # Name(r)
    BY <1>1 DEF VisitedName, PathIsVisited
  <2> QED BY <2>1, <1>3, <1>4 DEF RecursionIsFinite
<1>12. OpenedIsCached'
  BY <1>1 DEF OpenedIsCached
<1>13. LoopsAreOrderly'
  <2>1. \A s \in DOMAIN definition : position'[s] <= Len(definition[s])
    BY <1>2, NextDependency DEF LoopsAreOrderly
  <2>2. \A s \in DOMAIN definition \ visited' : position'[s] = 0
    BY <1>1, <1>2, NextDependency, CurrentLoop DEF LoopsAreOrderly
  <2>3. ASSUME NEW s \in visited', position'[s] < Len(definition[s])
        PROVE  \E i \in 1 .. Len(path') : path'[i] = s
    <3>1. CASE s = Source
      <4>1. path'[Len(path)] = s /\ Len(path) \in 1 .. Len(path')
        BY <3>1, <1>3, <1>4 DEF Source
      <4> QED BY <4>1
    <3>2. CASE s = r
      <4>1. Len(path) + 1 \in 1 .. Len(path')
        BY <1>3, <1>4
      <4> QED BY <3>2, <4>1, <1>3
    <3>3. CASE s # Source /\ s # r
      <4>1. s \in visited /\ position[s] < Len(definition[s])
        BY <3>3, <2>3, <1>1, <1>2, NextDependency DEF TypeOK
      <4>2. PICK i \in 1 .. Len(path) : path[i] = s
        BY <4>1 DEF LoopsAreOrderly
      <4> QED BY <4>2, <1>3, <1>4
    <3> QED BY <3>1, <3>2, <3>3
  <2> QED BY <1>1, <2>1, <2>2, <2>3 DEF LoopsAreOrderly
<1>14. PassedIsSettled'
  <2> SUFFICES ASSUME NEW s \in visited', NEW i \in 1 .. position'[s]
               PROVE  Settled(definition[s][i])'
    BY <1>1 DEF PassedIsSettled
  <2>1. ASSUME NEW t, Settled(t) PROVE Settled(t)'
    BY <2>1, <1>1, <1>6 DEF Settled, VisitedName
  <2>2. s # r
    <3>1. r # Source /\ position[r] = 0
      BY <1>1, <1>5, CurrentLoop DEF LoopsAreOrderly
    <3>2. position'[r] = 0
      BY <3>1, <1>1, <1>2, NextDependency
    <3> QED BY <3>2
  <2>3. CASE i \in 1 .. position[s]
    BY <2>3, <2>2, <2>1, <1>1 DEF PassedIsSettled
  <2>4. CASE i \notin 1 .. position[s]
    <3>1. s = Source /\ i = position[Source] + 1
      BY <2>4, <2>2, <1>1, <1>2, NextDependency, CurrentLoop DEF TypeOK
    <3>2. Settled(r)'
      BY <1>1 DEF Settled, VisitedName
    <3> QED BY <3>1, <3>2, <1>1, <1>2, NextDependency
  <2> QED BY <2>3, <2>4
<1> QED BY <1>7, <1>8, <1>9, <1>10, <1>11, <1>12, <1>13, <1>14

LEMMA PassedOverKeeps ==
  ASSUME IInv, NEW r \in References, SkipInvalid(r) \/ Collect(r) \/ SkipVisited(r)
  PROVE  IInv'
<1> USE DEF IInv
<1>1. Managed(r) \in References /\ r \in References
  BY ManagedIsReference
<1>2. CASE SkipInvalid(r)
  <2>1. /\ Iterating(r) /\ cached' = cached /\ path' = path /\ visited' = visited
        /\ found' = found /\ failed' = TRUE /\ missed' = missed \cup {r}
    BY <1>2 DEF SkipInvalid, Fails
  <2>2. Settled(r)' /\ Listed' = Listed
    BY <2>1 DEF Settled, Listed
  <2> QED BY <2>1, <2>2, PassingKeeps DEF TypeOK, OpenedIsCached
<1>3. CASE Collect(r)
  <2>1. /\ Iterating(r) /\ cached' = cached /\ path' = path /\ visited' = visited
        /\ found' = Append(found, Managed(r)) /\ failed' = FALSE /\ missed' = missed
    BY <1>3 DEF Collect, Succeeds
  <2>2. Listed' = Listed \cup {Managed(r)} /\ found' \in Seq(References)
    BY <2>1, <1>1, AppendLists DEF TypeOK
  <2>3. Settled(r)'
    BY <2>2 DEF Settled
  <2> QED BY <2>1, <2>2, <2>3, PassingKeeps DEF TypeOK, OpenedIsCached
<1>4. CASE SkipVisited(r)
  <2>1. /\ Iterating(r) /\ VisitedName(r) /\ cached' = cached /\ path' = path
        /\ visited' = visited /\ found' = found /\ failed' = FALSE /\ missed' = missed
    BY <1>4 DEF SkipVisited, Succeeds
  <2>2. Settled(r)' /\ Listed' = Listed
    BY <2>1 DEF Settled, VisitedName, Listed
  <2> QED BY <2>1, <2>2, PassingKeeps DEF TypeOK, OpenedIsCached
<1> QED BY <1>2, <1>3, <1>4

(* The copy that is lost belongs to no source the walk has gone into: that *)
(* source would have taken the name.                                       *)
LEMMA FailedKeeps ==
  ASSUME IInv, NEW r \in References, Lose(r) \/ ListUnread(r)
  PROVE  IInv'
<1> USE DEF IInv
<1>1. CASE Lose(r)
  <2>1. /\ Iterating(r) /\ ~VisitedName(r) /\ cached' = cached \ {r.package} /\ path' = path
        /\ visited' = visited /\ found' = found /\ failed' = TRUE /\ missed' = missed \cup {r}
    BY <1>1 DEF Lose, Fails
  <2>2. Settled(r)' /\ Listed' = Listed
    BY <2>1 DEF Settled, Listed
  <2>3. \A s \in visited \ {Root} : s.package \in cached'
    BY <2>1 DEF OpenedIsCached, VisitedName, Name
  <2> QED BY <2>1, <2>2, <2>3, PassingKeeps DEF TypeOK
<1>2. CASE ListUnread(r)
  <2>1. /\ Iterating(r) /\ cached' = cached \cup {r.package} /\ path' = path
        /\ visited' = visited /\ found' = Append(found, r) /\ failed' = TRUE
        /\ missed' = missed \cup {r} /\ r.package \in Packages
    BY <1>2 DEF ListUnread, Fails, References
  <2>2. Listed' = Listed \cup {r} /\ found' \in Seq(References)
    BY <2>1, AppendLists DEF TypeOK
  <2>3. Settled(r)'
    BY <2>1 DEF Settled
  <2> QED BY <2>1, <2>2, <2>3, PassingKeeps DEF TypeOK, OpenedIsCached
<1> QED BY <1>1, <1>2

LEMMA LeaveKeeps ==
  ASSUME IInv, Leave PROVE IInv'
<1> USE DEF IInv
<1>1. /\ walk = "walking" /\ position[Source] >= Len(definition[Source])
      /\ path' = SubSeq(path, 1, Len(path) - 1)
      /\ walk' = IF Len(path) = 1 THEN "complete" ELSE "walking"
      /\ definition' = definition /\ cached' = cached /\ request' = request
      /\ position' = position /\ visited' = visited /\ found' = found
      /\ failed' = failed /\ missed' = missed
  BY DEF Leave
<1>2. Len(path) \in Nat \ {0} /\ path \in Seq(DOMAIN definition)
  BY <1>1, CurrentLoop DEF TypeOK
<1>3. /\ Len(path') = Len(path) - 1 /\ path' \in Seq(DOMAIN definition)
      /\ \A i \in 1 .. Len(path') : path'[i] = path[i] /\ i \in 1 .. Len(path)
  <2>1. Len(path) - 1 \in Nat /\ Len(path) - 1 <= Len(path)
    BY <1>2
  <2>2. /\ path' \in Seq(DOMAIN definition) /\ Len(path') = Len(path) - 1
        /\ \A i \in 1 .. Len(path) - 1 : path'[i] = path[i]
    BY <2>1, <1>1, <1>2, FrontOfPath, Zenon
  <2> QED BY <2>1, <2>2
<1>4. TypeOK'
  BY <1>1, <1>3 DEF TypeOK
<1>5. WalkShape'
  BY <1>1, <1>2, <1>3 DEF WalkShape
<1>6. PathIsVisited' /\ OneRevisionPerName' /\ OpenedIsCached'
  BY <1>1, <1>3 DEF PathIsVisited, OneRevisionPerName, OpenedIsCached
<1>7. RecursionIsFinite'
  BY <1>3 DEF RecursionIsFinite
<1>8. LoopsAreOrderly'
  <2>1. ASSUME NEW s \in visited, position[s] < Len(definition[s])
        PROVE  \E i \in 1 .. Len(path') : path'[i] = s
    <3>1. PICK i \in 1 .. Len(path) : path[i] = s
      BY <2>1 DEF LoopsAreOrderly
    <3>2. s # Source
      BY <2>1, <1>1, CurrentLoop
    <3>3. i # Len(path)
      BY <3>1, <3>2 DEF Source
    <3> QED BY <3>1, <3>3, <1>2, <1>3
  <2> QED BY <1>1, <2>1 DEF LoopsAreOrderly
<1>9. PassedIsSettled'
  BY <1>1 DEF PassedIsSettled, Settled, VisitedName, Listed
<1> QED BY <1>4, <1>5, <1>6, <1>7, <1>8, <1>9

LEMMA UnstartedIsTyped ==
  /\ Unstarted \in [DOMAIN definition -> Nat]
  /\ \A s \in DOMAIN definition : Unstarted[s] = 0
BY DEF Unstarted

LEMMA BeginKeeps ==
  ASSUME IInv, NEW req \in Requests, BeginWalk(req) PROVE IInv'
<1> USE DEF IInv
<1>1. /\ walk' = "walking" /\ request' = req /\ path' = <<Root>> /\ position' = Unstarted
      /\ visited' = {Root} /\ found' = <<>> /\ failed' = FALSE /\ missed' = {}
      /\ definition' = definition /\ cached' = cached
  BY DEF BeginWalk
<1>2. Len(path') = 1 /\ path'[1] = Root /\ path' \in Seq(DOMAIN definition)
  BY <1>1, RootIsReadable
<1>3. /\ position' \in [DOMAIN definition -> Nat]
      /\ \A s \in DOMAIN definition : position'[s] = 0 /\ Len(definition[s]) \in Nat
  BY <1>1, RootIsReadable, UnstartedIsTyped
<1>4. TypeOK'
  <2>1. found' \in Seq(References) /\ request' \in AllRequests
    BY <1>1, RequestsAssumption
  <2> QED BY <1>1, <1>2, <1>3, <2>1, RootIsReadable DEF TypeOK
<1>5. WalkShape' /\ PathIsVisited'
  BY <1>1, <1>2 DEF WalkShape, PathIsVisited
<1>6. LoopsAreOrderly'
  BY <1>1, <1>2, <1>3 DEF LoopsAreOrderly
<1>7. PassedIsSettled'
  BY <1>1, <1>3, RootIsReadable DEF PassedIsSettled
<1>8. OneRevisionPerName' /\ RecursionIsFinite' /\ OpenedIsCached'
  BY <1>1, <1>2 DEF OneRevisionPerName, RecursionIsFinite, OpenedIsCached
<1> QED BY <1>4, <1>5, <1>6, <1>7, <1>8

LEMMA InitIsSound == Init => IInv
<1> SUFFICES ASSUME Init PROVE IInv
  OBVIOUS
<1>1. /\ definition \in Definitions /\ cached = {} /\ walk = "idle" /\ request = NoRequest
      /\ path = <<>> /\ position = Unstarted /\ visited = {} /\ found = <<>>
      /\ failed = FALSE /\ missed = {}
  BY DEF Init
<1>2. path \in Seq(DOMAIN definition) /\ found \in Seq(References)
  BY <1>1
<1>3. TypeOK
  BY <1>1, <1>2, RequestsAreTyped, UnstartedIsTyped DEF TypeOK
<1>4. \A s \in DOMAIN definition : position[s] = 0 /\ Len(definition[s]) \in Nat
  BY <1>1, <1>3, RootIsReadable, UnstartedIsTyped
<1>5. WalkShape /\ PathIsVisited /\ LoopsAreOrderly /\ PassedIsSettled
  BY <1>1, <1>4 DEF WalkShape, PathIsVisited, LoopsAreOrderly, PassedIsSettled
<1>6. OneRevisionPerName /\ RecursionIsFinite /\ OpenedIsCached
  BY <1>1 DEF OneRevisionPerName, RecursionIsFinite, OpenedIsCached
<1> QED BY <1>3, <1>5, <1>6 DEF IInv

(* Nothing is walked any more and nothing is remembered.                   *)
LEMMA ForgetKeeps ==
  ASSUME IInv, Forget, definition' = definition, cached' \subseteq Packages PROVE IInv'
<1>1. /\ walk' = "idle" /\ request' = NoRequest /\ path' = <<>> /\ position' = Unstarted
      /\ visited' = {} /\ found' = <<>> /\ failed' = FALSE /\ missed' = {}
  BY DEF Forget
<1>2. path' \in Seq(DOMAIN definition) /\ found' \in Seq(References)
  BY <1>1
<1>3. TypeOK'
  BY <1>1, <1>2, RequestsAreTyped, UnstartedIsTyped DEF IInv, TypeOK
<1>4. \A s \in DOMAIN definition : position'[s] = 0 /\ Len(definition[s]) \in Nat
  BY <1>1, RootIsReadable, UnstartedIsTyped DEF IInv
<1>5. WalkShape' /\ PathIsVisited' /\ LoopsAreOrderly' /\ PassedIsSettled'
  BY <1>1, <1>4 DEF WalkShape, PathIsVisited, LoopsAreOrderly, PassedIsSettled
<1>6. OneRevisionPerName' /\ RecursionIsFinite' /\ OpenedIsCached'
  BY <1>1 DEF OneRevisionPerName, RecursionIsFinite, OpenedIsCached
<1> QED BY <1>3, <1>5, <1>6 DEF IInv

LEMMA EnvironmentKeeps ==
  ASSUME IInv, Exit \/ Crash \/ EditProject \/ ClearCache PROVE IInv'
<1> USE DEF IInv
<1>1. CASE Exit
  BY <1>1, ForgetKeeps DEF Exit, TypeOK
<1>2. CASE Crash
  BY <1>2, ForgetKeeps DEF Crash, TypeOK
<1>3. CASE EditProject
  <2>1. /\ walk = "idle" /\ definition' \in Definitions /\ DOMAIN definition' = DOMAIN definition
        /\ cached' = cached /\ walk' = walk /\ request' = request /\ path' = path
        /\ position' = position /\ visited' = visited /\ found' = found
        /\ failed' = failed /\ missed' = missed
    BY <1>3 DEF EditProject, walkVars
  <2>2. TypeOK'
    BY <2>1 DEF TypeOK
  <2>3. \A s \in DOMAIN definition : position[s] = 0 /\ Len(definition'[s]) \in Nat
    BY <2>1, DefinitionsAssumption DEF WalkShape, LoopsAreOrderly
  <2>4. visited = {}
    BY <2>1 DEF WalkShape
  <2>5. WalkShape' /\ PathIsVisited' /\ LoopsAreOrderly' /\ PassedIsSettled'
    BY <2>1, <2>3, <2>4 DEF WalkShape, PathIsVisited, LoopsAreOrderly, PassedIsSettled
  <2>6. OneRevisionPerName' /\ RecursionIsFinite' /\ OpenedIsCached'
    BY <2>1, <2>4 DEF OneRevisionPerName, RecursionIsFinite, OpenedIsCached
  <2> QED BY <2>2, <2>5, <2>6
<1>4. CASE ClearCache
  <2>1. /\ walk = "idle" /\ cached' = {} /\ definition' = definition /\ walk' = walk
        /\ request' = request /\ path' = path /\ position' = position /\ visited' = visited
        /\ found' = found /\ failed' = failed /\ missed' = missed
    BY <1>4 DEF ClearCache, walkVars
  <2>2. TypeOK'
    BY <2>1 DEF TypeOK
  <2>3. WalkShape' /\ PathIsVisited' /\ LoopsAreOrderly' /\ visited = {}
    BY <2>1 DEF WalkShape, PathIsVisited, LoopsAreOrderly
  <2>4. PassedIsSettled' /\ OneRevisionPerName' /\ RecursionIsFinite' /\ OpenedIsCached'
    BY <2>1, <2>3 DEF PassedIsSettled, OneRevisionPerName, RecursionIsFinite, OpenedIsCached
  <2> QED BY <2>2, <2>3, <2>4
<1> QED BY <1>1, <1>2, <1>3, <1>4

LEMMA StutteringKeeps ==
  ASSUME IInv, UNCHANGED vars PROVE IInv'
BY DEF vars, walkVars, IInv, TypeOK, WalkShape, PathIsVisited, LoopsAreOrderly, PassedIsSettled,
       Settled, VisitedName, Listed, OneRevisionPerName, RecursionIsFinite, OpenedIsCached

(* The invariant of the walk.                                              *)
LEMMA NextKeeps == IInv /\ [Next]_vars => IInv'
<1> SUFFICES ASSUME IInv, [Next]_vars PROVE IInv'
  OBVIOUS
<1>1. ASSUME NEW req \in Requests, BeginWalk(req) PROVE IInv'
  BY <1>1, BeginKeeps
<1>2. ASSUME NEW r \in References, Handle(r) PROVE IInv'
  BY <1>2, PassedOverKeeps, FailedKeeps, VisitKeeps DEF Handle
<1>3. CASE Leave
  BY <1>3, LeaveKeeps
<1>4. CASE Exit \/ Crash \/ EditProject \/ ClearCache
  BY <1>4, EnvironmentKeeps
<1>5. CASE UNCHANGED vars
  BY <1>5, StutteringKeeps
<1> QED BY <1>1, <1>2, <1>3, <1>4, <1>5 DEF Next, Step

LEMMA WalkInvariant == GraphSpec => []IInv
BY InitIsSound, NextKeeps, PTL DEF GraphSpec

--------------------------------------------------------------------------------
(* The theorems.                                                           *)

(* The walk's variables keep their types; above all, the recursion is only *)
(* ever in packages whose definition it could read.                        *)
THEOREM GraphTypeCorrect == GraphSpec => []TypeOK
<1>1. IInv => TypeOK
  BY DEF IInv
<1> QED BY <1>1, WalkInvariant, PTL

(* Whatever forks and revisions the definitions mix, the walk goes into    *)
(* one of each repository name: dependencies/<repo> has one owner.         *)
THEOREM OneOwnerPerName == GraphSpec => []OneRevisionPerName
<1>1. IInv => OneRevisionPerName
  BY DEF IInv
<1> QED BY <1>1, WalkInvariant, PTL

(* Whatever cycles the definitions have, the recursion of                  *)
(* refreshDependencyGraph is at no time twice in one repository.           *)
THEOREM CyclesAreCut == GraphSpec => []RecursionIsFinite
<1>1. IInv => RecursionIsFinite
  BY DEF IInv
<1> QED BY <1>1, WalkInvariant, PTL

(* The cached copies that the install and the prune read stay until the    *)
(* command ends, whatever clones and pulls of others fail meanwhile.       *)
THEOREM OpenedStaysCached == GraphSpec => []OpenedIsCached
<1>1. IInv => OpenedIsCached
  BY DEF IInv
<1> QED BY <1>1, WalkInvariant, PTL

(* A cached copy that other projects share is lost only to an update that  *)
(* was to refresh it: "direct" is decided before the recursion moves on.   *)
THEOREM OthersKeepTheirCopies == GraphSpec => OnlyRefreshedCopiesAreLost
<1>1. IInv /\ [Next]_vars => [LosesOnlyRefreshed]_vars
  <2> SUFFICES ASSUME IInv, Next, walk' # "idle", NEW p \in cached \ cached'
               PROVE  RefreshDue(p)
    BY DEF LosesOnlyRefreshed
  <2>1. PICK r \in References : Lose(r)
    <3>1. \A req \in Requests : ~BeginWalk(req)
      BY DEF BeginWalk
    <3>2. ~Leave /\ ~Exit /\ ~Crash /\ ~EditProject /\ ~ClearCache
      BY DEF Leave, Exit, Crash, Forget, EditProject, ClearCache, walkVars
    <3>3. \A r \in References : ~SkipInvalid(r) /\ ~Collect(r) /\ ~SkipVisited(r)
      BY DEF SkipInvalid, Collect, SkipVisited
    <3>4. \A r \in References : ~ListUnread(r) /\ ~Visit(r)
      BY DEF ListUnread, Visit
    <3> QED BY <3>1, <3>2, <3>3, <3>4 DEF Next, Step, Handle
  <2>2. p = r.package /\ ShouldForce(r)
    BY <2>1 DEF Lose, Fetches
  <2>3. CASE Direct
    <3>1. position[Root] + 1 \in 1 .. Len(definition[Root]) /\ r = definition[Root][position[Root] + 1]
      BY <2>1, <2>3, NextDependency DEF Lose, Direct
    <3>2. p \in DirectPackages
      BY <2>2, <3>1 DEF DirectPackages
    <3> QED BY <2>2, <3>2 DEF ShouldForce, Matches, RefreshDue
  <2>4. CASE ~Direct
    BY <2>2, <2>4 DEF ShouldForce, RefreshDue
  <2> QED BY <2>3, <2>4
<1> QED BY <1>1, WalkInvariant, PTL DEF GraphSpec, OnlyRefreshedCopiesAreLost

--------------------------------------------------------------------------------
(* The walk implements the closure.                                        *)

LEMMA ClosureTerms ==
  ASSUME NEW r
  PROVE  /\ Closure!Declared(r) <=>
              \E s \in visited : \E i \in DOMAIN definition[s] : definition[s][i] = r
         /\ Closure!NameTaken(r) <=> VisitedName(r)
         /\ Closure!Settled(r) <=> Settled(r)
         /\ Closure!Managed(r) = Managed(r)
         /\ Closure!WellFormed(r) <=> WellFormed(r)
         /\ Closure!HasScheme(r) <=> HasScheme(r)
BY DEF Closure!Declared, Closure!NameTaken, Closure!Settled, Closure!Name, Name, VisitedName,
       Settled, Closure!Managed, Managed, Closure!WellFormed, WellFormed, Closure!HasScheme,
       HasScheme, Closure!AtHead, AtHead

LEMMA ClosureConstants == Closure!Root = Root /\ Closure!References = References
BY DEF Closure!Root, Root, Closure!AtHead, AtHead, Closure!References, References

LEMMA NextIsDeclared ==
  ASSUME IInv, NEW r \in References, Iterating(r)
  PROVE  Closure!Declared(r)
<1>1. Source \in visited /\ Source \in DOMAIN definition
  BY CurrentLoop DEF Iterating
<1>2. DOMAIN definition[Source] = 1 .. Len(definition[Source])
  BY <1>1, RootIsReadable DEF IInv
<1>3. position[Source] + 1 \in DOMAIN definition[Source]
  BY <1>2, NextDependency
<1>4. r = definition[Source][position[Source] + 1]
  BY NextDependency
<1> QED BY <1>1, <1>3, <1>4, ClosureTerms

LEMMA HandleIsClosureStep ==
  ASSUME IInv, NEW r \in References, Handle(r)
  PROVE  [Closure!Next]_(Closure!vars)
<1> USE DEF IInv
<1>1. /\ Iterating(r) /\ walk = "walking" /\ walk' = walk /\ definition' = definition
      /\ Closure!Declared(r) /\ found \in Seq(References)
  BY NextIsDeclared DEF Handle, SkipInvalid, Collect, SkipVisited, Lose, ListUnread, Visit,
     Iterating, TypeOK
<1>2. CASE SkipInvalid(r) \/ Lose(r)
  <2>1. visited' = visited /\ Listed' = Listed /\ missed' = missed \cup {r}
    BY <1>2 DEF SkipInvalid, Lose, Fails, Listed
  <2>2. Closure!Miss(r)
    BY <1>1, <2>1 DEF Closure!Miss
  <2> QED BY <2>2, ClosureConstants DEF Closure!Next
<1>3. CASE Collect(r)
  <2>1. visited' = visited /\ missed' = missed /\ HasScheme(r) /\ WellFormed(r)
    BY <1>3 DEF Collect, Succeeds, HasScheme, WellFormed
  <2>2. Listed' = Listed \cup {Managed(r)}
    BY <1>1, <1>3, AppendLists, ManagedIsReference DEF Collect
  <2>3. Closure!Collect(r)
    BY <1>1, <2>1, <2>2, ClosureTerms DEF Closure!Collect
  <2> QED BY <2>3, ClosureConstants DEF Closure!Next
<1>4. CASE SkipVisited(r)
  <2>1. visited' = visited /\ Listed' = Listed /\ missed' = missed
    BY <1>4 DEF SkipVisited, Succeeds, Listed
  <2> QED BY <1>1, <2>1 DEF Closure!vars
<1>5. CASE ListUnread(r)
  <2>1. visited' = visited /\ missed' = missed \cup {r} /\ WellFormed(r)
    BY <1>5 DEF ListUnread, Fails, Sources, WellFormed
  <2>2. Listed' = Listed \cup {r}
    BY <1>1, <1>5, AppendLists DEF ListUnread
  <2>3. Closure!Miss(r)
    BY <1>1, <2>1, <2>2, ClosureTerms DEF Closure!Miss
  <2> QED BY <2>3, ClosureConstants DEF Closure!Next
<1>6. CASE Visit(r)
  <2>1. /\ visited' = visited \cup {r} /\ missed' = missed /\ ~VisitedName(r)
        /\ r \in DOMAIN definition /\ WellFormed(r)
    BY <1>6, RootIsReadable DEF Visit, Succeeds, Sources, WellFormed
  <2>2. Listed' = Listed \cup {r}
    BY <1>1, <1>6, AppendLists DEF Visit
  <2>3. Closure!Open(r)
    BY <1>1, <2>1, <2>2, ClosureTerms DEF Closure!Open
  <2> QED BY <2>3, ClosureConstants DEF Closure!Next
<1> QED BY <1>2, <1>3, <1>4, <1>5, <1>6 DEF Handle

(* When the project's own loop is left, every loop has come to its end.    *)
LEMMA LeaveIsClosureStep ==
  ASSUME IInv, Leave
  PROVE  [Closure!Next]_(Closure!vars)
<1> USE DEF IInv
<1>1. /\ walk = "walking" /\ definition' = definition /\ visited' = visited
      /\ Listed' = Listed /\ missed' = missed /\ position' = position
      /\ walk' = IF Len(path) = 1 THEN "complete" ELSE "walking"
  BY DEF Leave, Listed
<1>2. CASE Len(path) # 1
  BY <1>1, <1>2 DEF Closure!vars
<1>3. CASE Len(path) = 1
  <2>1. IInv' /\ walk' = "complete"
    BY <1>1, <1>3, LeaveKeeps
  <2>2. Len(path') = 0
    <3>1. Len(path') \in Nat /\ ~(Len(path') > 0)
      BY <2>1 DEF WalkShape, TypeOK
    <3> QED BY <3>1
  <2>3. ASSUME NEW s \in visited, NEW i \in DOMAIN definition[s] PROVE Settled(definition[s][i])
    <3>1. s \in DOMAIN definition /\ position[s] \in Nat
      BY DEF TypeOK
    <3>2. i \in 1 .. Len(definition[s]) /\ Len(definition[s]) \in Nat
      BY <3>1, RootIsReadable
    <3>3. ~(position[s] < Len(definition[s]))
      BY <1>1, <2>1, <2>2 DEF LoopsAreOrderly
    <3>4. i \in 1 .. position[s]
      BY <3>1, <3>2, <3>3
    <3> QED BY <3>4 DEF PassedIsSettled
  <2>4. \A r \in References : Closure!Declared(r) => Closure!Settled(r)
    BY <2>3, ClosureTerms
  <2>5. Closure!Finish
    BY <1>1, <2>1, <2>4, ClosureConstants DEF Closure!Finish
  <2> QED BY <2>5 DEF Closure!Next
<1> QED BY <1>2, <1>3

LEMMA OtherIsClosureStep ==
  ASSUME IInv,
         (\E req \in Requests : BeginWalk(req)) \/ Exit \/ Crash \/ EditProject \/ ClearCache
         \/ UNCHANGED vars
  PROVE  [Closure!Next]_(Closure!vars)
<1>1. ASSUME NEW req \in Requests, BeginWalk(req) PROVE Closure!Begin
  BY <1>1, ClosureConstants DEF BeginWalk, Listed, Closure!Begin
<1>2. CASE Exit \/ Crash
  <2>1. Closure!Forget
    BY <1>2 DEF Exit, Crash, Forget, Listed, Closure!Forget
  <2> QED BY <2>1 DEF Closure!Next
<1>3. CASE EditProject
  <2>1. Closure!Edit
    BY <1>3 DEF EditProject, walkVars, Listed, Closure!Edit
  <2> QED BY <2>1 DEF Closure!Next
<1>4. CASE ClearCache \/ UNCHANGED vars
  BY <1>4 DEF ClearCache, vars, walkVars, Listed, Closure!vars
<1> QED BY <1>1, <1>2, <1>3, <1>4 DEF Closure!Next

(* refreshDependencyGraph yields a closure of the declared dependencies:   *)
(* one revision per name, nothing undeclared, and nothing declared left    *)
(* out unless its failure was seen.                                        *)
THEOREM WalkImplementsClosure == GraphSpec => ImplementsClosure
<1>1. Init => Closure!Init
  BY DEF Init, Closure!Init, Listed
<1>2. IInv /\ [Next]_vars => [Closure!Next]_(Closure!vars)
  BY HandleIsClosureStep, LeaveIsClosureStep, OtherIsClosureStep DEF Next, Step
<1> QED BY <1>1, <1>2, WalkInvariant, PTL DEF GraphSpec, ImplementsClosure, Closure!Spec

--------------------------------------------------------------------------------
(* Why a walk ends.  A definition that is opened is never opened again;    *)
(* else the recursion comes back, or the loop it is in moves on.           *)

(* What can be read has been written: it is finitely many definitions.     *)
FiniteDefinitions == \A d \in Definitions : IsFiniteSet(DOMAIN d)

Unopened == DOMAIN definition \ visited
Rest(s)  == Len(definition[s]) - position[s]
WalkLeft == <<Cardinality(Unopened), <<Len(path), IF path = <<>> THEN 0 ELSE Rest(Source)>>>>

NatLess == OpToRel(<, Nat)
Lefts   == Nat \X (Nat \X Nat)
Shorter == LexPairOrdering(NatLess, LexPairOrdering(NatLess, NatLess, Nat, Nat), Nat, Nat \X Nat)

(* No sequence of steps goes down for ever.                                *)
LEMMA ShorterIsWellFounded == IsWellFoundedOn(Shorter, Lefts)
<1>1. IsWellFoundedOn(NatLess, Nat)
  BY NatLessThanWellFounded, Zenon DEF NatLess
<1>2. IsWellFoundedOn(LexPairOrdering(NatLess, NatLess, Nat, Nat), Nat \X Nat)
  BY <1>1, WFLexPairOrdering, Zenon
<1> QED BY <1>1, <1>2, WFLexPairOrdering, Zenon DEF Shorter, Lefts

LEMMA IsShorter ==
  ASSUME NEW a \in Nat, NEW b \in Nat, NEW c \in Nat, NEW d \in Nat, NEW e \in Nat, NEW f \in Nat,
         d < a \/ (d = a /\ e < b) \/ (d = a /\ e = b /\ f < c)
  PROVE  <<<<d, <<e, f>>>>, <<a, <<b, c>>>>>> \in Shorter
<1>1. \A x, y \in Nat : <<x, y>> \in NatLess <=> x < y
  BY DEF NatLess, OpToRel
<1>2. \A p, q \in Nat \X Nat :
        <<p, q>> \in LexPairOrdering(NatLess, NatLess, Nat, Nat)
          <=> p[1] < q[1] \/ (p[1] = q[1] /\ p[2] < q[2])
  BY <1>1 DEF LexPairOrdering
<1> DEFINE lex == LexPairOrdering(NatLess, NatLess, Nat, Nat)
<1>3. \A p, q \in Nat \X (Nat \X Nat) :
        <<p, q>> \in LexPairOrdering(NatLess, lex, Nat, Nat \X Nat)
          <=> p[1] < q[1] \/ (p[1] = q[1] /\ <<p[2], q[2]>> \in lex)
  <2> HIDE DEF lex
  <2> QED BY <1>1 DEF LexPairOrdering
<1>4. <<d, <<e, f>>>> \in Nat \X (Nat \X Nat) /\ <<a, <<b, c>>>> \in Nat \X (Nat \X Nat)
  OBVIOUS
<1>5. d = a => (<<<<e, f>>, <<b, c>>>> \in lex <=> e < b \/ (e = b /\ f < c))
  BY <1>2
<1> HIDE DEF lex
<1>6. <<<<d, <<e, f>>>>, <<a, <<b, c>>>>>> \in LexPairOrdering(NatLess, lex, Nat, Nat \X Nat)
  BY <1>3, <1>4, <1>5
<1> QED BY <1>6 DEF Shorter, lex

LEMMA UnopenedIsCounted ==
  ASSUME IInv, FiniteDefinitions
  PROVE  IsFiniteSet(Unopened) /\ Cardinality(Unopened) \in Nat
<1>1. IsFiniteSet(DOMAIN definition)
  BY DEF IInv, TypeOK, FiniteDefinitions
<1>2. IsFiniteSet(Unopened)
  BY <1>1, FS_Subset, Zenon DEF Unopened
<1> QED BY <1>2, FS_CardinalityType

LEMMA RestIsCounted ==
  ASSUME IInv, NEW s \in DOMAIN definition
  PROVE  Rest(s) \in Nat /\ position[s] \in Nat /\ Len(definition[s]) \in Nat
<1>1. position[s] \in Nat /\ Len(definition[s]) \in Nat /\ position[s] <= Len(definition[s])
  BY RootIsReadable DEF IInv, TypeOK, LoopsAreOrderly
<1> QED BY <1>1 DEF Rest

(* A dependency that does not lead deeper leaves one fewer in its loop.    *)
LEMMA PassingIsShorter ==
  ASSUME IInv, FiniteDefinitions, NEW r \in References, Iterating(r),
         path' = path, visited' = visited
  PROVE  <<WalkLeft', WalkLeft>> \in Shorter
<1>1. /\ Len(path) \in Nat \ {0} /\ Source \in DOMAIN definition /\ Rest(Source) \in Nat
      /\ Cardinality(Unopened) \in Nat /\ path # <<>>
  BY CurrentLoop, RestIsCounted, UnopenedIsCounted DEF Iterating
<1>2. Unopened' = Unopened /\ Source' = Source /\ definition' = definition
  BY DEF Unopened, Source, Iterating
<1>3. Rest(Source)' = Rest(Source) - 1 /\ Rest(Source) - 1 \in Nat
  BY <1>1, <1>2, NextDependency, RestIsCounted DEF Rest
<1>4. WalkLeft' = <<Cardinality(Unopened), <<Len(path), Rest(Source) - 1>>>>
  BY <1>1, <1>2, <1>3 DEF WalkLeft
<1>5. WalkLeft = <<Cardinality(Unopened), <<Len(path), Rest(Source)>>>>
  BY <1>1 DEF WalkLeft
<1>6. Rest(Source) - 1 < Rest(Source)
  BY <1>1
<1> QED BY <1>1, <1>3, <1>4, <1>5, <1>6, IsShorter

(* A package that is gone into is one fewer to open.                       *)
LEMMA VisitIsShorter ==
  ASSUME IInv, FiniteDefinitions, NEW r \in References, Visit(r)
  PROVE  <<WalkLeft', WalkLeft>> \in Shorter
<1>1. /\ walk = "walking" /\ definition' = definition /\ r \in DOMAIN definition
      /\ path' = Append(path, r) /\ visited' = visited \cup {r} /\ Iterating(r)
  BY DEF Visit, Iterating
<1>2. r \in Unopened
  BY <1>1 DEF Visit, VisitedName, Unopened
<1>3. Unopened' = Unopened \ {r}
  BY <1>1 DEF Unopened
<1>4. Cardinality(Unopened') = Cardinality(Unopened) - 1 /\ Cardinality(Unopened') \in Nat
  BY <1>2, <1>3, UnopenedIsCounted, FS_RemoveElement, FS_CardinalityType
<1>5. Len(path) \in Nat \ {0} /\ path \in Seq(DOMAIN definition) /\ Rest(Source) \in Nat /\ path # <<>>
  BY <1>1, CurrentLoop, RestIsCounted DEF IInv, TypeOK
<1>6. Len(path') = Len(path) + 1 /\ path' # <<>> /\ Source' = r
  BY <1>1, <1>5 DEF Source
<1>7. r # Source
  BY <1>1, <1>2, CurrentLoop DEF Unopened
<1>8. position'[r] = position[r]
  BY <1>1, <1>7, NextDependency
<1>9. Rest(Source)' \in Nat
  BY <1>1, <1>6, <1>8, RestIsCounted DEF Rest
<1>10. WalkLeft = <<Cardinality(Unopened), <<Len(path), Rest(Source)>>>>
  BY <1>5 DEF WalkLeft
<1>11. WalkLeft' = <<Cardinality(Unopened'), <<Len(path'), Rest(Source)'>>>>
  BY <1>6 DEF WalkLeft
<1>12. Cardinality(Unopened) \in Nat /\ Cardinality(Unopened') < Cardinality(Unopened)
  BY <1>4, UnopenedIsCounted
<1>13. Len(path) \in Nat /\ Len(path') \in Nat
  BY <1>5, <1>6
<1> QED BY <1>4, <1>5, <1>9, <1>10, <1>11, <1>12, <1>13, IsShorter

(* A package that is left shortens the recursion.                          *)
LEMMA LeaveIsShorter ==
  ASSUME IInv, FiniteDefinitions, Leave
  PROVE  <<WalkLeft', WalkLeft>> \in Shorter
<1>1. /\ walk = "walking" /\ path' = SubSeq(path, 1, Len(path) - 1)
      /\ definition' = definition /\ position' = position /\ visited' = visited
  BY DEF Leave
<1>2. /\ Len(path) \in Nat \ {0} /\ path \in Seq(DOMAIN definition) /\ Rest(Source) \in Nat /\ path # <<>>
      /\ \A i \in 1 .. Len(path) : path[i] \in DOMAIN definition
  BY <1>1, CurrentLoop, RestIsCounted DEF IInv, TypeOK
<1>3. Len(path) - 1 \in Nat /\ Len(path) - 1 <= Len(path)
  BY <1>2
<1>4. /\ path' \in Seq(DOMAIN definition) /\ Len(path') = Len(path) - 1
      /\ \A i \in 1 .. Len(path) - 1 : path'[i] = path[i]
  BY <1>1, <1>2, <1>3, FrontOfPath
<1>5. Unopened' = Unopened
  BY <1>1 DEF Unopened
<1> DEFINE rest == IF path' = <<>> THEN 0 ELSE Rest(Source)'
<1>6. rest \in Nat
  <2>1. CASE path' = <<>>
    BY <2>1
  <2>2. CASE path' # <<>>
    <3>1. Len(path') \in 1 .. Len(path) - 1
      BY <2>2, <1>2, <1>4
    <3>2. Source' \in DOMAIN definition
      BY <3>1, <1>2, <1>4 DEF Source
    <3>3. Rest(Source)' = Len(definition[Source']) - position[Source']
      BY <1>1 DEF Rest
    <3> QED BY <2>2, <3>2, <3>3, RestIsCounted DEF Rest
  <2> QED BY <2>1, <2>2
<1>7. WalkLeft = <<Cardinality(Unopened), <<Len(path), Rest(Source)>>>>
  BY <1>2 DEF WalkLeft
<1>8. WalkLeft' = <<Cardinality(Unopened), <<Len(path) - 1, rest>>>>
  BY <1>4, <1>5 DEF WalkLeft
<1> HIDE DEF rest
<1>9. Cardinality(Unopened) \in Nat /\ Len(path) - 1 < Len(path)
  BY <1>2, UnopenedIsCounted
<1> QED BY <1>2, <1>3, <1>6, <1>7, <1>8, <1>9, IsShorter

(* Every step of the walk of refreshDependencyGraph goes down in a         *)
(* well-founded order, whatever cycles the definitions have and whatever   *)
(* fails: no walk takes infinitely many steps.                             *)
WalkGetsShorter == [][Step => <<WalkLeft', WalkLeft>> \in Shorter]_vars

THEOREM WalkRunsOut == FiniteDefinitions /\ GraphSpec => WalkGetsShorter
<1>1. FiniteDefinitions /\ IInv /\ [Next]_vars => [Step => <<WalkLeft', WalkLeft>> \in Shorter]_vars
  <2> SUFFICES ASSUME FiniteDefinitions, IInv, Step PROVE <<WalkLeft', WalkLeft>> \in Shorter
    OBVIOUS
  <2>1. CASE Leave
    BY <2>1, LeaveIsShorter
  <2>2. ASSUME NEW r \in References, Handle(r) PROVE <<WalkLeft', WalkLeft>> \in Shorter
    <3>1. CASE Visit(r)
      BY <3>1, VisitIsShorter
    <3>2. CASE ~Visit(r)
      <4>1. Iterating(r) /\ path' = path /\ visited' = visited
        BY <2>2, <3>2 DEF Handle, SkipInvalid, Collect, SkipVisited, Lose, ListUnread
      <4> QED BY <4>1, PassingIsShorter
    <3> QED BY <3>1, <3>2
  <2> QED BY <2>1, <2>2 DEF Step
<1>2. FiniteDefinitions /\ [Next]_vars => FiniteDefinitions'
  BY DEF FiniteDefinitions
<1> QED BY <1>1, <1>2, WalkInvariant, PTL DEF GraphSpec, WalkGetsShorter
================================================================================
