----------------------- MODULE ProjectDependencies_proofs ----------------------
(***************************************************************************)
(* For any packages, declarations, requests and changes around them: what  *)
(* the repository operations leave is well formed; a command that fails    *)
(* leaves pawn.json as it found it, and pawn.lock as it was or with the    *)
(* versions of all it installed; an ensure that is done leaves pawn.lock   *)
(* with an entry for each dependency that is there, and none that is not   *)
(* needed; and from one ensure to the next a dependency stays on its       *)
(* version.                                                                *)
(***************************************************************************)
EXTENDS ProjectDependencies, FiniteSetTheorems, WellFoundedInduction, TLAPS

LEMMA VersionFacts ==
  /\ MaxVersion \in Nat /\ Versions \subseteq 0 .. MaxVersion /\ 1 \in Versions
  /\ \A v \in 0 .. MaxVersion : v # 0 => v \in Versions
  /\ \A v \in Versions : v # 0 /\ v <= MaxVersion /\ v \in Nat
BY VersionsAssumption DEF VersionsAssumption, Versions

LEMMA PackageFacts ==
  /\ None \notin Packages /\ Torn \notin Locks
  /\ \A p \in Packages : Name[p] \in Names
  /\ \A p \in Packages, v \in Versions : Needs[p][v] \in Seq(References)
BY PackagesAssumption DEF PackagesAssumption, Names, Range

LEMMA ReferenceType ==
  ASSUME NEW r \in References
  PROVE  r.package \in Packages /\ r.pin \in {Unpinned} \cup Versions
BY DEF References

(* The least index of a reference in a list.                               *)
LEMMA FirstIndex ==
  ASSUME NEW refs \in Seq(References), NEW r \in Range(refs)
  PROVE  \E j \in DOMAIN refs : refs[j] = r /\ \A k \in 1 .. j - 1 : refs[k] # r
<1> DEFINE I == {j \in DOMAIN refs : refs[j] = r}
           L == {p \in Nat \X Nat : p[1] < p[2]}
<1>1. I \subseteq Nat /\ I # {}
  BY DEF Range
<1>2. PICK j \in I : \A k \in I : ~(<<k, j>> \in L)
  <2>1. IsWellFoundedOn(L, Nat)
    BY NatLessThanWellFounded, Zenon DEF OpToRel
  <2> HIDE DEF I, L
  <2> QED BY <1>1, <2>1, WFMin
<1>3. ASSUME NEW k \in 1 .. j - 1 PROVE refs[k] # r
  <2>1. j \in 1 .. Len(refs) /\ k \in 1 .. Len(refs) /\ k < j
    BY <1>2
  <2>2. <<k, j>> \in L
    BY <2>1
  <2>3. refs[k] = r => k \in I
    BY <2>1
  <2> HIDE DEF I, L
  <2> QED BY <1>2, <2>2, <2>3
<1> QED BY <1>2, <1>3

LEMMA WithoutType ==
  ASSUME NEW refs \in Seq(References), NEW r PROVE Without(refs, r) \in Seq(References)
<1>1. CASE r \notin Range(refs)
  BY <1>1 DEF Without
<1>2. CASE r \in Range(refs)
  <2> DEFINE i == CHOOSE j \in DOMAIN refs : refs[j] = r /\ \A k \in 1 .. j - 1 : refs[k] # r
  <2>1. i \in DOMAIN refs
    BY <1>2, FirstIndex
  <2>2. i \in 1 .. Len(refs)
    BY <2>1
  <2> HIDE DEF i
  <2>3. /\ SubSeq(refs, 1, i - 1) \in Seq(References)
        /\ SubSeq(refs, i + 1, Len(refs)) \in Seq(References)
    BY <2>2
  <2>4. SubSeq(refs, 1, i - 1) \o SubSeq(refs, i + 1, Len(refs)) \in Seq(References)
    BY <2>3
  <2> QED BY <1>2, <2>4 DEF Without, i
<1> QED BY <1>1, <1>2

--------------------------------------------------------------------------------
(* The operations on repositories.  Only where there is no network and no  *)
(* cached repository can a copy be gone.                                   *)
StateT  == [ok : BOOLEAN, copy : Copies, head : 0 .. MaxVersion]
Sane(s) == s \in StateT /\ (s.copy = NoCopy => ~s.ok /\ s.head = 0 /\ ~online)

LEMMA CopyType ==
  ASSUME NEW c \in Copies, c # NoCopy
  PROVE  c \in [package : Packages, at : Versions, seen : Versions]
BY DEF Copies

LEMMA CopiesDiffer ==
  ASSUME NEW c \in [package : Packages, at : Versions, seen : Versions]
  PROVE  c \in Copies /\ c # NoCopy
BY PackageFacts DEF Copies, NoCopy

LEMMA FetchedType ==
  ASSUME TypeOK, NEW p \in Packages, NEW h \in 0 .. MaxVersion, NEW force \in BOOLEAN
  PROVE  /\ Fetched(p, h, force) \in 0 .. MaxVersion
         /\ Fetched(p, h, force) = 0 => ~online
<1>1. published[p] \in 0 .. MaxVersion /\ published[p] # 0 /\ 0 \in 0 .. MaxVersion
  <2>1. published[p] \in Versions
    BY DEF TypeOK
  <2> DEFINE v == published[p]
  <2>2. v \in Versions
    BY <2>1
  <2> HIDE DEF v
  <2>3. v \in 0 .. MaxVersion /\ v # 0 /\ 0 \in 0 .. MaxVersion
    BY <2>2, VersionFacts
  <2> QED BY <2>3 DEF v
<1>2. Fetched(p, h, force) = IF h # 0 /\ ~force THEN h ELSE IF online THEN published[p] ELSE 0
  BY DEF Fetched
<1>3. CASE h # 0 /\ ~force
  BY <1>2, <1>3
<1>4. CASE ~(h # 0 /\ ~force)
  BY <1>1, <1>2, <1>4
<1> QED BY <1>3, <1>4

LEMMA ClonedType ==
  ASSUME TypeOK, NEW p \in Packages, NEW h \in 0 .. MaxVersion
  PROVE  Sane(Cloned(p, h))
<1> DEFINE f == Fetched(p, h, FALSE)
           c == [package |-> p, at |-> f, seen |-> f]
<1>1. f \in 0 .. MaxVersion /\ (f = 0 => ~online)
  BY FetchedType
<1>2. CASE f = 0
  <2>1. Cloned(p, h) = State(FALSE, NoCopy, 0)
    BY <1>2 DEF Cloned
  <2> QED BY <1>1, <1>2, <2>1, VersionFacts DEF Sane, StateT, State, Copies
<1>3. CASE f # 0
  <2>1. Cloned(p, h) = State(TRUE, c, f)
    BY <1>3 DEF Cloned
  <2>2. f \in Versions
    BY <1>1, <1>3, VersionFacts
  <2>3. c \in Copies /\ c # NoCopy
    BY <2>2, CopiesDiffer
  <2> HIDE DEF c, f
  <2> QED BY <1>1, <2>1, <2>3 DEF Sane, StateT, State
<1> QED BY <1>2, <1>3

LEMMA PulledType ==
  ASSUME TypeOK, NEW s \in StateT, s.copy # NoCopy, NEW p \in Packages
  PROVE  Pulled(s, p) \in StateT /\ Pulled(s, p).copy # NoCopy
<1> DEFINE tip == IF s.copy.package = p THEN s.head ELSE cached[s.copy.package]
           c   == [s.copy EXCEPT !.at = tip, !.seen = Max2(@, tip)]
<1>1. s.copy \in [package : Packages, at : Versions, seen : Versions]
  BY CopyType DEF StateT
<1>2. tip \in 0 .. MaxVersion
  BY <1>1 DEF TypeOK, StateT
<1>3. CASE tip = 0
  BY <1>3 DEF Pulled, StateT
<1>4. CASE tip # 0 /\ s.copy.at >= tip
  BY <1>4 DEF Pulled, StateT
<1>5. CASE tip # 0 /\ ~(s.copy.at >= tip)
  <2>1. tip \in Versions /\ Max2(s.copy.seen, tip) \in Versions
    BY <1>1, <1>2, <1>5, VersionFacts DEF Max2
  <2>2. c \in [package : Packages, at : Versions, seen : Versions]
    BY <1>1, <2>1
  <2>3. Pulled(s, p) = State(TRUE, c, s.head)
    BY <1>5 DEF Pulled
  <2>4. c \in Copies /\ c # NoCopy
    BY <2>2, CopiesDiffer
  <2> HIDE DEF c, tip
  <2> QED BY <2>3, <2>4 DEF StateT, State
<1> QED BY <1>3, <1>4, <1>5

(* What updateRepoState may be asked to check out.                         *)
Wishes == {AtTip} \cup {AtTag(v) : v \in Versions} \cup {AtCommit(e) : e \in Entries}

LEMMA CheckedOutType ==
  ASSUME TypeOK, NEW s \in StateT, s.copy # NoCopy, NEW p \in Packages, NEW want \in Wishes
  PROVE  CheckedOut(s, p, want) \in StateT /\ CheckedOut(s, p, want).copy # NoCopy
<1> DEFINE pulled == IF want.kind = "tag" THEN [s EXCEPT !.ok = TRUE] ELSE Pulled(s, p)
<1>1. pulled \in StateT /\ pulled.copy # NoCopy
  BY PulledType DEF StateT
<1>2. want.kind # "tip" => want.at \in Versions
  BY DEF Wishes, AtTip, AtTag, AtCommit, Entries
<1>3. pulled.copy \in [package : Packages, at : Versions, seen : Versions]
  BY <1>1, CopyType DEF StateT
<1>4. \/ CheckedOut(s, p, want) = pulled
      \/ want.kind # "tip" /\ CheckedOut(s, p, want) = [pulled EXCEPT !.copy.at = want.at]
      \/ CheckedOut(s, p, want) = [pulled EXCEPT !.ok = FALSE]
  BY DEF CheckedOut, CheckOut
<1> HIDE DEF pulled
<1>5. CASE CheckedOut(s, p, want) = pulled
  BY <1>1, <1>5
<1>6. CASE want.kind # "tip" /\ CheckedOut(s, p, want) = [pulled EXCEPT !.copy.at = want.at]
  <2> DEFINE c == [pulled.copy EXCEPT !.at = want.at]
  <2>1. c \in [package : Packages, at : Versions, seen : Versions]
    BY <1>2, <1>3, <1>6
  <2>2. c \in Copies /\ c # NoCopy
    BY <2>1, CopiesDiffer
  <2>3. CheckedOut(s, p, want) = [pulled EXCEPT !.copy = c]
    BY <1>6
  <2> HIDE DEF c
  <2> QED BY <1>1, <2>2, <2>3 DEF StateT
<1>7. CASE CheckedOut(s, p, want) = [pulled EXCEPT !.ok = FALSE]
  BY <1>1, <1>7 DEF StateT
<1> QED BY <1>4, <1>5, <1>6, <1>7

LEMMA RefreshedType ==
  ASSUME TypeOK, NEW s \in StateT, s.copy # NoCopy, NEW p \in Packages
  PROVE  Sane(Refreshed(s, p)) /\ (Refreshed(s, p).ok => Refreshed(s, p).copy # NoCopy)
<1> DEFINE h == Fetched(p, s.head, TRUE)
           t == [s EXCEPT !.head = h]
           r == Pulled(t, p)
<1>1. h \in 0 .. MaxVersion
  BY FetchedType DEF StateT
<1>2. t \in StateT /\ t.copy # NoCopy
  BY <1>1 DEF StateT
<1>3. r \in StateT /\ r.copy # NoCopy
  BY <1>2, PulledType
<1>4. Sane(Cloned(p, h))
  BY <1>1, ClonedType
<1>5. State(FALSE, s.copy, 0) \in StateT /\ State(FALSE, s.copy, 0).copy # NoCopy
  BY VersionFacts DEF State, StateT
<1>6. Refreshed(s, p) = IF h = 0 THEN State(FALSE, s.copy, 0) ELSE IF r.ok THEN r ELSE Cloned(p, h)
  BY DEF Refreshed
<1> HIDE DEF h, t, r
<1> QED BY <1>3, <1>4, <1>5, <1>6 DEF Sane

LEMMA UpdateRepoStateType ==
  ASSUME TypeOK, NEW s, Sane(s), s.copy # NoCopy, NEW p \in Packages, NEW want \in Wishes,
         NEW force \in BOOLEAN
  PROVE  Sane(UpdateRepoState(s, p, want, force))
<1> DEFINE r == Refreshed(s, p)
<1>1. Sane(r) /\ (r.ok => r.copy # NoCopy)
  BY RefreshedType DEF Sane
<1>2. CheckedOut(s, p, want) \in StateT /\ CheckedOut(s, p, want).copy # NoCopy
  BY CheckedOutType DEF Sane
<1>3. r.ok => CheckedOut(r, p, want) \in StateT /\ CheckedOut(r, p, want).copy # NoCopy
  BY <1>1, CheckedOutType DEF Sane
<1>4. UpdateRepoState(s, p, want, force) =
        IF ~force THEN CheckedOut(s, p, want) ELSE IF r.ok THEN CheckedOut(r, p, want) ELSE r
  BY DEF UpdateRepoState
<1> HIDE DEF r
<1> QED BY <1>1, <1>2, <1>3, <1>4 DEF Sane

(* A copy that is gone is gone for good: there is nothing to clone it from.*)
LEMMA UpdateRepoStateOfNothing ==
  ASSUME TypeOK, NEW s, Sane(s), s.copy = NoCopy, NEW p \in Packages, NEW want
  PROVE  /\ UpdateRepoState(s, p, want, TRUE) = State(FALSE, s.copy, 0)
         /\ Sane(State(FALSE, s.copy, 0))
<1>1. s.head = 0 /\ ~online /\ s \in StateT
  BY DEF Sane
<1>2. Fetched(p, s.head, TRUE) = 0
  BY <1>1 DEF Fetched
<1>3. Refreshed(s, p) = State(FALSE, s.copy, 0)
  BY <1>2 DEF Refreshed
<1>4. UpdateRepoState(s, p, want, TRUE) = State(FALSE, s.copy, 0)
  BY <1>3 DEF UpdateRepoState, State
<1> QED BY <1>1, <1>4, VersionFacts DEF Sane, StateT, State

LEMMA UpdateWithRecoveryType ==
  ASSUME TypeOK, NEW s, Sane(s), s.copy # NoCopy, NEW p \in Packages, NEW want \in Wishes,
         NEW force \in BOOLEAN
  PROVE  Sane(UpdateWithRecovery(s, p, want, force))
<1> DEFINE first  == UpdateRepoState(s, p, want, force)
           second == UpdateRepoState(first, p, want, TRUE)
           clone  == Cloned(p, second.head)
<1>1. Sane(first)
  BY UpdateRepoStateType
<1> HIDE DEF first
<1>2. Sane(second)
  BY <1>1, UpdateRepoStateType, UpdateRepoStateOfNothing
<1> HIDE DEF second
<1>3. Sane(clone)
  BY <1>2, ClonedType DEF Sane, StateT
<1>4. clone.ok => clone.copy # NoCopy
  BY <1>3 DEF Sane
<1> HIDE DEF clone
<1>5. clone.ok => Sane(UpdateRepoState(clone, p, want, force))
  BY <1>3, <1>4, UpdateRepoStateType
<1>6. UpdateWithRecovery(s, p, want, force) =
        IF first.ok THEN first ELSE IF second.ok THEN second
        ELSE IF clone.ok THEN UpdateRepoState(clone, p, want, force) ELSE clone
  BY DEF UpdateWithRecovery, Recovered, OnClone, first, second, clone
<1> QED BY <1>1, <1>2, <1>3, <1>5, <1>6

LEMMA WantedType ==
  ASSUME TypeOK, NEW r \in References, NEW force \in BOOLEAN PROVE Wanted(r, force) \in Wishes
<1>1. r.package \in Packages /\ r.pin \in {Unpinned} \cup Versions
  BY ReferenceType
<1>2. lock[r.package] # None => lock[r.package] \in Entries
  BY <1>1 DEF TypeOK, Locks
<1> QED BY <1>1, <1>2 DEF Wanted, Wishes

LEMMA AttemptType ==
  ASSUME TypeOK, NEW r \in References, NEW force \in BOOLEAN, NEW s \in StateT
  PROVE  /\ Sane(Attempt(r, force, s))
         /\ Attempt(r, force, s).ok => Verified(Attempt(r, force, s), r.package)
<1> DEFINE p       == r.package
           there   == IF s.copy = NoCopy THEN Cloned(p, s.head) ELSE [s EXCEPT !.ok = TRUE]
           updated == UpdateWithRecovery(there, p, Wanted(r, force), force)
           clone   == Cloned(p, updated.head)
           again   == UpdateWithRecovery(clone, p, Wanted(r, force), force)
<1>1. p \in Packages /\ Wanted(r, force) \in Wishes
  BY ReferenceType, WantedType
<1> HIDE DEF p
<1>2. Sane(there)
  <2>1. CASE s.copy = NoCopy
    BY <1>1, <2>1, ClonedType DEF StateT
  <2>2. CASE s.copy # NoCopy
    BY <2>2 DEF Sane, StateT
  <2> QED BY <2>1, <2>2
<1>3. there.ok => there.copy # NoCopy
  BY <1>2 DEF Sane
<1> HIDE DEF there
<1>4. there.ok => Sane(updated)
  BY <1>1, <1>2, <1>3, UpdateWithRecoveryType
<1> HIDE DEF updated
<1>5. there.ok => Sane(clone) /\ (clone.ok => clone.copy # NoCopy)
  <2>1. there.ok => Sane(clone)
    BY <1>1, <1>4, ClonedType DEF Sane, StateT
  <2> QED BY <2>1 DEF Sane
<1> HIDE DEF clone
<1>6. there.ok /\ clone.ok => Sane(again)
  BY <1>1, <1>5, UpdateWithRecoveryType
<1> HIDE DEF again
<1>7. Attempt(r, force, s) =
        IF ~there.ok THEN there
        ELSE IF ~updated.ok \/ Verified(updated, p) THEN updated
        ELSE IF ~clone.ok THEN clone
        ELSE [again EXCEPT !.ok = @ /\ Verified(again, p)]
  BY DEF Attempt, Settled, Reinstalled, p, there, updated, clone, again
<1> DEFINE checked == [again EXCEPT !.ok = @ /\ Verified(again, p)]
<1>8. Sane(again) => Sane(checked) /\ (checked.ok => Verified(checked, p))
  <2>1. Verified(again, p) \in BOOLEAN
    BY DEF Verified
  <2>2. ASSUME Sane(again), checked.ok PROVE Verified(checked, p)
    <3>1. again \in StateT
      BY <2>2 DEF Sane
    <3>2. checked.copy = again.copy /\ Verified(again, p)
      BY <2>2, <3>1 DEF StateT
    <3> QED BY <3>2 DEF Verified
  <2>3. Sane(again) => Sane(checked)
    BY <2>1 DEF Sane, StateT
  <2> QED BY <2>2, <2>3
<1> HIDE DEF checked
<1>9. Attempt(r, force, s) =
        IF ~there.ok THEN there
        ELSE IF ~updated.ok \/ Verified(updated, p) THEN updated
        ELSE IF ~clone.ok THEN clone ELSE checked
  BY <1>7 DEF checked
<1>10. Sane(Attempt(r, force, s))
  BY <1>2, <1>4, <1>5, <1>6, <1>8, <1>9
<1>11. Attempt(r, force, s).ok => Verified(Attempt(r, force, s), p)
  BY <1>5, <1>6, <1>8, <1>9
<1> QED BY <1>10, <1>11 DEF p

LEMMA EnsuredType ==
  ASSUME TypeOK, NEW r \in References, NEW force \in BOOLEAN
  PROVE  /\ Sane(Ensured(r, force))
         /\ Ensured(r, force).ok => Verified(Ensured(r, force), r.package)
<1> DEFINE s     == State(TRUE, vendor[Name[r.package]], cached[r.package])
           first == Attempt(r, force, s)
<1>1. s \in StateT
  BY ReferenceType, PackageFacts DEF State, StateT, TypeOK
<1> HIDE DEF s
<1>2. Sane(first) /\ (first.ok => Verified(first, r.package))
  BY <1>1, AttemptType
<1> HIDE DEF first
<1>3. /\ Sane(Attempt(r, force, first))
      /\ Attempt(r, force, first).ok => Verified(Attempt(r, force, first), r.package)
  BY <1>2, AttemptType DEF Sane
<1>4. Ensured(r, force) = IF first.ok THEN first ELSE Attempt(r, force, first)
  BY DEF Ensured, Retried, first, s
<1> QED BY <1>2, <1>3, <1>4

--------------------------------------------------------------------------------
(* The inductive invariant of the types.                                   *)
RequestIsGiven == pc # "idle" => request \in Requests

ResultIsLast == pc # "idle" => result = "none"

IInv == TypeOK /\ RequestIsGiven /\ ResultIsLast

LEMMA InitKeeps == Init => IInv
<1> SUFFICES ASSUME Init PROVE IInv
  OBVIOUS
<1>1. TypeOK
  <2>1. /\ published \in [Packages -> Versions] /\ cached \in [Packages -> 0 .. MaxVersion]
        /\ vendor \in [Names -> Copies] /\ changes \in 0 .. MaxChanges
    BY VersionFacts, ChangesAssumption DEF Init, Copies, ChangesAssumption
  <2>2. declared \in Seq(References)
    BY UserAssumption DEF Init, UserAssumption
  <2>3. NoLock \in Locks
    BY DEF NoLock, Locks
  <2>4. started \in Beginnings
    BY <2>3 DEF Init, Unstarted, Beginnings
  <2>5. online \in BOOLEAN /\ writable \in BOOLEAN /\ failed \in BOOLEAN
    BY Zenon DEF Init
  <2>6. mine \in Seq(References) /\ todo \in Seq(References) /\ flat \in Seq(References)
    BY DEF Init
  <2>7. last \in [Packages -> Installations \cup {None}]
    BY DEF Init
  <2>8. /\ pc \in Stages /\ request \in Requests \cup {None} /\ visited \subseteq Names
        /\ skipped \subseteq Packages /\ result \in {"none", "done", "failed"}
        /\ lock \in Locks /\ disk \in Locks \cup {Torn}
    BY <2>3 DEF Init, Stages
  <2> QED BY <2>1, <2>2, <2>4, <2>5, <2>6, <2>7, <2>8 DEF TypeOK
<1>2. RequestIsGiven /\ ResultIsLast
  BY DEF Init, RequestIsGiven, ResultIsLast
<1> QED BY <1>1, <1>2 DEF IInv

LEMMA ListTypes ==
  ASSUME NEW l \in Seq(References), l # << >>
  PROVE  /\ Head(l) \in References /\ Tail(l) \in Seq(References)
         /\ Head(l).package \in Packages /\ Head(l).pin \in {Unpinned} \cup Versions
BY ReferenceType

LEMMA EndType ==
  ASSUME TypeOK, NEW v \in {"none", "done", "failed"}, End(v)
  PROVE  /\ pc' \in Stages /\ result' \in {"none", "done", "failed"}
         /\ mine' \in Seq(References) /\ todo' \in Seq(References)
         /\ flat' \in Seq(References) /\ visited' \subseteq Names /\ failed' \in BOOLEAN
         /\ lock' \in Locks /\ skipped' \subseteq Packages
         /\ request' \in Requests \cup {None}
         /\ started' = started
<1>1. failed' = FALSE /\ failed' \in BOOLEAN
  BY Zenon DEF End
<1>2. pc' \in Stages /\ lock' \in Locks
  BY DEF End, Stages, NoLock, Locks
<1>3. todo' \in Seq(References) /\ visited' = {} /\ result' = v
  BY DEF End
<1>4. UNCHANGED <<request, mine, flat, skipped, started>>
  BY DEF End
<1> QED BY <1>1, <1>2, <1>3, <1>4 DEF TypeOK

LEMMA NothingType ==
  ASSUME Nothing
  PROVE  /\ pc' \in Stages /\ result' \in {"none", "done", "failed"}
         /\ mine' \in Seq(References) /\ todo' \in Seq(References)
         /\ flat' \in Seq(References) /\ visited' \subseteq Names /\ failed' \in BOOLEAN
         /\ lock' \in Locks /\ skipped' \subseteq Packages
         /\ request' \in Requests \cup {None}
         /\ started' \in Beginnings
<1>1. NoLock \in Locks
  BY DEF NoLock, Locks
<1>2. Unstarted \in Beginnings
  BY <1>1 DEF Unstarted, Beginnings
<1>3. pc' \in Stages
  BY DEF Nothing, Stages
<1>4. failed' \in BOOLEAN
  BY DEF Nothing
<1> QED BY <1>1, <1>2, <1>3, <1>4 DEF Nothing

LEMMA NextTypeOK == IInv /\ [Next]_vars => TypeOK'
<1> SUFFICES ASSUME IInv, [Next]_vars PROVE TypeOK'
  OBVIOUS
<1> USE DEF IInv, Goto, worldVars, projectVars, walkVars
<1>1. ASSUME NEW q \in Requests, Start(q), UNCHANGED changes
     PROVE  TypeOK'
  <2>1. /\ mine' \in Seq(References) /\ todo' \in Seq(References) /\ flat' \in Seq(References)
    BY <1>1 DEF Start, TypeOK
  <2>2. started' \in Beginnings
    BY <1>1 DEF Start, TypeOK, Beginnings
  <2>3. lock' \in Locks /\ failed' \in BOOLEAN /\ pc' \in Stages
    BY <1>1 DEF Start, NoLock, Locks, Stages
  <2> QED BY <1>1, <2>1, <2>2, <2>3 DEF Start, TypeOK
<1>2. ASSUME NEW r \in References, SkipVisited(r), UNCHANGED last, UNCHANGED changes
     PROVE  TypeOK'
  <2>1. todo' \in Seq(References)
    BY <1>2, ListTypes DEF SkipVisited, Walking, TypeOK
  <2>2. failed' \in BOOLEAN
    BY <1>2, Zenon DEF SkipVisited
  <2> QED BY <1>2, <2>1, <2>2 DEF SkipVisited, TypeOK
<1>3. ASSUME NEW r \in References, Visit(r), UNCHANGED last, UNCHANGED changes
     PROVE  TypeOK'
  <2> DEFINE head == Fetched(r.package, cached[r.package], FALSE)
  <2>1. /\ r.package \in Packages /\ r.pin \in {Unpinned} \cup Versions
        /\ Name[r.package] \in Names
    BY ReferenceType, PackageFacts
  <2>2. head \in 0 .. MaxVersion
    <3>1. cached[r.package] \in 0 .. MaxVersion
      BY <2>1 DEF TypeOK
    <3> QED BY <2>1, <3>1, FetchedType
  <2> HIDE DEF head
  <2>3. cached' \in [Packages -> 0 .. MaxVersion]
    BY <1>3, <2>2 DEF Visit, head, TypeOK
  <2>4. flat' \in Seq(References)
    <3>1. flat' = IF head = 0 THEN flat ELSE Append(flat, r)
      BY <1>3 DEF Visit, head
    <3>2. flat \in Seq(References)
      BY DEF TypeOK
    <3> QED BY <3>1, <3>2
  <2>5. Tail(todo) \in Seq(References)
    BY <1>3, ListTypes DEF Visit, Walking, TypeOK
  <2>6. CASE Defined(r, head)
    <3>1. Revision(r, head) \in Versions
      BY <2>1, <2>2, <2>6, VersionFacts DEF Defined, Revision
    <3>2. Needs[r.package][Revision(r, head)] \in Seq(References)
      BY <2>1, <3>1, PackageFacts
    <3>3. todo' = Needs[r.package][Revision(r, head)] \o Tail(todo)
      BY <1>3, <2>6 DEF Visit, head
    <3>4. todo' \in Seq(References)
      BY <2>5, <3>2, <3>3
    <3>5. failed' \in BOOLEAN
      BY <1>3, <2>6, Zenon DEF Visit, head
    <3>6. visited' \subseteq Names
      BY <1>3, <2>1, <2>6 DEF Visit, head, TypeOK
    <3> QED BY <1>3, <2>3, <2>4, <3>4, <3>5, <3>6 DEF Visit, TypeOK
  <2>7. CASE ~Defined(r, head)
    <3>1. todo' = Tail(todo) /\ failed' = TRUE /\ visited' = visited
      BY <1>3, <2>7 DEF Visit, head
    <3>2. failed' \in BOOLEAN /\ todo' \in Seq(References)
      BY <2>5, <3>1
    <3> QED BY <1>3, <2>3, <2>4, <3>1, <3>2 DEF Visit, TypeOK
  <2> QED BY <2>6, <2>7
<1>4. ASSUME Loaded, UNCHANGED last, UNCHANGED changes
     PROVE  TypeOK'
  <2>1. CASE failed \/ (request.command # "uninstall" /\ disk = Torn)
    <3>1. End("failed") /\ UNCHANGED <<worldVars, projectVars>>
      BY <1>4, <2>1 DEF Loaded
    <3> QED BY <1>4, <3>1, EndType DEF TypeOK
  <2>2. CASE ~(failed \/ (request.command # "uninstall" /\ disk = Torn))
    <3>1. request \in Requests
      BY <1>4 DEF Loaded, RequestIsGiven
    <3>2. /\ request.command \in {"ensure", "install", "uninstall"}
          /\ request.targets \in Seq(References)
      BY <3>1, UserAssumption DEF UserAssumption
    <3>3. pc' \in {"ensure", "choose", "remove"} /\ todo' \in {flat, request.targets}
      BY <1>4, <2>2, <3>2 DEF Loaded
    <3>4. lock' \in Locks
      BY <1>4, <2>2 DEF Loaded, TypeOK, NoLock, Locks
    <3>5. todo' \in Seq(References) /\ pc' \in Stages
      BY <3>2, <3>3 DEF TypeOK, Stages
    <3>6. UNCHANGED <<worldVars, projectVars, request, started, result, mine, walkVars, skipped>>
      BY <1>4, <2>2 DEF Loaded
    <3> QED BY <1>4, <3>4, <3>5, <3>6 DEF TypeOK
  <2> QED BY <2>1, <2>2
<1>5. ASSUME Choose, UNCHANGED last, UNCHANGED changes
     PROVE  TypeOK'
  <2> DEFINE t == Head(todo)
             r == IF t.pin = Unpinned THEN [t EXCEPT !.pin = published[t.package]] ELSE t
  <2>1. /\ t \in References /\ t.package \in Packages /\ Tail(todo) \in Seq(References)
    BY <1>5, ListTypes DEF Choose, TypeOK
  <2>2. published[t.package] \in Versions
    BY <2>1 DEF TypeOK
  <2>3. r \in References
    BY <2>1, <2>2 DEF References
  <2> HIDE DEF t, r
  <2>4. CASE t.pin = Unpinned /\ ~online
    <3>1. End("failed") /\ UNCHANGED <<worldVars, projectVars>>
      BY <1>5, <2>4 DEF Choose, t
    <3> QED BY <1>5, <3>1, EndType DEF TypeOK
  <2>5. CASE ~(t.pin = Unpinned /\ ~online) /\ r \in Range(mine)
    BY <1>5, <2>5 DEF Choose, t, r, TypeOK, Stages
  <2>6. CASE ~(t.pin = Unpinned /\ ~online) /\ r \notin Range(mine)
    <3>1. /\ mine' = Append(mine, r) /\ todo' = Tail(todo) /\ pc' = "choose"
          /\ UNCHANGED <<worldVars, projectVars, request, started, result, walkVars, lock,
                         skipped>>
      BY <1>5, <2>6 DEF Choose, t, r
    <3>2. mine' \in Seq(References) /\ todo' \in Seq(References)
      BY <2>1, <2>3, <3>1 DEF TypeOK
    <3> QED BY <1>5, <3>1, <3>2 DEF TypeOK, Stages
  <2> QED BY <2>4, <2>5, <2>6
<1>6. ASSUME Chosen, UNCHANGED last, UNCHANGED changes
     PROVE  TypeOK'
  <2>1. flat' \in Seq(References)
    BY <1>6 DEF Chosen
  <2>2. failed' \in BOOLEAN
    BY <1>6, Zenon DEF Chosen
  <2> QED BY <1>6, <2>1, <2>2 DEF Chosen, TypeOK, Stages
<1>7. ASSUME Flattened, UNCHANGED last, UNCHANGED changes
     PROVE  TypeOK'
  <2>1. CASE failed
    <3>1. End("failed") /\ UNCHANGED <<worldVars, projectVars>>
      BY <1>7, <2>1 DEF Flattened
    <3> QED BY <1>7, <3>1, EndType DEF TypeOK
  <2>2. CASE ~failed
    BY <1>7, <2>2 DEF Flattened, TypeOK, Stages
  <2> QED BY <2>1, <2>2
<1>8. ASSUME EnsureNext, UNCHANGED last, UNCHANGED changes
     PROVE  TypeOK'
  <2> DEFINE r == Head(todo)
             p == r.package
             s == Ensured(r, request.command = "install")
  <2>1. /\ r \in References /\ p \in Packages /\ r.pin \in {Unpinned} \cup Versions
        /\ Tail(todo) \in Seq(References) /\ Name[p] \in Names
    BY <1>8, ListTypes, PackageFacts DEF EnsureNext, TypeOK
  <2>2. Sane(s)
    BY <2>1, EnsuredType
  <2> HIDE DEF r, s
  <2>3. vendor' \in [Names -> Copies]
    BY <1>8, <2>1, <2>2 DEF EnsureNext, r, s, TypeOK, Sane, StateT
  <2>4. cached' \in [Packages -> 0 .. MaxVersion]
    BY <1>8, <2>1, <2>2 DEF EnsureNext, r, s, TypeOK, Sane, StateT
  <2>5. lock' \in Locks
    <3>1. CASE s.ok
      <4>1. s.copy \in [package : Packages, at : Versions, seen : Versions]
        BY <2>2, <3>1, CopyType DEF Sane, StateT
      <4>2. Recorded(lock[p], r, s.copy) \in Entries \cup {None}
        BY <2>1, <4>1 DEF Recorded, Entries, TypeOK, Locks
      <4>3. lock' = [lock EXCEPT ![p] = Recorded(lock[p], r, s.copy)]
        BY <1>8, <3>1 DEF EnsureNext, r, s
      <4> QED BY <2>1, <4>2, <4>3 DEF TypeOK, Locks
    <3>2. CASE ~s.ok
      BY <1>8, <3>2 DEF EnsureNext, r, s, TypeOK
    <3> QED BY <3>1, <3>2
  <2>6. skipped' \subseteq Packages
    <3>1. skipped' \in {skipped, skipped \cup {p}}
      BY <1>8 DEF EnsureNext, r, s
    <3> QED BY <2>1, <3>1 DEF TypeOK
  <2>7. todo' \in Seq(References) /\ pc' \in Stages
    BY <1>8, <2>1 DEF EnsureNext, Stages
  <2>8. UNCHANGED <<published, online, writable, declared, disk, mine, walkVars, request, started,
                  result>>
    BY <1>8 DEF EnsureNext
  <2> QED BY <1>8, <2>3, <2>4, <2>5, <2>6, <2>7, <2>8 DEF TypeOK
<1>9. ASSUME EnsuredAll, UNCHANGED last, UNCHANGED changes
     PROVE  TypeOK'
  BY <1>9 DEF EnsuredAll, TypeOK, Stages
<1>10. ASSUME Runtime, UNCHANGED last, UNCHANGED changes
     PROVE  TypeOK'
  <2>1. CASE End("failed") /\ UNCHANGED disk
    BY <1>10, <2>1, EndType DEF Runtime, TypeOK
  <2>2. CASE ~(End("failed") /\ UNCHANGED disk)
    <3>1. disk' \in Locks \cup {Torn}
      BY <1>10, <2>2 DEF Runtime, SaveLock, SaveFails, TypeOK
    <3> QED BY <1>10, <2>2, <3>1 DEF Runtime, TypeOK, Stages
  <2> QED BY <2>1, <2>2
<1>11. ASSUME Prune, UNCHANGED last, UNCHANGED changes
     PROVE  TypeOK'
  <2>1. CASE End("failed")
    BY <1>11, <2>1, EndType DEF Prune, TypeOK
  <2>2. CASE ~End("failed")
    <3>1. lock' \in Locks
      BY <1>11, <2>2 DEF Prune, TypeOK, Locks
    <3> QED BY <1>11, <2>2, <3>1 DEF Prune, TypeOK, Stages
  <2> QED BY <2>1, <2>2
<1>12. ASSUME Remove, UNCHANGED last, UNCHANGED changes
     PROVE  TypeOK'
  <2>1. CASE todo = << >>
    BY <1>12, <2>1 DEF Remove, TypeOK, Stages
  <2>2. CASE todo # << >>
    <3>1. mine' \in Seq(References) /\ todo' \in Seq(References)
      BY <1>12, <2>2, WithoutType, ListTypes DEF Remove, TypeOK
    <3> QED BY <1>12, <2>2, <3>1 DEF Remove, TypeOK, Stages
  <2> QED BY <2>1, <2>2
<1>13. ASSUME Write, UNCHANGED changes
     PROVE  TypeOK'
  <2>1. /\ last' \in [Packages -> Installations \cup {None}]
        /\ declared' \in Seq(References) \cup {Torn}
    BY <1>13 DEF Write, TypeOK
  <2>2. CASE \E v \in {"done", "failed"} : End(v)
    <3>1. UNCHANGED <<worldVars, vendor, disk>>
      BY <1>13 DEF Write
    <3>2. PICK v \in {"done", "failed"} : End(v)
      BY <2>2
    <3> QED BY <1>13, <2>1, <3>1, <3>2, EndType DEF TypeOK
  <2>3. CASE ~(\E v \in {"done", "failed"} : End(v))
    BY <1>13, <2>1, <2>3 DEF Write, TypeOK, Stages
  <2> QED BY <2>2, <2>3
<1>14. ASSUME Save, UNCHANGED changes
     PROVE  TypeOK'
  <2>1. ASSUME NEW q \in Packages PROVE InstalledAs(q) \in Installations
    <3>1. vendor[Name[q]] \in Copies
      BY PackageFacts DEF TypeOK
    <3> QED BY <3>1 DEF InstalledAs, Installations, Copies, NoCopy
  <2>2. last' \in [Packages -> Installations \cup {None}]
    BY <1>14, <2>1 DEF Save, TypeOK
  <2>3. /\ \E v \in {"done", "failed"} : End(v)
        /\ UNCHANGED <<worldVars, vendor, declared>>
    BY <1>14 DEF Save
  <2>4. disk' \in Locks \cup {Torn}
    BY <1>14 DEF Save, SaveLock, SaveFails, TypeOK
  <2>5. PICK v \in {"done", "failed"} : End(v)
    BY <2>3
  <2> QED BY <1>14, <2>2, <2>3, <2>4, <2>5, EndType DEF TypeOK
<1>15. ASSUME NEW q \in Packages, Publish(q), changes' \in 0 .. MaxChanges
     PROVE  TypeOK'
  <2>1. published' \in [Packages -> Versions]
    <3>1. published[q] \in Versions /\ published[q] + 1 \in Versions
      BY <1>15, VersionsAssumption DEF Publish, TypeOK, Versions, VersionsAssumption
    <3> QED BY <1>15, <3>1 DEF Publish, TypeOK
  <2>2. started' \in Beginnings
    BY <1>15 DEF Publish, Disturb, TypeOK, Beginnings
  <2> QED BY <1>15, <2>1, <2>2 DEF Publish, Disturb, TypeOK
<1>16. ASSUME NEW q \in Packages, RefreshCache(q), changes' \in 0 .. MaxChanges
     PROVE  TypeOK'
  <2>1. cached' \in [Packages -> 0 .. MaxVersion]
    <3>1. published[q] \in 0 .. MaxVersion
      BY VersionFacts DEF TypeOK
    <3> QED BY <1>16, <3>1 DEF RefreshCache, TypeOK
  <2>2. started' \in Beginnings
    BY <1>16 DEF RefreshCache, Disturb, TypeOK, Beginnings
  <2> QED BY <1>16, <2>1, <2>2 DEF RefreshCache, Disturb, TypeOK
<1>17. ASSUME Network, changes' \in 0 .. MaxChanges
     PROVE  TypeOK'
  <2>1. started' \in Beginnings
    BY <1>17 DEF Network, Disturb, TypeOK, Beginnings
  <2>2. online' \in BOOLEAN
    BY <1>17 DEF Network
  <2> QED BY <1>17, <2>1, <2>2 DEF Network, Disturb, TypeOK
<1>24. ASSUME Permissions, changes' \in 0 .. MaxChanges
     PROVE  TypeOK'
  <2>1. started' \in Beginnings
    BY <1>24 DEF Permissions, TypeOK, Beginnings
  <2>2. writable' \in BOOLEAN
    BY <1>24 DEF Permissions
  <2> QED BY <1>24, <2>1, <2>2 DEF Permissions, TypeOK
<1>18. ASSUME Edit, changes' \in 0 .. MaxChanges
     PROVE  TypeOK'
  <2>1. declared' \in Seq(References) /\ last' \in [Packages -> Installations \cup {None}]
    BY <1>18, UserAssumption DEF Edit, Forget, UserAssumption
  <2> QED BY <1>18, <2>1, NothingType DEF Edit, UserTurn, TypeOK
<1>19. ASSUME DeleteLock, changes' \in 0 .. MaxChanges
     PROVE  TypeOK'
  <2>1. disk' \in Locks /\ last' \in [Packages -> Installations \cup {None}]
    BY <1>19 DEF DeleteLock, Forget, NoLock, Locks
  <2> QED BY <1>19, <2>1, NothingType DEF DeleteLock, UserTurn, TypeOK
<1>20. ASSUME NewCheckout, changes' \in 0 .. MaxChanges
     PROVE  TypeOK'
  <2>1. vendor' \in [Names -> Copies] /\ cached' \in [Packages -> 0 .. MaxVersion]
    BY <1>20, VersionFacts DEF NewCheckout, Copies
  <2> QED BY <1>20, <2>1, NothingType DEF NewCheckout, UserTurn, TypeOK
<1>21. ASSUME Crash, changes' \in 0 .. MaxChanges
     PROVE  TypeOK'
  <2>1. declared' \in Seq(References) \cup {Torn} /\ disk' \in Locks \cup {Torn}
    BY <1>21 DEF Crash, TypeOK
  <2> QED BY <1>21, <2>1, NothingType DEF Crash, TypeOK
<1>22. CASE Environment
  <2>1. changes' \in 0 .. MaxChanges
    BY <1>22, ChangesAssumption DEF Environment, TypeOK, ChangesAssumption
  <2> QED BY <1>22, <2>1, <1>15, <1>16, <1>17, <1>18, <1>19, <1>20, <1>21, <1>24
    DEF Environment
<1>23. CASE UNCHANGED vars
  BY <1>23 DEF vars, commandVars, TypeOK
<1> QED BY <1>1, <1>2, <1>3, <1>4, <1>5, <1>6, <1>7,
       <1>8, <1>9, <1>10, <1>11, <1>12, <1>13, <1>14, <1>22, <1>23 DEF Next, Command, Between, Start

LEMMA NextKeeps == IInv /\ [Next]_vars => IInv'
<1> SUFFICES ASSUME IInv, [Next]_vars PROVE IInv'
  OBVIOUS
<1>0. TypeOK'
  BY NextTypeOK
<1> USE <1>0 DEF IInv, Goto, worldVars, projectVars, walkVars
<1>1. ASSUME NEW q \in Requests, Start(q), UNCHANGED changes
     PROVE  IInv'
  BY <1>1 DEF Start, RequestIsGiven, ResultIsLast
<1>2. ASSUME NEW r \in References, SkipVisited(r), UNCHANGED last, UNCHANGED changes
     PROVE  IInv'
  BY <1>2 DEF SkipVisited, Walking, RequestIsGiven, ResultIsLast
<1>3. ASSUME NEW r \in References, Visit(r), UNCHANGED last, UNCHANGED changes
     PROVE  IInv'
  BY <1>3 DEF Visit, Walking, RequestIsGiven, ResultIsLast
<1>4. ASSUME Loaded, UNCHANGED last, UNCHANGED changes
     PROVE  IInv'
  BY <1>4 DEF Loaded, End, RequestIsGiven, ResultIsLast
<1>5. ASSUME Choose, UNCHANGED last, UNCHANGED changes
     PROVE  IInv'
  BY <1>5 DEF Choose, End, RequestIsGiven, ResultIsLast
<1>6. ASSUME Chosen, UNCHANGED last, UNCHANGED changes
     PROVE  IInv'
  BY <1>6 DEF Chosen, RequestIsGiven, ResultIsLast
<1>7. ASSUME Flattened, UNCHANGED last, UNCHANGED changes
     PROVE  IInv'
  BY <1>7 DEF Flattened, End, RequestIsGiven, ResultIsLast
<1>8. ASSUME EnsureNext, UNCHANGED last, UNCHANGED changes
     PROVE  IInv'
  BY <1>8 DEF EnsureNext, RequestIsGiven, ResultIsLast
<1>9. ASSUME EnsuredAll, UNCHANGED last, UNCHANGED changes
     PROVE  IInv'
  BY <1>9 DEF EnsuredAll, RequestIsGiven, ResultIsLast
<1>10. ASSUME Runtime, UNCHANGED last, UNCHANGED changes
     PROVE  IInv'
  BY <1>10 DEF Runtime, End, RequestIsGiven, ResultIsLast
<1>11. ASSUME Prune, UNCHANGED last, UNCHANGED changes
     PROVE  IInv'
  BY <1>11 DEF Prune, End, RequestIsGiven, ResultIsLast
<1>12. ASSUME Remove, UNCHANGED last, UNCHANGED changes
     PROVE  IInv'
  BY <1>12 DEF Remove, RequestIsGiven, ResultIsLast
<1>13. ASSUME Write, UNCHANGED changes
     PROVE  IInv'
  BY <1>13 DEF Write, End, RequestIsGiven, ResultIsLast
<1>14. ASSUME Save, UNCHANGED changes
     PROVE  IInv'
  BY <1>14 DEF Save, End, RequestIsGiven, ResultIsLast
<1>15. ASSUME NEW q \in Packages, Publish(q), changes' \in 0 .. MaxChanges
     PROVE  IInv'
  BY <1>15 DEF Publish, Disturb, RequestIsGiven, ResultIsLast, TypeOK
<1>16. ASSUME NEW q \in Packages, RefreshCache(q), changes' \in 0 .. MaxChanges
     PROVE  IInv'
  BY <1>16 DEF RefreshCache, Disturb, RequestIsGiven, ResultIsLast, TypeOK
<1>17. ASSUME Network, changes' \in 0 .. MaxChanges
     PROVE  IInv'
  BY <1>17 DEF Network, Disturb, RequestIsGiven, ResultIsLast, TypeOK
<1>24. ASSUME Permissions, changes' \in 0 .. MaxChanges
     PROVE  IInv'
  BY <1>24 DEF Permissions, RequestIsGiven, ResultIsLast, TypeOK
<1>18. ASSUME Edit, changes' \in 0 .. MaxChanges
     PROVE  IInv'
  BY <1>18 DEF Edit, UserTurn, Nothing, Forget, RequestIsGiven,
    ResultIsLast
<1>19. ASSUME DeleteLock, changes' \in 0 .. MaxChanges
     PROVE  IInv'
  BY <1>19 DEF DeleteLock, UserTurn, Nothing, Forget, RequestIsGiven,
    ResultIsLast
<1>20. ASSUME NewCheckout, changes' \in 0 .. MaxChanges
     PROVE  IInv'
  BY <1>20 DEF NewCheckout, UserTurn, Nothing, RequestIsGiven, ResultIsLast
<1>21. ASSUME Crash, changes' \in 0 .. MaxChanges
     PROVE  IInv'
  BY <1>21 DEF Crash, Nothing, RequestIsGiven, ResultIsLast
<1>22. CASE Environment
  <2>1. changes' \in 0 .. MaxChanges
    BY <1>22, ChangesAssumption DEF Environment, TypeOK, ChangesAssumption
  <2> QED BY <1>22, <2>1, <1>15, <1>16, <1>17, <1>18, <1>19, <1>20, <1>21, <1>24
    DEF Environment
<1>23. CASE UNCHANGED vars
  BY <1>23 DEF vars, commandVars, TypeOK, RequestIsGiven, ResultIsLast
<1> QED BY <1>1, <1>2, <1>3, <1>4, <1>5, <1>6, <1>7,
       <1>8, <1>9, <1>10, <1>11, <1>12, <1>13, <1>14, <1>22, <1>23 DEF Next, Command, Between, Start

(* What every later lemma rests on.                                        *)
THEOREM ProjectInvariant == Spec => []IInv
BY InitKeeps, NextKeeps, PTL DEF Spec

(* What is checked out, cached, locked and declared is well formed.        *)
THEOREM ProjectTypeCorrect == Spec => []TypeOK
<1>1. IInv => TypeOK
  BY DEF IInv
<1> QED BY <1>1, ProjectInvariant, PTL

--------------------------------------------------------------------------------
(* Induction over the natural numbers, for a set of them.                  *)
LEMMA SetInduction ==
  ASSUME NEW S, 0 \in S, \A n \in Nat : n \in S => n + 1 \in S
  PROVE  Nat \subseteq S
<1> DEFINE T == Nat \ S
           R == {p \in Nat \X Nat : p[1] < p[2]}
<1> SUFFICES ASSUME T # {} PROVE FALSE
  OBVIOUS
<1>1. IsWellFoundedOn(R, Nat)
  BY NatLessThanWellFounded, Zenon DEF OpToRel
<1>2. PICK x \in T : \A y \in T : ~(<<y, x>> \in R)
  <2>1. T \subseteq Nat
    OBVIOUS
  <2> HIDE DEF T, R
  <2> QED BY <1>1, <2>1, WFMin
<1>3. x \in Nat /\ x # 0
  OBVIOUS
<1>4. x - 1 \in Nat /\ x - 1 < x /\ x = (x - 1) + 1
  BY <1>3
<1>5. x - 1 \notin T
  BY <1>2, <1>3, <1>4
<1> QED BY <1>3, <1>4, <1>5

LEMMA NeededTypes ==
  ASSUME TypeOK
  PROVE  /\ \A refs \in Seq(References) : PackagesOf(refs) \subseteq Packages
         /\ \A p \in Packages : AtHead(p) \subseteq Packages
         /\ Cardinality(Packages) \in Nat
<1>1. ASSUME NEW refs \in Seq(References) PROVE PackagesOf(refs) \subseteq Packages
  BY ReferenceType DEF PackagesOf, Range
<1>2. ASSUME NEW p \in Packages PROVE AtHead(p) \subseteq Packages
  <2>1. CASE cached[p] = 0
    BY <2>1 DEF AtHead
  <2>2. CASE cached[p] # 0
    <3> DEFINE v == cached[p]
    <3>1. v \in 0 .. MaxVersion
      BY DEF TypeOK
    <3>2. v \in Versions
      BY <2>2, <3>1, VersionFacts
    <3>3. Needs[p][v] \in Seq(References)
      BY <3>2, PackageFacts
    <3> HIDE DEF v
    <3>4. PackagesOf(Needs[p][v]) \subseteq Packages
      BY <1>1, <3>3
    <3> QED BY <2>2, <3>4 DEF AtHead, v
  <2> QED BY <2>1, <2>2
<1>3. Cardinality(Packages) \in Nat
  BY PackagesAssumption, FS_CardinalityType DEF PackagesAssumption
<1> QED BY <1>1, <1>2, <1>3

(* The sets currentLockfileDependencies goes through, by their equation.   *)
WithNeeds(T) == T \cup UNION {AtHead(p) : p \in T}

LEMMA CurrentEquation ==
  ASSUME TypeOK, NEW refs \in Seq(References)
  PROVE  \E f : /\ f[0] = PackagesOf(refs)
                /\ \A n \in 1 .. Cardinality(Packages) :
                     f[n] = WithNeeds(f[n - 1])
                /\ Current(refs) = f[Cardinality(Packages)]
<1> DEFINE K == Cardinality(Packages)
           Partial(m) == {g \in [0 .. m -> SUBSET Packages] :
                            g[0] = PackagesOf(refs) /\ \A n \in 1 .. m : g[n] = WithNeeds(g[n - 1])}
           S == {m \in Nat : Partial(m) # {}}
<1>0. PackagesOf(refs) \subseteq Packages /\ K \in Nat
  BY NeededTypes
<1>1. 0 \in S
  <2>1. [n \in 0 .. 0 |-> PackagesOf(refs)] \in Partial(0)
    BY <1>0
  <2> QED BY <2>1
<1>2. ASSUME NEW m \in Nat, m \in S PROVE m + 1 \in S
  <2>1. PICK g \in Partial(m) : TRUE
    BY <1>2
  <2> DEFINE h == [n \in 0 .. m + 1 |-> IF n = m + 1 THEN WithNeeds(g[m]) ELSE g[n]]
  <2>2. g \in [0 .. m -> SUBSET Packages] /\ g[m] \in SUBSET Packages
    BY <2>1
  <2>3. WithNeeds(g[m]) \in SUBSET Packages
    BY <2>2, NeededTypes DEF WithNeeds
  <2>4. h \in [0 .. m + 1 -> SUBSET Packages]
    BY <2>2, <2>3
  <2>5. h[0] = PackagesOf(refs)
    BY <2>1
  <2>6. ASSUME NEW n \in 1 .. m + 1 PROVE h[n] = WithNeeds(h[n - 1])
    <3>1. CASE n = m + 1
      <4>1. h[n] = WithNeeds(g[m]) /\ h[n - 1] = g[m]
        BY <3>1
      <4> QED BY <4>1
    <3>2. CASE n # m + 1
      <4>1. n \in 1 .. m /\ n - 1 \in 0 .. m + 1 /\ n - 1 # m + 1
        BY <3>2
      <4>2. h[n] = g[n] /\ h[n - 1] = g[n - 1]
        BY <4>1, <3>2
      <4> QED BY <4>1, <4>2, <2>1
    <3> QED BY <3>1, <3>2
  <2> HIDE DEF h
  <2>7. h \in Partial(m + 1)
    BY <2>4, <2>5, <2>6
  <2> HIDE DEF Partial
  <2>8. Partial(m + 1) # {}
    BY <2>7
  <2> QED BY <2>8
<1>3. PICK f \in Partial(K) : TRUE
  <2>1. K \in S
    <3> HIDE DEF S, K
    <3> QED BY <1>0, <1>1, <1>2, SetInduction
  <2> QED BY <2>1
<1>4. f = [n \in 0 .. K |-> IF n = 0 THEN PackagesOf(refs)
                            ELSE WithNeeds(f[n - 1])]
  BY <1>0, <1>3
<1> DEFINE reach == CHOOSE g : g = [n \in 0 .. K |-> IF n = 0 THEN PackagesOf(refs)
                                   ELSE WithNeeds(g[n - 1])]
<1>5. reach = [n \in 0 .. K |-> IF n = 0 THEN PackagesOf(refs)
                                ELSE WithNeeds(reach[n - 1])]
  BY <1>4
<1>6. Current(refs) = reach[K]
  BY DEF Current, WithNeeds
<1> HIDE DEF reach
<1>7. reach[0] = PackagesOf(refs)
  BY <1>0, <1>5
<1>8. \A n \in 1 .. K : reach[n] = WithNeeds(reach[n - 1])
  BY <1>0, <1>5
<1> QED BY <1>6, <1>7, <1>8

(* pruneLockfileDependencies keeps what is declared, and nothing beyond    *)
(* what any closed set of packages around it holds.                        *)
LEMMA CurrentIsLeast ==
  ASSUME TypeOK, NEW refs \in Seq(References)
  PROVE  /\ PackagesOf(refs) \subseteq Current(refs)
         /\ \A S \in SUBSET Packages :
              PackagesOf(refs) \subseteq S /\ Closed(S) => Current(refs) \subseteq S
<1> DEFINE K == Cardinality(Packages)
<1>0. K \in Nat
  BY NeededTypes
<1>1. PICK f : /\ f[0] = PackagesOf(refs)
               /\ \A n \in 1 .. K : f[n] = WithNeeds(f[n - 1])
               /\ Current(refs) = f[K]
  BY CurrentEquation
<1> HIDE DEF K
<1>2. ASSUME NEW n \in Nat, n + 1 <= K
      PROVE  f[n + 1] = WithNeeds(f[n])
  <2>1. n + 1 \in 1 .. K /\ (n + 1) - 1 = n
    BY <1>0, <1>2
  <2> QED BY <1>1, <2>1
<1>3. PackagesOf(refs) \subseteq Current(refs)
  <2> DEFINE A == {n \in Nat : n <= K => PackagesOf(refs) \subseteq f[n]}
  <2>1. 0 \in A
    BY <1>1
  <2>2. ASSUME NEW n \in Nat, n \in A PROVE n + 1 \in A
    <3> SUFFICES ASSUME n + 1 <= K PROVE PackagesOf(refs) \subseteq f[n + 1]
      OBVIOUS
    <3>1. PackagesOf(refs) \subseteq f[n]
      BY <1>0, <2>2
    <3> QED BY <1>2, <3>1 DEF WithNeeds
  <2> HIDE DEF A
  <2>3. K \in A
    BY <1>0, <2>1, <2>2, SetInduction
  <2> QED BY <1>1, <2>3 DEF A
<1>4. ASSUME NEW S \in SUBSET Packages, PackagesOf(refs) \subseteq S, Closed(S)
      PROVE  Current(refs) \subseteq S
  <2> DEFINE A == {n \in Nat : n <= K => f[n] \subseteq S}
  <2>1. 0 \in A
    BY <1>1, <1>4
  <2>2. ASSUME NEW n \in Nat, n \in A PROVE n + 1 \in A
    <3> SUFFICES ASSUME n + 1 <= K PROVE f[n + 1] \subseteq S
      OBVIOUS
    <3>1. f[n] \subseteq S
      BY <1>0, <2>2
    <3>2. UNION {AtHead(p) : p \in f[n]} \subseteq S
      BY <1>4, <3>1 DEF Closed
    <3> QED BY <1>2, <3>1, <3>2 DEF WithNeeds
  <2> HIDE DEF A
  <2>3. K \in A
    BY <1>0, <2>1, <2>2, SetInduction
  <2> QED BY <1>1, <2>3 DEF A
<1> QED BY <1>3, <1>4

--------------------------------------------------------------------------------
(* The entry a dependency has in the lock is that of the copy it has.      *)
Matches(e, v) == e # None /\ v = [package |-> e.package, at |-> e.at]

LEMMA RecordedMatches ==
  ASSUME TypeOK, NEW r \in References, NEW c \in Copies, c # NoCopy
  PROVE  Matches(Recorded(lock[r.package], r, c), [package |-> c.package, at |-> c.at])
<1> DEFINE e   == lock[r.package]
           new == [pin |-> r.pin, package |-> c.package, at |-> c.at]
<1>1. c \in [package : Packages, at : Versions, seen : Versions]
  BY CopyType
<1>2. new \in Entries /\ new # None
  BY <1>1, ReferenceType, PackagesAssumption DEF Entries, PackagesAssumption
<1>3. Recorded(e, r, c) = IF e # None /\ e.package = c.package /\ e.at = c.at THEN e ELSE new
  BY DEF Recorded
<1>4. CASE e # None /\ e.package = c.package /\ e.at = c.at
  BY <1>3, <1>4 DEF Matches
<1>5. CASE ~(e # None /\ e.package = c.package /\ e.at = c.at)
  BY <1>2, <1>3, <1>5 DEF Matches
<1> QED BY <1>4, <1>5
--------------------------------------------------------------------------------
(* Which command goes through which stages, and what it has in memory of   *)
(* pawn.json.                                                              *)
StageFits ==
  /\ pc \in {"choose", "graph"} => request.command = "install"
  /\ pc = "remove" => request.command = "uninstall"
  /\ pc = "write" => request.command # "ensure"
  /\ pc = "prune" => request.command = "ensure"
  /\ pc \in {"ensure", "runtime", "save"} => request.command # "uninstall"

MineIsDeclared ==
  /\ pc = "load" \/ (pc # "idle" /\ request.command = "ensure") =>
       mine = declared /\ declared # Torn
  /\ result = "done" /\ request.command = "ensure" => mine = declared

LEMMA NextStages ==
  ASSUME IInv, StageFits, MineIsDeclared, [Next]_vars
  PROVE  StageFits' /\ MineIsDeclared'
<1>0. /\ pc # "idle" => result = "none" /\ request.command \in {"ensure", "install", "uninstall"}
      /\ ~(result = "none" /\ result = "done")
  BY UserAssumption DEF IInv, ResultIsLast, RequestIsGiven, UserAssumption
<1> USE <1>0 DEF Goto, worldVars, projectVars, walkVars
<1>1. ASSUME NEW q \in Requests, Start(q)
      PROVE  StageFits' /\ MineIsDeclared'
  BY <1>1 DEF Start, StageFits, MineIsDeclared
<1>2. ASSUME NEW r \in References, SkipVisited(r), UNCHANGED last
      PROVE  StageFits' /\ MineIsDeclared'
  BY <1>2 DEF SkipVisited, Walking, StageFits, MineIsDeclared
<1>3. ASSUME NEW r \in References, Visit(r), UNCHANGED last
      PROVE  StageFits' /\ MineIsDeclared'
  BY <1>3 DEF Visit, Walking, StageFits, MineIsDeclared
<1>4. ASSUME Loaded, UNCHANGED last
      PROVE  StageFits' /\ MineIsDeclared'
  BY <1>4 DEF Loaded, End, StageFits, MineIsDeclared
<1>5. ASSUME Choose, UNCHANGED last
      PROVE  StageFits' /\ MineIsDeclared'
  BY <1>5 DEF Choose, End, StageFits, MineIsDeclared
<1>6. ASSUME Chosen, UNCHANGED last
      PROVE  StageFits' /\ MineIsDeclared'
  BY <1>6 DEF Chosen, StageFits, MineIsDeclared
<1>7. ASSUME Flattened, UNCHANGED last
      PROVE  StageFits' /\ MineIsDeclared'
  BY <1>7 DEF Flattened, End, StageFits, MineIsDeclared
<1>8. ASSUME EnsureNext, UNCHANGED last
      PROVE  StageFits' /\ MineIsDeclared'
  BY <1>8 DEF EnsureNext, StageFits, MineIsDeclared
<1>9. ASSUME EnsuredAll, UNCHANGED last
      PROVE  StageFits' /\ MineIsDeclared'
  BY <1>9 DEF EnsuredAll, StageFits, MineIsDeclared
<1>10. ASSUME Runtime, UNCHANGED last
      PROVE  StageFits' /\ MineIsDeclared'
  BY <1>10 DEF Runtime, End, StageFits, MineIsDeclared
<1>11. ASSUME Prune, UNCHANGED last
      PROVE  StageFits' /\ MineIsDeclared'
  BY <1>11 DEF Prune, End, StageFits, MineIsDeclared
<1>12. ASSUME Remove, UNCHANGED last
      PROVE  StageFits' /\ MineIsDeclared'
  BY <1>12 DEF Remove, StageFits, MineIsDeclared
<1>13. ASSUME Write
      PROVE  StageFits' /\ MineIsDeclared'
  BY <1>13 DEF Write, End, StageFits, MineIsDeclared
<1>14. ASSUME Save
      PROVE  StageFits' /\ MineIsDeclared'
  BY <1>14 DEF Save, End, StageFits, MineIsDeclared
<1>15. ASSUME NEW q \in Packages, Publish(q)
      PROVE  StageFits' /\ MineIsDeclared'
  BY <1>15 DEF Publish, Disturb, StageFits, MineIsDeclared
<1>16. ASSUME NEW q \in Packages, RefreshCache(q)
      PROVE  StageFits' /\ MineIsDeclared'
  BY <1>16 DEF RefreshCache, Disturb, StageFits, MineIsDeclared
<1>17. ASSUME Network
      PROVE  StageFits' /\ MineIsDeclared'
  BY <1>17 DEF Network, Disturb, StageFits, MineIsDeclared
<1>23. ASSUME Permissions
      PROVE  StageFits' /\ MineIsDeclared'
  BY <1>23 DEF Permissions, StageFits, MineIsDeclared
<1>18. ASSUME Edit
      PROVE  StageFits' /\ MineIsDeclared'
  BY <1>18 DEF Edit, UserTurn, Nothing, Forget, StageFits, MineIsDeclared
<1>19. ASSUME DeleteLock
      PROVE  StageFits' /\ MineIsDeclared'
  BY <1>19 DEF DeleteLock, UserTurn, Nothing, Forget, StageFits, MineIsDeclared
<1>20. ASSUME NewCheckout
      PROVE  StageFits' /\ MineIsDeclared'
  BY <1>20 DEF NewCheckout, UserTurn, Nothing, StageFits, MineIsDeclared
<1>21. ASSUME Crash
      PROVE  StageFits' /\ MineIsDeclared'
  BY <1>21 DEF Crash, Nothing, StageFits, MineIsDeclared
<1>22. CASE UNCHANGED vars
  BY <1>22 DEF vars, commandVars, StageFits, MineIsDeclared
<1> QED BY <1>1, <1>2, <1>3, <1>4, <1>5, <1>6, <1>7, <1>8,
       <1>9, <1>10, <1>11, <1>12, <1>13, <1>14, <1>15, <1>16,
       <1>17, <1>18, <1>19, <1>20, <1>21, <1>22, <1>23
       DEF Next, Command, Between, Environment

--------------------------------------------------------------------------------
(* What the last ensure left.  The lock in memory is read only where an    *)
(* ensure or an install has one.                                           *)
Kept(l) == \A p \in Packages : last[p] # None => Matches(l[p], last[p])

HasLock == pc \notin {"idle", "load"} /\ request.command # "uninstall"

LastIsDeclared ==
  declared # Torn => \A p \in Packages : last[p] # None => p \in PackagesOf(declared)

LastIsKept == (disk # Torn => Kept(disk)) /\ (HasLock => Kept(lock))

(* The stages of an ensure: each dependency of the list is still to come,  *)
(* or was skipped, or has the entry of its copy in the lock.               *)
IsThere(r) ==
  r.package \notin skipped /\ Alone(r.package) => Matches(lock[r.package], InstalledAs(r.package))

Progress ==
  /\ pc = "ensure" => /\ Range(todo) \subseteq Range(flat)
                      /\ \A r \in Range(flat) : r \in Range(todo) \/ IsThere(r)
  /\ pc \in {"runtime", "prune"} => \A r \in Range(flat) : IsThere(r)
  /\ pc = "save" /\ request.command = "ensure" => \A r \in Direct : IsThere(r)

NeededOnly(l) ==
  \A S \in SUBSET Packages :
    PackagesOf(mine) \subseteq S /\ Closed(S) => {p \in Packages : l[p] # None} \subseteq S

Pruned == pc = "save" /\ request.command = "ensure" /\ started.calm => NeededOnly(lock)

(* Up to the runtime step of a command pawn.lock is what it was when it    *)
(* started; afterwards it has, unless it could not be written, what was    *)
(* installed.  pawn.json is what it was up to its writing.                 *)
Covers(l) ==
  \A r \in Range(flat) :
    r.package \notin skipped /\ Alone(r.package) => Matches(l[r.package], InstalledAs(r.package))

Outcome ==
  \/ disk = started.disk
  \/ disk = Torn /\ ~started.writable
  \/ disk # Torn /\ Covers(disk)

NothingIsWritten ==
  /\ pc # "idle" /\ started.writable => writable
  /\ pc # "idle" /\ ~(pc = "save" /\ request.command = "install") => declared = started.declared
  /\ pc \in {"load", "choose", "graph", "ensure", "runtime", "remove"} => disk = started.disk
  /\ pc \in {"prune", "write", "save"} => Outcome

Sound == /\ IInv /\ StageFits /\ MineIsDeclared /\ LastIsDeclared /\ LastIsKept /\ Progress
         /\ Pruned /\ DirectIsLocked /\ LockIsNeeded /\ NothingIsWritten /\ FailureKeepsProject

LEMMA InitSound == Init => Sound
<1> SUFFICES ASSUME Init PROVE Sound
  OBVIOUS
<1>1. IInv
  BY InitKeeps
<1>2. StageFits /\ MineIsDeclared /\ Progress /\ Pruned /\ DirectIsLocked /\ LockIsNeeded
  BY DEF Init, StageFits, MineIsDeclared, Progress, Pruned, DirectIsLocked, LockIsNeeded, Finished
<1>3. LastIsDeclared /\ LastIsKept
  BY DEF Init, LastIsDeclared, LastIsKept, HasLock, Kept
<1>4. NothingIsWritten /\ FailureKeepsProject
  BY DEF Init, NothingIsWritten, FailureKeepsProject
<1> QED BY <1>1, <1>2, <1>3, <1>4 DEF Sound

(* A dependency that is ensured keeps the entry that is what it has; one   *)
(* that is not alone of its name is nobody's but its own.                  *)
LEMMA RecordedKeeps ==
  ASSUME NEW r, NEW e, e # None, NEW c, e.package = c.package, e.at = c.at
  PROVE  Recorded(e, r, c) = e
BY DEF Recorded

LEMMA EnsureNextFacts ==
  ASSUME TypeOK, EnsureNext
  PROVE  \E r \in References :
           /\ todo # << >> /\ r = Head(todo)
           /\ \/ r.package \in skipped' /\ lock' = lock
              \/ /\ Matches(lock'[r.package], InstalledAs(r.package)')
                 /\ lock[r.package] # None => lock'[r.package] = lock[r.package]
           /\ \A p \in Packages : p # r.package => lock'[p] = lock[p]
           /\ \A n \in Names : n # Name[r.package] => vendor'[n] = vendor[n]
           /\ skipped \subseteq skipped'
<1>0. PICK r \in References : todo # << >> /\ r = Head(todo)
  BY ListTypes DEF EnsureNext, TypeOK
<1> DEFINE p == r.package
           s == Ensured(r, request.command = "install")
<1>1. p \in Packages /\ Name[p] \in Names
  BY ReferenceType, PackageFacts
<1>2. Sane(s) /\ (s.ok => Verified(s, p))
  BY EnsuredType
<1>3. /\ vendor' = [vendor EXCEPT ![Name[p]] = s.copy]
      /\ s.ok => lock' = [lock EXCEPT ![p] = Recorded(lock[p], r, s.copy)]
      /\ ~s.ok => lock' = lock /\ skipped' = skipped \cup {p}
      /\ skipped \subseteq skipped'
  BY <1>0 DEF EnsureNext
<1> HIDE DEF p, s
<1>4. /\ \A q \in Packages : q # p => lock'[q] = lock[q]
      /\ \A n \in Names : n # Name[p] => vendor'[n] = vendor[n]
  BY <1>1, <1>3 DEF TypeOK, Locks
<1>5. CASE ~s.ok
  BY <1>0, <1>3, <1>4, <1>5 DEF p
<1>6. CASE s.ok
  <2>1. s.copy \in Copies /\ s.copy # NoCopy
    BY <1>2, <1>6 DEF Sane, StateT
  <2>2. Matches(Recorded(lock[p], r, s.copy), [package |-> s.copy.package, at |-> s.copy.at])
    BY <2>1, RecordedMatches DEF p
  <2>3. vendor'[Name[p]] = s.copy /\ lock'[p] = Recorded(lock[p], r, s.copy)
    BY <1>1, <1>3, <1>6 DEF TypeOK, Locks
  <2>4. InstalledAs(p)' = [package |-> s.copy.package, at |-> s.copy.at]
    BY <2>3 DEF InstalledAs, p
  <2>5. Matches(lock'[p], InstalledAs(p)')
    BY <2>2, <2>3, <2>4
  <2>6. lock[p] # None => lock'[p] = lock[p]
    <3>1. lock[p] # None => lock[p].package = s.copy.package /\ lock[p].at = s.copy.at
      BY <1>2, <1>6 DEF Verified
    <3> QED BY <3>1, <2>3, RecordedKeeps
  <2> QED BY <1>0, <1>3, <1>4, <2>5, <2>6 DEF p
<1> QED BY <1>5, <1>6

(* What the last ensure left of the dependencies of pawn.json stays in     *)
(* pawn.lock, and in memory, until pawn.json is written.                   *)
LEMMA NextKeepsLast == Sound /\ [Next]_vars => LastIsDeclared' /\ LastIsKept'
<1> SUFFICES ASSUME Sound, [Next]_vars PROVE LastIsDeclared' /\ LastIsKept'
  OBVIOUS
<1>0. TypeOK /\ StageFits /\ MineIsDeclared /\ LastIsDeclared /\ LastIsKept /\ Progress
  BY DEF Sound, IInv
<1> USE <1>0 DEF Goto, worldVars, projectVars, walkVars
<1>1. ASSUME NEW q \in Requests, Start(q)
      PROVE  LastIsDeclared' /\ LastIsKept'
  BY <1>1 DEF Start, LastIsDeclared, LastIsKept, HasLock, Kept
<1>2. ASSUME NEW r \in References, SkipVisited(r), UNCHANGED last
      PROVE  LastIsDeclared' /\ LastIsKept'
  BY <1>2 DEF SkipVisited, Walking, LastIsDeclared, LastIsKept, HasLock, Kept
<1>3. ASSUME NEW r \in References, Visit(r), UNCHANGED last
      PROVE  LastIsDeclared' /\ LastIsKept'
  BY <1>3 DEF Visit, Walking, LastIsDeclared, LastIsKept, HasLock, Kept
<1>4. ASSUME Loaded, UNCHANGED last
      PROVE  LastIsDeclared' /\ LastIsKept'
  BY <1>4 DEF Loaded, End, LastIsDeclared, LastIsKept, HasLock, Kept, StageFits, MineIsDeclared
<1>5. ASSUME Choose, UNCHANGED last
      PROVE  LastIsDeclared' /\ LastIsKept'
  BY <1>5 DEF Choose, End, LastIsDeclared, LastIsKept, HasLock, Kept
<1>6. ASSUME Chosen, UNCHANGED last
      PROVE  LastIsDeclared' /\ LastIsKept'
  BY <1>6 DEF Chosen, LastIsDeclared, LastIsKept, HasLock, Kept
<1>7. ASSUME Flattened, UNCHANGED last
      PROVE  LastIsDeclared' /\ LastIsKept'
  BY <1>7 DEF Flattened, End, LastIsDeclared, LastIsKept, HasLock, Kept
<1>8. ASSUME EnsureNext, UNCHANGED last
      PROVE  LastIsDeclared' /\ LastIsKept'
  <2>1. LastIsDeclared' /\ (disk' # Torn => Kept(disk)')
    BY <1>8 DEF EnsureNext, LastIsDeclared, LastIsKept, Kept
  <2>2. Kept(lock)
    BY <1>8 DEF EnsureNext, StageFits, LastIsKept, HasLock
  <2>3. Kept(lock)'
    <3>1. PICK r \in References :
            /\ \/ r.package \in skipped' /\ lock' = lock
               \/ lock[r.package] # None => lock'[r.package] = lock[r.package]
            /\ \A p \in Packages : p # r.package => lock'[p] = lock[p]
      BY <1>8, EnsureNextFacts
    <3>2. ASSUME NEW p \in Packages, last[p] # None PROVE Matches(lock'[p], last[p])
      <4>1. Matches(lock[p], last[p]) /\ lock[p] # None
        BY <2>2, <3>2 DEF Kept, Matches
      <4>2. lock'[p] = lock[p]
        BY <3>1, <4>1
      <4> QED BY <4>1, <4>2
    <3> QED BY <1>8, <3>2 DEF Kept
  <2> QED BY <2>1, <2>3 DEF LastIsKept
<1>9. ASSUME EnsuredAll, UNCHANGED last
      PROVE  LastIsDeclared' /\ LastIsKept'
  BY <1>9 DEF EnsuredAll, LastIsDeclared, LastIsKept, HasLock, Kept
<1>10. ASSUME Runtime, UNCHANGED last
      PROVE  LastIsDeclared' /\ LastIsKept'
  BY <1>10 DEF Runtime, SaveLock, SaveFails, End, LastIsDeclared, LastIsKept, HasLock, Kept, StageFits
<1>11. ASSUME Prune, UNCHANGED last
      PROVE  LastIsDeclared' /\ LastIsKept'
  <2>1. LastIsDeclared' /\ (disk' # Torn => Kept(disk)')
    BY <1>11 DEF Prune, LastIsDeclared, LastIsKept, Kept
  <2>0. CASE End("failed")
    BY <2>0, <2>1 DEF End, LastIsKept, HasLock
  <2>2. Kept(lock) /\ mine = declared /\ declared # Torn
    BY <1>11 DEF Prune, StageFits, MineIsDeclared, LastIsKept, HasLock
  <2>3. PackagesOf(mine) \subseteq Current(mine)
    BY CurrentIsLeast DEF TypeOK
  <2>5. ASSUME ~End("failed"), NEW p \in Packages, last[p] # None
        PROVE  Matches(lock'[p], last[p])
    <3>1. p \in Current(mine)
      BY <2>2, <2>3, <2>5 DEF LastIsDeclared
    <3>2. lock'[p] = lock[p]
      BY <1>11, <2>5, <3>1 DEF Prune
    <3> QED BY <2>2, <2>5, <3>2 DEF Kept
  <2> QED BY <1>11, <2>0, <2>1, <2>5 DEF LastIsKept, Kept
<1>12. ASSUME Remove, UNCHANGED last
      PROVE  LastIsDeclared' /\ LastIsKept'
  BY <1>12 DEF Remove, LastIsDeclared, LastIsKept, HasLock, Kept
<1>13. ASSUME Write
      PROVE  LastIsDeclared' /\ LastIsKept'
  BY <1>13 DEF Write, End, LastIsDeclared, LastIsKept, HasLock, Kept
<1>14. ASSUME Save
      PROVE  LastIsDeclared' /\ LastIsKept'
  <2>1. Kept(lock)
    BY <1>14 DEF Save, StageFits, LastIsKept, HasLock
  <2>2. ASSUME NEW p \in Packages, last'[p] # last[p]
        PROVE  p \in PackagesOf(declared) /\ Matches(lock[p], last'[p])
    <3>1. /\ request.command = "ensure" /\ p \in {r.package : r \in Direct} /\ Alone(p)
          /\ last'[p] = InstalledAs(p)
      BY <1>14, <2>2 DEF Save
    <3>2. PICK r \in Direct : r.package = p
      BY <3>1
    <3>3. mine = declared
      BY <1>14, <3>1 DEF Save, MineIsDeclared
    <3>4. p \in PackagesOf(declared)
      BY <3>2, <3>3 DEF Direct, PackagesOf
    <3>5. Matches(lock[p], InstalledAs(p))
      BY <1>14, <3>1, <3>2 DEF Save, Progress, IsThere, Direct
    <3> QED BY <3>1, <3>4, <3>5
  <2>3. ASSUME NEW p \in Packages, last'[p] # None PROVE Matches(lock[p], last'[p])
    BY <2>1, <2>2, <2>3 DEF Kept
  <2>4. disk' # Torn => Kept(disk)'
    <3>1. CASE disk' = lock
      BY <2>3, <3>1 DEF Kept
    <3>2. CASE disk' \in {disk, Torn} /\ last' = last
      BY <3>2 DEF LastIsKept, Kept
    <3> QED BY <1>14, <3>1, <3>2 DEF Save, SaveLock, SaveFails
  <2>5. LastIsDeclared'
    BY <1>14, <2>2 DEF Save, LastIsDeclared
  <2> QED BY <1>14, <2>4, <2>5 DEF Save, End, LastIsKept, HasLock
<1>15. ASSUME NEW q \in Packages, Publish(q)
      PROVE  LastIsDeclared' /\ LastIsKept'
  BY <1>15 DEF Publish, Disturb, LastIsDeclared, LastIsKept, HasLock, Kept
<1>16. ASSUME NEW q \in Packages, RefreshCache(q)
      PROVE  LastIsDeclared' /\ LastIsKept'
  BY <1>16 DEF RefreshCache, Disturb, LastIsDeclared, LastIsKept, HasLock, Kept
<1>17. ASSUME Network
      PROVE  LastIsDeclared' /\ LastIsKept'
  BY <1>17 DEF Network, Disturb, LastIsDeclared, LastIsKept, HasLock, Kept
<1>23. ASSUME Permissions
      PROVE  LastIsDeclared' /\ LastIsKept'
  BY <1>23 DEF Permissions, LastIsDeclared, LastIsKept, HasLock, Kept
<1>18. ASSUME Edit
      PROVE  LastIsDeclared' /\ LastIsKept'
  BY <1>18 DEF Edit, UserTurn, Nothing, Forget, LastIsDeclared, LastIsKept, HasLock, Kept
<1>19. ASSUME DeleteLock
      PROVE  LastIsDeclared' /\ LastIsKept'
  BY <1>19 DEF DeleteLock, UserTurn, Nothing, Forget, LastIsDeclared, LastIsKept, HasLock, Kept
<1>20. ASSUME NewCheckout
      PROVE  LastIsDeclared' /\ LastIsKept'
  BY <1>20 DEF NewCheckout, UserTurn, Nothing, LastIsDeclared, LastIsKept, HasLock, Kept
<1>21. ASSUME Crash
      PROVE  LastIsDeclared' /\ LastIsKept'
  BY <1>21 DEF Crash, Nothing, LastIsDeclared, LastIsKept, HasLock, Kept
<1>22. CASE UNCHANGED vars
  BY <1>22 DEF vars, commandVars, LastIsDeclared, LastIsKept, HasLock, Kept
<1> QED BY <1>1, <1>2, <1>3, <1>4, <1>5, <1>6, <1>7, <1>8,
       <1>9, <1>10, <1>11, <1>12, <1>13, <1>14, <1>15, <1>16,
       <1>17, <1>18, <1>19, <1>20, <1>21, <1>22, <1>23
       DEF Next, Command, Between, Environment

(* The first of a list is taken off it.                                    *)
LEMMA RangeOfTail ==
  ASSUME NEW l \in Seq(References), l # << >>
  PROVE  Range(l) = {Head(l)} \cup Range(Tail(l))
<1>1. /\ l[1] = Head(l) /\ DOMAIN l = 1 .. Len(l) /\ Len(l) \in Nat \ {0}
      /\ DOMAIN Tail(l) = 1 .. Len(l) - 1
      /\ \A i \in 1 .. Len(l) - 1 : Tail(l)[i] = l[i + 1]
  OBVIOUS
<1>2. ASSUME NEW i \in DOMAIN l PROVE l[i] \in {Head(l)} \cup Range(Tail(l))
  <2>1. CASE i = 1
    BY <1>1, <2>1
  <2>2. CASE i # 1
    <3>1. i - 1 \in DOMAIN Tail(l) /\ Tail(l)[i - 1] = l[i]
      BY <1>1, <1>2, <2>2
    <3> QED BY <3>1 DEF Range
  <2> QED BY <2>1, <2>2
<1>3. ASSUME NEW i \in DOMAIN Tail(l) PROVE Tail(l)[i] \in Range(l)
  <2>1. i + 1 \in DOMAIN l /\ Tail(l)[i] = l[i + 1]
    BY <1>1, <1>3
  <2> QED BY <2>1 DEF Range
<1>4. Head(l) \in Range(l)
  BY <1>1 DEF Range
<1> QED BY <1>2, <1>3, <1>4 DEF Range

(* The loop of ensureDependencies leaves each dependency it is through     *)
(* with where it is, and later stages leave the direct ones.               *)
LEMMA NextProgress == Sound /\ [Next]_vars => Progress'
<1> SUFFICES ASSUME Sound, [Next]_vars PROVE Progress'
  OBVIOUS
<1>0. TypeOK /\ StageFits /\ MineIsDeclared /\ Progress
  BY DEF Sound, IInv
<1> USE <1>0 DEF Goto, worldVars, projectVars, walkVars
<1>1. ASSUME NEW q \in Requests, Start(q)
      PROVE  Progress'
  BY <1>1 DEF Start, Progress
<1>2. ASSUME NEW r \in References, SkipVisited(r), UNCHANGED last
      PROVE  Progress'
  BY <1>2 DEF SkipVisited, Walking, Progress
<1>3. ASSUME NEW r \in References, Visit(r), UNCHANGED last
      PROVE  Progress'
  BY <1>3 DEF Visit, Walking, Progress
<1>4. ASSUME Loaded, UNCHANGED last
      PROVE  Progress'
  <2>0. request.command \in {"ensure", "install", "uninstall"}
    BY <1>4, UserAssumption DEF Loaded, Sound, IInv, RequestIsGiven, UserAssumption
  <2>1. pc' = "ensure" => todo' = flat /\ flat' = flat
    BY <1>4, <2>0 DEF Loaded, End
  <2>2. pc' \notin {"runtime", "prune", "save"}
    BY <1>4, <2>0 DEF Loaded, End
  <2> QED BY <2>1, <2>2 DEF Progress
<1>5. ASSUME Choose, UNCHANGED last
      PROVE  Progress'
  BY <1>5 DEF Choose, End, Progress, StageFits
<1>6. ASSUME Chosen, UNCHANGED last
      PROVE  Progress'
  BY <1>6 DEF Chosen, Progress
<1>7. ASSUME Flattened, UNCHANGED last
      PROVE  Progress'
  <2>1. pc' = "ensure" => todo' = flat /\ flat' = flat
    BY <1>7 DEF Flattened, End
  <2>2. pc' \notin {"runtime", "prune", "save"}
    BY <1>7 DEF Flattened, End
  <2> QED BY <2>1, <2>2 DEF Progress
<1>8. ASSUME EnsureNext, UNCHANGED last
      PROVE  Progress'
  <2>1. PICK r0 \in References :
          /\ todo # << >> /\ r0 = Head(todo)
          /\ \/ r0.package \in skipped' /\ lock' = lock
             \/ Matches(lock'[r0.package], InstalledAs(r0.package)')
          /\ \A p \in Packages : p # r0.package => lock'[p] = lock[p]
          /\ \A n \in Names : n # Name[r0.package] => vendor'[n] = vendor[n]
          /\ skipped \subseteq skipped'
    BY <1>8, EnsureNextFacts
  <2>2. /\ pc' = "ensure" /\ flat' = flat /\ todo' = Tail(todo)
        /\ Range(todo) \subseteq Range(flat)
        /\ \A r \in Range(flat) : r \in Range(todo) \/ IsThere(r)
    BY <1>8 DEF EnsureNext, Progress
  <2>3. Range(todo) = {r0} \cup Range(Tail(todo))
    BY <2>1, RangeOfTail DEF TypeOK
  <2>4. ASSUME NEW r \in Range(flat), r \notin Range(Tail(todo)) PROVE IsThere(r)'
    <3>1. r \in References /\ r.package \in Packages /\ Name[r.package] \in Names
      BY ReferenceType, PackageFacts DEF TypeOK, Range
    <3> SUFFICES ASSUME r.package \notin skipped', Alone(r.package)'
                 PROVE  Matches(lock'[r.package], InstalledAs(r.package)')
      BY DEF IsThere
    <3>2. CASE r.package = r0.package
      BY <2>1, <3>2
    <3>3. CASE r.package # r0.package
      <4>1. Alone(r.package)
        BY <2>2 DEF Alone
      <4>2. Name[r0.package] # Name[r.package]
        BY <2>2, <2>3, <3>3, <4>1 DEF Alone
      <4>3. IsThere(r)
        BY <2>2, <2>3, <2>4, <3>3
      <4>4. Matches(lock[r.package], InstalledAs(r.package))
        BY <2>1, <4>1, <4>3 DEF IsThere
      <4>5. lock'[r.package] = lock[r.package] /\ vendor'[Name[r.package]] = vendor[Name[r.package]]
        BY <2>1, <3>1, <3>3, <4>2
      <4> QED BY <4>4, <4>5 DEF InstalledAs
    <3> QED BY <3>2, <3>3
  <2> QED BY <2>2, <2>3, <2>4 DEF Progress
<1>9. ASSUME EnsuredAll, UNCHANGED last
      PROVE  Progress'
  <2>1. \A r \in Range(flat) : IsThere(r)
    BY <1>9 DEF EnsuredAll, Progress, Range
  <2> QED BY <1>9, <2>1 DEF EnsuredAll, Progress, IsThere, Alone, InstalledAs
<1>10. ASSUME Runtime, UNCHANGED last
      PROVE  Progress'
  <2>1. \A r \in Range(flat) : IsThere(r)
    BY <1>10 DEF Runtime, Progress
  <2> QED BY <1>10, <2>1 DEF Runtime, End, Progress, IsThere, Alone, InstalledAs
<1>11. ASSUME Prune, UNCHANGED last
      PROVE  Progress'
  <2>1. \A r \in Range(flat) : IsThere(r)
    BY <1>11 DEF Prune, Progress
  <2>2. PackagesOf(mine) \subseteq Current(mine)
    BY CurrentIsLeast DEF TypeOK
  <2>3. ASSUME ~End("failed"), NEW r \in Direct PROVE IsThere(r)'
    <3>1. r.package \in Current(mine) /\ r.package \in Packages /\ r \in Range(flat)
      BY <2>2, ReferenceType DEF Direct, PackagesOf, TypeOK, Range
    <3>2. lock'[r.package] = lock[r.package]
      BY <1>11, <2>3, <3>1 DEF Prune
    <3>3. IsThere(r)
      BY <2>1, <3>1
    <3> QED BY <1>11, <2>3, <3>2, <3>3 DEF Prune, IsThere, Alone, InstalledAs
  <2>4. ~End("failed") => Direct' = Direct /\ pc' = "save"
    BY <1>11 DEF Prune, Direct
  <2>5. End("failed") => Progress'
    BY DEF End, Progress
  <2> QED BY <2>3, <2>4, <2>5 DEF Progress
<1>12. ASSUME Remove, UNCHANGED last
      PROVE  Progress'
  BY <1>12 DEF Remove, Progress
<1>13. ASSUME Write
      PROVE  Progress'
  BY <1>13 DEF Write, End, Progress, StageFits
<1>14. ASSUME Save
      PROVE  Progress'
  BY <1>14 DEF Save, End, Progress
<1>15. ASSUME NEW q \in Packages, Publish(q)
      PROVE  Progress'
  BY <1>15 DEF Publish, Disturb, Progress, IsThere, Alone, Direct, InstalledAs
<1>16. ASSUME NEW q \in Packages, RefreshCache(q)
      PROVE  Progress'
  BY <1>16 DEF RefreshCache, Disturb, Progress, IsThere, Alone, Direct, InstalledAs
<1>17. ASSUME Network
      PROVE  Progress'
  BY <1>17 DEF Network, Disturb, Progress, IsThere, Alone, Direct, InstalledAs
<1>23. ASSUME Permissions
      PROVE  Progress'
  BY <1>23 DEF Permissions, Progress, IsThere, Alone, Direct, InstalledAs
<1>18. ASSUME Edit
      PROVE  Progress'
  BY <1>18 DEF Edit, UserTurn, Nothing, Forget, Progress
<1>19. ASSUME DeleteLock
      PROVE  Progress'
  BY <1>19 DEF DeleteLock, UserTurn, Nothing, Forget, Progress
<1>20. ASSUME NewCheckout
      PROVE  Progress'
  BY <1>20 DEF NewCheckout, UserTurn, Nothing, Progress
<1>21. ASSUME Crash
      PROVE  Progress'
  BY <1>21 DEF Crash, Nothing, Progress
<1>22. CASE UNCHANGED vars
  BY <1>22 DEF vars, commandVars, Progress, IsThere, Alone, Direct, InstalledAs
<1> QED BY <1>1, <1>2, <1>3, <1>4, <1>5, <1>6, <1>7, <1>8,
       <1>9, <1>10, <1>11, <1>12, <1>13, <1>14, <1>15, <1>16,
       <1>17, <1>18, <1>19, <1>20, <1>21, <1>22, <1>23
       DEF Next, Command, Between, Environment

(* What is pruned stays so, and at the end of an ensure the entries are    *)
(* those of the lock in memory, and the copies those of the loop.          *)
LEMMA NextKeepsLock == Sound /\ [Next]_vars => Pruned' /\ DirectIsLocked' /\ LockIsNeeded'
<1> SUFFICES ASSUME Sound, [Next]_vars PROVE Pruned' /\ DirectIsLocked' /\ LockIsNeeded'
  OBVIOUS
<1>0. TypeOK /\ StageFits /\ MineIsDeclared /\ Progress /\ Pruned /\ DirectIsLocked /\ LockIsNeeded
  BY DEF Sound, IInv
<1>A. pc # "idle" => result = "none" /\ request.command \in {"ensure", "install", "uninstall"}
  BY UserAssumption DEF Sound, IInv, ResultIsLast, RequestIsGiven, UserAssumption
<1> USE <1>0, <1>A DEF Goto, worldVars, projectVars, walkVars
<1>1. ASSUME NEW q \in Requests, Start(q)
      PROVE  Pruned' /\ DirectIsLocked' /\ LockIsNeeded'
  BY <1>1 DEF Start, DirectIsLocked, LockIsNeeded, Pruned, Finished
<1>2. ASSUME NEW r \in References, SkipVisited(r), UNCHANGED last
      PROVE  Pruned' /\ DirectIsLocked' /\ LockIsNeeded'
  BY <1>2 DEF SkipVisited, Walking, DirectIsLocked, LockIsNeeded, Pruned, Finished
<1>3. ASSUME NEW r \in References, Visit(r), UNCHANGED last
      PROVE  Pruned' /\ DirectIsLocked' /\ LockIsNeeded'
  BY <1>3 DEF Visit, Walking, DirectIsLocked, LockIsNeeded, Pruned, Finished
<1>4. ASSUME Loaded, UNCHANGED last
      PROVE  Pruned' /\ DirectIsLocked' /\ LockIsNeeded'
  BY <1>4 DEF Loaded, End, DirectIsLocked, LockIsNeeded, Pruned, Finished, StageFits
<1>5. ASSUME Choose, UNCHANGED last
      PROVE  Pruned' /\ DirectIsLocked' /\ LockIsNeeded'
  BY <1>5 DEF Choose, End, DirectIsLocked, LockIsNeeded, Pruned, Finished, StageFits
<1>6. ASSUME Chosen, UNCHANGED last
      PROVE  Pruned' /\ DirectIsLocked' /\ LockIsNeeded'
  BY <1>6 DEF Chosen, DirectIsLocked, LockIsNeeded, Pruned, Finished
<1>7. ASSUME Flattened, UNCHANGED last
      PROVE  Pruned' /\ DirectIsLocked' /\ LockIsNeeded'
  BY <1>7 DEF Flattened, End, DirectIsLocked, LockIsNeeded, Pruned, Finished
<1>8. ASSUME EnsureNext, UNCHANGED last
      PROVE  Pruned' /\ DirectIsLocked' /\ LockIsNeeded'
  BY <1>8 DEF EnsureNext, DirectIsLocked, LockIsNeeded, Pruned, Finished
<1>9. ASSUME EnsuredAll, UNCHANGED last
      PROVE  Pruned' /\ DirectIsLocked' /\ LockIsNeeded'
  BY <1>9 DEF EnsuredAll, DirectIsLocked, LockIsNeeded, Pruned, Finished
<1>10. ASSUME Runtime, UNCHANGED last
      PROVE  Pruned' /\ DirectIsLocked' /\ LockIsNeeded'
  BY <1>10 DEF Runtime, End, DirectIsLocked, LockIsNeeded, Pruned, Finished
<1>11. ASSUME Prune, UNCHANGED last
      PROVE  Pruned' /\ DirectIsLocked' /\ LockIsNeeded'
  <2>1. CASE End("failed")
    BY <1>11, <2>1 DEF End, DirectIsLocked, LockIsNeeded, Pruned, Finished
  <2>2. CASE ~End("failed")
    <3>1. ASSUME NEW S \in SUBSET Packages, PackagesOf(mine) \subseteq S, Closed(S),
                 NEW p \in Packages, lock'[p] # None
          PROVE  p \in S
      <4>1. p \in Current(mine)
        BY <1>11, <2>2, <3>1 DEF Prune
      <4> QED BY <3>1, <4>1, CurrentIsLeast DEF TypeOK
    <3>2. NeededOnly(lock)'
      BY <1>11, <2>2, <3>1 DEF Prune, NeededOnly, PackagesOf, Closed, AtHead
    <3> QED BY <1>11, <2>2, <3>2 DEF Prune, DirectIsLocked, LockIsNeeded, Pruned, Finished
  <2> QED BY <2>1, <2>2
<1>12. ASSUME Remove, UNCHANGED last
      PROVE  Pruned' /\ DirectIsLocked' /\ LockIsNeeded'
  BY <1>12 DEF Remove, DirectIsLocked, LockIsNeeded, Pruned, Finished
<1>13. ASSUME Write
      PROVE  Pruned' /\ DirectIsLocked' /\ LockIsNeeded'
  BY <1>13 DEF Write, End, DirectIsLocked, LockIsNeeded, Pruned, Finished, StageFits
<1>14. ASSUME Save
      PROVE  Pruned' /\ DirectIsLocked' /\ LockIsNeeded'
  <2>0. /\ pc' = "idle" /\ UNCHANGED <<request, mine, flat, skipped, started>>
        /\ UNCHANGED <<worldVars, vendor, declared>>
        /\ result' = "done" /\ request.command = "ensure" => disk' = lock
    BY <1>14 DEF Save, SaveLock, End
  <2>1. DirectIsLocked'
    <3> SUFFICES ASSUME request.command = "ensure", disk' = lock
                 PROVE  disk' # Torn /\ TellsDirect(disk)'
      BY <2>0 DEF DirectIsLocked, Finished
    <3>1. lock # Torn
      BY PackageFacts DEF TypeOK
    <3>2. ASSUME NEW r \in Direct, Alone(r.package)
          PROVE  Matches(lock[r.package], InstalledAs(r.package))
      BY <1>14, <3>2 DEF Save, Progress, IsThere, Direct
    <3>3. TellsDirect(lock)
      BY <3>2 DEF TellsDirect, Matches
    <3>4. TellsDirect(disk)'
      BY <2>0, <3>3 DEF TellsDirect, Direct, Alone, InstalledAs
    <3> QED BY <3>1, <3>4
  <2>2. LockIsNeeded'
    <3> SUFFICES ASSUME request.command = "ensure", started.calm, disk' = lock,
                        NEW S \in SUBSET Packages, PackagesOf(declared) \subseteq S, Closed(S)
                 PROVE  {p \in Packages : lock[p] # None} \subseteq S
      BY <2>0 DEF LockIsNeeded, Finished, PackagesOf, Closed, AtHead
    <3>1. mine = declared /\ NeededOnly(lock)
      BY <1>14 DEF Save, MineIsDeclared, Pruned
    <3> QED BY <3>1 DEF NeededOnly
  <2> QED BY <2>0, <2>1, <2>2 DEF Pruned
<1>15. ASSUME NEW q \in Packages, Publish(q)
      PROVE  Pruned' /\ DirectIsLocked' /\ LockIsNeeded'
  <2>1. ~started'.calm
    BY <1>15 DEF Publish, Disturb, TypeOK, Beginnings
  <2> QED BY <1>15, <2>1 DEF Publish, Disturb, DirectIsLocked, LockIsNeeded, Pruned, Finished,
    TellsDirect, Direct, Alone, InstalledAs
<1>16. ASSUME NEW q \in Packages, RefreshCache(q)
      PROVE  Pruned' /\ DirectIsLocked' /\ LockIsNeeded'
  <2>1. ~started'.calm
    BY <1>16 DEF RefreshCache, Disturb, TypeOK, Beginnings
  <2> QED BY <1>16, <2>1 DEF RefreshCache, Disturb, DirectIsLocked, LockIsNeeded, Pruned, Finished,
    TellsDirect, Direct, Alone, InstalledAs
<1>17. ASSUME Network
      PROVE  Pruned' /\ DirectIsLocked' /\ LockIsNeeded'
  <2>1. ~started'.calm
    BY <1>17 DEF Network, Disturb, TypeOK, Beginnings
  <2> QED BY <1>17, <2>1 DEF Network, Disturb, DirectIsLocked, LockIsNeeded, Pruned, Finished,
    TellsDirect, Direct, Alone, InstalledAs
<1>23. ASSUME Permissions
      PROVE  Pruned' /\ DirectIsLocked' /\ LockIsNeeded'
  <2>1. ~started'.calm
    BY <1>23 DEF Permissions, TypeOK, Beginnings
  <2> QED BY <1>23, <2>1 DEF Permissions, DirectIsLocked, LockIsNeeded, Pruned, Finished,
    TellsDirect, Direct, Alone, InstalledAs
<1>18. ASSUME Edit
      PROVE  Pruned' /\ DirectIsLocked' /\ LockIsNeeded'
  BY <1>18 DEF Edit, UserTurn, Nothing, Forget, DirectIsLocked, LockIsNeeded, Pruned, Finished
<1>19. ASSUME DeleteLock
      PROVE  Pruned' /\ DirectIsLocked' /\ LockIsNeeded'
  BY <1>19 DEF DeleteLock, UserTurn, Nothing, Forget, DirectIsLocked, LockIsNeeded, Pruned, Finished
<1>20. ASSUME NewCheckout
      PROVE  Pruned' /\ DirectIsLocked' /\ LockIsNeeded'
  BY <1>20 DEF NewCheckout, UserTurn, Nothing, DirectIsLocked, LockIsNeeded, Pruned, Finished
<1>21. ASSUME Crash
      PROVE  Pruned' /\ DirectIsLocked' /\ LockIsNeeded'
  BY <1>21 DEF Crash, Nothing, DirectIsLocked, LockIsNeeded, Pruned, Finished
<1>22. CASE UNCHANGED vars
  BY <1>22 DEF vars, commandVars, DirectIsLocked, LockIsNeeded, Pruned, Finished, TellsDirect, Direct,
    Alone, InstalledAs, NeededOnly, PackagesOf, Closed, AtHead
<1> QED BY <1>1, <1>2, <1>3, <1>4, <1>5, <1>6, <1>7, <1>8,
       <1>9, <1>10, <1>11, <1>12, <1>13, <1>14, <1>15, <1>16,
       <1>17, <1>18, <1>19, <1>20, <1>21, <1>22, <1>23
       DEF Next, Command, Between, Environment

(* A lock that has what was installed has it for what pawn.json declares.  *)
LEMMA CoversTells ==
  ASSUME NEW l, Covers(l) PROVE TellsDirect(l)
BY DEF Covers, TellsDirect, Direct, Matches

(* What a command writes, and in which order.                              *)
LEMMA NextSaved == Sound /\ [Next]_vars => NothingIsWritten' /\ FailureKeepsProject'
<1> SUFFICES ASSUME Sound, [Next]_vars PROVE NothingIsWritten' /\ FailureKeepsProject'
  OBVIOUS
<1>0. TypeOK /\ StageFits /\ Progress /\ NothingIsWritten /\ FailureKeepsProject
  BY DEF Sound, IInv
<1>A. pc # "idle" => result = "none" /\ request.command \in {"ensure", "install", "uninstall"}
  BY UserAssumption DEF Sound, IInv, ResultIsLast, RequestIsGiven, UserAssumption
<1> USE <1>0, <1>A DEF Goto, worldVars, projectVars, walkVars
<1>1. ASSUME NEW q \in Requests, Start(q)
      PROVE  NothingIsWritten' /\ FailureKeepsProject'
  BY <1>1 DEF Start, NothingIsWritten, FailureKeepsProject
<1>2. ASSUME NEW r \in References, SkipVisited(r), UNCHANGED last
      PROVE  NothingIsWritten' /\ FailureKeepsProject'
  BY <1>2 DEF SkipVisited, Walking, NothingIsWritten, FailureKeepsProject
<1>3. ASSUME NEW r \in References, Visit(r), UNCHANGED last
      PROVE  NothingIsWritten' /\ FailureKeepsProject'
  BY <1>3 DEF Visit, Walking, NothingIsWritten, FailureKeepsProject
<1>4. ASSUME Loaded, UNCHANGED last
      PROVE  NothingIsWritten' /\ FailureKeepsProject'
  BY <1>4 DEF Loaded, End, NothingIsWritten, FailureKeepsProject
<1>5. ASSUME Choose, UNCHANGED last
      PROVE  NothingIsWritten' /\ FailureKeepsProject'
  BY <1>5 DEF Choose, End, StageFits, Outcome, NothingIsWritten, FailureKeepsProject
<1>6. ASSUME Chosen, UNCHANGED last
      PROVE  NothingIsWritten' /\ FailureKeepsProject'
  BY <1>6 DEF Chosen, NothingIsWritten, FailureKeepsProject
<1>7. ASSUME Flattened, UNCHANGED last
      PROVE  NothingIsWritten' /\ FailureKeepsProject'
  BY <1>7 DEF Flattened, End, NothingIsWritten, FailureKeepsProject
<1>8. ASSUME EnsureNext, UNCHANGED last
      PROVE  NothingIsWritten' /\ FailureKeepsProject'
  BY <1>8 DEF EnsureNext, NothingIsWritten, FailureKeepsProject
<1>9. ASSUME EnsuredAll, UNCHANGED last
      PROVE  NothingIsWritten' /\ FailureKeepsProject'
  BY <1>9 DEF EnsuredAll, NothingIsWritten, FailureKeepsProject
<1>10. ASSUME Runtime, UNCHANGED last
      PROVE  NothingIsWritten' /\ FailureKeepsProject'
  <2>1. CASE End("failed") /\ UNCHANGED disk
    BY <1>10, <2>1 DEF Runtime, End, NothingIsWritten, FailureKeepsProject
  <2>2. CASE /\ SaveLock \/ SaveFails
             /\ pc' \in {"write", "prune"}
             /\ UNCHANGED <<request, started, result, mine, todo, walkVars, lock, skipped>>
    <3>1. disk = started.disk /\ declared = started.declared /\ UNCHANGED <<worldVars, vendor, declared>>
      BY <1>10 DEF Runtime, NothingIsWritten
    <3>2. disk' \in {started.disk} \/ (disk' = Torn /\ ~started.writable) \/ disk' = lock
      BY <1>10, <2>2, <3>1 DEF SaveLock, SaveFails, Runtime, NothingIsWritten
    <3>3. disk' = lock => disk' # Torn /\ Covers(disk)'
      <4>1. \A r \in Range(flat) : IsThere(r)
        BY <1>10 DEF Runtime, Progress
      <4>2. Covers(lock)
        BY <4>1 DEF Covers, IsThere
      <4>3. lock # Torn
        BY PackageFacts DEF TypeOK
      <4> QED BY <2>2, <3>1, <4>2, <4>3 DEF Covers, Alone, InstalledAs
    <3>4. Outcome'
      BY <2>2, <3>2, <3>3 DEF Outcome
    <3> QED BY <1>10, <2>2, <3>1, <3>4 DEF Runtime, NothingIsWritten, FailureKeepsProject
  <2> QED BY <1>10, <2>1, <2>2 DEF Runtime
<1>11. ASSUME Prune, UNCHANGED last
      PROVE  NothingIsWritten' /\ FailureKeepsProject'
  <2>1. /\ Outcome /\ declared = started.declared
        /\ UNCHANGED <<worldVars, projectVars, mine, flat, skipped, started, request>>
    BY <1>11 DEF Prune, End, NothingIsWritten
  <2>2. Outcome'
    BY <2>1 DEF Outcome, Covers, Alone, InstalledAs
  <2>3. Covers(disk) => TellsDirect(disk)
    BY CoversTells
  <2>4. TellsDirect(disk) => TellsDirect(disk)'
    BY <2>1 DEF TellsDirect, Direct, Alone, InstalledAs
  <2>5. CASE End("failed")
    BY <1>11, <2>1, <2>3, <2>4, <2>5 DEF End, Outcome, NothingIsWritten, FailureKeepsProject
  <2>6. CASE pc' = "save" /\ result' = result
    BY <1>11, <2>1, <2>2, <2>6 DEF Prune, NothingIsWritten, FailureKeepsProject
  <2> QED BY <1>11, <2>5, <2>6 DEF Prune
<1>12. ASSUME Remove, UNCHANGED last
      PROVE  NothingIsWritten' /\ FailureKeepsProject'
  BY <1>12 DEF Remove, StageFits, Outcome, NothingIsWritten, FailureKeepsProject
<1>13. ASSUME Write
      PROVE  NothingIsWritten' /\ FailureKeepsProject'
  <2>1. /\ Outcome /\ declared = started.declared /\ request.command # "ensure"
        /\ UNCHANGED <<worldVars, vendor, disk, mine, flat, skipped, started, request>>
    BY <1>13 DEF Write, End, StageFits, NothingIsWritten
  <2>2. Outcome'
    BY <2>1 DEF Outcome, Covers, Alone, InstalledAs
  <2>3. Covers(disk) => TellsDirect(disk)
    BY CoversTells
  <2>4. TellsDirect(disk) => TellsDirect(disk)'
    BY <2>1 DEF TellsDirect, Direct, Alone, InstalledAs
  <2>5. CASE writable
    BY <1>13, <2>1, <2>2, <2>5 DEF Write, End, NothingIsWritten, FailureKeepsProject
  <2>6. CASE ~writable
    <3>1. declared' \in {declared, Torn} /\ End("failed") /\ ~started.writable
      BY <1>13, <2>6 DEF Write, NothingIsWritten
    <3> QED BY <2>1, <2>3, <2>4, <3>1 DEF End, Outcome, NothingIsWritten, FailureKeepsProject
  <2> QED BY <2>5, <2>6
<1>14. ASSUME Save
      PROVE  NothingIsWritten' /\ FailureKeepsProject'
  <2>1. CASE /\ SaveFails /\ End(IF request.command = "ensure" THEN "failed" ELSE "done")
    <3>1. /\ Outcome /\ disk' \in {disk, Torn} /\ ~started.writable
          /\ UNCHANGED <<worldVars, vendor, declared, mine, flat, skipped, started, request>>
      BY <1>14, <2>1 DEF Save, SaveFails, End, NothingIsWritten
    <3>2. Covers(disk) => TellsDirect(disk)
      BY CoversTells
    <3>3. disk' = disk /\ TellsDirect(disk) => TellsDirect(disk)'
      BY <3>1 DEF TellsDirect, Direct, Alone, InstalledAs
    <3>4. result' = "failed" => declared = started.declared
      BY <1>14, <2>1 DEF Save, End, NothingIsWritten
    <3>5. pc' = "idle"
      BY <2>1 DEF End
    <3> QED BY <3>1, <3>2, <3>3, <3>4, <3>5 DEF Outcome, NothingIsWritten, FailureKeepsProject
  <2>2. CASE End("done")
    BY <2>2 DEF End, NothingIsWritten, FailureKeepsProject
  <2> QED BY <1>14, <2>1, <2>2 DEF Save
<1>15. ASSUME NEW q \in Packages, Publish(q)
      PROVE  NothingIsWritten' /\ FailureKeepsProject'
  BY <1>15 DEF Publish, Disturb, NothingIsWritten, FailureKeepsProject,
     Outcome, Covers, TellsDirect, Direct, Alone, InstalledAs, Beginnings, TypeOK
<1>16. ASSUME NEW q \in Packages, RefreshCache(q)
      PROVE  NothingIsWritten' /\ FailureKeepsProject'
  BY <1>16 DEF RefreshCache, Disturb, NothingIsWritten, FailureKeepsProject,
     Outcome, Covers, TellsDirect, Direct, Alone, InstalledAs, Beginnings, TypeOK
<1>17. ASSUME Network
      PROVE  NothingIsWritten' /\ FailureKeepsProject'
  BY <1>17 DEF Network, Disturb, NothingIsWritten, FailureKeepsProject,
     Outcome, Covers, TellsDirect, Direct, Alone, InstalledAs, Beginnings, TypeOK
<1>23. ASSUME Permissions
      PROVE  NothingIsWritten' /\ FailureKeepsProject'
  BY <1>23 DEF Permissions, NothingIsWritten, FailureKeepsProject,
     Outcome, Covers, TellsDirect, Direct, Alone, InstalledAs, Beginnings, TypeOK
<1>18. ASSUME Edit
      PROVE  NothingIsWritten' /\ FailureKeepsProject'
  BY <1>18 DEF Edit, UserTurn, Nothing, Forget, NothingIsWritten, FailureKeepsProject
<1>19. ASSUME DeleteLock
      PROVE  NothingIsWritten' /\ FailureKeepsProject'
  BY <1>19 DEF DeleteLock, UserTurn, Nothing, Forget, NothingIsWritten, FailureKeepsProject
<1>20. ASSUME NewCheckout
      PROVE  NothingIsWritten' /\ FailureKeepsProject'
  BY <1>20 DEF NewCheckout, UserTurn, Nothing, NothingIsWritten, FailureKeepsProject
<1>21. ASSUME Crash
      PROVE  NothingIsWritten' /\ FailureKeepsProject'
  BY <1>21 DEF Crash, Nothing, NothingIsWritten, FailureKeepsProject
<1>22. CASE UNCHANGED vars
  BY <1>22 DEF vars, commandVars, NothingIsWritten, FailureKeepsProject, Outcome, Covers, TellsDirect, Direct, Alone, InstalledAs
<1> QED BY <1>1, <1>2, <1>3, <1>4, <1>5, <1>6, <1>7, <1>8,
       <1>9, <1>10, <1>11, <1>12, <1>13, <1>14, <1>15, <1>16,
       <1>17, <1>18, <1>19, <1>20, <1>21, <1>22, <1>23
       DEF Next, Command, Between, Environment

LEMMA NextSound == Sound /\ [Next]_vars => Sound'
<1>1. Sound => IInv /\ StageFits /\ MineIsDeclared
  BY DEF Sound
<1>2. Sound /\ [Next]_vars => IInv' /\ StageFits' /\ MineIsDeclared'
  BY <1>1, NextKeeps, NextStages
<1> QED BY <1>2, NextKeepsLast, NextProgress, NextKeepsLock, NextSaved DEF Sound

(* All that is said above of the stages, of what is in memory and of what  *)
(* the last ensure left holds throughout.                                  *)
THEOREM ProjectSound == Spec => []Sound
BY InitSound, NextSound, PTL DEF Spec

(* After an ensure every dependency of pawn.json that was not skipped has  *)
(* an entry in pawn.lock, and the entry is what is in dependencies/.       *)
THEOREM ProjectDirectIsLocked == Spec => []DirectIsLocked
<1>1. Sound => DirectIsLocked
  BY DEF Sound
<1> QED BY <1>1, ProjectSound, PTL

(* After an undisturbed ensure pawn.lock has entries for nothing but what  *)
(* is needed, however the packages depend on one another.                  *)
THEOREM ProjectLockIsNeeded == Spec => []LockIsNeeded
<1>1. Sound => LockIsNeeded
  BY DEF Sound
<1> QED BY <1>1, ProjectSound, PTL

(* A command that fails has not changed pawn.json, and has left pawn.lock  *)
(* alone or with all it installed; only a write that failed may cut one of *)
(* them short.                                                             *)
THEOREM ProjectFailureKeepsProject == Spec => []FailureKeepsProject
<1>1. Sound => FailureKeepsProject
  BY DEF Sound
<1> QED BY <1>1, ProjectSound, PTL

(* Which steps say anew what an ensure left: the writing of pawn.json and  *)
(* the edits of the user forget it, and only the end of an ensure sets it. *)
LEMMA LastSteps ==
  ASSUME [Next]_vars PROVE Save \/ last' = last \/ \A p \in Packages : last'[p] = None
<1> USE DEF Goto, worldVars, projectVars, walkVars
<1>1. CASE \E q \in Requests : Start(q)
  BY <1>1 DEF Start
<1>2. CASE Command
  BY <1>2 DEF Command, Write
<1>3. CASE Environment
  BY <1>3 DEF Environment, Publish, RefreshCache, Network, Permissions, Disturb, Edit, DeleteLock,
     NewCheckout, Crash, Forget
<1>4. CASE UNCHANGED vars
  BY <1>4 DEF vars
<1> QED BY <1>1, <1>2, <1>3, <1>4 DEF Next

(* From one ensure to the next a dependency of pawn.json stays on its      *)
(* version, whatever is published, refreshed, lost or killed in between.   *)
THEOREM ProjectDirectIsStable == Spec => DirectIsStable
<1> DEFINE Stable == \A p \in Packages : last[p] # None /\ last'[p] # None => last'[p] = last[p]
<1>1. Sound /\ [Next]_vars => [Stable]_vars
  <2> SUFFICES ASSUME Sound, [Next]_vars, NEW p \in Packages, last[p] # None, last'[p] # None
               PROVE  last'[p] = last[p]
    OBVIOUS
  <2>1. CASE Save
    <3>0. StageFits /\ LastIsKept /\ Progress
      BY DEF Sound
    <3>1. Matches(lock[p], last[p])
      BY <2>1, <3>0 DEF Save, StageFits, LastIsKept, HasLock, Kept
    <3>2. CASE /\ request.command = "ensure" /\ p \in {r.package : r \in Direct} /\ Alone(p)
               /\ last'[p] = InstalledAs(p)
      <4>1. PICK r \in Direct : r.package = p
        BY <3>2
      <4>2. Matches(lock[p], InstalledAs(p))
        BY <2>1, <3>0, <3>2, <4>1 DEF Save, Progress, IsThere, Direct
      <4> QED BY <3>1, <3>2, <4>2 DEF Matches
    <3>3. CASE last'[p] = last[p]
      BY <3>3
    <3> QED BY <2>1, <3>2, <3>3 DEF Save
  <2>2. CASE last' = last
    BY <2>2
  <2> QED BY <2>1, <2>2, LastSteps
<1>2. Spec => [][Stable]_vars
  BY <1>1, ProjectSound, PTL DEF Spec
<1> QED BY <1>2 DEF DirectIsStable

================================================================================
