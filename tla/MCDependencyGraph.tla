--------------------------- MODULE MCDependencyGraph ---------------------------
(* A project "app" with a library, a fork of it under another user, and a  *)
(* package "core" that both may use.                                       *)
EXTENDS DependencyGraph, TLC

CONSTANTS App, Lib, Fork, Core, LibRepo, AppRepo, CoreRepo

MCPackages == {App, Lib, Fork, Core}
MCRepoName == (App :> AppRepo) @@ (Lib :> LibRepo) @@ (Fork :> LibRepo) @@ (Core :> CoreRepo)

Tag(p)     == [package |-> p, kind |-> "tag"]
Plugin(p)  == [package |-> p, kind |-> "plugin"]
Invalid(p) == [package |-> p, kind |-> "invalid"]

(* The packages: with a cycle through the project, a fork and a revision   *)
(* that cannot be read; and with a package that is used twice.             *)
Cyclic == (AtHead(Lib)  :> <<AtHead(Core), AtHead(Fork)>>) @@
          (Tag(Lib)     :> <<Tag(Core)>>) @@
          (AtHead(Fork) :> <<Plugin(Core), AtHead(App)>>) @@
          (AtHead(Core) :> <<AtHead(Lib), Invalid(Core)>>)
Shared == (AtHead(Lib)  :> <<Tag(Core), Plugin(Lib)>>) @@
          (AtHead(Fork) :> <<AtHead(Core), AtHead(Lib)>>) @@
          (AtHead(Core) :> <<>>) @@
          (Tag(Core)    :> <<AtHead(App), AtHead(Fork)>>)

Declarable == {AtHead(Lib), Tag(Lib), AtHead(Fork), AtHead(Core), Tag(Core),
               Plugin(Core), AtHead(App), Invalid(Lib)}
Manifests  == {<<r>> : r \in Declarable} \cup {<<r, s>> : r \in Declarable, s \in Declarable}

MCDefinitions == {(Root :> m) @@ u : m \in Manifests, u \in {Cyclic, Shared}}

Plain        == NoRequest
UpdateAll    == [Plain EXCEPT !.update = TRUE]
UpdateForce  == [UpdateAll EXCEPT !.force = TRUE]
UpdateTarget == [UpdateForce EXCEPT !.target = Tag(Core)]
MCRequests   == {Plain, UpdateAll, UpdateForce, UpdateTarget}
================================================================================
