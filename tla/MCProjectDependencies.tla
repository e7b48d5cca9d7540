------------------------- MODULE MCProjectDependencies -------------------------
(* A library "lib", a fork of it, and a package "core" that the first      *)
(* version of the library needs and the second does not.                   *)
EXTENDS ProjectDependencies, TLC

CONSTANTS Lib, Fork, Core, LibDir, CoreDir

Plain(p)  == [package |-> p, pin |-> Unpinned]
Tag(p, v) == [package |-> p, pin |-> v]

MCPackages == {Lib, Fork, Core}
MCName     == (Lib :> LibDir) @@ (Fork :> LibDir) @@ (Core :> CoreDir)
MCNeeds    == (Lib  :> (1 :> <<Plain(Core)>> @@ 2 :> <<>>)) @@
              (Fork :> (1 :> <<>> @@ 2 :> <<Plain(Core)>>)) @@
              (Core :> (1 :> <<>> @@ 2 :> <<Plain(Lib)>>))

MCBroken   == {<<Fork, 2>>}

MCManifests == {<<Plain(Lib)>>, <<Tag(Lib, 1)>>, <<Tag(Lib, 2)>>, <<Plain(Core), Tag(Fork, 1)>>}

Ensure       == [command |-> "ensure", targets |-> <<>>]
Install(ts)   == [command |-> "install", targets |-> ts]
Uninstall(ts) == [command |-> "uninstall", targets |-> ts]
MCRequests == {Ensure, Install(<<Plain(Core)>>), Install(<<Tag(Fork, 1), Plain(Core)>>),
               Uninstall(<<Plain(Lib)>>)}
================================================================================
