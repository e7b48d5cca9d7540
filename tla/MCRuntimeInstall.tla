---------------------------- MODULE MCRuntimeInstall ---------------------------
EXTENDS RuntimeInstall
MCNames    == {"v1", "newest"}
MCReleases == {"r1", "r2"}
MCFiles    == {"server", "npc", "component"}
MCShips    == [r \in MCReleases |-> IF r = "r1" THEN {"server", "npc"} ELSE {"server", "component"}]
MCNamed    == [n \in MCNames |-> IF n = "v1" THEN {"r1"} ELSE MCReleases]
MCLayouts  == [typed : BOOLEAN, separate : BOOLEAN] \ {[typed |-> TRUE, separate |-> TRUE]}
================================================================================
