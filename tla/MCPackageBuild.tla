----------------------------- MODULE MCPackageBuild ----------------------------
EXTENDS PackageBuild
MCTexts    == {"good", "wrong", "broken", "long"}
MCQuality  == [t \in MCTexts |-> CASE t = "good" -> "warns" [] t = "wrong" -> "errors"
                                   [] t = "broken" -> "fatal" [] t = "long" -> "endless"]
MCNames    == {"default", "debug"}
MCFirst(s) == CHOOSE n \in s : "debug" \in s => n = "debug"
Plain      == [builds |-> {}, own |-> {}, base |-> FALSE, quiet |-> FALSE,
               custom |-> FALSE, local |-> FALSE, sound |-> TRUE]
MCLayouts  == {Plain,
               [Plain EXCEPT !.builds = {"debug"}, !.base = TRUE, !.local = TRUE],
               [Plain EXCEPT !.builds = MCNames, !.own = {"debug"}],
               [Plain EXCEPT !.builds = {"debug"}, !.quiet = TRUE],
               [Plain EXCEPT !.custom = TRUE, !.sound = FALSE],
               [Plain EXCEPT !.builds = {"debug"}, !.custom = TRUE]}
Bare       == [name |-> None, ensure |-> FALSE, force |-> FALSE, dry |-> FALSE, numbered |-> FALSE,
               elsewhere |-> FALSE]
MCRequests == {Bare, [Bare EXCEPT !.ensure = TRUE, !.force = TRUE],
               [Bare EXCEPT !.name = "debug", !.dry = TRUE],
               [Bare EXCEPT !.elsewhere = TRUE],
               [Bare EXCEPT !.name = "debug", !.force = TRUE],
               [Bare EXCEPT !.name = "debug", !.ensure = TRUE],
               [Bare EXCEPT !.numbered = TRUE]}
MCParts    == {"pawncc", "libpawnc"}
================================================================================
