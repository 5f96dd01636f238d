-------------------------- MODULE MCGitDestination --------------------------
(***************************************************************************)
(* GitDestination for TLC: one step and a folder of somebody else.         *)
(***************************************************************************)
EXTENDS GitDestination

File(path, content) == [path |-> path, content |-> content]
Main(release) == File(<<"main.tf">>, release)
Included == File(<<"include", "values.yaml">>, 1)
Deeper == File(<<"include", "charts", "values.yaml">>, 1)

Releases == {{Main(1)}, {Main(2), Included}}
WithNested == {{Main(1)}, {Main(2), Included}, {Main(2), Deeper}}

\* Somebody leaves a file in the step's folder and works in another one.
Stray == {[step |-> {Main(1), Included}, other |-> {Included}]}
==============================================================================
