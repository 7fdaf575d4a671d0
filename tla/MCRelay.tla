------------------------------- MODULE MCRelay -------------------------------
(***************************************************************************)
(* Instances of Relay for TLC.                                             *)
(***************************************************************************)
EXTENDS Relay

Per(editor, child) == [s \in Sides |-> IF s = "editor" THEN editor ELSE child]
Mix(editorAsks, editorNotifies, childAsks, childNotifies) ==
    [asks |-> Per(editorAsks, childAsks), notifies |-> Per(editorNotifies, childNotifies)]

\* Two requests whose responses can be taken for each other's; requests from
\* both sides; and a request among notifications that fill every place between
\* the peers, also when the loop that reads them ends by a Break.
MCMixes == {Mix(2, 1, 0, 1), Mix(1, 0, 1, 1), Mix(1, 3, 0, 1)}
MCAsks == Per(2, 1)
MCNotifies == Per(3, 1)
==============================================================================
