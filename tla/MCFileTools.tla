---------------------------- MODULE MCFileTools ----------------------------
(***************************************************************************)
(* Values of FileTools' constants for TLC: what the model may ask of the   *)
(* tools about a file of the user's and two paths without a file.          *)
(***************************************************************************)
EXTENDS FileTools, TLC

CONSTANTS notes, probe, spare, mine, theirs

ThePaths == {notes, probe, spare}

Ask(op, p, t, life) == [op |-> op, path |-> p, to |-> t, life |-> life]

Mine ==
    {Ask("write", p, p, "temporary") : p \in {notes, probe}}
    \cup {Ask(op, probe, probe, "persistent") : op \in {"write", "code_edit", "delete", "terminal"}}
    \cup {Ask("document_edit", notes, notes, "persistent"), Ask("copy", notes, probe, "persistent"),
          Ask("move", notes, probe, "persistent"), Ask("move", probe, notes, "persistent"),
          Ask("move", notes, spare, "persistent")}

Theirs == {Ask("document_edit", notes, notes, "persistent"), Ask("move", probe, notes, "persistent")}

TheRequests == (mine :> Mine) @@ (theirs :> Theirs)
TheRunOf == (1 :> mine) @@ (2 :> mine) @@ (3 :> theirs)
=============================================================================
