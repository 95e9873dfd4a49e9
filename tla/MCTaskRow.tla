----------------------------- MODULE MCTaskRow -----------------------------
(* Small instances of TaskRow for TLC. *)
EXTENDS TaskRow

\* One process.  Its flow's worker reads the section that an upload handler reads
\* and edits.
CONSTANTS p1, flow, api

OneProcess == [th \in Thread |-> p1]
BothRead == {<<flow, "execution">>, <<api, "execution">>}
HandlerEdits == {<<api, "execution">>}
=============================================================================
