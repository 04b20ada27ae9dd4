--------------------------- MODULE MCContextRange ---------------------------
(* The transcripts ContextRange is checked over: tool rounds with edits, and  *)
(* heads with system entries.                                                *)
EXTENDS ContextRange

ToolKinds == {"user", "calling", "result1", "result2", "omit", "replace"}
HeadKinds == {"user", "system", "calling", "result1", "head", "undo", "omit"}
AllKinds  == ToolKinds \cup HeadKinds

OneTranscript ==
    LET used == {entries[i].kind : i \in DOMAIN entries}
    IN used \subseteq ToolKinds \/ used \subseteq HeadKinds
=============================================================================
