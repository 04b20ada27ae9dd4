---------------------------- MODULE StorageTables ----------------------------
(***************************************************************************)
(* The tables every durable Storage keeps for readers (storage/memory.ts): *)
(* what a batch of writes may be and what it does to tasks and documents.  *)
(* Conversations, entries and submissions are one more main-only write     *)
(* each and behave as a terminal task does.                                *)
(***************************************************************************)
EXTENDS Naturals, Sequences, FiniteSets, SequencesExt

CONSTANTS
    Tasks,          \* task IDs
    Documents,      \* document IDs
    CurrentOnly     \* the documents that keep no history before their latest base

ASSUME CurrentOnlyAssumption == CurrentOnly \subseteq Documents
ASSUME OneIdSpace == Tasks \cap Documents = {}

Ids == Tasks \cup Documents

\* A write: what it does to which record, and the value it carries.
Content(w) == w.op \in {"create", "base", "delta"}

NoDocument == [status |-> "absent", revisions |-> <<>>]
EmptyTables ==
    [task |-> [t \in Tasks |-> [status |-> "absent", value |-> <<>>]],
     doc  |-> [d \in Documents |-> NoDocument],
     seq  |-> 0]

On(batch, x) == SelectSeq(batch, LAMBDA w : w.id = x)

-----------------------------------------------------------------------------

\* prepareDocumentActions and checkDocumentActions: one content command per document,
\* a document is created once and changes no more once it is retired, and a delta needs
\* something to apply to.
DocumentAccepted(doc, writes) ==
    LET contents == SelectSeq(writes, Content)
        retires  == SelectSeq(writes, LAMBDA w : w.op = "retire")
    IN /\ Len(contents) <= 1 /\ Len(retires) <= 1
       /\ doc.status = IF \E i \in DOMAIN contents : contents[i].op = "create" THEN "absent" ELSE "live"
       /\ \A i \in DOMAIN contents : contents[i].op = "delta" => doc.revisions # <<>>

Accepted(tables, batch) ==
    \A d \in Documents : On(batch, d) # <<>> => DocumentAccepted(tables.doc[d], On(batch, d))

\* applyDocumentActions: a base drops what came before it and a retirement drops all,
\* unless the document keeps its history.
DocumentAfter(d, doc, writes, seq) ==
    LET contents == SelectSeq(writes, Content)
        retired  == \E i \in DOMAIN writes : writes[i].op = "retire"
        revision == [seq |-> seq, op |-> contents[1].op, value |-> contents[1].value]
        kept     == IF d \in CurrentOnly /\ contents[1].op = "base" THEN <<>> ELSE doc.revisions
        changed  == IF contents = <<>> THEN doc.revisions ELSE Append(kept, revision)
    IN [status    |-> IF retired THEN "retired" ELSE "live",
        revisions |-> IF retired /\ d \in CurrentOnly THEN <<>> ELSE changed]

TaskAfter(writes) ==
    [status |-> Last(writes).op, value |-> Last(writes).value]

\* applyPreparedCommit.
Applied(tables, batch, seq) ==
    [task |-> [t \in Tasks |-> IF On(batch, t) = <<>> THEN tables.task[t] ELSE TaskAfter(On(batch, t))],
     doc  |-> [d \in Documents |-> IF On(batch, d) = <<>> THEN tables.doc[d]
                                   ELSE DocumentAfter(d, tables.doc[d], On(batch, d), seq)],
     seq  |-> seq]

\* The tables after a sequence of commits, each [seq, writes].
Replayed(commits) ==
    FoldLeft(LAMBDA tables, c : Applied(tables, c.writes, c.seq), EmptyTables, commits)
=============================================================================
