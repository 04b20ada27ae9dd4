---------------------------- MODULE MCJsonlStorage ----------------------------
(* Instances of JsonlStorage for TLC: batches the Session commits. *)
EXTENDS JsonlStorage

CONSTANTS t, c, h       \* a task, a current-only document, one that keeps its history

W(op, id) == [op |-> op, id |-> id]

\* A task beside a current-only document.
MixedBatches ==
    {<<W("live", t)>>, <<W("live", t), W("live", t)>>, <<W("terminal", t)>>,
     <<W("live", t), W("terminal", t)>>,
     <<W("create", c)>>, <<W("create", c), W("live", t)>>, <<W("delta", c)>>, <<W("base", c)>>,
     <<W("base", c), W("live", t)>>, <<W("retire", c)>>, <<W("delta", c), W("retire", c)>>}

\* A current-only document beside one that keeps its history.
KeptBatches ==
    {<<W("create", c), W("create", h)>>, <<W("delta", c), W("base", h)>>, <<W("base", c), W("delta", h)>>,
     <<W("delta", h)>>, <<W("retire", h)>>, <<W("retire", c), W("retire", h)>>}

AllBatches == MixedBatches \cup KeptBatches

\* The batches of a behaviour come from one of the two sets; three attempts when power
\* may be lost, four with a task, five with a document kept.
Ops(writes) == [i \in DOMAIN writes |-> W(writes[i].op, writes[i].id)]
OneFamily ==
    LET used == {Ops(log[i].writes) : i \in DOMAIN log} \cup {Ops(batch)}
    IN  \/ used \subseteq MixedBatches \cup {<<>>} /\ attempt <= (IF fsync THEN 3 ELSE 4)
        \/ used \subseteq KeptBatches \cup {<<>>} /\ ~fsync
===============================================================================
