--------------------------- MODULE StorageContract ---------------------------
(***************************************************************************)
(* What Storage promises the Session (storage.ts, spec 10 and 11.3): a     *)
(* commit takes effect whole or not at all, readers see it when it has     *)
(* returned, an error leaves one of the two and makes the storage useless  *)
(* until it is reopened, and an open shows exactly what was committed.     *)
(* Only a power loss takes commits back, the latest first.                 *)
(***************************************************************************)
EXTENDS StorageTables

CONSTANT Unavailable

VARIABLES
    log,        \* the commits that took effect, each [seq, writes]
    view,       \* the tables readers see, or Unavailable
    mayLose     \* whether a power loss may come

Init == log = <<>> /\ view = Unavailable /\ mayLose \in BOOLEAN

LastSeq == IF log = <<>> THEN 0 ELSE Last(log).seq

\* Some batch took effect, at a later sequence than all before it.
Extended(old, new) ==
    /\ Len(new) = Len(old) + 1 /\ IsPrefix(old, new)
    /\ Last(new).seq > LastSeq
    /\ Accepted(Replayed(old), Last(new).writes)

Commit ==
    /\ view # Unavailable
    /\ Extended(log, log')
    /\ view' = Applied(view, Last(log').writes, Last(log').seq)

Fail ==
    /\ view # Unavailable
    /\ log' = log \/ Extended(log, log')
    /\ view' = Unavailable

Reopen ==
    /\ view = Unavailable
    /\ view' = Replayed(log)
    /\ UNCHANGED log

Lose ==
    /\ mayLose
    /\ IsPrefix(log', log)
    /\ view' = Unavailable

Next == (Commit \/ Fail \/ Reopen \/ Lose) /\ UNCHANGED mayLose

Spec == Init /\ [][Next]_<<log, view, mayLose>>
=============================================================================
