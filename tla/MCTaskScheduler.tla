--------------------------- MODULE MCTaskScheduler ---------------------------
(* Instances of TaskScheduler for TLC: the ownership shapes tasks and       *)
(* conversations take, the waits task code commits, and, where one instance *)
(* holds several stories, the constraint that keeps a behaviour in one.     *)
EXTENDS TaskScheduler

S(owner, conv, background, abandon) ==
    [owner |-> owner, conv |-> conv, background |-> background, abandon |-> abandon]

SubConv == <<{}, {1}>>              \* conversation 2 is owned by task 1

\* Every task that exists has one of the shapes a story gives it.
Created(x)   == task[x].status # "unborn"
ShapeOf(x)   == S(task[x].owner, task[x].conv, task[x].background, task[x].abandon)
Within(shapes) == \A x \in TaskId : Created(x) => x \in DOMAIN shapes /\ ShapeOf(x) \in shapes[x]

\* What an abort handler does to the checkpoint is never looked at; a phase that throws
\* faults as one that leaves its checkpoint does.
NoIdleMove == \A x \in TaskId : inv[x].mode = "abort" => ~inv[x].moved
NoThrow    == \A x \in TaskId : ~inv[x].failed

\* A task and its child, or two tasks of one conversation that may wait on each other.
PairShapes == <<{S(0, 1, FALSE, FALSE)}, {S(0, 1, FALSE, FALSE), S(1, 1, FALSE, FALSE)}>>
PairWaits  == {<<{1}, "allSettled">>, <<{2}, "allSettled">>, <<{2}, "failFast">>}
\* A conversation below a task, with a task in it, that run in either ground; both
\* conversations are aborted and get inputs.
ScopeShapes == <<{S(0, 1, FALSE, FALSE), S(0, 1, TRUE, FALSE)}, {S(0, 2, FALSE, FALSE), S(0, 2, TRUE, FALSE)}>>
RaceShapes == [x \in 1 .. 2 |-> PairShapes[x] \cup ScopeShapes[x]]
OneRace ==
    /\ NoIdleMove
    /\ \/ Within(PairShapes) /\ convs = {Root} /\ queued = {}
       \/ Within(ScopeShapes) /\ restarts = 0 /\ NoThrow

\* A subagent: task 1 owns conversation 2, whose task 2, foreground or background,
\* has child 3.
SubagentShapes ==
    <<{S(0, 1, FALSE, FALSE)},
      {S(0, 2, FALSE, FALSE), S(0, 2, TRUE, FALSE)},
      {S(2, 2, FALSE, FALSE)}>>
\* A task with two children it waits for together; only their failures cancel here.
FlatShapes == <<{S(0, 1, FALSE, FALSE)}, {S(1, 1, FALSE, FALSE)}, {S(1, 1, FALSE, FALSE)}>>
FlatWaits  == {<<{2, 3}, "failFast">>}
\* A task awaited only in memory by its owner, or owning the task below it; both lose
\* their definitions, and the Session ends.
AbandonShapes ==
    <<{S(0, 1, FALSE, FALSE), S(0, 1, FALSE, TRUE)}, {S(1, 1, FALSE, FALSE), S(1, 1, FALSE, TRUE)}, {}>>
OwnerShapes == [x \in 1 .. 3 |-> SubagentShapes[x] \cup FlatShapes[x] \cup AbandonShapes[x]]
\* No task gets a child below a background conversation task.
OneTree ==
    /\ NoIdleMove /\ NoThrow
    /\ \/ /\ restarts = 0 /\ installed /\ \A x \in TaskId : ~inv[x].stale
          /\ \/ Within(SubagentShapes) /\ (Created(3) => ~task[2].background)
             \/ convs = {Root} /\ task[1].mark = "none" /\ Within(FlatShapes)
       \/ convs = {Root} /\ (Created(2) => task[1].abandon # task[2].abandon) /\ Within(AbandonShapes)

\* For liveness: a child, or a task of an owned conversation, that may be waited for.
LiveShapes == <<{S(0, 1, FALSE, FALSE)}, {S(1, 1, FALSE, FALSE), S(0, 2, FALSE, FALSE)}>>
LiveWaits  == {<<{2}, "allSettled">>, <<{2}, "failFast">>}
\* A restart or a missing definition, not both.  This cuts Stop, RegistryChange and
\* RuntimeCommit, which no fairness forces, and the throw of a handler that can also
\* return, so a behaviour inside the constraint can take every fair step it owes.
OneFault   == (restarts = 0 \/ installed) /\ NoIdleMove /\ NoThrow
=============================================================================
