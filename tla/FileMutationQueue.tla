-------------------------- MODULE FileMutationQueue --------------------------
(***************************************************************************)
(* withFileMutationQueue: the promise chain per file that serializes the   *)
(* `edit` and `write` calls of one process (tools/file-mutation-queue.ts). *)
(*                                                                         *)
(* A call resolves the key of its file asynchronously, takes its slot in   *)
(* the chain of that key in one synchronous step, waits for the slot       *)
(* before it, runs its mutation and releases.  Files may appear and        *)
(* disappear under it: `bash` and other processes take no slot.            *)
(***************************************************************************)
EXTENDS Naturals, Sequences, FiniteSets

CONSTANTS
    Calls,      \* calls of withFileMutationQueue
    Paths,      \* absolute paths, as tools resolve them
    Files,      \* files that exist or may be created
    None,       \* no call: the key has no chain
    PathOf,     \* Calls -> Paths: the path a call names
    FileOf,     \* Paths -> Files: the file a mutation of the path changes
    Links,      \* paths whose last component is a symbolic link to their file
    Shared      \* files other processes create and remove

ASSUME PathsAssumption ==
    PathOf \in [Calls -> Paths] /\ FileOf \in [Paths -> Files] /\ Links \subseteq Paths /\ Shared \subseteq Files
ASSUME NoneAssumption == None \notin Calls

VARIABLES
    pc,         \* how far each call is
    key,        \* the key each call resolved
    ahead,      \* the calls whose release the `previous` promise of a call waits for
    queues,     \* `queues`: the call that is the tail of each key's chain
    exists,     \* the files that exist
    slots       \* history: the calls in the order they took their slots

vars == <<pc, key, ahead, queues, exists, slots>>

\* A key is the canonical path: a file's own, or one no file has yet.
Keys == Files \cup Paths

Queued   == {c \in Calls : pc[c] \in {"waiting", "running", "writing"}}
Mutating == {c \in Calls : pc[c] \in {"running", "writing"}}
Target(c) == FileOf[PathOf[c]]

-----------------------------------------------------------------------------

\* Mutant: the path itself is the key.
KeyNow_Path(p) == p
\* The canonical path of the file; while it does not exist, its canonical parent
\* joined with its name, which is the same path unless the name is a link.
KeyNow(p) == IF FileOf[p] \in exists \/ p \notin Links THEN FileOf[p] ELSE p

Init ==
    /\ pc = [c \in Calls |-> "idle"]
    /\ key = [c \in Calls |-> Target(c)]       \* not read before it is resolved
    /\ ahead = [c \in Calls |-> {}]
    /\ queues = [k \in Keys |-> None]
    /\ exists \in SUBSET Files
    /\ slots = <<>>

\* mutationKey: the file system answers at some time before the slot is taken.
Resolve(c) ==
    /\ pc[c] = "idle"
    /\ pc' = [pc EXCEPT ![c] = "resolved"]
    /\ key' = [key EXCEPT ![c] = KeyNow(PathOf[c])]
    /\ UNCHANGED <<ahead, queues, exists, slots>>

\* The path cannot be resolved: the call throws and takes no slot.
ResolveFails(c) ==
    /\ pc[c] = "idle"
    /\ pc' = [pc EXCEPT ![c] = "done"]
    /\ UNCHANGED <<key, ahead, queues, exists, slots>>

\* The promise of the tail waits for the tail's own release and for all before it.
Behind(k) == IF queues[k] = None THEN {} ELSE {queues[k]} \cup ahead[queues[k]]

TakeSlot(c) ==
    /\ pc[c] = "resolved"
    /\ pc' = [pc EXCEPT ![c] = "waiting"]
    /\ ahead' = [ahead EXCEPT ![c] = Behind(key[c])]
    /\ queues' = [queues EXCEPT ![key[c]] = c]
    /\ slots' = Append(slots, c)
    /\ UNCHANGED <<key, exists>>

\* Mutant: a call waits for every other call queued on its key.
PreviousDone_All(c) == \A d \in Queued \ {c} : key[d] # key[c]
PreviousDone(c) == \A d \in ahead[c] : pc[d] = "done"

Enter(c) ==
    /\ pc[c] = "waiting"
    /\ PreviousDone(c)
    /\ pc' = [pc EXCEPT ![c] = "running"]
    /\ UNCHANGED <<key, ahead, queues, exists, slots>>

\* `fn` opens its file for writing: it exists from now on, and is still being written.
Write(c) ==
    /\ pc[c] = "running"
    /\ pc' = [pc EXCEPT ![c] = "writing"]
    /\ exists' = exists \cup {Target(c)}
    /\ UNCHANGED <<key, ahead, queues, slots>>

\* The chain of a key is dropped by its last call only.
\* Mutant: every call drops it.
Dropped_Always(c) == [queues EXCEPT ![key[c]] = None]
Dropped(c) == IF queues[key[c]] = c THEN [queues EXCEPT ![key[c]] = None] ELSE queues

\* `fn` returned, or threw before or after its write: the finally block.
Finish(c) ==
    /\ pc[c] \in {"running", "writing"}
    /\ pc' = [pc EXCEPT ![c] = "done"]
    /\ queues' = Dropped(c)
    /\ UNCHANGED <<key, ahead, exists, slots>>

\* Other processes create and remove files at any time.
Other ==
    /\ \E f \in Shared : exists' = (exists \ {f}) \cup ({f} \ exists)
    /\ UNCHANGED <<pc, key, ahead, queues, slots>>

Step(c) == Resolve(c) \/ ResolveFails(c) \/ TakeSlot(c) \/ Enter(c) \/ Write(c) \/ Finish(c)

Next == Other \/ \E c \in Calls : Step(c)

\* The event loop runs what is ready; file systems answer and mutations end.
Fairness == \A c \in Calls : WF_vars(Step(c))

Spec == Init /\ [][Next]_vars
FairSpec == Spec /\ Fairness

-----------------------------------------------------------------------------

\* Mutations of one file never overlap, whatever paths name it and whatever others do
\* to it meanwhile.
MutualExclusion ==
    \A c, d \in Mutating : c # d => Target(c) # Target(d)

\* Calls on one file run in the order they took their slots.
SlotOrder ==
    \A i, j \in DOMAIN slots :
        /\ i < j
        /\ Target(slots[i]) = Target(slots[j])
        /\ slots[j] \in Mutating
        => pc[slots[i]] = "done"

\* A key has a chain exactly while calls are queued on it: an idle file leaves nothing
\* in the map, and a late caller always finds the calls it must wait for.
ChainIffQueued ==
    \A k \in Keys : queues[k] # None <=> \E c \in Queued : key[c] = k

\* A call waits for calls on its own file only.
OwnFileOnly ==
    \A c \in Queued : \A d \in ahead[c] : Target(d) = Target(c)

\* The chains are orderly: calls on one file run in slot order, wait for no other file,
\* and leave no chain behind.
QueueOrder == SlotOrder /\ OwnFileOnly /\ ChainIffQueued

\* Calls of one file share one key ("a `write` that creates a file and a later mutation
\* of it share one key").
OneKeyPerFile ==
    \A c, d \in Queued : Target(c) = Target(d) => key[c] = key[d]

\* Every call that took a slot runs and ends.
EveryCallEnds == \A c \in Calls : c \in Queued ~> pc[c] = "done"
=============================================================================
