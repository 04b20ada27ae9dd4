# A verification of Pi's durable core, agent loop and cluster reload

TLA+ models, TLC runs and TLAPS proofs about the concurrent core of this repository: `packages/durable`, which keeps
conversations, tasks and documents in storage and runs extension-defined tasks across failures and restarts;
`packages/agent`, the loop the interactive agent runs in memory; and the reload of code across the hosts of
`packages/chord`.

Run things from this directory:

    tlc -workers 2 -config TaskSchedulerRaces.cfg MCTaskScheduler
    tlapm TaskSchedulerProofs.tla
    tlapm FileMutationQueueProofs.tla
    tlapm SessionLineProofs.tla
    tlapm ConversationProofs.tla           # also ConversationSteps
    tlapm ContextRangeProofs.tla
    tlapm AgentLoopProofs.tla
    tlapm ClusterReloadProofs.tla

`PROJECT.json` lists every run, the source lines every definition translates, the hazards of the code with the
properties that cover them, and for each property a plausible bug ("mutant") that makes it fail.

## 1. Inventory

### The system's parts

| Component | State | Operations | Talks to |
|---|---|---|---|
| **Task scheduler** (`durable/src/harness/scheduler.ts`) | in memory: live records, invocations, candidate sets (`#runnable`, `#finalizeChecks`, `#failFastChecks`, `#abandoned`, `#waiters`, `#intent`), the ownership index, the flags of queued passes | `open`, `resume`, `abort`, `abortConversation`, reservation, steps, runtime commits, reconcile, waits, `join` | Session line (all its writes), registry (definitions), task code |
| **Transaction** (`session/transaction.ts`) | one commit's candidates: records, documents, entries, submissions | `createTask`, `createConversation`, `setTask`, `doc`, `appendEntry`, settlement and assembly | Storage, document cache |
| **Session** (`session/session.ts`) | the mutation line `#tail`, failure, closing, listeners, document cache | `commit`, `readOnLine`, watches, `fail`, `close` | Storage (guarded), scheduler (publications) |
| **Submissions, inbox** (`harness/submissions.ts`, `inbox.ts`) | `pi.inbox` and `pi.live` documents, submission records | admission, boundaries, withdrawal, request identity | Transaction, generation tasks |
| **Generation, tool, compaction tasks** (`harness/generation.ts`, `tool.ts`, `compaction.ts`) | checkpoints of the built-in task kinds | phases, abort handlers | scheduler runtime, models, environments |
| **Views, context** (`harness/view.ts`, `context.ts`) | the mounted transcript of an observed conversation; kept context ranges | mount, advance with each commit; read the context at an entry | Session line, generation and compaction |
| **Storage** (`storage/memory.ts`, `jsonl`, `sqlite`) | tables; for JSONL a main file of markers and sidecar files | `commit`, scans, recovery, reclamation | file system |
| **File mutation queue** (`tools/file-mutation-queue.ts`) | the tail of each file's chain | one call per edit | tools |
| **Agent loop** (`packages/agent`) | messages, steering and follow-up queues | turns, tool batches, abort | models, tools |
| **Chord** (`packages/chord`) | a server and child hosts: the epochs of code each retains, roots running in them, links, votes; replicated cells | connect, call, cluster reload, reconcile, retire; publish | other hosts over FIFO links |
| **Coding agent** (`packages/coding-agent`) | interactive sessions, credentials | commands, compaction, token refresh | agent loop, providers |

`packages/ai` (providers), `tui` (rendering), `codemode`, `env`, `mcp`, `telemetry`, `evals` and the scripts are wire
formats, drawing and I/O and are not modelled.

### How the durable parts interact

Every write of the durable package is a job on the **Session line**: a callback that may read and stages writes, then
the Storage commit, then the publication to listeners, all before the next job starts. The scheduler follows
publications synchronously (`#observe`), so code on the line sees exactly the committed state. Three kinds of work are
queued on the line by the scheduler itself: *reservation* (which tasks get an invocation), *reconcile* (what committed
records imply: marks below cancelled owners, failFast marks, withdrawn inputs, final records) and the *step* before
each phase of an invocation. Task handlers run off the line and commit through their runtime. The host and handlers may
also create work, abort tasks or conversations, and the registry may change the definitions, at any moment. A close, a
Session failure or a crash drops all memory, and `open` derives it from the records again.

### What is hard, and what makes each part correct

- **Scheduler.** Decisions are taken in separate jobs from the events that cause them, with sets and flags that
  remember what to look at. Correct means: nothing owed is forgotten; a decided outcome stays; a task ends only when
  the ordinary work below it is gone, across owned conversations; aborts run bottom-up and alone; the wait-for graph
  stays acyclic; nothing abandoned resumes after a restart; every requested abort ends its task.
- **Transaction.** Several objects change at once and are judged on final candidates. Correct means: all or nothing; a
  terminal task never changes; new work has an open owner; documents retire with their owner.
- **Session.** Storage may reject a commit it made durable. Correct means: memory never runs ahead of Storage, a failed
  Session admits nothing, each admitted job settles, close waits for all of them.
- **Submissions, inbox.** Inputs race runs, resets and aborts, and hosts retry. Correct means: each request is
  admitted once, each input is placed once or settled unanswered, in order, and never lost.
- **Built-in tasks.** A crash between a tool's effect and its commit. Correct means: unsafe calls are not replayed, each
  call gets one result, a compaction never cuts what it did not summarise.
- **JSONL storage.** A crash at any append, flush, truncation or rename. Correct means: recovery shows exactly the
  confirmed commits, and nothing reclaimed was needed.
- **File mutation queue.** Correct means: one mutation per file at a time, in slot order, and the map does not leak.
- **Views, context.** Both are incremental: they must equal what reading everything again would give.
- **Chord hosts.** A reload is a vote over links that break, with children that restart, reconnect and load modules at
  their own pace, while roots that span hosts hold the old code. Correct means: a child runs only what the server
  decided, and what the server takes it to run; new code before new calls; old code until nobody up the tree uses it;
  every reload ends and frees its slot.
- **Agent loop.** Hosts steer, queue and abort between any two awaits of a run, and listeners may throw at each. Correct
  means: each queued message is delivered once, or was dropped by its host or with a failed run; tool results answer
  their calls in order; after an abort at most the one call starts whose preparation had already passed its check; the
  model is asked about what the transcript shows.

## 2. Plan

Written, in this order:

1. `TaskScheduler` with `MCTaskScheduler` (section 3); `TaskSchedulerProofs` (section 11).
2. `StorageTables`, `StorageContract`, `JsonlStorage` with `MCJsonlStorage` (section 4): crash-safe storage and the
   contract it implements.
3. `FileMutationQueue` with `MCFileMutationQueue`, `FileMutationQueueProofs` (sections 5 and 11).
4. `SessionLine` with `MCSessionLine`, `SessionLineProofs` (sections 6 and 11): the line itself,
   failures, the document cache, watches, close.
5. `ConversationTx`, `Conversation` with `MCConversation`, `ConversationView` with `MCConversationView`, and
   `ContextRange` (section 7): one conversation on top of the line and the scheduler; `ConversationInvariant`,
   `ConversationSteps`, `ConversationProofs`, `ContextRangeProofs` (section 11).
6. `AgentLoop` with `MCAgentLoop`, `AgentLoopProofs` (sections 8 and 11): the in-memory agent.
7. `ClusterReload` with `MCClusterReload`, `ClusterReloadProofs` (sections 9 and 11): the hosts of Chord.

`Conversation` EXTENDS `ConversationTx`, the records of one conversation and what a transaction does to them, and
`ConversationView` composes it with a view that follows its commits. The layers meet at the Session line: `SessionLine`
shows that a commit is atomic, published in order and told truthfully; `TaskScheduler` and `Conversation` take a commit
for one step. `StorageContract` is what `SessionLine` assumes of its backend: a rejected commit may be durable.

Left, and why it is worth doing:

- an abstract `StructuredTasks` (a tree of work that starts, is cancelled and ends bottom-up) with `TaskScheduler` as a
  refinement; `LiveChildHasLiveOwner`, `DrainBeforeTerminal` and `DecidedIsFinal` are its parts today;
- the lazily loaded ownership index of the scheduler, as a refinement of the ownership edges the model walks;
- forks and committed states over several documents; minted IDs: `types.ts:1065-1068` promises IDs greater than every
  ID *minted* before, also across a reopen, while memory and JSONL derive the next one from what is *stored*;
- more of Chord: holds and leases of records across links, the gates of a migration, relays.

## 3. The model of the scheduler (`TaskScheduler.tla`)

### State

| Variable | Code |
|---|---|
| `task`, `convs`, `convOwner` | the task and conversation records in Storage, mirrored by `#live` and `#edges` |
| `queued` | conversations with a queued input submission |
| `inv` | `#invocations`: mode, where its code is, and what the next step will find |
| `runnable`, `finalizeChecks`, `abandoned` | the sets of the same name |
| `line` | the scheduler's own jobs waiting on the Session line, oldest first |
| `dirty` | `#dirty` while a reservation pass is queued (`#draining`) |
| `harness` | down, `paused` (open, not enabled), `running` (`#enabled`) |
| `installed`, `restarts` | the registry resolves the definitions of `Extension`; how often the Session ended |

Two components of a record are history: `above` and `holders` are what a walk up the immutable owner links meets and
are fixed at creation, and `born` is the incarnation that created the task. They replace the walks the code repeats;
`Parent` and `Above` translate them. An invocation's `moved` and `failed` say what the step will find: whether the
checkpoint changed since the phase started, and whether the handler threw.

### Actions

| Action | Code |
|---|---|
| `HostCreate`, `Submit` | host commits that create a task or conversation, or queue an input |
| `AbortTask`, `AbortConversation` | `abort` (also with `keepRestart`, from an owner's `abortOwned`), `abortConversation` |
| `RuntimeCommit` | a commit of task code: any next state, with or without new work, through `#gated` and `#commitState` |
| `HandlerReturn` | a phase or abort handler returns or throws and its step joins the line |
| `ReserveAbandoned`, `Reserve` | `#reserve`: the pass that only marks, and the others; with the drain loop around it |
| `RunStep`, `AbortStep` | `#step` with `#decide`, and the step that ends an abort handler |
| `Reconcile` | `#reconcile`: cascades, failFast marks, withdrawals and `#finalize`, in one commit |
| `Open`, `Resume` | `open` with its commit, `resume` |
| `Stop` | close, Session failure or crash |
| `RegistryChange` | extension definitions appear, are replaced or disappear |

Every action that commits ends with `Publish`, the whole of `#observe`: it updates the sets, queues the reconcile the
commit calls for, and kicks a reservation pass.

### Choices

- **A job is one action.** The line runs callback, commit and publication of a job before the next, and everything the
  scheduler reads in them is on the line. Commits of the host and of task code capture nothing when they are queued, so
  they act at the moment they run. A reconcile captures its flags and checks, and a step belongs to one phase, so those
  wait in `line`, in order.
- The continuation of a reservation or step (starting the handler) runs in a microtask before the next job of the line
  has done anything it could see, and is part of the same action.
- **`Stop` only falls between jobs.** A commit in flight either reached Storage or did not, and its memory is lost.
- **Outcomes.** `failed` stands for both `failed` and `aborted`, which no guard of the scheduler tells apart.
- **Definitions.** `Blocked` stands for a missing, too old or unmigratable definition; a failed migration is one that
  the registry does not resolve until it changes.
- **Candidate order.** A pass visits `#runnable` in insertion order, which is not tracked: first steps join the line in
  any order. Each candidate is judged independently within a pass.
- A commit stages at most one new task or conversation. The code allows more; what a second could add is judged the
  same way.
- **Left out:** the ownership index and its loading, task and idle waiters, kept contexts, memos, sleeps, watches, and
  where inputs are placed.

## 4. The model of the JSONL storage (`JsonlStorage.tla`)

`main.jsonl` holds one marker per commit; task and document values live in one sidecar file each. A commit appends the
sidecar records, flushes them when `fsync` is set, then appends the marker, which alone commits; then it applies the
batch to the memory tables and reclaims sidecars the batch made needless. `open` reads everything back.

| Variable | Code |
|---|---|
| `main`, `side` | the lines of `main.jsonl` and of each sidecar; a last line without its end is `Torn` |
| `stableMain`, `stable` | what each file may hold after a power loss; tracked only with `Fsync` |
| `phase`, `todo` | where `commit` or `open` is, and the files its current loop has left |
| `batch`, `tables` | the prepared commit; the `MemoryStorage` readers see |
| `log` | history: the commits whose marker is complete on disk |
| `deferred` | history: sidecars whose reclamation failed since the last open |

Each file operation is an action, with a second one for its failure, which may have had any part of its effect:
`Begin`, `AppendSidecar`, `FlushSidecar`, `AppendMarker` are `commit`; `Authorize` and `Replace` are
`reclaimSidecars`; `Open`, `TruncateTorn`, `Recover`, `Trim`, `PlanReclaims` are `open`. `Crash` may end the process
between any two, and `PowerLoss` also drops what was not flushed. `StorageTables` is `memory.ts`: which batches it
accepts and what they do. `Recover` replays markers through it exactly as the code does, with superseded records
optional, superseded creations restored as an empty base, and each cause of `JsonlCorruptionError` a disjunct of
`Corrupted`.

`StorageContract` is what the Session relies on: a commit takes effect whole or not at all, an error leaves one of the
two and a storage that must be reopened, an open shows what was committed, and only a power loss takes commits back,
the latest first. `ImplementsContract` maps its `view` to the tables while the storage answers, and is checked as a
refinement. The contract knows no files, so this says that readers cannot tell that there are any.

Choices:

- A value is the pair of commit attempt and position in the batch, so that a record an earlier, unconfirmed attempt left
  at the same sequence can never pass for the right one.
- The files of one loop are handled in any order. The code's order is one of them, and no property depends on it.
- A flush makes a file's content and its name durable, and a rename takes effect as a whole: what a journalling file
  system gives. The code does not flush directories; what happens without that guarantee is not modelled.
- Conversations, entries and submissions are written whole into the marker, as terminal tasks are, and are left out.
- The Session never writes a task again once it is terminal; that is a guard of `Begin`.
- `.reclaim` files are written aside and renamed; `open` removes leftovers unread, so a replacement that did not
  happen leaves the file as it was.

## 5. The model of the file mutation queue (`FileMutationQueue.tla`)

A call of `withFileMutationQueue` resolves its key (`Resolve`), takes its slot in one synchronous step (`TakeSlot`),
waits for the promise before it (`Enter`), mutates (`Write`) and releases (`Finish`). `queues` is the map of tails;
`ahead` is what the `previous` promise of a call waits for, the releases of all calls before it in its chain. A key is
the canonical path, or for a missing file the canonical parent joined with the name (`KeyNow`). Other processes create
and remove the files in `Shared` at any time.

**A disagreement with its comment.** `file-mutation-queue.ts:13-14` says that a `write` that creates a file and a later
mutation of it share one key. That holds when the file's name is not itself a link (`Links = {}`, and then it is
proved). For a path that is a symbolic link to a missing file, the key is the link's own path until the first `write`
has created the target, and the target's path from then on: a second call does not wait for the first. The run
`file_mutation_link` shows it.

## 6. The model of the Session line (`SessionLine.tla`)

Each job is one call of a host: a commit, a snapshot, a watch, an unload or a close. One document address stands for
all; its incarnations are numbered, and its version is the commit that last changed it.

| Variable | Code |
|---|---|
| `line`, `pc` | the promise chain `#tail`, and how far each call is: queued, reading, callback, backend, durable, done |
| `kind`, `change`, `base` | the method called, what a commit's callback does to the document, and the document it read |
| `failed`, `closing` | `#failure`; how far `close()` is |
| `reading` | `#underway`: guarded backend calls off the line |
| `doc`, `log` | the Storage: the document, and the commits made durable |
| `mem` | `#documents`, `#idleDocuments`, `#attachedDocuments`: the tracker, whether it is idle, the watches pinning it |
| `watch` | each watch and what it was last given |
| `caught`, `acked`, `floor` | history: callbacks that caught a failed read; what was acknowledged, and when each job began |

A commit takes four steps: the read of the document, the callback's end, the backend call that may become durable, and
its answer, in which adoption, publication and sweep are one synchronous step. Between them other calls arrive, watches
end, reads off the line fail the Session, and `close` seals admission. `FailWith` is `fail()`: it fails the Session
once, seals it and ends its watches. A rejected commit (`CommitRejected`) may have been made durable or not. An idle
tracker may be swept wherever the code sweeps: retention time is not modelled, so the sweep is a choice.

## 7. The model of a conversation (`ConversationTx`, `Conversation`, `ConversationView`, `ContextRange`)

`ConversationTx` holds the records of one conversation (entries, submissions, `pi.inbox`, `pi.live`, tasks) as a value,
and the operators of a transaction on it: admission (`AdmitSubmission`), boundaries (`ApplyBoundary`), settlement, runs
handed from task to task (`HandOver`, `EndRun`), heads, summaries and compaction statuses. `Conversation` has the
actions:

| Actions | Code |
|---|---|
| `Submit`, `AbortSubmission`, `AbortConversation`, `AbortTask`, `Compact` | the host's calls (`submissions.ts`, `harness.ts`) |
| `ReadContext`, `PrepareRequest`, `RequestStart`, `Deferred`, `Answer`, `Overflow`, `RetryLater`, `ModelError`, ... | the prepare, request, retry and poll phases of `GenerationTask` |
| `StartToolRound`, `ToolsNext`, `FinishToolRound` | its tools phase |
| `ToolStart`, `ToolDone`, `ToolRerun`, `ToolInterrupted`, `ToolRefused` | the phases of a tool task, also after a restart |
| `Select`, `Summarize`, `SummaryDone`, ..., `CompactNothing` | the phases of `CompactionTask` |
| `AbortHandler`, `Fault`, `Cascade` | abort handlers, the scheduler's outcome of a handler that throws, its marks |
| `Crash` | the process ends: the records stay, what handlers had read (`local`) is lost |

- **A commit is one action**, as the line runs it. A read a handler makes before a commit is an action of its own, and
  what it read waits in `local`: that is where contexts go stale.
- IDs are positions: entries, submissions and tasks are created in ID order.
- A task runs if it is live, not marked, and all it waits for is terminal; `TaskScheduler` shows what stands behind that.
- `env` is the *story* of a behaviour: what the host may submit, which queue modes its settings have, what the model,
  the tools and hooks may answer and how often. `MCConversation` lists them; each is small, and together they
  bring every action about.
- **Loops in closed form.** Positions carry the order, so what a loop of the code leaves is said by which positions it
  takes: `Keep(s, S)` is the sequence `s` at the positions `S`. A boundary splices out what it placed (`Keep` of the
  rest), `PlaceAll` places one item after the other, with the head each write leaves for the next; `StartCalls` deals a
  round's calls out to the refused, the started and the pending ones; `EndRun` settles all inputs of the run at once, as no
  settlement looks at another.
- `StoriesAssumption` says what a story is: an input is a user message, a cut is submitted with the head it will get,
  modes are those of the settings, and the calls of one answer have different IDs, which the code finds slots and
  results by.
- A host may write a head of its own choice ("cut"), which may leave out what it likes: `ContextComplete` exempts
  conversations that have one. A run that fails may leave submissions queued until the next; `QueueMoves` says so.
- **Left out:** waiters, the error for a request ID reused with another type, nested tool calls, tools added
  during a run, tool progress, usage accounting, rendering of the system prompt.

`ConversationView` adds the mounted transcript of `view.ts`: built once, then advanced from what each commit publishes.
`ContextRange` is `context.ts` on its own: which entries a head and later edits leave active, the order in which messages and
tool results are sent, and the range kept between reads, which is extended or trimmed instead of derived again. Its loops
are in closed form too: `Answers` are the results a call may take, and `BlockOf` is what one turn of the loop of
`orderToolResults` pushes; `Keep` filters a range.

## 8. The model of the agent loop (`AgentLoop.tla`)

`Agent` keeps the transcript (`messages`) and two queues; a run works on a `context` of its own, which grows as the loop
emits. Every action is what runs between two awaits:

| Action | Code |
|---|---|
| `Steer`, `FollowUp`, `ClearQueues`, `Abort`, `Reset`, `Prompt`, `Continue` | the methods of `Agent`; `Continue` drains a queue and then skips the first poll |
| `EmitPrompt`, `PollFirst`, `PrepareNextTurn`, `Inject`, `Push` | the head of a turn in `runLoop`: prompts, polls, the second poll after a long preparation, injection |
| `Respond` | `streamAssistantResponse` |
| `PrepareCall`, `StartNext`, `NextCall`, `StartReady`, `EndCall`, `ReportResult`, `CloseBatch` | tool batches, serial and parallel, truncated or cut by an abort |
| `FinishTurn`, `PollNext`, `PollFollowUps`, `FinishRun` | the end of a turn and of a run |
| `Throw` | a hook, a listener or the stream throws: `handleRunFailure` |

`prepareToolCall` is an async function that looks at the abort last of all (`agent-loop.ts:757`); a serial batch gets its
answer through an `await` and starts the tool without a second look (549, 558), so an abort in between is too late for
that call. `StartNext` is that start, unconditional; a parallel batch looks again at each call it starts (620), which
is `Starts`. `batch.late` is history: the calls started in a run already aborted.

A message injected is in the transcript (`Inject`, at `message_end`) before it is in the context (`Push`, after its
listeners); `run.left` remembers what the last steering poll left in the queue. `fate` is history: which messages were
sent, and which were dropped, by a clear, a reset or a run that failed after it had drained them.

Assumed of the environment: a stream requested after the abort ends as "aborted", as the providers' do. Left out:
system messages and tool declarations, hooks that replace the context, the streaming and pending-tool-call state of the
UI, tool progress events, a second throw while a failure is reported, and parallel tools that go on after a
listener's throw ended their run.

## 9. The model of a cluster reload (`ClusterReload.tla`)

A server and its child hosts each run one *epoch* of their code and may retain the previous one for roots (chains of
calls) that began in it. `runClusterReload` moves them all to the next epoch: `prepare` to every usable child, votes,
then `commit` or `abort`. A child that connects behind is fenced and brought up by the same frames (`reconcileChild`).

| Variable | Code |
|---|---|
| `srv` | the server's `current`, `previous`, `#epochSeq`; `reloadSeq`; history: the epochs it ever ran (`ran`), the reloads whose commit it failed in (`lost`), its faults |
| `pass` | the server's reload: its phase, its own prepare (`local`), and the vote of each participant |
| `link` | each link: whether either end is open, whether the transport is alive, the frames under way in each direction; the server's `synced`, `peerEpoch` and running reconciliation; history: the epochs the server moved to while this peer was usable, without it (`missed`) |
| `child` | each child's `current`, `previous`, `#retireAllowed`, its `ChildOperation` (`op`), the epoch of `host.pending` (`staged`), a rollback that holds the slot (`held`), rollbacks nobody waits for (`loose`), the calls it runs, `host.failed` |
| `root` | the server's roots: their epoch and the link of their pending call |

| Actions | Code |
|---|---|
| `StartReload`, `LoadFails`, `Loaded`, `RetirementEnds`, `LocalSettles`, `VoteMissing`, `Commit`, `CommitFails`, `Abort`, `RolledBack` | `runClusterReload` with `beginReload`, `Reload.prepare`, `commit`, `rollback`, `endReload` on the server |
| `ServerReceives` | hellos (`peerHello`, `reconcileChild`), votes, results and `bye` at the server; `ReconcileTimesOut` is the vote deadline of a reconciliation |
| `ChildReceives` | `ChildReloads.handle` and `#cancel`, `allowRetire`, calls, `bye` at a child |
| `ChildLoaded`, `ChildLoadFails`, `ChildRetirementEnds`, `ChildPrepares`, `ChildRolledBack` | `ChildReloads.#run` and what it awaits |
| `StartRoot`, `Call`, `EndRoot`, `ChildReturns` | roots of the server, their calls to children and the ends of those |
| `Connect`, `Cut`, `ServerNotices`, `ChildNotices`, `Restart` | links and processes come and go |

- A synchronous stretch between two awaits is one action. `commit` queues its frames, starts what the epoch starts and
  then retires: one step, in which a root of the new epoch may call a child.
- A link keeps its frames in order. A closed end sends `bye` behind what it sent; a broken transport loses what is
  under way, and its ends find out separately, by an error or by the missing ping.
- What a reload prepares (candidates, gates, migrations, listeners) is left to two outcomes, success and failure; its
  rollback ends at some time. Reloads of a server without children are passes without participants.
- A facet's `setup` may throw before the server allocates the epoch (`reload.ts:249-258`): `#epochSeq` stays, and the
  next reload offers the same number again, to children that may hold something staged under it (`Loads`).
- A commit may fail on either side. On a child the host fails (`Install`). On the server a throw in `#publish` is
  `CommitFails`: the new epoch is installed, the host fails, the slot is freed, and neither `commit` nor `abort` is sent
  (`reload.ts:528-532`, `cluster.ts:92-108`). A throw in what the epoch starts comes after the frames are queued and
  undoes nothing: that is `Commit`. A failed server refuses the calls of its own records; its links, the votes
  and reloads go on, and so they do in the model.
- **Left out:** replicated cells and deltas, holds, relays and principals, leases of records, roots a child starts and
  their admission at the server, restarts of the server, reloads a child makes while it has no parent, and what the host
  manager does about a host that failed (`spec.md:238`).

**Where the code departs from its documents.** Five more statements stand at the end of the module. The code does not
keep them, and no run checks them; each fails when it is given to TLC with the configuration of the run.

- `UsableIsCurrent`. "Fenced children ... reconcile to the new epoch afterwards" (`cluster.ts:44`), "a downstream host
  peer is usable once it runs this host's current epoch" (`connection.ts:207`), workers behind are caught up "before
  anything is routed to them" (`guide.md:687`). The participants of a reload are fixed before its modules are loaded
  (`cluster.ts:45-50`). A child that becomes usable at the old epoch after that, by a hello in step, a reconnect or a
  reconciliation that ends, gets no `prepare`, and the commit leaves it `synced` at the old epoch: calls of the new
  epoch are routed to it and answered `superseded`. The next reload includes it.
- `NoCallAhead`. "FIFO links guarantee no host receives a new-epoch root before committing" (`spec.md:191`), "so a child
  commits before it can receive any frame of a root started in the new epoch" (`cluster.ts:9-11`). The same child, and
  every child when the server failed in its commit, receives calls of an epoch it was never told to commit, and
  refuses them. `CommitFirst`, which the run checks and `EpochsAgreed` proves, is the statement with these calls
  excepted: those of an epoch in `missed`.
- `ParentRetiresFirst`. "A child retires an epoch only after its parent retired it" (`spec.md:231`, also
  `host.ts:524-527`). The next `prepare` makes a child without old roots of its own drop its previous epoch at once
  (`reload.ts:228-242` calls `retire()`, not `maybeRetire()`), while the server still waits for its own roots of that
  epoch, whose calls to the child are then `superseded`. `RetiresInTurn` is the statement with this case excepted.
- `StagedByReload`. "On failure the host is rolled back" (`reload.ts:173`), "the operation is unwound once its pending
  work settles, and the reload slot is freed" (`cluster.ts:152-156`). An abort that arrives while `prepare` waits in
  `waitForRetirement` rolls back before `load()` runs, which then sets `host.pending` behind it, where it stays until
  another reload. An abort that arrives later in `prepare` starts a rollback that `#run` does not wait for, since
  `rollback()` returns at once the second time; the slot is freed, and when that rollback ends it clears the
  `host.pending` of the next reload, whose `commit` then finds nothing to publish and fails the host.
- `SlotsFreed`. "Any failure or missed vote deadline: `abort` everywhere; each host rolls back to where it was"
  (`cluster.ts:12`), "and the reload slot is freed" (`cluster.ts:152-156`). When the server's own commit throws, no frame
  is sent: the children that voted stay prepared, with gates closed and the slot taken, until their link ends or they
  restart, and refuse the `prepare` of every later reload, which therefore aborts. `review.test.ts:133-153` tests the
  failing commit, on a host without children. `ReloadsEnd` is the statement with these children (`Abandoned`) excepted while
  they have their link; a child that lost its link is freed in any case.

Two smaller things the model shows on the way: a `retire` frame lost with a link is not sent again, so a child that
reconnects in step keeps the old epoch until the next reload; and a reconciliation that starts over with
`abort` and `prepare` may be refused while the rollback of the first still holds the slot, and then closes the link.

## 10. Runs

Every run is exhaustive within its bounds. Deadlock is not checked: a system whose restarts, commits and calls are used
up may rest. A run that holds several stories has a constraint that keeps a behaviour in one of them, so that their
state spaces add up instead of multiplying, and one that keeps alike messages or jobs in one order; `OneRace`, `OneTree`,
`OneFault`, `OneMix`, `OneStory`, `OneTranscript` and `InOrder` stand in the MC modules.

| Run | Instance | Shows |
|---|---|---|
| `scheduler_races` | two tasks that wait on each other's end in both policies, with a restart; or a task that owns a conversation with a task in it, aborts of both and inputs to both; two jobs on the line | acyclic waits; nothing owed is forgotten; final decisions |
| `scheduler_owners` | three tasks: a child in an owned conversation; two children awaited failFast; or abandoned on restart, with definitions that come and go | tasks drain before they end, live children have live owners, aborts run alone, nothing abandoned resumes, only requests orphan |
| `scheduler_live` | two tasks, child or owned conversation, with a restart or a missing definition | cancellations end, waits are taken up |
| `jsonl_storage` | one task and one current-only document, or a current-only document and one that keeps its history; with `fsync` and power losses or without; two faults | recovery never fails and shows exactly the committed state; sidecars hold what the tables hold; the contract |
| `file_mutation_calls` | three calls on one file through two paths, one on another file, a file others create and remove | exclusion, slot order, no leak, every call ends |
| `file_mutation_link` | two calls on one link to a missing file | expected violation of `OneKeyPerFile` |
| `session` | three calls of any method, made in one order (watches in one story, snapshots and a read off the line in the other) | the cache is the Storage's, no lost update, truthful failures, current readers, a final close; every call settles, close ends |
| `conversation_view` | seven stories: admission, tool rounds, one compaction, a second one, resets, heads with an observer, replies with retries and restarts | records agree, inputs land and settle once, each call has its result, requests are made for the current context, compaction and resets keep and cut what they should, the view is the transcript |
| `conversation_live` | three stories: every way a run ends with one interruption of each kind; an overflow that is compacted; one compacted after a retry | inputs settle, the queue moves, the conversation comes to rest |
| `context_reads` | every transcript of up to four entries of a tool round with edits, or of heads and system entries, read at any entry from any kept range | the incremental context is the one derived from scratch, results follow their calls |
| `agent_loop` | two steering messages sent in one order, one follow-up, both queue modes, replies of up to two calls, two requests, one throw | delivery, results in order, what an abort holds back |
| `cluster_reload` | a server with one root, and a child that reconnects once, or two children, or two reloads in a row; one setup or commit of the server that throws, with one child that may reconnect | hosts agree on epochs, new code before new calls, epochs retire in turn, every reload ends and every fenced child is freed |

**`NothingForgotten`** is the heart of the scheduler's: its parts (`...Promised`) each say that whenever the durable
records owe some work, a job that will do it is on the line and will look at the right task. They relate records to
three kinds of in-memory sets and to the queue; a mutant in each run has one event forget to raise one flag. Other
properties are conjunctions of the same kind: `QueueOrder`, `FilesAgree`, `CacheIsRight`, `FailureContained`,
`ReadersAreCurrent`, `CloseIsFinal`, `Consistent`, `Landing`, `ContextIntact`, `AnswersMatch`, `NothingTakenBack`,
`WorkEnds`, `Delivery`, `EpochsAgree` and `ReloadsEnd` name their parts where they are defined. The scheduler's `TypeOK` is
in no run: it is proved for all values of the constants (`TypeCorrect`).

**Bounds of the scheduler.** `MaxTasks`, `MaxConvs`, `TaskShapes`, `ConvShapes` and `Waits` fix the ownership trees: two
tasks are enough for every race of one owner and one owned task; three levels for chains across an ended or background
task; three tasks of two levels for a group. `MaxRestarts` of one lets every state of a first incarnation be recovered
by a second. `MaxLine` is how many scheduler jobs may wait when a host or task commit is still admitted: with 1 or 2,
events fall before, between and after the jobs they race, and jobs queue further jobs beyond it. `Abortable`,
`AbortScopes`, `Inboxes` and `Extension` say which tasks and conversations those events touch. In the story of two
children, only failures cancel; the story of abandoned work has one of the two tasks abandoned, in one conversation. A
handler that throws faults as one that leaves its checkpoint where it was, so only the story of two waiting tasks has it
throw; what an abort handler does to the checkpoint is never looked at (`NoThrow`, `NoIdleMove`).

**Bounds of the storage.** `MaxAttempts` commits: a document needs three to be created, changed and rebased or retired,
and one more to be written after a recovery. `MaxFaults` of two allows a failure and then a crash in the recovery from
it; recoveries without faults are not counted. The constraint allows three attempts when power may be lost, four with
a task, five with a document that keeps its history.

**Bounds of the Session.** With three jobs a document is created and changed or replaced while a third call is at every
point of its way, or three commits follow one another. The proofs of the safety properties hold for any number of jobs.

**Bounds of the conversation** are the limits of the stories: one tool round, one compaction or two, one crash, one abort, one
fault, one retry. Two inputs and two writes are enough for each pair of them to meet at one boundary.

**Bounds of the context.** Four entries hold a round of two calls with a result before or after an edit, or a head over
an edit over an edit; a transcript has either a second result and replacements or heads and system entries. Reads do not change one another: a read is a function of the range it was given and its bounds, and
one read at a time, made at any entry from any range kept before, reaches every such pair; so `MaxReads` is 1.

**Bounds of the agent loop.** Two steering messages tell one-at-a-time from all; a request with calls, then one that
ends the run or is prolonged by what was queued, is every way from one turn to the next. `MaxRequests` bounds what
the host starts and the model prolongs by choice; messages already queued still get their turns.

**Bounds of the cluster reload.** Every epoch is compared with the one before and the one after, so three epochs are
enough; a second link of one child makes every order of an old and a new link; a second child makes votes that disagree.
`MaxFaults` of one is a server whose setup throws and that offers the same epoch again, or whose commit throws and
that goes on to reconcile the child when it reconnects. `OneStory` allows one of the three at a time, a root only without the second child, and breaks and
restarts only in the first; a fault only without the second child and the third epoch, and beside a second
link only while no call is pending. It cuts steps no fairness forces, and outcomes of the server's steps that have
another outcome, so no behaviour is kept from ending a reload. The run has 152,455 states, that of the agent loop
1,475,260.

**Fairness of the scheduler** (`FairSpec`). Jobs of the line run: the line is a promise chain that runs its next job
when the previous settles. Handlers return: a task's phase or abort handler that never returns does hold its task, and
the scheduler promises nothing then. The host opens again after a stop and resumes, as hosts do. Nothing is assumed of
aborts, creations, commits of task code or the registry. The first conjunct is weak fairness of `LineJob` with
`ENABLED` written out (a job at the head of a non-empty line is always enabled, by `StepPromised`), which TLC
evaluates faster. `OneFault` cuts stops, registry changes and commits of task code, which no fairness forces, and the throw of a handler
that can also return, so a behaviour within the bounds can take every fair step it owes.

**Fairness of the queue.** Each call takes its next step: the event loop runs what is ready, the file system answers, and
a mutation ends. Nothing is assumed of other processes. The storage has no liveness property.

**Fairness of the Session.** The running job of the line goes on: callbacks settle, the backend answers, reads off the line
end, and `close` goes on with what it began. Nothing makes a host call anything.

**Fairness of the conversation.** Some task that can take a step does (`WF` of the union of all task steps), and the
scheduler makes its cascades. That is weaker than fairness of each task: with every choice of the environment bounded,
the tasks can only take finitely many steps, so each of them has to end. Hosts, streamed partials, faults and crashes are never forced.

**Fairness of the cluster reload.** Frames on an open link are delivered, modules load or fail to, factories and
rollbacks settle, deadlines fire, and an end of a dead link finds out by its pings. A factory or rollback that never
settles holds the slot of its host, and the code promises nothing then. Nothing makes a call return, a child connect or
restart, a root end or a reload begin.

## 11. Proofs

Of the scheduler TLAPS proves, for every value of the constants, from `BoundsAssumption` and `ShapesAssumption` alone
(the constants have the types their comments say, and there is at least one task and one conversation):

- `TypeCorrect` (`TaskSchedulerProofs`): `Spec => []TypeOK`. `TypeOK` is inductive; the lemmas say of each operator
  the actions use what type it returns.
- `TreeCorrect`, `TerminalDrained` and `ChildrenHeld` (there): `Spec => []TreeInv`,
  `Spec => DrainBeforeTerminal` and `Spec => []LiveChildHasLiveOwner`.
- `NoCircularWait` (there): `Spec => []WaitGraphAcyclic`.
- `ShapesHold`, `OutcomesFinal` and `RequestsOrphan` (there): `Spec => []Shapes`,
  `Spec => DecidedIsFinal` and `Spec => OrphanedByRequest`.
- `AbortsAlone` and `AbandonedStays` (there): `Spec => []AbortRunsAlone` and
  `Spec => []AbandonedNeverResumes`.
- `StepsQueued` and `WorkPromised` (there): `Spec => []StepPromised` and
  `Spec => []NothingForgotten`.

`LiveChildHasLiveOwner` is not inductive: `#finalize` ends a holder together with everything it holds, so one must know
that what is held by held work is held by the holder. `Tree` says so: ownership fields are set once, below tasks that
exist, and holding is transitive through foreground tasks. `StepChanges` shows that every step of the system is a commit that
stages at most one task below an open owner (`Staged`), followed by a `Change`, in which no task comes back to life and
one ends only when it owns nothing live. The three theorems follow from that in a few lines each. So the promise of
"structured" tasks rests on four places only: the owner validation of a commit, the judgement of an outcome on the
commit's candidates, the `waitingOn` check before an orphaning, and the worklist of `#finalize`.

Finality is not inductive either: no step looks whether a task has an outcome, all look at its status. `Shapes` ties
the two together, and `Written` lists the few things a step may do to a record; finality follows from them alone.

`WaitGraphAcyclic` follows from two facts about graphs, both shown with closed sets, as nothing inductive is at hand:
new edges to tasks without edges close no cycle (`ToSinks`), and neither do edges from a task that is not reached from
where they lead (`CheckedEdges`). The first is what a creation adds, since a newborn task is held by others and
holds none; the second is what the check of a new wait buys. It skips the tasks the waiter owns, whose edges are there
already, and the ended ones, which lead on to nothing; every other step only takes edges away.

Of aborts, `Alone` adds that a task in its abort handler is marked and nothing below it is invoked to run, not even
before its first phase: the pass that took the task found nothing live there (`#waitingOn`), and what is created since is held
back by the mark above it (`MarkHoldsBack`). `Left` adds that the first pass of a Harness leaves no abandoned task
unmarked, and that nothing is invoked before it. Only reservation passes start an invocation (`InvocationStays`).

`NothingForgotten` says what must be on the line; its proof says why it gets there and why it may leave. A promise can
break in two ways. A commit makes work and its publication does not report it: `StepReports` shows, action by action,
that each step of an open Harness has a set of changed tasks and conversations outside of which it wrote nothing,
and that it raised the flags and filled the sets those call for. Or the job that was to do the work has run: then the work
is done, since a job judges the records as it finds them. What is inductive is therefore not the promises but what they
rest on: the sets hold more than is owed (`CandidatesDue`: every task that could be taken up is in `#runnable`, wherever
the line stands), and the flags stand for the jobs queued. `IntentKept` and `Freed` are the two arguments about the tree: a
step that raises no cascade leaves every cancelling intent as it was, and when the last work a task holds ends, the walk up from
that work meets the task. The steps of invocations are promised apart (`StepsDue`): a returned handler has exactly one
step on the line, and a reservation or an open never finds one left of another invocation.

Of the Session line it proves (`SessionLineProofs`), from `KindsAssumption` and `CloseAssumption`, for any number of
jobs and readers:

- `LineCorrect`: `Spec => []Inv`, and from it
- `NothingLost`: `Spec => []NoLostUpdate`; `Contained`: `Spec => []FailureContained`; `Closing`:
  `Spec => []CloseIsFinal`; `FailedIsSilent`: `Spec => FailedNeverWrites`.

That no update is lost is far from inductive. A job changes the document as it found it at its start; for that to be
the Storage's when its batch is handed over, no other job may have committed in between, and what it found must have been
the Storage's. `Inv` says so: only the first job on the line has begun (`OneAtATime`); while the Session is healthy and no
commit waits for its adoption, the cache is the Storage (`Current`), so what a callback found there or read is as the
Storage holds it until the batch is durable (`Fresh`). A failure may leave the cache behind, and then no job starts. For
closing, `CloseLast` says that only unloads stand behind the close job, and `Told` that what a job was told is what the
log says.

Of what its readers see (there), from the same assumptions:

- `ReadersKeepUp`: `Spec => []ReadersAreCurrent`;
- `CacheHolds`: `Spec => []CacheIsRight`, for finitely many jobs, which only its type invariant needs: it bounds versions
  by the number of jobs, and `Logged` shows that a job is in the log once.

`Inv` speaks of the cache when nothing is under way; a reader may come in between. `More` adds that between a durable
commit and its adoption memory still shows the commit's base, and the watches follow that base (`Cached`, `Watched`);
that what is cached is never older than what was acknowledged, so the cache may answer a snapshot at once; and that
nothing is cached while the running job reads, so a read never competes with a tracker. For eviction, `Kept` says that
the pins are exactly those of the live watches that are not retired, and that a tracker is idle if and only if it has none:
what is unloaded is never what a watch shows.

Of the file mutation queue it proves (`FileMutationQueueProofs`), from `PathsAssumption`, `NoneAssumption` and the
hypothesis that no path ends in a link (`Links = {}`), for any number of calls, paths and files:

- `Exclusion`: `Spec => []MutualExclusion`, from
- `Strengthened`: `Spec => []Inv`. Exclusion alone is not inductive, since it says nothing of the calls still waiting.
  `Inv` adds that keys do not move with the file (`KeyIsTarget`), that of two queued calls on one key one waits for the
  other (`Chained`), that the tail in the map has all other queued calls of its key ahead of it (`TailIsLast`), and
  that a call that mutates has nobody left ahead (`NobodyAhead`).
- `Orderly`: `Spec => []QueueOrder`. On top of `Inv` it needs `SlotsChained`: of two slots of one file the earlier is
  done or ahead of the later. With nobody ahead of a call that mutates, slots run in order.

The hypothesis is needed: without it the run `file_mutation_link` is a counterexample to `KeyIsTarget`.

Of the agent loop it proves (`AgentLoopProofs`), from `AgentAssumption` (what hosts steer, queue and prompt with are
different messages), for any number of messages, tool calls, requests and faults:

- `LoopInvariant`: `Spec => []Inv`, and from it
- `Delivered`: `Spec => []Delivery`; `RepliesAnswered`: `Spec => []AnsweredInOrder`; `AbortHolds`:
  `Spec => []AbortHoldsBack`.

The properties speak of the moment a request is made; `Inv` carries them through the awaits between two requests.
`Follows` says how the context differs from the transcript at each: by the prompts not yet emitted, by the message being
injected, by the results of the batch not yet closed. `Conserved` is inductive with the types alone; its steps count
places in sequences, and a drain splits a queue without loss (`Drains`, `OccursConcat`). For one-at-a-time steering,
`OneSteered` says where the one message is: drained and waiting, or in the context already, and never both while a poll
may still drain another. That a second poll takes place only when nothing is pending, and the first not at all when
`Continue` has drained, is what it rests on.
`Reports` is the state of a tool batch: a serial one has the results of the calls that are over, a parallel one none
before every call is over; calls run in a parallel batch only once all are prepared; and only an abort leaves calls out.
`HeldBack`, on top of `Inv`, is what makes a late start the last: it happens in a serial batch only, whose next call is prepared
when this one is over and its `NextCall` has seen the abort, which is never taken back within a run.
`Answered` says that a reply keeps its answers right behind it, and at most users' messages after them, until the next
request.

Of the cluster reload it proves, from `BoundsAssumption` and `NoneAssumption` (there is an epoch, each child has some
links, and `None` is no link), for any number of children, links, roots and epochs (first what a step of each kind does
to the invariant, then the actions one by one):

- `ClusterInvariant`: `Spec => []Inv`, and from it
- `EpochsAgreed`: `Spec => []EpochsAgree`, and `RetiredInTurn`: `Spec => RetiresInTurn`.

`EpochsAgree` speaks of the two ends of a link and says next to nothing of the frames between them, so it cannot be inductive: a
commit that is on its way will change the child, a vote what the server does, a hello what it believes. `Inv` says of
each frame what it still tells when it arrives.

- *Order.* A link carries a hello first (`HelloFirst`), no call before the server knows its child (`NoCallsYet`), each
  offer once (`OfferedOnce`), and no end of an offer the server still waits for (`Waits`). Of the links of
  one child only the last can be open at its end (`OneUpstream`), so nothing a previous connection left comes between.
- *Votes.* No vote precedes what it answers (`VotesLast`), and a yes the server may still act on comes from a child that
  is still prepared for that epoch (`VoteStands`). So a commit meets a child that can take it (`CommitTells`): after it
  the child runs what the server has assumed since it sent the frame, and calls of that epoch stand behind it.
- *Names.* An id stands for one epoch in offers, votes and commits of all children, and a committed epoch is one the
  server ran (`OneEpochEach`, `EpochsRun`); the next epoch is one it never ran (`EpochsRise`), though it may have been
  offered before, by a reload whose setup threw.
- *Calls.* Every epoch the server ran is no newer than what it takes a usable child to run, or one it moved to without
  that child (`Missed`); so a call of an epoch the child has not reached has its commit ahead of it, or is of one it
  missed (`NewCall` in `CommitTells`).
- *Retirement.* What the server said is retired is older than all it retains (`RetiredIsOld`), so a late `retire` never
  takes an epoch from a child that the server itself retains; and a call names no epoch the server did not run yet
  (`CallsKnown`).

That epochs rise and ids are not used twice is what makes frames of an aborted reload harmless; that `waitForRetirement`
precedes the vote is what leaves a prepared child without a previous epoch. The parts of `Inv` are operators of the server, its reload, the
links, the children and the roots, so that an action that does two things (commit, then call, then retire; read a
frame, then close the link) is proved as two steps. `RetiresInTurn` needs in addition what each step does to a child's
previous epoch (`Turns`).

Of a conversation it proves (`ConversationProofs`), from `StoriesAssumption` alone, for any number of entries,
submissions, tasks, tool calls, rounds, compactions and crashes, and for every story a host, a model and its tools may
follow:

- `RecordsSound`: `Spec => []IInv`, and from it
- `RecordsConsistent`: `Spec => []Consistent`; `DraftsLand`: `Spec => []Landing`; `ContextHolds`:
  `Spec => []ContextIntact`; `AnswersHold`: `Spec => []AnswersMatch`; `NothingGoesBack`: `Spec => NothingTakenBack`;
- `ViewWatches`: `ViewSpec => Spec`, so all of this holds with a mount attached, and `MountShowsActive`:
  `ViewSpec => []MountIsActive`.

`ConversationInvariant` has the invariant, in three layers.

- *Records* (`TxInv`). It holds between commits, and also inside a transaction, while some items of the inbox are placed
  and no run has them yet; so it is parameterised by the positions that still stand and by the inputs without a run.
  `Order` needs `ResetFirst`: no write behind a queued reset has landed, which is what `hasQueuedReset` buys. `Context`
  needs `HeldItems`: a summary that waits in the inbox covers what it will cut. That is why `isStale` refuses one whose
  head falls behind the context's start, and why a draft that shows nothing to a model may overtake (`isDisplayOnly`), but
  not with a head. `Answered` needs `Owns`: placed inputs are in the hands of the run, and it has each once.
- *Tasks* (`TasksAgree`, `SummaryFits`, `AskedFits`). The one live generation is the run's; a tool or a compaction works for
  a generation that still waits for it in the phase that created it. A summary under way can be placed (`Placeable`):
  while a generation waits for a compaction, nobody else moves its context, and a summary of a manual one is stale
  if somebody did. What a request was asked includes all inputs of its run (`Saw`); inputs placed later join after the
  round is over.
- *Calls* (`CallsAgree`). Each call of an answer has one result, or is with exactly one of: a live tool task, the pending
  list of its round, a task that threw. Refused calls are answered in the commit of the answer, calls never started by the
  abort handler: forgetting either breaks `CallsKept`.

`LocalFits` is what a handler that awaited may rely on: its task is live and not marked, it is in the phase it was in,
and the context it read is still the context. `Calm` is the reason for the last: in a busy conversation only the generation
and what it waits for append anything but display-only entries. Each action is shown to be a move of one task or of
none (`Moves`), and `CommitKeeps` that a move disturbs no other task. A boundary is proved by induction over its
items (`PlaceItemKeeps`, `BoundaryKeeps`), on the numbers below a bound; no induction over sequences is needed, since
`Keep` names positions.

The mount is proved against the transcript entry by entry: an entry without a head goes last (`PlainGoesLast`); a head
keeps a suffix of what is mounted, since heads never reach behind one another, and goes in front (`MarkerGoesFirst`).
So what `advance` makes of a publication of any length is what reading the transcript again would give.

Of the context reads it proves (`ContextRangeProofs`), for any kinds of entries, any transcript with its edits and heads,
and any number of reads and appends:

- `ReadsExact`: `Spec => []ReadsAreExact`, and `ResultsFollow`: `Spec => []ResultsFollowCalls`;
- `OrderWellFormed`: whatever the messages, `orderToolResults` gives each call its results at once and leaves no result
  without its call; and `OrderConcat`: the order of a sequence is that of its parts when the later part starts with an
  assistant message, which is what the comment on `settle` claims and `extendRange` needs.

Its invariant says that the kept range, and those that reads took, fit (`RangeFits`): a range is the scan of its bounds,
its targets and active entries are those of the scan, and its settled and open messages are some split of all that
they contribute, at an assistant message (`Splits`). It need not be the split `deriveRange` would make: that is why extending it is
exact although it never looks at the settled part again. Entries up to the tail never change (`FitsKept`), so a range
fits until it is dropped, however late a read uses it. What `FlattenSeq` computes is shown by the sequence of its partial
results (`FlattenIs`), and by induction over the numbers below a bound instead of over sequences.

Only model-checked: the storage with its refinement of `StorageContract`, which replays a log from its files by a fold;
and all liveness (fairness and `ENABLED` are beyond the prover): that the scheduler ends aborted work, that a conversation's work ends (`WorkEnds`),
and that every cluster reload ends (`ReloadsEnd`). The longest proofs are the conversation's and the cluster's, of a few
minutes for each module.

## 12. Not modelled

`PROJECT.json` lists every component with its status and what is left out of it. In short: Chord's replicated
cells, holds, relays and record migration; the coding agent's session layer above the agent loop, with its session files, its own file
mutation queue and the credential lock; SQLite, whose atomicity is its engine's; providers, code mode, environments, MCP,
telemetry, the terminal UI and tooling, which are wire formats, drawing and I/O.

Three hazards of the list have no property: the ownership index of the scheduler, which is a cache over edges the model
walks directly, and two of a cluster reload that the code does not meet (`UsableIsCurrent`, `StagedByReload` in section 9). The credential lock of the coding
agent, whose staleness is decided by a third-party lock file, is not listed as a hazard.
