------------------------- MODULE ConversationProofs -------------------------
(*****************************************************************************)
(* The phases of the tasks of a conversation, each shown to be a move, and   *)
(* the theorems: the records agree, drafts land in order, contexts are       *)
(* complete, answers answer what was asked, and nothing settled is taken     *)
(* back, for any number of entries, submissions, tasks, calls and crashes,   *)
(* and for every story.                                                      *)
(*                                                                           *)
(* A mount of the active transcript is shown to follow from what each commit *)
(* publishes (ActiveTo is the transcript up to an entry): an entry without a *)
(* head goes last (PlainGoesLast), a head first, in front of a suffix of what*)
(* is mounted (MarkerGoesFirst).                                             *)
(*****************************************************************************)
EXTENDS ConversationSteps, ConversationView

-----------------------------------------------------------------------------
(* Generations: prepare, request, retry and poll.                          *)

(* A task of the conversation that may act.                                   *)
LEMMA GenActs ==
    ASSUME IInv, NEW t \in Tasks, Gen(t), Live(t), \A c \in Task(t).on : Terminal(c)
    PROVE  /\ Sound(db) /\ db \in TxRec /\ TasksAgree(db) /\ CallsAgree(db) /\ Recorded(db, db) /\ Carries(db, db, {})
           /\ TxInv(db, DOMAIN db.inbox, {}) /\ AskedFits(db, t)
           /\ t \in LiveOf(db, "gen") /\ t \in DOMAIN db.tasks /\ OwnsDone(db, t)
           /\ Busy(db) /\ db.live.run.task = t
<1>1. /\ Sound(db) /\ db \in TxRec /\ TasksAgree(db) /\ CallsAgree(db) /\ Recorded(db, db) /\ Carries(db, db, {})
      /\ TxInv(db, DOMAIN db.inbox, {})
  BY SoundParts DEF IInv
<1>2. t \in LiveOf(db, "gen") /\ t \in DOMAIN db.tasks
  BY DEF LiveOf, Gen, Live, Task, Tasks
<1>3. \A c \in db.tasks[t].on : db.tasks[c].status = "done"
  BY DEF Task, Terminal
<1>4. AskedFits(db, t)
  BY <1>1, <1>2, SoundParts
<1> QED
  BY <1>1, <1>2, <1>3, <1>4, WaitedFor, OneGen

(* The records with which a generation ends: the run is over, or has a new task. *)
GenOver(tx, mid) ==
    /\ Recorded(tx, mid) /\ mid.live.compactions = tx.live.compactions
    /\ \/ mid.tasks = tx.tasks /\ ~Busy(mid)
       \/ /\ Len(mid.tasks) = Len(tx.tasks) + 1
          /\ \A c \in DOMAIN tx.tasks : mid.tasks[c] = tx.tasks[c]
          /\ mid.tasks[Len(tx.tasks) + 1] = NewTask
          /\ mid.live.run.task = Len(tx.tasks) + 1
RoundOver(tx, mid, g, outcome) ==
    LET task == tx.tasks[g] IN
    /\ \A i \in DOMAIN mid.entries : i > Len(tx.entries) =>
         /\ mid.entries[i].calls = {}
         /\ mid.entries[i].kind = "result" =>
              task.phase = "tools" /\ mid.entries[i].ref = task.ref /\ mid.entries[i].call \in Range(task.pending)
    /\ \A i, j \in DOMAIN mid.entries : i > Len(tx.entries) /\ j > Len(tx.entries) =>
         (mid.entries[i].kind = "result" /\ mid.entries[j].kind = "result" /\ mid.entries[i].call = mid.entries[j].call => i = j)
    /\ task.phase = "tools" => outcome = "faulted" \/ \A call \in Range(task.pending) : HasResult(mid, task.ref, call)

(* A generation that ends keeps the invariant.                                *)
LEMMA GenEndKeeps ==
    ASSUME IInv, env' = env, NEW t \in LiveOf(db, "gen"), OwnsDone(db, t), NEW mid, GenOver(db, mid),
           NEW outcome \in Outcomes, RoundOver(db, mid, t, outcome),
           db' = Ended(mid, t, outcome), local' \subseteq Kept(db')
    PROVE  Onward
<1> DEFINE new == Ended(mid, t, outcome)
<1>1. db \in TxRec /\ TasksAgree(db) /\ CallsAgree(db) /\ t \in DOMAIN db.tasks /\ AskedFits(db, t)
  BY SoundParts DEF IInv, LiveOf
<1>2. /\ Moves(db, new, t) /\ new.entries = mid.entries
      /\ new.tasks[t].status = "done" /\ new.tasks[t].outcome = outcome
      /\ new.tasks[t].kind = "gen" /\ new.tasks[t].ref = db.tasks[t].ref
      /\ \A c \in DOMAIN new.tasks : c > Len(db.tasks) => new.tasks[c].kind # "tool"
  BY <1>1, GenEnds DEF GenOver
<1>3. db' = new
  OBVIOUS
<1> HIDE DEF new
<1>4. t \in DOMAIN new.tasks
  BY <1>1, <1>2, TaskFields DEF Moves, Recorded
<1>5. outcome = "faulted" => \A call : Gave(new, db.tasks[t].ref, call)
  BY <1>2, <1>4 DEF Gave
<1>6. \A call : HasResult(mid, db.tasks[t].ref, call) => HasResult(new, db.tasks[t].ref, call)
  BY <1>2 DEF HasResult, IsResult
<1>7. RoundEnds(db, new, t)
  BY <1>2, <1>5, <1>6 DEF RoundEnds, RoundOver
<1>8. CallsAgree(new)
  BY <1>1, <1>2, <1>7, RoundEndsOnce
<1>9. SummaryFits(new, t) /\ AskedFits(new, t)
  BY <1>2 DEF SummaryFits, AskedFits, LiveOf
<1>10. \A l \in local' : l \in local /\ l.task # t /\ new.tasks[l.task].status = "live" /\ ~new.tasks[l.task].marked
  BY <1>2, <1>3 DEF Kept
<1> QED
  BY <1>2, <1>3, <1>8, <1>9, <1>10, CommitKeeps

(* A run ended with no answer, after entries that are neither results nor calls. *)
LEMMA EndRunOver ==
    ASSUME NEW tx \in TxRec, NEW mid, Carries(tx, mid, {}), mid.live.run.task = tx.live.run.task,
           mid.tasks = tx.tasks, mid.live.compactions = tx.live.compactions,
           NEW why \in Reasons
    PROVE  LET new == EndRun(mid, tx.live.run.task, "unanswered", 0, why) IN
           GenOver(tx, new) /\ new.entries = mid.entries
<1> DEFINE new == EndRun(mid, tx.live.run.task, "unanswered", 0, why)
<1>1. "unanswered" \in Settled /\ 0 \in Nat /\ "unanswered" # "done"
  BY DEF Settled
<1>2. /\ Carries(tx, new, {}) /\ ~Busy(new)
      /\ new.entries = mid.entries /\ new.tasks = mid.tasks
      /\ new.live.run = NoRun /\ new.live.compactions = mid.live.compactions
  BY <1>1, EndRunKeeps
<1> HIDE DEF new
<1>3. Range(new.live.run.inputs) = {}
  BY <1>2 DEF NoRun, Range
<1>4. Fresh(new, Range(new.live.run.inputs))
  BY <1>3 DEF Fresh
<1> QED
  BY <1>2, <1>4 DEF GenOver, Carries, Recorded, new

(* A generation that ends outside of a tool round leaves no call behind.      *)
LEMMA QuietRoundOver ==
    ASSUME NEW tx \in TxRec, NEW mid, NEW t, tx.tasks[t].phase # "tools",
           \A i \in DOMAIN mid.entries : i > Len(tx.entries) => mid.entries[i].calls = {} /\ mid.entries[i].kind # "result",
           NEW outcome
    PROVE  RoundOver(tx, mid, t, outcome)
BY DEF RoundOver

(* failRun: the inputs of the run are settled `unanswered` and the generation *)
(* ends.                                                                      *)
LEMMA FailRunKeeps ==
    ASSUME IInv, env' = env, NEW t \in Tasks, Gen(t), Live(t), \A c \in Task(t).on : Terminal(c), Task(t).phase # "tools",
           NEW why \in Reasons, FailRun(t, why)
    PROVE  Onward
<1> DEFINE mid == EndRun(db, t, "unanswered", 0, why)
<1>1. /\ db \in TxRec /\ Carries(db, db, {}) /\ t \in LiveOf(db, "gen") /\ OwnsDone(db, t) /\ db.live.run.task = t
  BY GenActs
<1>2. GenOver(db, mid) /\ mid.entries = db.entries
  BY <1>1, EndRunOver
<1>3. db' = Ended(mid, t, "failed") /\ local' \subseteq Kept(db')
  BY DEF FailRun, CommitPhase
<1> HIDE DEF mid
<1>4. \A i \in DOMAIN mid.entries : ~(i > Len(db.entries))
  BY <1>1, <1>2, TxFields
<1>5. "failed" \in Outcomes
  BY DEF Outcomes
<1>6. RoundOver(db, mid, t, "failed")
  BY <1>1, <1>4, QuietRoundOver DEF Task
<1> QED
  BY <1>1, <1>2, <1>3, <1>5, <1>6, GenEndKeeps

(* A generation without a model fails its run.                                *)
LEMMA FailNoModelKeeps ==
    ASSUME IInv, NEW t \in Tasks, FailNoModel(t)
    PROVE  Onward
<1>1. /\ Gen(t) /\ Live(t) /\ Task(t).phase # "tools" /\ FailRun(t, "no_model") /\ env' = env
      /\ \A c \in Task(t).on : Terminal(c)
  BY DEF FailNoModel, Runs, Free
<1>2. "no_model" \in Reasons
  BY DEF Reasons
<1> QED
  BY <1>1, <1>2, FailRunKeeps

(* A generation whose context still does not fit after its compaction fails   *)
(* its run.                                                                   *)
LEMMA FailCompactionKeeps ==
    ASSUME IInv, NEW t \in Tasks, FailCompaction(t)
    PROVE  Onward
<1>1. /\ Gen(t) /\ Live(t) /\ Task(t).phase # "tools" /\ FailRun(t, "model_error") /\ env' = env
      /\ \A c \in Task(t).on : Terminal(c)
  BY DEF FailCompaction, Runs, Free
<1>2. "model_error" \in Reasons
  BY DEF Reasons
<1> QED
  BY <1>1, <1>2, FailRunKeeps

-----------------------------------------------------------------------------
(* The context is read.                                                       *)
LEMMA ReadContextKeeps ==
    ASSUME IInv, NEW t \in Tasks, ReadContext(t)
    PROVE  Onward
<1> DEFINE l == Local(t, "prepared", ModelContext(db), NewestOf(SelectCut(db)), {})
<1>1. env' = env /\ db' = db /\ local' = local \cup {l}
  BY DEF ReadContext
<1>2. l.task = t /\ l.step = "prepared" /\ l.view = ModelContext(db)
  BY DEF Local
<1> HIDE DEF l
<1>3. /\ db.tasks[t].status = "live" /\ ~db.tasks[t].marked /\ db.tasks[t].kind = "gen" /\ db.tasks[t].phase = "prepare"
      /\ \A c \in db.tasks[t].on : db.tasks[c].status = "done" /\ t \in DOMAIN db.tasks
  BY DEF ReadContext, Gen, Runs, Task, Live, Terminal, Tasks
<1>4. LocalFits(db, l)
  BY <1>2, <1>3 DEF LocalFits, Tasks
<1>5. IInv'
  BY <1>1, <1>4 DEF IInv
<1> QED
  BY <1>1, <1>5, StaysForward DEF Onward

(* A step that starts no call, answers none and ends none.                     *)
HandsFree(tx, new, t) ==
    /\ t \in LiveOf(tx, "tool") => new.tasks[t].call = tx.tasks[t].call
    /\ t \in LiveOf(tx, "gen") => tx.tasks[t].phase # "tools" /\ new.tasks[t].phase # "tools"
    /\ \A c \in DOMAIN new.tasks : c > Len(tx.tasks) => new.tasks[c].kind # "tool"
    /\ \A i \in DOMAIN new.entries : i > Len(tx.entries) => new.entries[i].kind # "result" /\ new.entries[i].calls = {}

(* A task goes on.                                                            *)
LEMMA GoesOnKeeps ==
    ASSUME IInv, env' = env, NEW t, NEW new, Continued(db, new, t), HandsFree(db, new, t),
           SummaryFits(new, t), AskedFits(new, t), db' = new,
           \A l \in local' :
             \/ l \in local /\ l.task # t /\ db'.tasks[l.task].status = "live" /\ ~db'.tasks[l.task].marked
             \/ LocalFits(db', l)
    PROVE  Onward
<1>1. db \in TxRec /\ TasksAgree(db) /\ CallsAgree(db)
  BY SoundParts DEF IInv
<1>2. Moves(db, new, t)
  BY <1>1, GoesOn
<1>3. new.tasks[t].status = "live" /\ t \in DOMAIN db.tasks
  BY DEF Continued
<1>4. SameHands(db, new)
  BY <1>1, <1>2, <1>3, HandsSame DEF HandsFree
<1>5. CallsAgree(new)
  BY <1>1, <1>2, <1>4, CallsQuiet
<1> QED
  BY <1>2, <1>5, CommitKeeps

-----------------------------------------------------------------------------
(* Records to which a generation added no task, or one compaction of `owner`.   *)
FreshCompaction(task, owner) ==
    /\ task.kind = "comp" /\ task.phase = "select" /\ task.owner = owner
    /\ task.status = "live" /\ task.outcome = "none" /\ task.on = {}
Grown(tx, mid, owner) ==
    LET n == Len(tx.tasks) + 1 IN
    /\ Recorded(tx, mid) /\ mid.live.run = tx.live.run
    /\ \/ mid.tasks = tx.tasks /\ mid.live.compactions = tx.live.compactions
       \/ /\ Len(mid.tasks) = n /\ \A c \in DOMAIN tx.tasks : mid.tasks[c] = tx.tasks[c]
          /\ FreshCompaction(mid.tasks[n], owner)
          /\ mid.live.compactions = Append(tx.live.compactions, n)

(* Staged entries that are no resets grow the transcript under the run.       *)
LEMMA GrownSame ==
    ASSUME NEW tx \in TxRec, NEW mid, Carries(tx, mid, {}), mid.live.run = tx.live.run,
           Fresh(tx, Range(tx.live.run.inputs)), TxInv(tx, DOMAIN tx.inbox, {}),
           \A i \in DOMAIN mid.entries : i > Len(tx.entries) => mid.entries[i].kind # "reset",
           mid.tasks = tx.tasks, mid.live.compactions = tx.live.compactions, NEW owner
    PROVE  Grown(tx, mid, owner)
<1>1. mid \in TxRec /\ Forward(tx, mid) /\ TxInv(mid, DOMAIN mid.inbox, {})
  BY DEF Carries
<1>2. Fresh(mid, Range(tx.live.run.inputs))
  BY <1>1, InputsPlaced, FreshSame
<1> QED
  BY <1>1, <1>2 DEF Grown, Recorded

(* A compaction is added to what has grown.                                   *)
LEMMA GrownBy ==
    ASSUME NEW tx \in TxRec, NEW mid, NEW owner \in Nat, Grown(tx, mid, owner), mid.tasks = tx.tasks,
           mid.live.compactions = tx.live.compactions, NEW background \in BOOLEAN
    PROVE  LET new == CreateCompaction(mid, owner, background) IN
           /\ Grown(tx, new, owner) /\ new.entries = mid.entries /\ new.subs = mid.subs
           /\ DOMAIN new.tasks = 1 .. Len(tx.tasks) + 1
<1> DEFINE new == CreateCompaction(mid, owner, background)
           n == Len(tx.tasks) + 1
<1>1. mid \in TxRec /\ Recorded(tx, mid) /\ mid.live.run = tx.live.run
  BY DEF Grown, Recorded
<1>a. /\ new \in TxRec
      /\ new.entries = mid.entries /\ new.subs = mid.subs /\ new.inbox = mid.inbox
      /\ new.live.run = mid.live.run /\ new.live.compactions = Append(mid.live.compactions, Len(mid.tasks) + 1)
      /\ Len(new.tasks) = Len(mid.tasks) + 1
      /\ \A i \in 1 .. Len(mid.tasks) : new.tasks[i] = mid.tasks[i]
      /\ new.tasks[Len(mid.tasks) + 1] = NewCompaction(owner, background)
  BY <1>1, CompactionIs
<1> HIDE DEF new
<1>2. /\ new \in TxRec
      /\ new.entries = mid.entries /\ new.subs = mid.subs /\ new.inbox = mid.inbox
      /\ new.live.run = mid.live.run /\ new.live.compactions = Append(tx.live.compactions, n)
      /\ Len(new.tasks) = n
      /\ \A i \in 1 .. Len(tx.tasks) : new.tasks[i] = tx.tasks[i]
      /\ new.tasks[n] = NewCompaction(owner, background)
  BY <1>a
<1>3. FreshCompaction(NewCompaction(owner, background), owner)
  BY NewCompactionIs DEF FreshCompaction
<1>4. Recorded(tx, new)
  BY <1>1, <1>2, RecordedSame
<1>5. DOMAIN tx.tasks = 1 .. Len(tx.tasks) /\ DOMAIN new.tasks = 1 .. n
  BY <1>2, TxFields
<1>6. Grown(tx, new, owner)
  BY <1>1, <1>2, <1>3, <1>4, <1>5 DEF Grown
<1> QED
  BY <1>2, <1>5, <1>6 DEF new

(* A generation that goes on.                                                 *)
StillGen(old, task) ==
    /\ task \in TaskRec /\ task.kind = "gen" /\ task.owner = old.owner
    /\ task.status = "live" /\ task.outcome = "none"

(* A generation that goes on, with the compaction it waits for if it created  *)
(* one.                                                                       *)
LEMMA GenContinues ==
    ASSUME NEW tx \in TxRec, NEW t \in LiveOf(tx, "gen"), OwnsDone(tx, t), NEW owner \in {0, t}, NEW mid, Grown(tx, mid, owner),
           NEW task, StillGen(tx.tasks[t], task), task.on \subseteq DOMAIN mid.tasks,
           owner = t /\ mid.tasks # tx.tasks =>
             task.phase = "prepare" /\ Len(tx.tasks) + 1 \in task.on /\ task.compacted = Len(tx.tasks) + 1
    PROVE  LET new == SetTask(mid, t, task) IN
           /\ Continued(tx, new, t)
           /\ new.entries = mid.entries /\ new.subs = mid.subs /\ new.live = mid.live /\ new.tasks[t] = task
           /\ \A c \in DOMAIN new.tasks : c > Len(tx.tasks) => new.tasks[c].kind = "comp"
<1> DEFINE new == SetTask(mid, t, task)
           n == Len(tx.tasks) + 1
<1>1. t \in DOMAIN tx.tasks /\ tx.tasks[t].kind = "gen" /\ tx.tasks[t].status = "live" /\ DOMAIN tx.tasks = 1 .. Len(tx.tasks)
      /\ Len(tx.tasks) \in Nat /\ t \in Nat /\ t # 0
  BY TxFields DEF LiveOf
<1>2. /\ mid \in TxRec /\ t \in DOMAIN mid.tasks /\ task \in TaskRec /\ DOMAIN mid.tasks = 1 .. Len(mid.tasks)
      /\ Recorded(tx, mid) /\ mid.live.run = tx.live.run
  <2>1. mid \in TxRec /\ Recorded(tx, mid) /\ mid.live.run = tx.live.run
    BY DEF Grown, Recorded
  <2> QED
    BY <1>1, <2>1, TxFields DEF Grown, StillGen
<1>3. /\ new \in TxRec
      /\ new.entries = mid.entries /\ new.subs = mid.subs /\ new.inbox = mid.inbox /\ new.live = mid.live
      /\ Len(new.tasks) = Len(mid.tasks) /\ DOMAIN new.tasks = DOMAIN mid.tasks
      /\ new.tasks[t] = task
      /\ \A i \in DOMAIN mid.tasks : i # t => new.tasks[i] = mid.tasks[i]
  BY <1>2, SetTaskIs
<1> HIDE DEF new
<1>4. Recorded(tx, new)
  BY <1>2, <1>3, RecordedSame
<1>5. \A c \in DOMAIN tx.tasks : c # t => Alike(tx.tasks[c], new.tasks[c])
  BY <1>1, <1>2, <1>3, AlikeSelf DEF Grown
<1>6. /\ Len(tx.tasks) <= Len(new.tasks)
      /\ \/ new.live.compactions = tx.live.compactions /\ \A c \in DOMAIN new.tasks : ~(c > Len(tx.tasks))
         \/ /\ new.live.compactions = Append(tx.live.compactions, n) /\ Len(new.tasks) = n
            /\ FreshCompaction(new.tasks[n], owner) /\ mid.tasks # tx.tasks
            /\ \A c \in DOMAIN new.tasks : c > Len(tx.tasks) => c = n
  <2>1. CASE mid.tasks = tx.tasks /\ mid.live.compactions = tx.live.compactions
    BY <1>1, <1>2, <1>3, <2>1
  <2>2. CASE /\ Len(mid.tasks) = n /\ FreshCompaction(mid.tasks[n], owner)
             /\ mid.live.compactions = Append(tx.live.compactions, n)
    <3>1. n \in DOMAIN mid.tasks /\ n # t /\ mid.tasks # tx.tasks
      BY <1>1, <1>2, <2>2
    <3>2. \A c \in DOMAIN new.tasks : c > Len(tx.tasks) => c = n
      BY <1>1, <1>2, <1>3, <2>2
    <3> QED
      BY <1>1, <1>3, <2>2, <3>1, <3>2
  <2> QED
    BY <2>1, <2>2 DEF Grown
<1>7. \A c \in DOMAIN new.tasks : c > Len(tx.tasks) => Created(new, c, t) /\ new.tasks[c].kind = "comp"
  <2> SUFFICES ASSUME NEW c \in DOMAIN new.tasks, c > Len(tx.tasks)
               PROVE  Created(new, c, t) /\ new.tasks[c].kind = "comp"
    OBVIOUS
  <2>1. c = n /\ FreshCompaction(new.tasks[n], owner) /\ mid.tasks # tx.tasks
    BY <1>6
  <2>2. owner = t => Hosts(new, t, n, "prepare") /\ new.tasks[t].compacted = n
    BY <1>1, <1>2, <1>3, <2>1 DEF Hosts, LiveOf, StillGen
  <2> QED
    BY <2>1, <2>2 DEF Created, FreshCompaction
<1>8. Continued(tx, new, t)
  <2>1. /\ new.tasks[t].kind = tx.tasks[t].kind /\ new.tasks[t].owner = tx.tasks[t].owner
        /\ new.tasks[t].status = "live" /\ new.tasks[t].outcome = "none"
        /\ new.tasks[t].on \subseteq DOMAIN new.tasks
    BY <1>1, <1>3 DEF StillGen
  <2>2. new.live.run = tx.live.run
    BY <1>2, <1>3
  <2>3. \/ /\ new.live.compactions = tx.live.compactions
           /\ \A c \in DOMAIN new.tasks : c > Len(tx.tasks) => new.tasks[c].kind # "comp"
        \/ /\ new.live.compactions = Append(tx.live.compactions, n)
           /\ Len(new.tasks) = n /\ new.tasks[n].kind = "comp"
    BY <1>6 DEF FreshCompaction
  <2> QED
    BY <1>1, <1>4, <1>5, <1>6, <1>7, <2>1, <2>2, <2>3 DEF Continued
<1> QED
  BY <1>3, <1>7, <1>8 DEF new

(* The record of a generation that goes on.                                   *)
Phases == {"prepare", "request", "retry", "poll", "tools", "call", "execute", "select", "summarize", "end"}
Vias == {"none", "threshold", "overflow"}
InPhase(old, phase) == [old EXCEPT !.phase = phase]
Waits(old, on) == [old EXCEPT !.on = on]
Compacts(old, compacted, via) == [old EXCEPT !.compacted = compacted, !.via = via]
CutsOff(old, via, cutoff) == [old EXCEPT !.via = via, !.cutoff = cutoff]
Tries(old, attempt) == [old EXCEPT !.attempt = attempt]

(* A generation in another phase is still the same generation.                *)
LEMMA GenInPhase ==
    ASSUME NEW old, StillGen(old, old), NEW phase \in Phases
    PROVE  LET task == InPhase(old, phase) IN
           StillGen(old, task) /\ task.phase = phase /\ task.on = old.on /\ task.cutoff = old.cutoff /\ task.ref = old.ref
BY DEF InPhase, StillGen, TaskRec, Phases

(* A generation that waits for other tasks is still the same generation.      *)
LEMMA GenWaits ==
    ASSUME NEW old, StillGen(old, old), NEW on \in SUBSET Nat
    PROVE  LET task == Waits(old, on) IN
           StillGen(old, task) /\ task.phase = old.phase /\ task.on = on /\ task.cutoff = old.cutoff /\ task.ref = old.ref
BY DEF Waits, StillGen, TaskRec

(* A generation that notes its compaction is still the same generation.       *)
LEMMA GenCompacts ==
    ASSUME NEW old, StillGen(old, old), NEW compacted \in Nat, NEW via \in Vias
    PROVE  LET task == Compacts(old, compacted, via) IN
           StillGen(old, task) /\ task.phase = old.phase /\ task.on = old.on /\ task.compacted = compacted
BY DEF Compacts, StillGen, TaskRec, Vias

(* A generation that notes what its request included is still the same        *)
(* generation.                                                                *)
LEMMA GenCutsOff ==
    ASSUME NEW old, StillGen(old, old), NEW via \in Vias, NEW cutoff \in Nat
    PROVE  LET task == CutsOff(old, via, cutoff) IN
           StillGen(old, task) /\ task.phase = old.phase /\ task.on = old.on /\ task.cutoff = cutoff
BY DEF CutsOff, StillGen, TaskRec, Vias

(* A generation that counts its attempts is still the same generation.        *)
LEMMA GenTries ==
    ASSUME NEW old, StillGen(old, old), NEW attempt \in Nat
    PROVE  LET task == Tries(old, attempt) IN
           StillGen(old, task) /\ task.phase = old.phase /\ task.on = old.on
BY DEF Tries, StillGen, TaskRec

(* Two changes of the record of a generation.                                 *)
LEMMA StillTwice ==
    ASSUME NEW a, NEW b, NEW c, StillGen(a, b), StillGen(b, c)
    PROVE  StillGen(a, c)
BY DEF StillGen

(* A generation record that stands for a live one does so for itself.         *)
LEMMA StillNow ==
    ASSUME NEW a, NEW b, StillGen(a, b)
    PROVE  StillGen(b, b)
BY DEF StillGen

(* The record of a live generation.                                           *)
LEMMA StillSelf ==
    ASSUME NEW tx \in TxRec, TasksAgree(tx), NEW t \in LiveOf(tx, "gen")
    PROVE  StillGen(tx.tasks[t], tx.tasks[t]) /\ tx.tasks[t].on \in SUBSET Nat /\ tx.tasks[t].on \subseteq DOMAIN tx.tasks
BY TaskFields DEF StillGen, TasksAgree, TaskFits, LiveOf

(* An entry that a generation appends has no head, and is no result.           *)
LEMMA PlainDraft ==
    ASSUME NEW kind \in {"user", "system", "failed", "assistant"}, NEW ref \in Nat
    PROVE  LET e == [Blank EXCEPT !.kind = kind, !.ref = ref]
               e0 == [Blank EXCEPT !.kind = kind]
           IN /\ e \in EntryRec /\ PlainEntry(e) /\ e.by = 0 /\ e.kind = kind /\ e.ref = ref /\ e.calls = {}
              /\ e0 \in EntryRec /\ PlainEntry(e0) /\ e0.by = 0 /\ e0.kind = kind /\ e0.calls = {}
<1> DEFINE base == Blank
<1>1. /\ base \in EntryRec /\ base.head = 0 /\ base.by = 0 /\ base.cover = {} /\ base.calls = {}
  BY BlankType
<1> HIDE DEF base
<1>2. kind \in EntryKinds /\ kind \notin HeadKinds
  BY DEF EntryKinds, HeadKinds
<1> DEFINE e == [base EXCEPT !.kind = kind, !.ref = ref]
           e0 == [base EXCEPT !.kind = kind]
<1>3. /\ e \in EntryRec /\ PlainEntry(e) /\ e.by = 0 /\ e.kind = kind /\ e.ref = ref /\ e.calls = {}
  BY <1>1, <1>2 DEF EntryRec, PlainEntry
<1>4. e0 \in EntryRec /\ PlainEntry(e0) /\ e0.by = 0 /\ e0.kind = kind /\ e0.calls = {}
  BY <1>1, <1>2 DEF EntryRec, PlainEntry
<1> QED
  BY <1>3, <1>4 DEF base

(* The inputs of the run are among the entries.                               *)
LEMMA SawAll ==
    ASSUME NEW tx, Recorded(tx, tx)
    PROVE  Saw(tx, Len(tx.entries))
<1>1. tx \in TxRec /\ TxInv(tx, DOMAIN tx.inbox, {})
  BY DEF Recorded
<1>2. Range(tx.live.run.inputs) \subseteq DOMAIN tx.subs
  BY <1>1, InputsPlaced
<1>3. \A s \in DOMAIN tx.subs : tx.subs[s].entry <= Len(tx.entries)
  BY <1>1, EntryFields DEF TxInv, Placement
<1> QED
  BY <1>2, <1>3 DEF Saw

(* What a request has seen of the run does not change with the rest of the    *)
(* records.                                                                   *)
LEMMA SawSame ==
    ASSUME NEW tx, NEW tx2, NEW newest, Saw(tx, newest), tx2.subs = tx.subs, tx2.live.run = tx.live.run
    PROVE  Saw(tx2, newest)
BY DEF Saw

(* A phase of a generation ends with it going on.                              *)
LEMMA GenGoesKeeps ==
    ASSUME IInv, env' = env, NEW t \in LiveOf(db, "gen"), OwnsDone(db, t), NEW owner \in {0, t},
           NEW mid, Grown(db, mid, owner), NEW task, StillGen(db.tasks[t], task), task.on \subseteq DOMAIN mid.tasks,
           owner = t /\ mid.tasks # db.tasks =>
             task.phase = "prepare" /\ Len(db.tasks) + 1 \in task.on /\ task.compacted = Len(db.tasks) + 1,
           db.tasks[t].phase # "tools", task.phase # "tools",
           task.phase \in {"request", "poll"} => Saw(mid, task.cutoff),
           \A i \in DOMAIN mid.entries : i > Len(db.entries) => mid.entries[i].kind # "result" /\ mid.entries[i].calls = {},
           CommitPhase(t, SetTask(mid, t, task))
    PROVE  Onward
<1> DEFINE new == SetTask(mid, t, task)
<1>1. db \in TxRec
  BY DEF IInv, Sound
<1>2. /\ Continued(db, new, t)
      /\ new.entries = mid.entries /\ new.subs = mid.subs /\ new.live = mid.live /\ new.tasks[t] = task
      /\ \A c \in DOMAIN new.tasks : c > Len(db.tasks) => new.tasks[c].kind = "comp"
  BY <1>1, GenContinues
<1>3. db' = new /\ \A l \in local' : l \in local /\ l.task # t /\ new.tasks[l.task].status = "live" /\ ~new.tasks[l.task].marked
  BY DEF CommitPhase, Kept
<1> HIDE DEF new
<1>4. t \notin LiveOf(db, "tool")
  BY DEF LiveOf
<1>5. HandsFree(db, new, t)
  BY <1>2, <1>4 DEF HandsFree
<1>6. SummaryFits(new, t)
  BY <1>2 DEF SummaryFits, LiveOf, StillGen
<1>7. AskedFits(new, t)
  BY <1>2, SawSame DEF AskedFits
<1> QED
  BY <1>2, <1>3, <1>5, <1>6, <1>7, GoesOnKeeps

-----------------------------------------------------------------------------

(* A generation whose context is too large creates a compaction and waits for *)
(* it.                                                                        *)
LEMMA PrepareBlockedKeeps ==
    ASSUME IInv, NEW t \in Tasks, PrepareBlocked(t)
    PROVE  Onward
<1> DEFINE child == Len(db.tasks) + 1
           old == db.tasks[t]
           first == Waits(old, {child})
           via == "threshold"
           task == Compacts(first, child, via)
<1>1. /\ Gen(t) /\ Live(t) /\ (\A c \in Task(t).on : Terminal(c)) /\ env' = env /\ old.phase = "prepare"
      /\ CommitPhase(t, SetTask(CreateCompaction(db, t, FALSE), t, task))
  BY DEF PrepareBlocked, Runs, Spend, Task, Waits, Compacts
<1>2. /\ db \in TxRec /\ TasksAgree(db) /\ Recorded(db, db)
      /\ t \in LiveOf(db, "gen") /\ t \in DOMAIN db.tasks /\ OwnsDone(db, t)
  BY <1>1, GenActs
<1>3. child \in Nat /\ child \in 1 .. child /\ Len(db.tasks) \in Nat /\ {child} \in SUBSET Nat /\ t \in Nat /\ DOMAIN db.tasks = 1 .. Len(db.tasks)
  BY <1>2, TxFields
<1>4. Grown(db, db, t)
  BY <1>2 DEF Grown
<1> HIDE DEF task
<1>5. PICK background \in BOOLEAN : CommitPhase(t, SetTask(CreateCompaction(db, t, background), t, task))
  BY <1>1, FALSE \in BOOLEAN, Zenon
<1> DEFINE mid == CreateCompaction(db, t, background)
<1>6. Grown(db, mid, t) /\ mid.entries = db.entries /\ mid.subs = db.subs /\ DOMAIN mid.tasks = 1 .. child
  BY <1>2, <1>3, <1>4, <1>5, GrownBy
<1> HIDE DEF mid, child
<1>7. StillGen(old, old)
  BY <1>2, StillSelf
<1> HIDE DEF old
<1>8. StillGen(old, first) /\ first.phase = old.phase /\ first.on = {child}
  BY <1>3, <1>7, GenWaits
<1> HIDE DEF first
<1>9. via \in Vias
  BY DEF Vias
<1> HIDE DEF via
<1>10. StillGen(first, first)
  BY <1>8, StillNow
<1>11. StillGen(first, task) /\ task.phase = first.phase /\ task.on = {child} /\ task.compacted = child
  BY <1>3, <1>8, <1>9, <1>10, GenCompacts DEF task
<1>12. StillGen(db.tasks[t], task)
  BY <1>8, <1>11, StillTwice DEF old
<1>13. task.on \subseteq DOMAIN mid.tasks
  BY <1>3, <1>6, <1>11
<1>14. CommitPhase(t, SetTask(mid, t, task)) /\ db.tasks[t].phase = "prepare" /\ task.phase = "prepare" /\ Len(db.tasks) + 1 = child
  BY <1>1, <1>5, <1>8, <1>11 DEF mid, old, child
<1>15. \A i \in DOMAIN mid.entries : ~(i > Len(db.entries))
  BY <1>2, <1>6, TxFields
<1> QED
  BY <1>1, <1>2, <1>6, <1>11, <1>12, <1>13, <1>14, <1>15, GenGoesKeeps

(* An entry a generation appends.                                             *)
Appends(tx, mid, kind) ==
    /\ Grown(tx, mid, 0) /\ mid.tasks = tx.tasks /\ mid.live = tx.live /\ mid.subs = tx.subs
    /\ Carries(tx, mid, {}) /\ Extends(tx, mid) /\ mid.inbox = tx.inbox
    /\ Len(mid.entries) = Len(tx.entries) + 1
    /\ \A i \in DOMAIN mid.entries : i > Len(tx.entries) => mid.entries[i].kind = kind /\ mid.entries[i].calls = {}

(* An entry of no submission, without a head, is appended.                    *)
LEMMA AppendsIs ==
    ASSUME NEW tx, Sound(tx), NEW kind, NEW e \in EntryRec, PlainEntry(e), e.by = 0, e.kind = kind, e.calls = {}
    PROVE  Appends(tx, AppendEntry(tx, e), kind)
<1> DEFINE mid == AppendEntry(tx, e)
<1>1. tx \in TxRec /\ Carries(tx, tx, {}) /\ Fresh(tx, Range(tx.live.run.inputs)) /\ TxInv(tx, DOMAIN tx.inbox, {})
  BY SoundParts
<1>2. /\ Carries(tx, mid, {})
      /\ mid.subs = tx.subs /\ mid.inbox = tx.inbox /\ mid.live = tx.live /\ mid.tasks = tx.tasks
      /\ Len(mid.entries) = Len(tx.entries) + 1 /\ DOMAIN mid.entries = 1 .. Len(tx.entries) + 1
      /\ \A i \in 1 .. Len(tx.entries) : mid.entries[i] = tx.entries[i]
      /\ mid.entries[Len(tx.entries) + 1] = e
  BY <1>1, AppendedPlain
<1> HIDE DEF mid
<1>3. \A i \in DOMAIN mid.entries : i > Len(tx.entries) => i = Len(tx.entries) + 1
  BY <1>1, <1>2, TxFields
<1>4. kind # "reset"
  BY DEF PlainEntry, HeadKinds
<1>5. \A i \in DOMAIN mid.entries : i > Len(tx.entries) => mid.entries[i].kind # "reset"
  BY <1>2, <1>3, <1>4
<1>6. Grown(tx, mid, 0)
  BY <1>1, <1>2, <1>5, GrownSame
<1>7. Extends(tx, mid)
  <2>1. Continues(tx, mid)
    BY <1>2 DEF Carries, Forward
  <2> QED
    BY <1>2, <1>3, <2>1 DEF Extends
<1> QED
  BY <1>2, <1>3, <1>6, <1>7 DEF Appends, mid

(* convertPartial keeps a shown partial answer as a failed entry, which puts  *)
(* nothing into the context.                                                  *)
LEMMA ConvertIs ==
    ASSUME NEW tx, Sound(tx)
    PROVE  LET mid == ConvertPartial(tx) IN
           /\ Grown(tx, mid, 0) /\ mid.tasks = tx.tasks /\ mid.live = tx.live /\ mid.subs = tx.subs /\ mid.inbox = tx.inbox
           /\ Carries(tx, mid, {}) /\ Continues(tx, mid)
           /\ \A i \in DOMAIN mid.entries : i > Len(tx.entries) => mid.entries[i].kind # "result" /\ mid.entries[i].calls = {}
<1>1. tx \in TxRec /\ Carries(tx, tx, {}) /\ Recorded(tx, tx)
  BY SoundParts
<1>2. CASE tx.live.gen = "partial"
  <2> DEFINE e == [Blank EXCEPT !.kind = "failed"]
             mid == AppendEntry(tx, e)
  <2>1. e \in EntryRec /\ PlainEntry(e) /\ e.by = 0 /\ e.kind = "failed" /\ e.calls = {}
    BY PlainDraft, 0 \in Nat
  <2>2. ConvertPartial(tx) = mid
    BY <1>2 DEF ConvertPartial
  <2> HIDE DEF e
  <2>3. Appends(tx, mid, "failed")
    BY <2>1, AppendsIs
  <2>4. mid.inbox = tx.inbox
    BY <1>1, <2>1, AppendEntryIs
  <2> HIDE DEF mid
  <2>5. Continues(tx, mid)
    BY <2>3 DEF Appends, Carries, Forward
  <2> QED
    BY <2>2, <2>3, <2>4, <2>5 DEF Appends
<1>3. CASE tx.live.gen # "partial"
  <2>1. ConvertPartial(tx) = tx
    BY <1>3 DEF ConvertPartial
  <2>2. \A i \in DOMAIN tx.entries : ~(i > Len(tx.entries))
    BY <1>1, TxFields
  <2>3. Grown(tx, tx, 0)
    BY <1>1 DEF Grown
  <2>4. Continues(tx, tx)
    BY <1>1 DEF Carries, Forward
  <2> QED
    BY <1>1, <2>1, <2>2, <2>3, <2>4
<1> QED
  BY <1>2, <1>3

(* What shows of a generation changes, and nothing else.                       *)
LEMMA GrownGen ==
    ASSUME NEW tx \in TxRec, NEW mid, NEW owner, Grown(tx, mid, owner), NEW gen \in Gens
    PROVE  LET new == [mid EXCEPT !.live.gen = gen] IN
           /\ Grown(tx, new, owner) /\ new.entries = mid.entries /\ new.subs = mid.subs /\ new.tasks = mid.tasks
           /\ new.live.run = mid.live.run
<1> DEFINE new == [mid EXCEPT !.live.gen = gen]
<1>1. mid \in TxRec /\ Recorded(tx, mid)
  BY DEF Grown, Recorded
<1>2. /\ new \in TxRec
      /\ new.entries = mid.entries /\ new.subs = mid.subs /\ new.inbox = mid.inbox /\ new.tasks = mid.tasks
      /\ new.live.run = mid.live.run /\ new.live.compactions = mid.live.compactions
  BY <1>1, WithGen
<1> HIDE DEF new
<1>3. Recorded(tx, new)
  BY <1>1, <1>2, RecordedSame
<1>4. Grown(tx, new, owner)
  BY <1>2, <1>3 DEF Grown
<1> QED
  BY <1>2, <1>4 DEF new

-----------------------------------------------------------------------------
(* The request is prepared.                                                   *)
LEMMA ToRequestKeeps ==
    ASSUME IInv, env' = env, NEW t \in Tasks, Gen(t), Runs(t, "prepare"), NEW system \in BOOLEAN, NEW background \in BOOLEAN,
           CommitPhase(t, ToRequest(t, system, background))
    PROVE  Onward
<1> DEFINE e == [Blank EXCEPT !.kind = "system"]
           planned == IF system THEN AppendEntry(db, e) ELSE db
           started == IF background THEN CreateCompaction(planned, 0, TRUE) ELSE planned
           old == db.tasks[t]
           request == "request"
           none == "none"
           empty == {}
           first == InPhase(old, request)
           second == Waits(first, empty)
           task == CutsOff(second, none, Len(planned.entries))
<1>1. /\ Gen(t) /\ Live(t) /\ (\A c \in Task(t).on : Terminal(c)) /\ old.phase = "prepare"
      /\ CommitPhase(t, SetTask(started, t, task))
  BY DEF ToRequest, Runs, Task, InPhase, Waits, CutsOff
<1>2. /\ Sound(db) /\ db \in TxRec /\ TasksAgree(db) /\ Recorded(db, db)
      /\ t \in LiveOf(db, "gen") /\ t \in DOMAIN db.tasks /\ OwnsDone(db, t)
  BY <1>1, GenActs
<1>3. e \in EntryRec /\ PlainEntry(e) /\ e.by = 0 /\ e.kind = "system" /\ e.calls = {}
  BY PlainDraft, 0 \in Nat
<1> HIDE DEF e
<1>4. /\ Grown(db, planned, 0) /\ planned.tasks = db.tasks /\ planned.live = db.live /\ planned.subs = db.subs
      /\ \A i \in DOMAIN planned.entries : i > Len(db.entries) => planned.entries[i].kind # "result" /\ planned.entries[i].calls = {}
  <2>1. CASE system
    <3>1. Appends(db, AppendEntry(db, e), "system")
      BY <1>2, <1>3, AppendsIs
    <3>2. planned = AppendEntry(db, e)
      BY <2>1
    <3> HIDE DEF planned
    <3> QED
      BY <3>1, <3>2 DEF Appends
  <2>2. CASE ~system
    <3>1. planned = db
      BY <2>2
    <3>2. Grown(db, db, 0)
      BY <1>2 DEF Grown
    <3>3. \A i \in DOMAIN db.entries : ~(i > Len(db.entries))
      BY <1>2, TxFields
    <3> HIDE DEF planned
    <3> QED
      BY <3>1, <3>2, <3>3
  <2> QED
    BY <2>1, <2>2
<1>5. planned \in TxRec /\ Recorded(planned, planned)
  <2>1. Recorded(db, planned)
    BY <1>4 DEF Grown
  <2>2. planned \in TxRec
    BY <2>1 DEF Recorded
  <2>3. Forward(planned, planned)
    BY <2>1, <2>2, ForwardSame DEF Continues
  <2> QED
    BY <2>1, <2>2, <2>3 DEF Recorded
<1>6. Saw(planned, Len(planned.entries)) /\ Len(planned.entries) \in Nat
  BY <1>5, SawAll, TxFields
<1> HIDE DEF planned
<1>7. /\ Grown(db, started, 0) /\ started.entries = planned.entries /\ started.subs = planned.subs
  <2>1. CASE background
    <3>1. PICK yes \in BOOLEAN : started = CreateCompaction(planned, 0, yes)
      BY <2>1, TRUE \in BOOLEAN, Zenon
    <3> HIDE DEF started
    <3>2. planned.live.compactions = db.live.compactions /\ 0 \in Nat
      BY <1>4
    <3> DEFINE made == CreateCompaction(planned, 0, yes)
    <3>3. Grown(db, made, 0) /\ made.entries = planned.entries /\ made.subs = planned.subs
      BY <1>2, <1>4, <3>2, GrownBy
    <3> HIDE DEF made
    <3>4. started = made
      BY <3>1 DEF made
    <3> QED
      BY <3>3, <3>4
  <2>2. CASE ~background
    BY <1>4, <2>2
  <2> QED
    BY <2>1, <2>2
<1> HIDE DEF started
<1>8. StillGen(old, old)
  BY <1>2, StillSelf
<1>9. request \in Phases /\ none \in Vias /\ empty \in SUBSET Nat
  BY DEF Phases, Vias
<1> HIDE DEF old, request, none, empty
<1>10. StillGen(old, first) /\ first.phase = request
  BY <1>8, <1>9, GenInPhase
<1> HIDE DEF first
<1>11. StillGen(first, first)
  BY <1>10, StillNow
<1>12. StillGen(first, second) /\ second.phase = first.phase /\ second.on = empty
  BY <1>9, <1>11, GenWaits
<1> HIDE DEF second
<1>13. StillGen(second, second)
  BY <1>12, StillNow
<1>14. StillGen(second, task) /\ task.phase = second.phase /\ task.on = second.on /\ task.cutoff = Len(planned.entries)
  BY <1>6, <1>9, <1>13, GenCutsOff
<1> HIDE DEF task
<1>15. StillGen(old, task)
  BY <1>10, <1>12, <1>14, StillTwice
<1>16. task.phase = "request" /\ task.on \subseteq DOMAIN started.tasks /\ StillGen(db.tasks[t], task) /\ db.tasks[t].phase = "prepare"
  BY <1>1, <1>10, <1>12, <1>14, <1>15 DEF request, empty, old
<1>17. Saw(started, task.cutoff)
  <2>1. started.live.run = db.live.run
    BY <1>7 DEF Grown
  <2> QED
    BY <1>4, <1>6, <1>7, <1>14, <2>1, SawSame
<1>18. \A i \in DOMAIN started.entries : i > Len(db.entries) => started.entries[i].kind # "result" /\ started.entries[i].calls = {}
  BY <1>4, <1>7
<1>19. 0 # t
  BY <1>2, TxFields
<1> QED
  BY <1>1, <1>2, <1>7, <1>16, <1>17, <1>18, <1>19, GenGoesKeeps

(* A generation whose context fits goes on to its request, which includes     *)
(* every input of the run.                                                    *)
LEMMA PrepareRequestKeeps ==
    ASSUME IInv, NEW t \in Tasks, PrepareRequest(t)
    PROVE  Onward
<1>1. Gen(t) /\ Runs(t, "prepare") /\ env' = env
  BY DEF PrepareRequest, Free, Spend
<1>2. PICK system \in BOOLEAN, background \in BOOLEAN : CommitPhase(t, ToRequest(t, system, background))
  BY TRUE \in BOOLEAN, FALSE \in BOOLEAN, Zenon DEF PrepareRequest
<1> QED
  BY <1>1, <1>2, ToRequestKeeps

(* The step of a generation that changes only what shows, and its phase.       *)
LEMMA SetSame ==
    ASSUME NEW mid \in TxRec, NEW t \in DOMAIN mid.tasks
    PROVE  SetTask(mid, t, mid.tasks[t]) = mid
<1> DEFINE new == SetTask(mid, t, mid.tasks[t])
<1>1. mid.tasks[t] \in TaskRec
  BY TaskFields
<1>2. /\ new \in TxRec
      /\ new.entries = mid.entries /\ new.subs = mid.subs /\ new.inbox = mid.inbox /\ new.live = mid.live
      /\ Len(new.tasks) = Len(mid.tasks) /\ new.tasks[t] = mid.tasks[t]
      /\ \A i \in DOMAIN mid.tasks : i # t => new.tasks[i] = mid.tasks[i]
  BY <1>1, SetTaskIs
<1> HIDE DEF new
<1>3. new.tasks \in Seq(TaskRec) /\ mid.tasks \in Seq(TaskRec) /\ DOMAIN mid.tasks = 1 .. Len(mid.tasks)
  BY <1>2, TxFields
<1>4. \A i \in 1 .. Len(new.tasks) : new.tasks[i] = mid.tasks[i]
  BY <1>2, <1>3
<1>5. new.tasks = mid.tasks
  BY <1>2, <1>3, <1>4, SequenceEqual
<1>6. new = mid
  BY <1>2, <1>5, TxEqual
<1> QED
  BY <1>6 DEF new

(* What a handler holds says in which phase its task is.                      *)
LEMMA LocalsAre ==
    ASSUME IInv, NEW l \in local
    PROVE  /\ LocalFits(db, l) /\ l.task \in DOMAIN db.tasks
           /\ db.tasks[l.task].status = "live" /\ ~db.tasks[l.task].marked
           /\ l.step \in {"prepared", "streaming", "executing", "cut"}
           /\ l.step = "prepared" => db.tasks[l.task].kind = "gen" /\ db.tasks[l.task].phase = "prepare"
           /\ l.step = "streaming" => db.tasks[l.task].kind = "gen" /\ db.tasks[l.task].phase = "request"
           /\ l.step = "executing" => db.tasks[l.task].kind = "tool" /\ db.tasks[l.task].phase = "execute"
           /\ l.step = "cut" => db.tasks[l.task].kind = "comp" /\ db.tasks[l.task].phase = "select"
BY DEF IInv, LocalFits

(* A request starts to stream.                                                *)
LEMMA RequestStartKeeps ==
    ASSUME IInv, NEW t \in Tasks, RequestStart(t)
    PROVE  Onward
<1> DEFINE mid == ConvertPartial(db)
           gen == "attempt"
           new == [mid EXCEPT !.live.gen = gen]
           l0 == Local(t, "streaming", {}, 0, {})
           old == db.tasks[t]
<1>1. /\ Gen(t) /\ Live(t) /\ (\A c \in Task(t).on : Terminal(c)) /\ env' = env
      /\ old.phase = "request" /\ ~old.marked /\ old.kind = "gen" /\ old.status = "live"
      /\ db' = new /\ local' = local \cup {l0}
  BY DEF RequestStart, Runs, Free, Task, Gen, Live
<1>2. /\ Sound(db) /\ db \in TxRec /\ TasksAgree(db) /\ AskedFits(db, t)
      /\ t \in LiveOf(db, "gen") /\ t \in DOMAIN db.tasks /\ OwnsDone(db, t)
  BY <1>1, GenActs
<1>3. /\ Grown(db, mid, 0) /\ mid.tasks = db.tasks /\ mid.live = db.live /\ mid.subs = db.subs
      /\ \A i \in DOMAIN mid.entries : i > Len(db.entries) => mid.entries[i].kind # "result" /\ mid.entries[i].calls = {}
  BY <1>2, ConvertIs
<1> HIDE DEF mid
<1>4. gen \in Gens
  BY DEF Gens
<1> HIDE DEF gen
<1>5. /\ Grown(db, new, 0) /\ new.entries = mid.entries /\ new.subs = mid.subs /\ new.tasks = mid.tasks
      /\ new.live.run = mid.live.run
  BY <1>2, <1>3, <1>4, GrownGen
<1> HIDE DEF new
<1>6. new \in TxRec /\ t \in DOMAIN new.tasks /\ new.tasks[t] = old /\ new.tasks = db.tasks
  BY <1>2, <1>3, <1>5 DEF Grown, Recorded
<1>7. SetTask(new, t, old) = new
  BY <1>6, SetSame
<1>8. StillGen(old, old) /\ old.on \subseteq DOMAIN new.tasks
  BY <1>2, <1>3, <1>5, StillSelf
<1>9. 0 # t
  BY <1>2, TxFields
<1> DEFINE new2 == SetTask(new, t, old)
<1>10. Continued(db, new2, t)
  <2> HIDE DEF old
  <2>1. StillGen(db.tasks[t], old)
    BY <1>8 DEF old
  <2> QED
    BY <1>2, <1>5, <1>8, <1>9, <2>1, GenContinues
<1> HIDE DEF new2
<1>11. Continued(db, new, t)
  BY <1>7, <1>10 DEF new2
<1>12. HandsFree(db, new, t)
  <2>1. \A c \in DOMAIN new.tasks : ~(c > Len(db.tasks))
    BY <1>2, <1>6, TxFields
  <2>2. t \notin LiveOf(db, "tool")
    BY <1>1 DEF LiveOf
  <2> QED
    BY <1>1, <1>3, <1>5, <1>6, <2>1, <2>2 DEF HandsFree
<1>13. SummaryFits(new, t)
  BY <1>1, <1>6 DEF SummaryFits, LiveOf
<1>14. AskedFits(new, t)
  <2>1. Saw(db, old.cutoff)
    BY <1>1, <1>2 DEF AskedFits
  <2>2. Saw(new, old.cutoff)
    BY <1>3, <1>5, <2>1, SawSame
  <2> QED
    BY <1>1, <1>6, <2>2 DEF AskedFits
<1>15. \A l : l.task = t /\ l.step = "streaming" => LocalFits(new, l)
  BY <1>1, <1>2, <1>6 DEF LocalFits
<1>16. l0.task = t /\ l0.step = "streaming"
  BY DEF Local
<1> HIDE DEF l0
<1>17. \A l \in local' :
         \/ l \in local /\ l.task # t /\ db'.tasks[l.task].status = "live" /\ ~db'.tasks[l.task].marked
         \/ LocalFits(db', l)
  <2> SUFFICES ASSUME NEW l \in local'
               PROVE  \/ l \in local /\ l.task # t /\ new.tasks[l.task].status = "live" /\ ~new.tasks[l.task].marked
                      \/ LocalFits(new, l)
    BY <1>1
  <2>1. CASE l = l0
    BY <1>15, <1>16, <2>1
  <2>2. CASE l \in local
    BY <1>1, <1>6, <1>15, <2>2, LocalsAre
  <2> QED
    BY <1>1, <2>1, <2>2
<1> QED
  BY <1>1, <1>11, <1>12, <1>13, <1>14, <1>17, GoesOnKeeps

-----------------------------------------------------------------------------
(* A request that has its reply.                                              *)
LEMMA ReplyIs ==
    ASSUME IInv, NEW t \in Tasks, HasReply(t)
    PROVE  /\ Gen(t) /\ Live(t) /\ (\A c \in Task(t).on : Terminal(c))
           /\ db.tasks[t].phase \in {"request", "poll"} /\ db.tasks[t].phase # "tools"
           /\ Saw(db, db.tasks[t].cutoff) /\ db.tasks[t].cutoff \in Nat
           /\ Sound(db) /\ db \in TxRec /\ TasksAgree(db) /\ Recorded(db, db) /\ Carries(db, db, {})
           /\ t \in LiveOf(db, "gen") /\ t \in DOMAIN db.tasks /\ OwnsDone(db, t) /\ 0 # t
           /\ Busy(db) /\ db.live.run.task = t
           /\ StillGen(db.tasks[t], db.tasks[t])
<1>1. /\ Gen(t) /\ Live(t) /\ (\A c \in Task(t).on : Terminal(c))
      /\ db.tasks[t].phase \in {"request", "poll"}
  BY DEF HasReply, Runs, Task
<1>2. /\ Sound(db) /\ db \in TxRec /\ TasksAgree(db) /\ Recorded(db, db) /\ Carries(db, db, {})
      /\ t \in LiveOf(db, "gen") /\ t \in DOMAIN db.tasks /\ OwnsDone(db, t)
      /\ Busy(db) /\ db.live.run.task = t /\ AskedFits(db, t)
  BY <1>1, GenActs
<1>3. StillGen(db.tasks[t], db.tasks[t])
  BY <1>2, StillSelf
<1>4. 0 # t /\ db.tasks[t].cutoff \in Nat
  BY <1>2, TaskFields
<1>5. Saw(db, db.tasks[t].cutoff)
  BY <1>1, <1>2 DEF AskedFits
<1> QED
  BY <1>1, <1>2, <1>3, <1>4, <1>5

Message(kind, ref) == [Blank EXCEPT !.kind = kind, !.ref = ref]

(* The entry of a message.                                                    *)
LEMMA MessageIs ==
    ASSUME NEW kind \in {"user", "system", "failed", "assistant"}, NEW ref \in Nat
    PROVE  LET e == Message(kind, ref) IN
           e \in EntryRec /\ PlainEntry(e) /\ e.by = 0 /\ e.kind = kind /\ e.ref = ref /\ e.calls = {}
<1> DEFINE base == Blank
           e == [base EXCEPT !.kind = kind, !.ref = ref]
<1>1. /\ base \in EntryRec /\ base.head = 0 /\ base.by = 0 /\ base.cover = {} /\ base.calls = {}
  BY BlankType
<1>2. Message(kind, ref) = e
  BY DEF Message
<1> HIDE DEF base
<1>3. kind \in EntryKinds /\ kind \notin HeadKinds
  BY DEF EntryKinds, HeadKinds
<1>4. /\ e \in EntryRec /\ PlainEntry(e) /\ e.by = 0 /\ e.kind = kind /\ e.ref = ref /\ e.calls = {}
  BY <1>1, <1>3 DEF EntryRec, PlainEntry
<1> HIDE DEF e
<1> QED
  BY <1>2, <1>4

(* The entry of an answer: it refers to the newest entry its request included.*)
LEMMA AssistantIs ==
    ASSUME IInv, NEW t \in Tasks, HasReply(t), NEW kind \in {"assistant", "failed"}
    PROVE  LET e == Assistant(t, kind) IN
           /\ e \in EntryRec /\ PlainEntry(e) /\ e.by = 0 /\ e.kind = kind /\ e.ref = db.tasks[t].cutoff /\ e.calls = {}
<1>1. db.tasks[t].cutoff \in Nat
  BY ReplyIs
<1> DEFINE ref == db.tasks[t].cutoff
           e == Message(kind, ref)
<1>2. Assistant(t, kind) = e
  BY DEF Assistant, Task, Message
<1> HIDE DEF ref
<1>3. kind \in {"user", "system", "failed", "assistant"} /\ ref \in Nat
  BY <1>1 DEF ref
<1>4. e \in EntryRec /\ PlainEntry(e) /\ e.by = 0 /\ e.kind = kind /\ e.ref = ref /\ e.calls = {}
  BY <1>3, MessageIs
<1> HIDE DEF e
<1> QED
  BY <1>2, <1>4 DEF ref

(* A provider defers its answer and the generation polls for it.              *)
LEMMA DeferredKeeps ==
    ASSUME IInv, NEW t \in Tasks, Deferred(t)
    PROVE  Onward
<1> DEFINE gen == "deferred"
           mid == [db EXCEPT !.live.gen = gen]
           old == db.tasks[t]
           phase == "poll"
           task == InPhase(old, phase)
<1>1. HasReply(t) /\ env' = env /\ CommitPhase(t, SetTask(mid, t, task))
  BY DEF Deferred, Spend, InPhase, Task
<1>2. /\ db \in TxRec /\ Recorded(db, db) /\ t \in LiveOf(db, "gen") /\ OwnsDone(db, t) /\ 0 # t
      /\ StillGen(old, old) /\ old.phase # "tools" /\ Saw(db, old.cutoff) /\ TasksAgree(db)
  BY <1>1, ReplyIs
<1>3. Grown(db, db, 0)
  BY <1>2 DEF Grown
<1>4. gen \in Gens /\ phase \in Phases
  BY DEF Gens, Phases
<1> HIDE DEF gen
<1>5. /\ Grown(db, mid, 0) /\ mid.entries = db.entries /\ mid.subs = db.subs /\ mid.tasks = db.tasks
      /\ mid.live.run = db.live.run
  BY <1>2, <1>3, <1>4, GrownGen
<1> HIDE DEF mid, old
<1>6. StillGen(old, task) /\ task.phase = phase /\ task.on = old.on /\ task.cutoff = old.cutoff
  <2> HIDE DEF phase
  <2> QED
    BY <1>2, <1>4, GenInPhase
<1> HIDE DEF task
<1>7. task.phase = "poll"
  BY <1>6
<1>8. old.on \subseteq DOMAIN db.tasks /\ StillGen(db.tasks[t], task) /\ db.tasks[t].phase # "tools"
  BY <1>2, <1>6, StillSelf DEF old
<1>9. Saw(mid, task.cutoff)
  BY <1>2, <1>5, <1>6, SawSame
<1>10. \A i \in DOMAIN mid.entries : ~(i > Len(db.entries))
  BY <1>2, <1>5, TxFields
<1>11. task.on \subseteq DOMAIN mid.tasks
  BY <1>5, <1>6, <1>8
<1> QED
  BY <1>1, <1>2, <1>5, <1>7, <1>8, <1>9, <1>10, <1>11, GenGoesKeeps

(* A failed attempt is noted and the generation backs off.                    *)
LEMMA RetryLaterKeeps ==
    ASSUME IInv, NEW t \in Tasks, RetryLater(t)
    PROVE  Onward
<1> DEFINE gen == "retry"
           e == Assistant(t, "failed")
           answered == AppendEntry(db, e)
           mid == [answered EXCEPT !.live.gen = gen]
           old == db.tasks[t]
           phase == "retry"
           task == InPhase(old, phase)
<1>1. HasReply(t) /\ env' = env /\ CommitPhase(t, SetTask(mid, t, task))
  BY DEF RetryLater, Free, InPhase, Task
<1>2. /\ Sound(db) /\ db \in TxRec /\ t \in LiveOf(db, "gen") /\ OwnsDone(db, t) /\ 0 # t
      /\ StillGen(old, old) /\ old.phase # "tools" /\ TasksAgree(db)
  BY <1>1, ReplyIs
<1>3. e \in EntryRec /\ PlainEntry(e) /\ e.by = 0 /\ e.kind = "failed" /\ e.calls = {}
  BY <1>1, AssistantIs
<1> HIDE DEF e
<1>4. Appends(db, answered, "failed")
  BY <1>2, <1>3, AppendsIs
<1> HIDE DEF answered
<1>5. gen \in Gens /\ phase \in Phases
  BY DEF Gens, Phases
<1> HIDE DEF gen
<1>6. Grown(db, answered, 0)
  BY <1>4 DEF Appends
<1>7. /\ Grown(db, mid, 0) /\ mid.entries = answered.entries /\ mid.tasks = answered.tasks
  BY <1>2, <1>5, <1>6, GrownGen
<1> HIDE DEF mid, old
<1>8. StillGen(old, task) /\ task.phase = phase /\ task.on = old.on
  <2> HIDE DEF phase
  <2> QED
    BY <1>2, <1>5, GenInPhase
<1> HIDE DEF task
<1>9. task.phase = "retry"
  BY <1>8
<1>10. old.on \subseteq DOMAIN db.tasks /\ StillGen(db.tasks[t], task) /\ db.tasks[t].phase # "tools"
  BY <1>2, <1>8, StillSelf DEF old
<1>11. \A i \in DOMAIN mid.entries : i > Len(db.entries) => mid.entries[i].kind # "result" /\ mid.entries[i].calls = {}
  BY <1>4, <1>7 DEF Appends
<1>12. task.on \subseteq DOMAIN mid.tasks
  BY <1>4, <1>7, <1>8, <1>10 DEF Appends
<1> QED
  BY <1>1, <1>2, <1>7, <1>9, <1>10, <1>11, <1>12, GenGoesKeeps

(* A commit that a handler makes between two phases, while it holds nothing.   *)
LEMMA HoldsNothing ==
    ASSUME IInv, NEW t \in Tasks, Gen(t), Task(t).phase \notin {"prepare", "request"}, NEW tx, Commit(tx)
    PROVE  CommitPhase(t, tx)
<1>1. \A l \in local : l.task # t
  BY LocalsAre DEF Gen, Task
<1> QED
  BY <1>1 DEF Commit, CommitPhase, Kept

(* A generation tries again after its backoff.                                *)
LEMMA RetryWakeKeeps ==
    ASSUME IInv, NEW t \in Tasks, RetryWake(t)
    PROVE  Onward
<1> DEFINE gen == "attempt"
           mid == [db EXCEPT !.live.gen = gen]
           old == db.tasks[t]
           phase == "prepare"
           first == InPhase(old, phase)
           task == Tries(first, old.attempt + 1)
<1>1. /\ Gen(t) /\ Live(t) /\ (\A c \in Task(t).on : Terminal(c)) /\ env' = env /\ old.phase = "retry"
      /\ Commit(SetTask(mid, t, task))
  BY DEF RetryWake, Runs, Free, InPhase, Tries, Task
<1>2. /\ db \in TxRec /\ Recorded(db, db) /\ t \in LiveOf(db, "gen") /\ OwnsDone(db, t) /\ TasksAgree(db) /\ t \in DOMAIN db.tasks
  BY <1>1, GenActs
<1>3. CommitPhase(t, SetTask(mid, t, task))
  BY <1>1, HoldsNothing DEF Task
<1>4. Grown(db, db, 0)
  BY <1>2 DEF Grown
<1>5. gen \in Gens /\ phase \in Phases
  BY DEF Gens, Phases
<1> HIDE DEF gen
<1>6. /\ Grown(db, mid, 0) /\ mid.entries = db.entries /\ mid.tasks = db.tasks
  BY <1>2, <1>4, <1>5, GrownGen
<1>7. StillGen(old, old) /\ old.attempt + 1 \in Nat /\ 0 # t
  BY <1>2, StillSelf, TaskFields DEF TaskRec
<1>8. old.on \subseteq DOMAIN db.tasks /\ db.tasks[t].phase = "retry"
  BY <1>1, <1>2, StillSelf
<1> HIDE DEF mid, old
<1>9. StillGen(old, first) /\ first.phase = phase /\ first.on = old.on
  <2> HIDE DEF phase
  <2> QED
    BY <1>5, <1>7, GenInPhase
<1> HIDE DEF first
<1>10. StillGen(first, first)
  BY <1>9, StillNow
<1>11. StillGen(first, task) /\ task.phase = first.phase /\ task.on = first.on
  BY <1>7, <1>10, GenTries
<1> HIDE DEF task
<1>12. StillGen(db.tasks[t], task) /\ task.phase = "prepare" /\ task.on \subseteq DOMAIN mid.tasks
  BY <1>6, <1>8, <1>9, <1>11, StillTwice DEF old
<1>13. \A i \in DOMAIN mid.entries : ~(i > Len(db.entries))
  BY <1>2, <1>6, TxFields
<1> QED
  BY <1>1, <1>2, <1>3, <1>6, <1>7, <1>8, <1>12, <1>13, GenGoesKeeps

(* What has grown without a compaction has grown for any owner.               *)
LEMMA GrownOwner ==
    ASSUME NEW tx, NEW mid, NEW owner, NEW owner2, Grown(tx, mid, owner), mid.tasks = tx.tasks,
           mid.live.compactions = tx.live.compactions
    PROVE  Grown(tx, mid, owner2)
BY DEF Grown

(* A request that overflows the model's window creates a compaction and       *)
(* prepares again.                                                            *)
LEMMA OverflowKeeps ==
    ASSUME IInv, NEW t \in Tasks, Overflow(t)
    PROVE  Onward
<1> DEFINE child == Len(db.tasks) + 1
           gen == "none"
           e == Assistant(t, "failed")
           failed == AppendEntry(db, e)
           answered == [failed EXCEPT !.live.gen = gen]
           old == db.tasks[t]
           phase == "prepare"
           via == "overflow"
           first == InPhase(old, phase)
           second == Waits(first, {child})
           task == Compacts(second, child, via)
<1>1. /\ HasReply(t) /\ env' = env
      /\ CommitPhase(t, SetTask(CreateCompaction(answered, t, FALSE), t, task))
  BY DEF Overflow, Spend, InPhase, Waits, Compacts, Task
<1>2. /\ Sound(db) /\ db \in TxRec /\ t \in LiveOf(db, "gen") /\ OwnsDone(db, t) /\ 0 # t
      /\ StillGen(old, old) /\ old.phase # "tools" /\ TasksAgree(db) /\ t \in DOMAIN db.tasks
  BY <1>1, ReplyIs
<1>3. e \in EntryRec /\ PlainEntry(e) /\ e.by = 0 /\ e.kind = "failed" /\ e.calls = {}
  BY <1>1, AssistantIs
<1> HIDE DEF task
<1>4. PICK background \in BOOLEAN : CommitPhase(t, SetTask(CreateCompaction(answered, t, background), t, task))
  BY <1>1, FALSE \in BOOLEAN, Zenon
<1> HIDE DEF e
<1>5. Appends(db, failed, "failed")
  BY <1>2, <1>3, AppendsIs
<1> HIDE DEF failed
<1>6. gen \in Gens /\ phase \in Phases /\ via \in Vias
  BY DEF Gens, Phases, Vias
<1> HIDE DEF gen
<1>7. Grown(db, failed, 0) /\ failed.tasks = db.tasks /\ failed.live = db.live
  BY <1>5 DEF Appends
<1>8. Grown(db, failed, t)
  BY <1>7, GrownOwner
<1>9. /\ Grown(db, answered, t) /\ answered.entries = failed.entries /\ answered.tasks = failed.tasks
  BY <1>2, <1>6, <1>8, GrownGen
<1> HIDE DEF answered
<1>10. child \in Nat /\ child \in 1 .. child /\ Len(db.tasks) \in Nat /\ {child} \in SUBSET Nat /\ t \in Nat
       /\ DOMAIN db.tasks = 1 .. Len(db.tasks)
  BY <1>2, TxFields
<1>11. answered.tasks = db.tasks
  BY <1>7, <1>9
<1>12. answered.live.compactions = db.live.compactions
  <2>1. answered = [failed EXCEPT !.live.gen = gen] /\ failed \in TxRec
    BY <1>7 DEF answered, Grown, Recorded
  <2>2. answered.live.compactions = failed.live.compactions
    BY <1>6, <2>1, WithGen DEF answered
  <2> QED
    BY <1>7, <2>2
<1> DEFINE mid == CreateCompaction(answered, t, background)
<1>13. Grown(db, mid, t) /\ mid.entries = answered.entries /\ DOMAIN mid.tasks = 1 .. child
  BY <1>2, <1>4, <1>9, <1>10, <1>11, <1>12, GrownBy
<1> HIDE DEF mid, child, old
<1>14. StillGen(old, first) /\ first.phase = phase
  <2> HIDE DEF phase
  <2> QED
    BY <1>2, <1>6, GenInPhase
<1> HIDE DEF first, via
<1>15. StillGen(first, first)
  BY <1>14, StillNow
<1>16. StillGen(first, second) /\ second.phase = first.phase /\ second.on = {child}
  BY <1>10, <1>15, GenWaits
<1> HIDE DEF second
<1>17. StillGen(second, second)
  BY <1>16, StillNow
<1>18. StillGen(second, task) /\ task.phase = second.phase /\ task.on = {child} /\ task.compacted = child
  BY <1>6, <1>10, <1>16, <1>17, GenCompacts DEF task
<1>19. StillGen(db.tasks[t], task) /\ task.phase = "prepare"
  BY <1>14, <1>16, <1>18, StillTwice DEF old
<1>20. task.on \subseteq DOMAIN mid.tasks
  BY <1>10, <1>13, <1>18
<1>21. CommitPhase(t, SetTask(mid, t, task)) /\ db.tasks[t].phase # "tools" /\ Len(db.tasks) + 1 = child
  BY <1>2, <1>4 DEF mid, old, child
<1>22. \A i \in DOMAIN mid.entries : i > Len(db.entries) => mid.entries[i].kind # "result" /\ mid.entries[i].calls = {}
  BY <1>5, <1>9, <1>13 DEF Appends
<1> QED
  BY <1>1, <1>2, <1>13, <1>18, <1>19, <1>20, <1>21, <1>22, GenGoesKeeps

(* A model error for good fails the run.                                      *)
LEMMA ModelErrorKeeps ==
    ASSUME IInv, NEW t \in Tasks, ModelError(t)
    PROVE  Onward
<1> DEFINE e == Assistant(t, "failed")
           answered == AppendEntry(db, e)
           why == "model_error"
           run == db.live.run.task
           mid == EndRun(answered, run, "unanswered", 0, why)
<1>1. HasReply(t) /\ env' = env
  BY DEF ModelError, Free
<1>2. /\ Sound(db) /\ db \in TxRec /\ t \in LiveOf(db, "gen") /\ OwnsDone(db, t) /\ db.tasks[t].phase # "tools" /\ run = t
  BY <1>1, ReplyIs
<1>3. db' = Ended(mid, t, "failed") /\ local' \subseteq Kept(db')
  BY <1>2 DEF ModelError, CommitPhase
<1>4. e \in EntryRec /\ PlainEntry(e) /\ e.by = 0 /\ e.kind = "failed" /\ e.calls = {}
  BY <1>1, AssistantIs
<1> HIDE DEF e
<1>5. Appends(db, answered, "failed")
  BY <1>2, <1>4, AppendsIs
<1> HIDE DEF answered
<1>6. /\ Carries(db, answered, {}) /\ answered.live.run.task = db.live.run.task
      /\ answered.tasks = db.tasks /\ answered.live.compactions = db.live.compactions
  BY <1>5 DEF Appends
<1>7. why \in Reasons
  BY DEF Reasons
<1> HIDE DEF why
<1>8. GenOver(db, mid) /\ mid.entries = answered.entries
  BY <1>2, <1>6, <1>7, EndRunOver
<1> HIDE DEF mid
<1>9. "failed" \in Outcomes
  BY DEF Outcomes
<1>10. RoundOver(db, mid, t, "failed")
  <2>1. \A i \in DOMAIN mid.entries : i > Len(db.entries) => mid.entries[i].calls = {} /\ mid.entries[i].kind # "result"
    BY <1>5, <1>8 DEF Appends
  <2> QED
    BY <1>2, <2>1, QuietRoundOver
<1> QED
  BY <1>1, <1>2, <1>3, <1>8, <1>9, <1>10, GenEndKeeps

-----------------------------------------------------------------------------
(* Answers and ends of runs.                                               *)

(* An answer settles every input of the run that was made for it.              *)
LEMMA InputsHaveAnswer ==
    ASSUME NEW tx, Sound(tx), NEW tx2 \in TxRec, Forward(tx, tx2), NEW answer \in DOMAIN tx2.entries,
           answer <= Len(tx.entries) + 1, tx2.entries[answer].kind = "assistant",
           Saw(tx, tx2.entries[answer].ref)
    PROVE  \A s \in Range(tx.live.run.inputs) : AnsweredBy(tx2.entries, tx2.subs[s].entry, answer)
<1>1. tx \in TxRec /\ TxInv(tx, DOMAIN tx.inbox, {}) /\ Fresh(tx, Range(tx.live.run.inputs))
  BY SoundParts
<1>2. /\ Len(tx.entries) \in Nat /\ DOMAIN tx.entries = 1 .. Len(tx.entries)
      /\ DOMAIN tx2.entries = 1 .. Len(tx2.entries) /\ Len(tx2.entries) \in Nat
  BY <1>1, TxFields
<1> SUFFICES ASSUME NEW s \in Range(tx.live.run.inputs)
             PROVE  AnsweredBy(tx2.entries, tx2.subs[s].entry, answer)
  OBVIOUS
<1>3. s \in DOMAIN tx.subs /\ tx.subs[s].status = "placed"
  BY <1>1, InputsPlaced
<1>4. tx2.subs[s].entry = tx.subs[s].entry
  BY <1>3 DEF Forward
<1>5. tx.subs[s].entry \in Nat /\ tx.subs[s].entry # 0
  BY <1>1, <1>3, SubFields DEF TxInv, Placement
<1>6. tx2.subs[s].entry <= tx2.entries[answer].ref
  BY <1>4 DEF Saw
<1>7. \A i \in tx2.subs[s].entry .. answer : tx2.entries[i].kind # "reset"
  <2> SUFFICES ASSUME NEW i \in tx2.subs[s].entry .. answer, i # answer
               PROVE  tx2.entries[i].kind # "reset"
    OBVIOUS
  <2>1. i \in DOMAIN tx.entries /\ i >= tx.subs[s].entry
    BY <1>2, <1>4, <1>5
  <2>2. tx.entries[i].kind # "reset"
    BY <1>1, <2>1 DEF Fresh
  <2>3. tx2.entries[i] = tx.entries[i]
    BY <2>1 DEF Forward, Continues
  <2> QED
    BY <2>2, <2>3
<1> QED
  BY <1>6, <1>7 DEF AnsweredBy

-----------------------------------------------------------------------------
(* A boundary in a step.                                                      *)
Staged(tx, cut) == Carries(tx, cut, {}) /\ cut.tasks = tx.tasks /\ cut.live = tx.live

(* What a boundary has placed can be staged further.                          *)
LEMMA CrossedCarries ==
    ASSUME NEW tx \in TxRec, NEW cut, Staged(tx, cut), NEW at, Crossed(cut, at)
    PROVE  /\ Carries(tx, at.tx, Range(at.users)) /\ at.tx \in TxRec
           /\ at.tx.tasks = tx.tasks /\ at.tx.live = tx.live
<1>1. cut \in TxRec /\ Forward(tx, cut) /\ cut.tasks = tx.tasks /\ cut.live = tx.live
  BY DEF Staged, Carries
<1>2. at.tx \in TxRec /\ Forward(cut, at.tx) /\ TxInv(at.tx, DOMAIN at.tx.inbox, Range(at.users))
      /\ at.tx.tasks = cut.tasks /\ at.tx.live = cut.live
  BY DEF Crossed
<1>3. Forward(tx, at.tx)
  BY <1>1, <1>2, ForwardTwice
<1> QED
  BY <1>1, <1>2, <1>3 DEF Carries

(* The run ends at a boundary, and what the boundary placed starts another.     *)
AfterRun(at, t, status, answer, why) == StartRunOf([at EXCEPT !.tx = EndRun(@, t, status, answer, why)])

(* A run that ends at its final boundary settles its inputs and starts the    *)
(* next run with the users the boundary placed.                               *)
LEMMA BoundaryEnds ==
    ASSUME NEW tx \in TxRec, NEW cut, Staged(tx, cut), NEW start, NEW where, NEW modes,
           NEW at, at = ApplyBoundary(cut, start, where, modes), Crossed(cut, at),
           NEW t, tx.live.run.task = t, NEW status \in Settled, NEW answer \in Nat, NEW why \in Reasons,
           status = "done" => \A s \in Range(tx.live.run.inputs) : AnsweredBy(at.tx.entries, at.tx.subs[s].entry, answer)
    PROVE  LET new == AfterRun(at, t, status, answer, why) IN
           GenOver(tx, new) /\ new.entries = at.tx.entries
<1> DEFINE mid == EndRun(at.tx, t, status, answer, why)
           at2 == [at EXCEPT !.tx = mid]
           U == Range(at.users)
           new == AfterRun(at, t, status, answer, why)
<1>1. Carries(tx, at.tx, U) /\ at.tx \in TxRec /\ at.tx.tasks = tx.tasks /\ at.tx.live = tx.live
  BY CrossedCarries
<1>2. /\ Carries(tx, mid, U) /\ ~Busy(mid)
      /\ mid.entries = at.tx.entries /\ mid.tasks = at.tx.tasks
      /\ mid.live.compactions = at.tx.live.compactions
      /\ \A s \in U : mid.subs[s] = at.tx.subs[s]
  BY <1>1, EndRunKeeps
<1>3. new = StartRunOf(at2)
  BY DEF AfterRun
<1> HIDE DEF mid
<1>4. at2.tx = mid /\ at2.users = at.users
  BY BoundaryShape
<1> HIDE DEF at2, new
<1>5. at.users \in Seq(Nat) /\ (\A i, j \in DOMAIN at.users : at.users[i] = at.users[j] => i = j) /\ Fresh(at.tx, U)
  BY DEF Crossed
<1>6. Fresh(mid, U)
  BY <1>2, <1>5 DEF Fresh
<1> HIDE DEF U
<1>7. Recorded(tx, StartRunOf(at2)) /\ Rerun(mid, StartRunOf(at2))
  <2>1. /\ at2.users \in Seq(Nat) /\ \A i, j \in DOMAIN at2.users : at2.users[i] = at2.users[j] => i = j
    BY <1>4, <1>5
  <2>2. Carries(tx, mid, Range(at2.users)) /\ Fresh(mid, Range(at2.users))
    BY <1>2, <1>4, <1>6 DEF U
  <2> QED
    BY <1>2, <1>4, <2>1, <2>2, StartsAfter
<1>8. /\ new.entries = at.tx.entries /\ new.live.compactions = tx.live.compactions
      /\ \/ new.tasks = tx.tasks /\ ~Busy(new)
         \/ /\ Len(new.tasks) = Len(tx.tasks) + 1
            /\ \A c \in DOMAIN tx.tasks : new.tasks[c] = tx.tasks[c]
            /\ new.tasks[Len(tx.tasks) + 1] = NewTask
            /\ new.live.run.task = Len(tx.tasks) + 1
  BY <1>1, <1>2, <1>3, <1>7 DEF Rerun
<1>9. GenOver(tx, new)
  BY <1>3, <1>7, <1>8 DEF GenOver
<1> QED
  BY <1>8, <1>9 DEF new

(* The run is handed to a successor.                                          *)
LEMMA HandOverIs ==
    ASSUME NEW tx \in TxRec, NEW mid, Carries(tx, mid, {}), mid.tasks = tx.tasks, NEW t, mid.live.run.task = t,
           mid.live.compactions = tx.live.compactions, Fresh(mid, Range(mid.live.run.inputs))
    PROVE  LET new == HandOver(mid, t) IN
           /\ GenOver(tx, new) /\ new.entries = mid.entries /\ new.subs = mid.subs /\ new.inbox = mid.inbox
           /\ new.live.run.inputs = mid.live.run.inputs /\ new \in TxRec
<1> DEFINE task == NewTask
           next == CreateTask(mid, task)
           n == Len(tx.tasks) + 1
           run == [next.live.run EXCEPT !.task = n]
           live == [next.live EXCEPT !.run = run]
           new == [next EXCEPT !.live = live]
<1>1. mid \in TxRec /\ n \in Nat /\ DOMAIN tx.tasks = 1 .. Len(tx.tasks)
  BY TxFields DEF Carries
<1>2. task \in TaskRec
  BY NewTaskType
<1> HIDE DEF task
<1>3. /\ next \in TxRec
      /\ next.entries = mid.entries /\ next.subs = mid.subs /\ next.inbox = mid.inbox /\ next.live = mid.live
      /\ Len(next.tasks) = Len(mid.tasks) + 1
      /\ \A i \in 1 .. Len(mid.tasks) : next.tasks[i] = mid.tasks[i]
      /\ next.tasks[Len(mid.tasks) + 1] = task
  BY <1>1, <1>2, CreateTaskIs
<1>4. HandOver(mid, t) = new
  BY <1>3 DEF HandOver, task
<1> HIDE DEF next
<1>5. next.live \in LiveRec /\ next.live.run \in RunRec
  BY <1>3, TxFields
<1>6. run \in RunRec /\ run.task = n /\ run.inputs = next.live.run.inputs
  BY <1>1, <1>5 DEF RunRec
<1> HIDE DEF run
<1>7. live \in LiveRec /\ live.run = run /\ live.compactions = next.live.compactions
  BY <1>5, <1>6 DEF LiveRec
<1> HIDE DEF live
<1>8. /\ new \in TxRec /\ new.live = live
      /\ new.entries = next.entries /\ new.subs = next.subs /\ new.inbox = next.inbox /\ new.tasks = next.tasks
  BY <1>3, <1>7, WithLive
<1> HIDE DEF new
<1>9. /\ new.entries = mid.entries /\ new.subs = mid.subs /\ new.inbox = mid.inbox
      /\ new.live.run.inputs = mid.live.run.inputs /\ new.live.run.task = n /\ new.live.compactions = tx.live.compactions
  BY <1>3, <1>6, <1>7, <1>8
<1>10. Carries(tx, new, {})
  BY <1>8, <1>9, CarriesSame
<1>11. Fresh(new, Range(new.live.run.inputs))
  BY <1>9 DEF Fresh
<1>12. Recorded(tx, new)
  BY <1>10, <1>11 DEF Recorded, Carries
<1>13. /\ Len(new.tasks) = n /\ \A c \in DOMAIN tx.tasks : new.tasks[c] = tx.tasks[c]
       /\ new.tasks[n] = NewTask
  BY <1>1, <1>3, <1>8 DEF task
<1>14. GenOver(tx, new)
  BY <1>9, <1>12, <1>13 DEF GenOver
<1> QED
  BY <1>4, <1>8, <1>9, <1>14

(* What the live document shows of a generation does not matter to its end.   *)
LEMMA GenOverShows ==
    ASSUME NEW tx \in TxRec, NEW mid, GenOver(tx, mid), NEW gen \in Gens
    PROVE  LET new == [mid EXCEPT !.live.gen = gen] IN
           GenOver(tx, new) /\ new.entries = mid.entries
<1> DEFINE new == [mid EXCEPT !.live.gen = gen]
<1>1. mid \in TxRec /\ Recorded(tx, mid)
  BY DEF GenOver, Recorded
<1>2. /\ new \in TxRec
      /\ new.entries = mid.entries /\ new.subs = mid.subs /\ new.inbox = mid.inbox /\ new.tasks = mid.tasks
      /\ new.live.run = mid.live.run /\ new.live.compactions = mid.live.compactions
  BY <1>1, WithGen
<1> HIDE DEF new
<1>3. Recorded(tx, new)
  BY <1>1, <1>2, RecordedSame
<1>4. Busy(new) <=> Busy(mid)
  BY <1>2 DEF Busy
<1>5. GenOver(tx, new)
  BY <1>2, <1>3, <1>4 DEF GenOver
<1> QED
  BY <1>2, <1>5 DEF new

(* The final boundary of an answer.                                           *)
Boundary(t, e, modes) == ApplyBoundary(AppendEntry(db, e), ActiveStart(db), "final", modes)

(* The boundary of a final answer: the answer was asked with every input of   *)
(* the run, and what is placed behind it takes no input back.                 *)
LEMMA AnswerCrosses ==
    ASSUME IInv, NEW t \in Tasks, HasReply(t), NEW modes,
           NEW e, e = Assistant(t, "assistant"), NEW at, at = Boundary(t, e, modes)
    PROVE  /\ Staged(db, AppendEntry(db, e)) /\ Crossed(AppendEntry(db, e), at)
           /\ at = ApplyBoundary(AppendEntry(db, e), ActiveStart(db), "final", modes)
           /\ Len(AppendEntry(db, e).entries) = Len(db.entries) + 1
           /\ Carries(db, at.tx, Range(at.users)) /\ at.tx.tasks = db.tasks /\ at.tx.live = db.live
           /\ \A s \in Range(db.live.run.inputs) : AnsweredBy(at.tx.entries, at.tx.subs[s].entry, Len(db.entries) + 1)
           /\ \A i \in DOMAIN at.tx.entries : i > Len(db.entries) =>
                /\ at.tx.entries[i].calls = {} /\ at.tx.entries[i].kind # "result"
                /\ at.tx.entries[i].kind = "reset" => at.reset
<1> DEFINE cut == AppendEntry(db, e)
           answer == Len(db.entries) + 1
<1>1. Sound(db) /\ db \in TxRec /\ Saw(db, db.tasks[t].cutoff)
  BY ReplyIs
<1>2. e \in EntryRec /\ PlainEntry(e) /\ e.by = 0 /\ e.kind = "assistant" /\ e.ref = db.tasks[t].cutoff /\ e.calls = {}
  BY AssistantIs
<1>3. Appends(db, cut, "assistant")
  BY <1>1, <1>2, AppendsIs
<1>4. /\ DOMAIN cut.entries = 1 .. answer /\ cut.entries[answer].ref = e.ref /\ cut.entries[answer].kind = "assistant"
  <2>1. answer \in Nat
    BY <1>1, TxFields
  <2>2. Numbered(e, answer).kind = e.kind /\ Numbered(e, answer).ref = e.ref
    <3> HIDE DEF answer
    <3> QED
      BY <1>2, <2>1, NumberedType
  <2>3. DOMAIN cut.entries = 1 .. answer /\ cut.entries[answer] = Numbered(e, answer)
    BY <1>1, <1>2, AppendEntryIs
  <2> HIDE DEF answer, cut
  <2> QED
    BY <1>2, <2>2, <2>3
<1> HIDE DEF cut
<1>5. Staged(db, cut) /\ Extends(db, cut) /\ cut.inbox = db.inbox /\ Len(cut.entries) = answer
  BY <1>3 DEF Appends, Staged
<1>6. cut \in TxRec /\ TxInv(cut, DOMAIN cut.inbox, {})
  BY <1>5 DEF Staged, Carries
<1>7. ActiveStart(db) = ActiveStart(cut)
  <2>1. TxInv(db, DOMAIN db.inbox, {})
    BY <1>1, SoundParts
  <2>2. Transcript(db)
    BY <2>1 DEF TxInv
  <2> QED
    BY <1>1, <1>5, <1>6, <2>2, PlainHeads
<1>8. at = ApplyBoundary(cut, ActiveStart(db), "final", modes)
  BY DEF Boundary, cut
<1>9. Crossed(cut, at)
  BY <1>6, <1>7, <1>8, BoundaryKeeps
<1>10. Carries(db, at.tx, Range(at.users)) /\ at.tx \in TxRec /\ at.tx.tasks = db.tasks /\ at.tx.live = db.live
  BY <1>1, <1>5, <1>9, CrossedCarries
<1>11. at.tx.entries[answer] = cut.entries[answer] /\ answer \in DOMAIN at.tx.entries
  <2>1. Continues(cut, at.tx)
    BY <1>9 DEF Crossed, Forward
  <2>2. answer \in DOMAIN cut.entries
    BY <1>1, <1>4, TxFields
  <2>3. DOMAIN at.tx.entries = 1 .. Len(at.tx.entries) /\ Len(at.tx.entries) \in Nat
    BY <1>10, TxFields
  <2>4. answer \in 1 .. Len(at.tx.entries)
    BY <1>1, <1>5, <2>1, <2>3, TxFields DEF Continues
  <2> QED
    BY <2>1, <2>2, <2>3, <2>4 DEF Continues
<1>12. \A s \in Range(db.live.run.inputs) : AnsweredBy(at.tx.entries, at.tx.subs[s].entry, answer)
  <2>1. Forward(db, at.tx)
    BY <1>10 DEF Carries
  <2>2. Saw(db, at.tx.entries[answer].ref) /\ at.tx.entries[answer].kind = "assistant"
    BY <1>1, <1>2, <1>4, <1>11
  <2>3. answer <= Len(db.entries) + 1
    BY <1>1, TxFields
  <2> HIDE DEF answer
  <2> QED
    BY <1>1, <1>10, <1>11, <2>1, <2>2, <2>3, InputsHaveAnswer
<1>13. \A i \in DOMAIN at.tx.entries : i > Len(db.entries) =>
         /\ at.tx.entries[i].calls = {} /\ at.tx.entries[i].kind # "result"
         /\ at.tx.entries[i].kind = "reset" => at.reset
  <2> SUFFICES ASSUME NEW i \in DOMAIN at.tx.entries, i > Len(db.entries)
               PROVE  /\ at.tx.entries[i].calls = {} /\ at.tx.entries[i].kind # "result"
                      /\ at.tx.entries[i].kind = "reset" => at.reset
    OBVIOUS
  <2>1. CASE i = answer
    BY <1>2, <1>3, <1>4, <1>11, <2>1 DEF Appends
  <2>2. CASE i # answer
    <3>1. i > Len(cut.entries)
      BY <1>1, <1>5, <1>10, <2>2, TxFields
    <3>2. Added(cut, at.tx.entries[i]) /\ (at.reset <=> HasQueuedReset(cut))
      BY <1>9, <3>1 DEF Crossed
    <3> QED
      BY <3>2 DEF Added, Quiet
  <2> QED
    BY <2>1, <2>2
<1> QED
  BY <1>5, <1>8, <1>9, <1>10, <1>12, <1>13 DEF cut

(* An answer after which the run goes on with one more message.                *)
Goes(at, t) == [HandOver(AppendEntry(at.tx, Blank), t) EXCEPT !.live.gen = "none"]

(* A hand-over without new users: the run passes to a new generation with a   *)
(* continuation.                                                              *)
LEMMA AnswerGoesOn ==
    ASSUME IInv, NEW t \in Tasks, HasReply(t), NEW modes,
           NEW e, e = Assistant(t, "assistant"), NEW at, at = Boundary(t, e, modes),
           at.users = <<>>, ~at.reset
    PROVE  LET new == Goes(at, t) IN
           GenOver(db, new) /\ RoundOver(db, new, t, "completed")
<1> DEFINE blank == Blank
           mid == AppendEntry(at.tx, blank)
           next == HandOver(mid, t)
           gen == "none"
           new == [next EXCEPT !.live.gen = gen]
<1>1. /\ Sound(db) /\ db \in TxRec /\ db.tasks[t].phase # "tools" /\ db.live.run.task = t
  BY ReplyIs
<1>2. /\ Carries(db, at.tx, Range(at.users)) /\ at.tx.tasks = db.tasks /\ at.tx.live = db.live
      /\ \A i \in DOMAIN at.tx.entries : i > Len(db.entries) =>
           /\ at.tx.entries[i].calls = {} /\ at.tx.entries[i].kind # "result"
           /\ at.tx.entries[i].kind = "reset" => at.reset
  BY AnswerCrosses
<1>3. Carries(db, at.tx, {})
  <2>1. Range(at.users) = {}
    BY DEF Range
  <2> QED
    BY <1>2, <2>1
<1>4. blank \in EntryRec /\ PlainEntry(blank) /\ blank.by = 0 /\ blank.kind = "user" /\ blank.calls = {}
  BY BlankType DEF PlainEntry, HeadKinds
<1>5. Goes(at, t) = new
  BY DEF Goes
<1> HIDE DEF blank
<1>6. /\ Carries(db, mid, {})
      /\ mid.subs = at.tx.subs /\ mid.inbox = at.tx.inbox /\ mid.live = at.tx.live /\ mid.tasks = at.tx.tasks
      /\ Len(mid.entries) = Len(at.tx.entries) + 1 /\ DOMAIN mid.entries = 1 .. Len(at.tx.entries) + 1
      /\ \A i \in 1 .. Len(at.tx.entries) : mid.entries[i] = at.tx.entries[i]
      /\ mid.entries[Len(at.tx.entries) + 1] = blank
  BY <1>1, <1>3, <1>4, AppendedPlain
<1> HIDE DEF mid
<1>7. \A i \in DOMAIN mid.entries : i > Len(db.entries) =>
        mid.entries[i].calls = {} /\ mid.entries[i].kind # "result" /\ mid.entries[i].kind # "reset"
  <2> SUFFICES ASSUME NEW i \in DOMAIN mid.entries, i > Len(db.entries)
               PROVE  mid.entries[i].calls = {} /\ mid.entries[i].kind # "result" /\ mid.entries[i].kind # "reset"
    OBVIOUS
  <2>1. at.tx \in TxRec
    BY <1>3 DEF Carries
  <2>2. DOMAIN at.tx.entries = 1 .. Len(at.tx.entries) /\ Len(at.tx.entries) \in Nat
    BY <2>1, TxFields
  <2>3. i = Len(at.tx.entries) + 1 \/ i \in 1 .. Len(at.tx.entries)
    BY <1>6, <2>2
  <2> QED
    BY <1>2, <1>4, <1>6, <2>2, <2>3
<1>8. Fresh(mid, Range(mid.live.run.inputs))
  <2>1. TxInv(db, DOMAIN db.inbox, {}) /\ Fresh(db, Range(db.live.run.inputs))
    BY <1>1, SoundParts
  <2>2. mid \in TxRec /\ Forward(db, mid)
    BY <1>6 DEF Carries
  <2>3. /\ Range(db.live.run.inputs) \subseteq DOMAIN db.subs
        /\ \A s \in Range(db.live.run.inputs) : db.subs[s].status = "placed"
    BY <1>1, <2>1, InputsPlaced
  <2>4. Fresh(mid, Range(db.live.run.inputs))
    BY <1>1, <1>7, <2>1, <2>2, <2>3, FreshSame
  <2> QED
    BY <1>2, <1>6, <2>4
<1>9. GenOver(db, next) /\ next.entries = mid.entries
  <2>1. mid.tasks = db.tasks /\ mid.live.run.task = t /\ mid.live.compactions = db.live.compactions
    BY <1>1, <1>2, <1>6
  <2> QED
    BY <1>1, <1>6, <1>8, <2>1, HandOverIs
<1> HIDE DEF next
<1>10. gen \in Gens
  BY DEF Gens
<1> HIDE DEF gen
<1>11. GenOver(db, new) /\ new.entries = mid.entries
  BY <1>1, <1>9, <1>10, GenOverShows
<1> HIDE DEF new
<1>12. RoundOver(db, new, t, "completed")
  BY <1>1, <1>7, <1>11, QuietRoundOver
<1> QED
  BY <1>5, <1>11, <1>12

(* A final answer settles its run, or hands it over.                          *)
LEMMA AnswerKeeps ==
    ASSUME IInv, NEW t \in Tasks, Answer(t)
    PROVE  Onward
<1> DEFINE e == Assistant(t, "assistant")
           done == "done"
           none == "none"
           answer == Len(db.entries) + 1
<1>1. HasReply(t) /\ env' = env
  BY DEF Answer, Free, Spend
<1>2. /\ Sound(db) /\ db \in TxRec /\ t \in LiveOf(db, "gen") /\ OwnsDone(db, t) /\ db.tasks[t].phase # "tools"
      /\ db.live.run.task = t
  BY <1>1, ReplyIs
<1>3. Len(AppendEntry(db, e).entries) = answer
  BY <1>1, AnswerCrosses
<1>4. PICK modes \in Modes, continue \in BOOLEAN :
        LET at == Boundary(t, e, modes) IN
        IF continue /\ at.users = <<>> /\ ~at.reset
        THEN CommitPhase(t, Ended(Goes(at, t), t, "completed"))
        ELSE CommitPhase(t, Ended(AfterRun(at, t, done, answer, none), t, "completed"))
  BY <1>3, Zenon DEF Answer, Boundary, Goes, AfterRun
<1>5. "completed" \in Outcomes /\ done \in Settled /\ none \in Reasons /\ answer \in Nat
  BY <1>2, TxFields DEF Outcomes, Settled, Reasons
<1> DEFINE at == Boundary(t, e, modes)
           cut == AppendEntry(db, e)
<1>6. /\ Staged(db, cut) /\ Crossed(cut, at)
      /\ at = ApplyBoundary(cut, ActiveStart(db), "final", modes)
      /\ \A s \in Range(db.live.run.inputs) : AnsweredBy(at.tx.entries, at.tx.subs[s].entry, answer)
      /\ \A i \in DOMAIN at.tx.entries : i > Len(db.entries) =>
           at.tx.entries[i].calls = {} /\ at.tx.entries[i].kind # "result"
  BY <1>1, AnswerCrosses
<1>7. CASE at.users = <<>> /\ ~at.reset /\ CommitPhase(t, Ended(Goes(at, t), t, "completed"))
  <2> DEFINE new == Goes(at, t)
  <2>1. GenOver(db, new) /\ RoundOver(db, new, t, "completed")
    BY <1>1, <1>7, AnswerGoesOn
  <2>2. db' = Ended(new, t, "completed") /\ local' \subseteq Kept(db')
    BY <1>7 DEF CommitPhase
  <2> HIDE DEF new
  <2> QED
    BY <1>1, <1>2, <1>5, <2>1, <2>2, GenEndKeeps
<1>8. CASE CommitPhase(t, Ended(AfterRun(at, t, done, answer, none), t, "completed"))
  <2> DEFINE new == AfterRun(at, t, done, answer, none)
  <2> HIDE DEF at, cut, answer, none, done
  <2>1. GenOver(db, new) /\ new.entries = at.tx.entries
    BY <1>2, <1>5, <1>6, BoundaryEnds
  <2>2. db' = Ended(new, t, "completed") /\ local' \subseteq Kept(db')
    BY <1>8 DEF CommitPhase
  <2> HIDE DEF new
  <2>3. RoundOver(db, new, t, "completed")
    BY <1>2, <1>6, <2>1, QuietRoundOver
  <2> QED
    BY <1>1, <1>2, <1>5, <2>1, <2>2, <2>3, GenEndKeeps
<1> QED
  BY <1>4, <1>7, <1>8

-----------------------------------------------------------------------------
(* Tool tasks.                                                             *)

(* The result of a call.                                                      *)
ResultOf(ref, call) == [Blank EXCEPT !.kind = "result", !.ref = ref, !.call = call]

(* The entry of a tool result.                                                *)
LEMMA ResultIs ==
    ASSUME NEW ref \in Nat, NEW call \in Nat
    PROVE  LET e == ResultOf(ref, call) IN
           e \in EntryRec /\ PlainEntry(e) /\ e.by = 0 /\ e.kind = "result" /\ e.ref = ref /\ e.call = call /\ e.calls = {}
<1> DEFINE base == Blank
           kind == "result"
           e == [base EXCEPT !.kind = kind, !.ref = ref, !.call = call]
<1>1. /\ base \in EntryRec /\ base.head = 0 /\ base.by = 0 /\ base.cover = {} /\ base.calls = {}
  BY BlankType
<1>2. ResultOf(ref, call) = e
  BY DEF ResultOf
<1>3. kind \in EntryKinds /\ kind \notin HeadKinds
  BY DEF EntryKinds, HeadKinds
<1> HIDE DEF base, kind
<1>4. /\ e \in EntryRec /\ PlainEntry(e) /\ e.by = 0 /\ e.kind = kind /\ e.ref = ref /\ e.call = call /\ e.calls = {}
  BY <1>1, <1>3 DEF EntryRec, PlainEntry
<1> HIDE DEF e
<1> QED
  BY <1>2, <1>4 DEF kind

(* The slots of a round.                                                      *)
WithSlots(tx, slots) == [tx EXCEPT !.live.slots = slots]
OnlySlots(tx, new) ==
    /\ new \in TxRec
    /\ new.entries = tx.entries /\ new.subs = tx.subs /\ new.inbox = tx.inbox /\ new.tasks = tx.tasks
    /\ new.live.run = tx.live.run /\ new.live.compactions = tx.live.compactions

(* The slots of a round in the live document are nobody else's.               *)
LEMMA SlotsChange ==
    ASSUME NEW tx \in TxRec, NEW slots \in Seq(SlotRec)
    PROVE  OnlySlots(tx, WithSlots(tx, slots))
<1> DEFINE live == [tx.live EXCEPT !.slots = slots]
           new == [tx EXCEPT !.live = live]
<1>1. WithSlots(tx, slots) = new
  BY DEF WithSlots
<1>2. tx.live \in LiveRec
  BY TxFields
<1>3. live \in LiveRec /\ live.run = tx.live.run /\ live.compactions = tx.live.compactions
  BY <1>2 DEF LiveRec
<1> HIDE DEF live
<1>4. /\ new \in TxRec /\ new.live = live
      /\ new.entries = tx.entries /\ new.subs = tx.subs /\ new.inbox = tx.inbox /\ new.tasks = tx.tasks
  BY <1>3, WithLive
<1> HIDE DEF new
<1> QED
  BY <1>1, <1>3, <1>4 DEF OnlySlots

SlotStates == {"pending", "running", "done"}
SlotAs(slot, status, entry) == [slot EXCEPT !.status = status, !.entry = entry]

(* A slot in another status is a slot.                                        *)
LEMMA SlotAsIs ==
    ASSUME NEW slot \in SlotRec, NEW status \in SlotStates, NEW entry \in Nat
    PROVE  SlotAs(slot, status, entry) \in SlotRec
BY DEF SlotAs, SlotRec, SlotStates

(* setSlot changes slots only.                                                *)
LEMMA SetSlotIs ==
    ASSUME NEW tx \in TxRec, NEW t, NEW status \in SlotStates, NEW entry \in Nat
    PROVE  OnlySlots(tx, SetSlot(tx, t, status, entry))
<1> DEFINE old == tx.live.slots
           put(i) == IF old[i].task = t THEN SlotAs(old[i], status, entry) ELSE old[i]
           slots == [i \in DOMAIN old |-> put(i)]
<1>1. Len(old) \in Nat /\ DOMAIN old = 1 .. Len(old) /\ \A i \in DOMAIN old : old[i] \in SlotRec
  BY TxFields
<1>2. SetSlot(tx, t, status, entry) = WithSlots(tx, slots)
  BY DEF SetSlot, WithSlots, SlotAs
<1>3. \A i \in DOMAIN old : put(i) \in SlotRec
  BY <1>1, SlotAsIs
<1> HIDE DEF put
<1>4. slots \in Seq(SlotRec)
  BY <1>1, <1>3
<1> HIDE DEF slots
<1> QED
  BY <1>2, <1>4, SlotsChange

-----------------------------------------------------------------------------
(* A tool task ends.                                                          *)
ToolOver(tx, mid, c, outcome) ==
    /\ Concluded(tx, mid, c) /\ mid.tasks = tx.tasks
    /\ \/ mid.entries = tx.entries /\ outcome = "faulted"
       \/ /\ Len(mid.entries) = Len(tx.entries) + 1
          /\ mid.entries[Len(tx.entries) + 1] = ResultOf(tx.tasks[c].ref, tx.tasks[c].call)

(* A tool task that ends with the result of its call keeps the invariant.     *)
LEMMA ToolEndKeeps ==
    ASSUME IInv, env' = env, NEW t \in LiveOf(db, "tool"), NEW mid, NEW outcome \in Outcomes, ToolOver(db, mid, t, outcome),
           db' = Ended(mid, t, outcome), local' \subseteq Kept(db')
    PROVE  Onward
<1> DEFINE new == Ended(mid, t, outcome)
           ref == db.tasks[t].ref
           call == db.tasks[t].call
<1>1. db \in TxRec /\ TasksAgree(db) /\ CallsAgree(db) /\ t \in DOMAIN db.tasks
      /\ \A c \in DOMAIN db.tasks : AskedFits(db, c)
  BY SoundParts DEF IInv, LiveOf
<1>2. /\ Moves(db, new, t) /\ new.entries = mid.entries
      /\ new.tasks[t].status = "done" /\ new.tasks[t].outcome = outcome
      /\ new.tasks[t].kind = db.tasks[t].kind /\ new.tasks[t].ref = ref
      /\ new.tasks[t].call = call
      /\ Len(new.tasks) = Len(mid.tasks)
  BY <1>1, Concludes DEF ToolOver
<1>3. db' = new
  OBVIOUS
<1> HIDE DEF new
<1>4. new \in TxRec /\ t \in DOMAIN new.tasks
  BY <1>1, <1>2, TaskFields DEF Moves, Recorded
<1>5. ref \in DOMAIN db.entries
  <2> DEFINE g == db.tasks[t].owner
  <2>1. Hosts(db, g, t, "tools") /\ ref = db.tasks[g].ref
    BY <1>1 DEF TasksAgree, TaskFits, LiveOf
  <2> QED
    BY <1>1, <2>1 DEF Hosts, AskedFits, LiveOf
<1>6. ref \in Nat /\ call \in Nat
  BY <1>1, TaskFields DEF TaskRec
<1> HIDE DEF ref, call
<1>7. CallEnds(db, new, t)
  <2>1. t \in LiveOf(db, "tool") /\ new.tasks[t].status = "done" /\ Len(new.tasks) = Len(db.tasks)
    BY <1>2 DEF ToolOver
  <2>2. CASE mid.entries = db.entries /\ outcome = "faulted"
    <3>1. \A i \in DOMAIN new.entries : ~(i > Len(db.entries))
      BY <1>1, <1>2, <2>2, TxFields
    <3>2. Gave(new, ref, call)
      BY <1>2, <1>4, <2>2 DEF Gave
    <3> QED
      BY <2>1, <3>1, <3>2 DEF CallEnds, ref, call
  <2>3. CASE /\ Len(mid.entries) = Len(db.entries) + 1
             /\ mid.entries[Len(db.entries) + 1] = ResultOf(ref, call)
    <3> DEFINE n == Len(db.entries) + 1
    <3>1. n \in DOMAIN new.entries /\ \A i \in DOMAIN new.entries : i > Len(db.entries) => i = n
      BY <1>1, <1>2, <1>4, <2>3, TxFields
    <3>2. IsResult(new, n, ref, call) /\ new.entries[n].calls = {}
      BY <1>2, <1>6, <2>3, ResultIs DEF IsResult
    <3> HIDE DEF n
    <3>3. HasResult(new, ref, call)
      BY <3>1, <3>2 DEF HasResult
    <3>4. \A i \in DOMAIN new.entries : i > Len(db.entries) =>
            i = Len(db.entries) + 1 /\ new.entries[i].calls = {} /\ IsResult(new, i, ref, call)
      BY <3>1, <3>2 DEF n
    <3> QED
      BY <2>1, <3>3, <3>4 DEF CallEnds, ref, call
  <2> QED
    BY <2>2, <2>3 DEF ToolOver, ref, call
<1>8. CallsAgree(new)
  BY <1>1, <1>2, <1>5, <1>7, CallEndsOnce DEF ref
<1>9. SummaryFits(new, t) /\ AskedFits(new, t)
  BY <1>2 DEF SummaryFits, AskedFits, LiveOf
<1>10. \A l \in local' : l \in local /\ l.task # t /\ new.tasks[l.task].status = "live" /\ ~new.tasks[l.task].marked
  BY <1>2, <1>3 DEF Kept
<1> QED
  BY <1>2, <1>3, <1>8, <1>9, <1>10, CommitKeeps

(* Records with which a tool task may end.                                     *)
LEMMA ToolOverIs ==
    ASSUME NEW tx \in TxRec, NEW t \in LiveOf(tx, "tool"), NEW mid, Carries(tx, mid, {}),
           Fresh(tx, Range(tx.live.run.inputs)), TxInv(tx, DOMAIN tx.inbox, {}),
           mid.tasks = tx.tasks, mid.live.run = tx.live.run,
           mid.live.compactions = tx.live.compactions,
           NEW outcome,
           \/ mid.entries = tx.entries /\ outcome = "faulted"
           \/ /\ Len(mid.entries) = Len(tx.entries) + 1
              /\ mid.entries[Len(tx.entries) + 1] = ResultOf(tx.tasks[t].ref, tx.tasks[t].call)
    PROVE  ToolOver(tx, mid, t, outcome)
<1>1. t \in DOMAIN tx.tasks /\ tx.tasks[t].kind = "tool" /\ tx.tasks[t].status = "live"
      /\ tx.tasks[t].ref \in Nat /\ tx.tasks[t].call \in Nat
  BY TaskFields DEF LiveOf, TaskRec
<1>2. mid \in TxRec
  BY DEF Carries
<1>3. \A i \in DOMAIN mid.entries : i > Len(tx.entries) => mid.entries[i].kind # "reset"
  <2>1. CASE mid.entries = tx.entries
    BY <2>1, TxFields
  <2>2. CASE /\ Len(mid.entries) = Len(tx.entries) + 1
             /\ mid.entries[Len(tx.entries) + 1] = ResultOf(tx.tasks[t].ref, tx.tasks[t].call)
    <3>1. mid.entries[Len(tx.entries) + 1].kind = "result"
      BY <1>1, <2>2, ResultIs
    <3>2. \A i \in DOMAIN mid.entries : i > Len(tx.entries) => i = Len(tx.entries) + 1
      BY <1>2, <2>2, TxFields
    <3> QED
      BY <3>1, <3>2
  <2> QED
    BY <2>1, <2>2
<1>4. Grown(tx, mid, 0)
  BY <1>3, GrownSame
<1>5. Recorded(tx, mid)
  BY <1>4 DEF Grown
<1> QED
  BY <1>1, <1>5 DEF ToolOver, Concluded

(* A tool task settles: its result and its outcome in one commit.             *)
LEMMA SettleToolKeeps ==
    ASSUME IInv, env' = env, NEW t \in Tasks, Tool(t), Live(t), NEW outcome \in Outcomes, SettleTool(t, outcome)
    PROVE  Onward
<1> DEFINE e == ResultOf(Task(t).ref, Task(t).call)
           result == AppendEntry(db, e)
           mid == SetSlot(result, t, "done", Len(result.entries))
<1>1. /\ db \in TxRec /\ TxInv(db, DOMAIN db.inbox, {}) /\ Fresh(db, Range(db.live.run.inputs)) /\ Carries(db, db, {})
      /\ t \in LiveOf(db, "tool")
  BY SoundParts DEF IInv, Tasks, Tool, Live, Task, LiveOf
<1>2. Task(t).ref \in Nat /\ Task(t).call \in Nat
  BY <1>1, TaskFields DEF LiveOf, Task, TaskRec
<1>3. e \in EntryRec /\ PlainEntry(e) /\ e.by = 0
  BY <1>2, ResultIs
<1>4. db' = Ended(mid, t, outcome) /\ local' \subseteq Kept(db')
  BY DEF SettleTool, CommitPhase, ResultOf
<1>5. e = ResultOf(db.tasks[t].ref, db.tasks[t].call)
  BY DEF Task
<1> HIDE DEF e
<1>6. /\ Carries(db, result, {}) /\ result.live = db.live /\ result.tasks = db.tasks
      /\ result.subs = db.subs /\ result.inbox = db.inbox
      /\ Len(result.entries) = Len(db.entries) + 1
      /\ result.entries[Len(db.entries) + 1] = e
  BY <1>1, <1>3, AppendedPlain
<1> HIDE DEF result
<1>7. result \in TxRec /\ Len(result.entries) \in Nat /\ "done" \in SlotStates
  BY <1>6, TxFields DEF Carries, SlotStates
<1>8. OnlySlots(result, mid)
  BY <1>7, SetSlotIs
<1> HIDE DEF mid
<1>9. Carries(db, mid, {})
  <2>1. mid \in TxRec /\ mid.entries = result.entries /\ mid.subs = result.subs /\ mid.inbox = result.inbox
        /\ mid.live.run.inputs = result.live.run.inputs
    BY <1>8 DEF OnlySlots
  <2> QED
    BY <1>1, <1>6, <2>1, CarriesSame
<1>10. mid.tasks = db.tasks /\ mid.live.run = db.live.run /\ mid.live.compactions = db.live.compactions
       /\ Len(mid.entries) = Len(db.entries) + 1
       /\ mid.entries[Len(db.entries) + 1] = ResultOf(db.tasks[t].ref, db.tasks[t].call)
  BY <1>5, <1>6, <1>8 DEF OnlySlots
<1>11. ToolOver(db, mid, t, outcome)
  BY <1>1, <1>9, <1>10, ToolOverIs
<1> QED
  BY <1>1, <1>4, <1>11, ToolEndKeeps

(* A refused call is settled with an error result.                            *)
LEMMA ToolRefusedKeeps ==
    ASSUME IInv, NEW t \in Tasks, ToolRefused(t)
    PROVE  Onward
BY SettleToolKeeps DEF ToolRefused, Runs, Free, Outcomes

(* A call that ran is settled with its result.                                *)
LEMMA ToolDoneKeeps ==
    ASSUME IInv, NEW t \in Tasks, ToolDone(t)
    PROVE  Onward
BY SettleToolKeeps DEF ToolDone, Runs, Free, Outcomes

(* A call interrupted by a restart that cannot run again is settled with an   *)
(* error result.                                                              *)
LEMMA ToolInterruptedKeeps ==
    ASSUME IInv, NEW t \in Tasks, ToolInterrupted(t)
    PROVE  Onward
BY SettleToolKeeps DEF ToolInterrupted, Runs, Free, Outcomes

(* The record of a task in another phase.                                     *)
StillTask(old, task) ==
    /\ task \in TaskRec /\ task.kind = old.kind /\ task.owner = old.owner /\ task.status = old.status
    /\ task.outcome = old.outcome /\ task.on = old.on /\ task.ref = old.ref /\ task.call = old.call
    /\ task.marked = old.marked

(* A task in another phase is still the same task.                            *)
LEMMA TaskInPhase ==
    ASSUME NEW old \in TaskRec, NEW phase \in Phases
    PROVE  LET task == InPhase(old, phase) IN
           StillTask(old, task) /\ task.phase = phase /\ task.cut = old.cut /\ task.cover = old.cover
<1> DEFINE a == [old EXCEPT !.phase = phase]
<1>1. a \in TaskRec /\ a.phase = phase
  BY DEF TaskRec, Phases
<1>2. a.kind = old.kind /\ a.owner = old.owner /\ a.status = old.status /\ a.outcome = old.outcome
  BY DEF TaskRec
<1>3. a.on = old.on /\ a.ref = old.ref /\ a.call = old.call /\ a.marked = old.marked
  BY DEF TaskRec
<1>4. a.cut = old.cut /\ a.cover = old.cover
  BY DEF TaskRec
<1>5. InPhase(old, phase) = a
  BY DEF InPhase
<1> HIDE DEF a
<1> QED
  BY <1>1, <1>2, <1>3, <1>4, <1>5 DEF StillTask

(* A tool or a compaction goes on.                                            *)
LEMMA TaskContinues ==
    ASSUME NEW tx, Sound(tx), NEW t \in DOMAIN tx.tasks, tx.tasks[t].status = "live", tx.tasks[t].kind # "gen",
           NEW mid, OnlySlots(tx, mid), NEW task, StillTask(tx.tasks[t], task)
    PROVE  LET new == SetTask(mid, t, task) IN
           /\ Continued(tx, new, t) /\ new.tasks[t] = task /\ HandsFree(tx, new, t)
           /\ new.entries = tx.entries
           /\ \A c \in DOMAIN tx.tasks : c # t => new.tasks[c] = tx.tasks[c]
<1> DEFINE new == SetTask(mid, t, task)
<1>1. tx \in TxRec /\ Recorded(tx, tx) /\ TasksAgree(tx)
  BY SoundParts
<1>2. mid \in TxRec /\ mid.entries = tx.entries /\ mid.subs = tx.subs /\ mid.inbox = tx.inbox /\ mid.tasks = tx.tasks
      /\ mid.live.run = tx.live.run /\ mid.live.compactions = tx.live.compactions
  BY DEF OnlySlots
<1>3. task \in TaskRec
  BY DEF StillTask
<1>4. t \in DOMAIN mid.tasks
  BY <1>2
<1>5. /\ new \in TxRec /\ new.entries = mid.entries /\ new.subs = mid.subs /\ new.inbox = mid.inbox /\ new.live = mid.live
      /\ Len(new.tasks) = Len(mid.tasks) /\ DOMAIN new.tasks = DOMAIN mid.tasks
      /\ new.tasks[t] = task
      /\ \A i \in DOMAIN mid.tasks : i # t => new.tasks[i] = mid.tasks[i]
  BY <1>2, <1>3, <1>4, SetTaskIs
<1> HIDE DEF new
<1>6. Recorded(tx, new)
  <2>1. new.live.run.inputs = tx.live.run.inputs
    BY <1>2, <1>5
  <2>2. new.entries = tx.entries /\ new.subs = tx.subs /\ new.inbox = tx.inbox
    BY <1>2, <1>5
  <2> QED
    BY <1>1, <1>5, <2>1, <2>2, RecordedSame
<1>7. \A c \in DOMAIN tx.tasks : c # t => Alike(tx.tasks[c], new.tasks[c])
  BY <1>2, <1>5, AlikeSelf
<1>8. \A c \in DOMAIN new.tasks : ~(c > Len(tx.tasks))
  BY <1>1, <1>2, <1>5, TaskFields
<1>9. \A i \in DOMAIN new.entries : ~(i > Len(tx.entries))
  BY <1>1, <1>2, <1>5, TxFields
<1>10. task.kind = tx.tasks[t].kind /\ task.owner = tx.tasks[t].owner /\ task.status = "live" /\ task.outcome = "none"
       /\ task.on \subseteq DOMAIN new.tasks /\ task.ref = tx.tasks[t].ref /\ task.call = tx.tasks[t].call
  <2>1. TaskFits(tx, t)
    BY <1>1 DEF TasksAgree
  <2>2. tx.tasks[t].outcome = "none" /\ tx.tasks[t].on \subseteq DOMAIN tx.tasks
    BY <2>1 DEF TaskFits
  <2> QED
    BY <1>2, <1>5, <2>2 DEF StillTask
<1>11. Len(tx.tasks) \in Nat /\ Len(new.tasks) = Len(tx.tasks)
  BY <1>1, <1>2, <1>5, TaskFields
<1>12. Continued(tx, new, t)
  BY <1>2, <1>5, <1>6, <1>7, <1>8, <1>10, <1>11 DEF Continued
<1>13. HandsFree(tx, new, t)
  BY <1>5, <1>8, <1>9, <1>10 DEF HandsFree, LiveOf
<1> QED
  BY <1>2, <1>5, <1>12, <1>13 DEF new

(* A tool task starts to execute its call.                                    *)
LEMMA ToolStartKeeps ==
    ASSUME IInv, NEW t \in Tasks, ToolStart(t)
    PROVE  Onward
<1> DEFINE phase == "execute"
           task == InPhase(db.tasks[t], phase)
           mid == SetSlot(db, t, "running", 0)
           new == SetTask(mid, t, task)
<1>1. Sound(db) /\ db \in TxRec /\ t \in DOMAIN db.tasks /\ db.tasks[t].status = "live" /\ db.tasks[t].kind = "tool"
      /\ ~db.tasks[t].marked /\ db.tasks[t].phase = "call"
  BY SoundParts DEF IInv, Tasks, ToolStart, Tool, Runs, Live, Task
<1>2. db.tasks[t] \in TaskRec /\ phase \in Phases
  BY <1>1, TaskFields DEF Phases
<1>3. db' = new /\ local' = local \cup {Local(t, "executing", {}, 0, {})} /\ env' = env
  BY DEF ToolStart, Task, InPhase, Free
<1>4. phase = "execute"
  OBVIOUS
<1> HIDE DEF phase
<1>5. StillTask(db.tasks[t], task) /\ task.phase = phase
  BY <1>2, TaskInPhase
<1> HIDE DEF task
<1>6. OnlySlots(db, mid)
  BY <1>1, SetSlotIs DEF SlotStates
<1> HIDE DEF mid
<1>7. db.tasks[t].kind # "gen"
  BY <1>1
<1>8. /\ Continued(db, new, t) /\ new.tasks[t] = task /\ HandsFree(db, new, t)
      /\ \A c \in DOMAIN db.tasks : c # t => new.tasks[c] = db.tasks[c]
  BY <1>1, <1>5, <1>6, <1>7, TaskContinues
<1> HIDE DEF new
<1>9. task.kind = "tool" /\ task.status = "live" /\ task.marked = FALSE /\ t \in DOMAIN new.tasks
  <2>1. new \in TxRec /\ Len(db.tasks) <= Len(new.tasks)
    BY <1>8 DEF Continued, Recorded
  <2> QED
    BY <1>1, <1>2, <1>5, <2>1, TaskFields DEF StillTask
<1>10. SummaryFits(new, t) /\ AskedFits(new, t)
  BY <1>8, <1>9 DEF SummaryFits, AskedFits, LiveOf
<1>11. \A l \in local' :
         \/ l \in local /\ l.task # t /\ db'.tasks[l.task].status = "live" /\ ~db'.tasks[l.task].marked
         \/ LocalFits(db', l)
  <2>1. ASSUME NEW l \in local
        PROVE  l.task # t /\ new.tasks[l.task].status = "live" /\ ~new.tasks[l.task].marked
    BY <1>1, <1>8, <2>1, LocalsAre
  <2>2. LocalFits(new, Local(t, "executing", {}, 0, {}))
    <3>1. Local(t, "executing", {}, 0, {}).task = t /\ Local(t, "executing", {}, 0, {}).step = "executing"
      BY DEF Local
    <3> QED
      BY <1>4, <1>5, <1>8, <1>9, <3>1 DEF LocalFits
  <2> QED
    BY <1>3, <2>1, <2>2
<1> QED
  BY <1>3, <1>8, <1>10, <1>11, GoesOnKeeps

(* A call interrupted by a restart that may run again does.                   *)
LEMMA ToolRerunKeeps ==
    ASSUME IInv, NEW t \in Tasks, ToolRerun(t)
    PROVE  Onward
<1> DEFINE held == Local(t, "executing", {}, 0, {})
<1>1. held.task = t /\ held.step = "executing"
  BY DEF Local
<1>2. db' = db /\ env' = env /\ local' = local \cup {held}
      /\ t \in DOMAIN db.tasks /\ db.tasks[t].status = "live" /\ ~db.tasks[t].marked
      /\ db.tasks[t].kind = "tool" /\ db.tasks[t].phase = "execute"
  BY DEF ToolRerun, Tool, Runs, Live, Task, Tasks
<1> HIDE DEF held
<1>3. LocalFits(db, held)
  BY <1>1, <1>2 DEF LocalFits
<1>4. IInv'
  BY <1>2, <1>3 DEF IInv
<1> QED
  BY <1>2, <1>4, StaysForward DEF Onward

-----------------------------------------------------------------------------
(* Compactions.                                                            *)

(* Records differ from themselves in no slot.                                 *)
LEMMA OnlySelf ==
    ASSUME NEW tx \in TxRec
    PROVE  OnlySlots(tx, tx)
BY DEF OnlySlots

(* Whether a summary can be placed depends on the transcript, and on who waits for it. *)
LEMMA PlaceableSame ==
    ASSUME NEW tx, NEW tx2, tx2.entries = tx.entries, NEW t, tx2.tasks[t].owner = tx.tasks[t].owner,
           NEW cut, NEW cover, Placeable(tx, t, cut, cover)
    PROVE  Placeable(tx2, t, cut, cover)
<1>1. ActiveStart(tx2) = ActiveStart(tx) /\ NewestReset(tx2) = NewestReset(tx) /\ HostCut(tx2) = HostCut(tx)
  BY DEF ActiveStart, LatestHeadMarker, NewestReset, HostCut
<1>2. Stands(tx2, cut, cover)
  BY <1>1 DEF Placeable, Stands
<1> QED
  BY <1>1, <1>2 DEF Placeable

(* A live compaction of the conversation.                                     *)
LEMMA CompActs ==
    ASSUME IInv, NEW t \in Tasks, Comp(t), Live(t)
    PROVE  /\ Sound(db) /\ db \in TxRec /\ TasksAgree(db) /\ CallsAgree(db) /\ Recorded(db, db) /\ Carries(db, db, {})
           /\ TxInv(db, DOMAIN db.inbox, {}) /\ Fresh(db, Range(db.live.run.inputs))
           /\ t \in LiveOf(db, "comp") /\ t \in DOMAIN db.tasks /\ SummaryFits(db, t)
           /\ db.tasks[t] \in TaskRec /\ db.tasks[t].status = "live" /\ db.tasks[t].kind = "comp"
           /\ t \in Nat /\ t # 0
<1>1. Sound(db) /\ t \in DOMAIN db.tasks /\ db.tasks[t].status = "live" /\ db.tasks[t].kind = "comp"
  BY DEF IInv, Tasks, Comp, Live, Task
<1>2. /\ db \in TxRec /\ TxInv(db, DOMAIN db.inbox, {}) /\ Fresh(db, Range(db.live.run.inputs))
      /\ TasksAgree(db) /\ CallsAgree(db) /\ Recorded(db, db) /\ Carries(db, db, {}) /\ SummaryFits(db, t)
  BY <1>1, SoundParts
<1>3. db.tasks[t] \in TaskRec /\ t \in Nat /\ t # 0
  BY <1>1, <1>2, TaskFields
<1> QED
  BY <1>1, <1>2, <1>3 DEF LiveOf

(* A compaction goes on.                                                      *)
LEMMA CompGoesKeeps ==
    ASSUME IInv, env' = env, NEW t \in Tasks, Comp(t), Live(t), NEW task, StillTask(db.tasks[t], task),
           task.phase \in {"summarize", "retry"} => Placeable(db, t, task.cut, task.cover),
           CommitPhase(t, SetTask(db, t, task))
    PROVE  Onward
<1> DEFINE new == SetTask(db, t, task)
<1>1. Sound(db) /\ db \in TxRec /\ t \in DOMAIN db.tasks /\ db.tasks[t].status = "live" /\ db.tasks[t].kind = "comp"
  BY CompActs
<1>2. db.tasks[t].kind # "gen" /\ OnlySlots(db, db)
  BY <1>1, OnlySelf
<1>3. /\ Continued(db, new, t) /\ new.tasks[t] = task /\ HandsFree(db, new, t) /\ new.entries = db.entries
  BY <1>1, <1>2, TaskContinues
<1>4. db' = new /\ \A l \in local' : l \in Kept(new) /\ l.task # t
  BY DEF CommitPhase
<1> HIDE DEF new
<1>5. SummaryFits(new, t)
  <2>1. new.tasks[t].owner = db.tasks[t].owner
    BY <1>3 DEF StillTask
  <2>2. task.phase \in {"summarize", "retry"} => Placeable(new, t, task.cut, task.cover)
    BY <1>3, <2>1, PlaceableSame
  <2> QED
    BY <1>3, <2>2 DEF SummaryFits
<1>6. AskedFits(new, t)
  BY <1>1, <1>3 DEF AskedFits, LiveOf, StillTask
<1>7. \A l \in local' :
         \/ l \in local /\ l.task # t /\ db'.tasks[l.task].status = "live" /\ ~db'.tasks[l.task].marked
         \/ LocalFits(db', l)
  BY <1>4 DEF Kept
<1> QED
  BY <1>3, <1>4, <1>5, <1>6, <1>7, GoesOnKeeps

(* A summarizer that failed is tried again later.                             *)
LEMMA SummaryRetryKeeps ==
    ASSUME IInv, NEW t \in Tasks, SummaryRetry(t)
    PROVE  Onward
<1> DEFINE phase == "retry"
           task == InPhase(db.tasks[t], phase)
<1>1. /\ Comp(t) /\ Live(t) /\ env' = env /\ db.tasks[t].phase = "summarize" /\ CommitPhase(t, SetTask(db, t, task))
  BY DEF SummaryRetry, Runs, Free, Task, InPhase
<1>2. db.tasks[t] \in TaskRec /\ t \in LiveOf(db, "comp") /\ SummaryFits(db, t) /\ phase \in Phases
  BY <1>1, CompActs DEF Phases
<1> HIDE DEF phase
<1>3. StillTask(db.tasks[t], task) /\ task.cut = db.tasks[t].cut /\ task.cover = db.tasks[t].cover
  BY <1>2, TaskInPhase
<1> HIDE DEF task
<1>4. Placeable(db, t, task.cut, task.cover)
  BY <1>1, <1>2, <1>3 DEF SummaryFits
<1> QED
  BY <1>1, <1>3, <1>4, CompGoesKeeps

(* A task that counts its attempts is still the same task.                    *)
LEMMA TaskTries ==
    ASSUME NEW old \in TaskRec, NEW attempt \in Nat
    PROVE  LET task == Tries(old, attempt) IN
           StillTask(old, task) /\ task.phase = old.phase /\ task.cut = old.cut /\ task.cover = old.cover
<1> DEFINE a == [old EXCEPT !.attempt = attempt]
<1>1. a \in TaskRec /\ a.phase = old.phase
  BY DEF TaskRec
<1>2. a.kind = old.kind /\ a.owner = old.owner /\ a.status = old.status /\ a.outcome = old.outcome
  BY DEF TaskRec
<1>3. a.on = old.on /\ a.ref = old.ref /\ a.call = old.call /\ a.marked = old.marked
  BY DEF TaskRec
<1>4. a.cut = old.cut /\ a.cover = old.cover
  BY DEF TaskRec
<1>5. Tries(old, attempt) = a
  BY DEF Tries
<1> HIDE DEF a
<1> QED
  BY <1>1, <1>2, <1>3, <1>4, <1>5 DEF StillTask

(* A compaction tries again after its backoff.                                *)
LEMMA SummaryWakeKeeps ==
    ASSUME IInv, NEW t \in Tasks, SummaryWake(t)
    PROVE  Onward
<1> DEFINE phase == "summarize"
           old == db.tasks[t]
           first == InPhase(old, phase)
           task == Tries(first, old.attempt + 1)
<1>1. /\ Comp(t) /\ Live(t) /\ env' = env /\ old.phase = "retry" /\ CommitPhase(t, SetTask(db, t, task))
  BY DEF SummaryWake, Runs, Free, Task, InPhase, Tries
<1>2. old \in TaskRec /\ t \in LiveOf(db, "comp") /\ SummaryFits(db, t) /\ phase \in Phases
  BY <1>1, CompActs DEF Phases
<1>3. Placeable(db, t, old.cut, old.cover)
  BY <1>1, <1>2 DEF SummaryFits
<1>4. old.attempt + 1 \in Nat
  <2>1. \A task2 \in TaskRec : task2.attempt \in Nat
    BY DEF TaskRec
  <2>2. old.attempt \in Nat
    BY <1>2, <2>1
  <2> QED
    BY <2>2
<1>5. db.tasks[t] = old
  BY DEF old
<1> HIDE DEF phase, old
<1>6. StillTask(old, first) /\ first.cut = old.cut /\ first.cover = old.cover
  BY <1>2, TaskInPhase
<1> HIDE DEF first
<1>7. first \in TaskRec
  BY <1>6 DEF StillTask
<1>8. StillTask(first, task) /\ task.cut = first.cut /\ task.cover = first.cover
  BY <1>4, <1>7, TaskTries
<1> HIDE DEF task
<1>9. StillTask(db.tasks[t], task) /\ Placeable(db, t, task.cut, task.cover)
  BY <1>3, <1>5, <1>6, <1>8 DEF StillTask
<1> QED
  BY <1>1, <1>9, CompGoesKeeps

Sums(old, cut, cover) == [old EXCEPT !.cut = cut, !.cover = cover]

(* A compaction that notes what it summarizes is still the same task.         *)
LEMMA TaskSums ==
    ASSUME NEW old \in TaskRec, NEW cut \in Nat, NEW cover \in SUBSET Nat
    PROVE  LET task == Sums(old, cut, cover) IN
           StillTask(old, task) /\ task.phase = old.phase /\ task.cut = cut /\ task.cover = cover
<1> DEFINE a == [old EXCEPT !.cut = cut, !.cover = cover]
<1>1. a \in TaskRec /\ a.phase = old.phase
  BY DEF TaskRec
<1>2. a.kind = old.kind /\ a.owner = old.owner /\ a.status = old.status /\ a.outcome = old.outcome
  BY DEF TaskRec
<1>3. a.on = old.on /\ a.ref = old.ref /\ a.call = old.call /\ a.marked = old.marked
  BY DEF TaskRec
<1>4. a.cut = cut /\ a.cover = cover
  BY DEF TaskRec
<1>5. Sums(old, cut, cover) = a
  BY DEF Sums
<1> HIDE DEF a
<1> QED
  BY <1>1, <1>2, <1>3, <1>4, <1>5 DEF StillTask

(* What a handler of a compaction holds.                                      *)
LEMMA HeldCut ==
    ASSUME IInv, NEW t \in Tasks, Comp(t), Live(t), NEW l \in local, l.task = t, l.step = "cut"
    PROVE  Placeable(db, t, l.cut, l.cover) /\ l.cut \in Nat /\ l.cover \in SUBSET Nat
<1>1. LocalFits(db, l)
  BY LocalsAre
<1>2. Placeable(db, t, l.cut, l.cover)
  BY <1>1 DEF LocalFits
<1>3. db \in TxRec
  BY CompActs
<1> QED
  BY <1>2, <1>3, TxFields DEF Placeable, Stands

(* A compaction goes on to the summarizer with the range it selected.         *)
LEMMA SummarizeKeeps ==
    ASSUME IInv, NEW t \in Tasks, Summarize(t)
    PROVE  Onward
<1> DEFINE phase == "summarize"
           old == db.tasks[t]
           first == InPhase(old, phase)
           task(l) == Sums(first, l.cut, l.cover)
<1>1. Comp(t) /\ Live(t) /\ env' = env
  BY DEF Summarize, Runs, Free
<1>2. PICK l \in local : l.task = t /\ l.step = "cut" /\ CommitPhase(t, SetTask(db, t, task(l)))
  BY DEF Summarize, Task, InPhase, Sums
<1>3. Placeable(db, t, l.cut, l.cover) /\ l.cut \in Nat /\ l.cover \in SUBSET Nat
  BY <1>1, <1>2, HeldCut
<1>4. old \in TaskRec /\ phase \in Phases
  BY <1>1, CompActs DEF Phases
<1>5. db.tasks[t] = old
  OBVIOUS
<1> HIDE DEF phase, old
<1>6. StillTask(old, first)
  BY <1>4, TaskInPhase
<1> HIDE DEF first
<1>7. first \in TaskRec
  BY <1>6 DEF StillTask
<1>8. StillTask(first, task(l)) /\ task(l).cut = l.cut /\ task(l).cover = l.cover
  BY <1>3, <1>7, TaskSums
<1> HIDE DEF task
<1>9. StillTask(db.tasks[t], task(l)) /\ Placeable(db, t, task(l).cut, task(l).cover)
  BY <1>3, <1>5, <1>6, <1>8 DEF StillTask
<1> QED
  BY <1>1, <1>2, <1>9, CompGoesKeeps

(* A compaction ends.                                                         *)
LEMMA CompEndKeeps ==
    ASSUME IInv, env' = env, NEW t \in Tasks, Comp(t), Live(t), NEW mid, Concluded(db, mid, t), NEW outcome \in Outcomes,
           \A i \in DOMAIN mid.entries : i > Len(db.entries) => mid.entries[i].kind # "result" /\ mid.entries[i].calls = {},
           CommitPhase(t, Ended(mid, t, outcome))
    PROVE  Onward
<1> DEFINE new == Ended(mid, t, outcome)
<1>1. /\ db \in TxRec /\ TasksAgree(db) /\ CallsAgree(db) /\ db.tasks[t].kind = "comp"
  BY CompActs
<1>2. /\ Moves(db, new, t) /\ new.entries = mid.entries
      /\ new.tasks[t].status = "done"
      /\ \A c \in DOMAIN new.tasks : c > Len(db.tasks) => new.tasks[c].kind # "tool"
  BY <1>1, Concludes
<1>3. db' = new /\ \A l \in local' : l \in Kept(new) /\ l.task # t
  BY DEF CommitPhase
<1> HIDE DEF new
<1>4. SameHands(db, new)
  <2>1. t \notin LiveOf(db, "tool") /\ t \notin LiveOf(db, "gen")
    BY <1>1 DEF LiveOf
  <2>2. \A i \in DOMAIN new.entries : i > Len(db.entries) => new.entries[i].kind # "result" /\ new.entries[i].calls = {}
    BY <1>2
  <2> QED
    BY <1>1, <1>2, <2>1, <2>2, HandsSame
<1>5. CallsAgree(new)
  BY <1>1, <1>2, <1>4, CallsQuiet
<1>6. SummaryFits(new, t) /\ AskedFits(new, t)
  BY <1>2 DEF SummaryFits, AskedFits, LiveOf
<1>7. \A l \in local' :
         \/ l \in local /\ l.task # t /\ db'.tasks[l.task].status = "live" /\ ~db'.tasks[l.task].marked
         \/ LocalFits(db', l)
  BY <1>3 DEF Kept
<1> QED
  BY <1>2, <1>3, <1>5, <1>6, <1>7, CommitKeeps

(* Its status is no longer listed.                                            *)
LEMMA RemovedIs ==
    ASSUME NEW tx \in TxRec, NEW t
    PROVE  LET new == RemoveCompactionStatus(tx, t) IN
           /\ new \in TxRec
           /\ new.entries = tx.entries /\ new.subs = tx.subs /\ new.inbox = tx.inbox /\ new.tasks = tx.tasks
           /\ new.live.run = tx.live.run
<1> DEFINE kept == Keep(tx.live.compactions, {i \in DOMAIN tx.live.compactions : tx.live.compactions[i] # t})
           live == [tx.live EXCEPT !.compactions = kept]
           new == [tx EXCEPT !.live = live]
<1>1. RemoveCompactionStatus(tx, t) = new
  BY DEF RemoveCompactionStatus
<1>2. tx.live \in LiveRec /\ tx.live.compactions \in Seq(Nat)
  BY TxFields
<1>3. kept \in Seq(Nat)
  BY <1>2, KeepIs
<1> HIDE DEF kept
<1>4. live \in LiveRec /\ live.run = tx.live.run
  BY <1>2, <1>3, WithCompactions
<1> HIDE DEF live
<1>5. /\ new \in TxRec /\ new.live = live
      /\ new.entries = tx.entries /\ new.subs = tx.subs /\ new.inbox = tx.inbox /\ new.tasks = tx.tasks
  BY <1>4, WithLive
<1> HIDE DEF new
<1> QED
  BY <1>1, <1>4, <1>5

(* A compaction that ends without a summary is dropped from the list.         *)
LEMMA CompDropsKeeps ==
    ASSUME IInv, env' = env, NEW t \in Tasks, Comp(t), Live(t), NEW outcome \in Outcomes,
           CommitPhase(t, Ended(RemoveCompactionStatus(db, t), t, outcome))
    PROVE  Onward
<1> DEFINE mid == RemoveCompactionStatus(db, t)
<1>1. /\ db \in TxRec /\ Recorded(db, db) /\ t \in DOMAIN db.tasks /\ db.tasks[t].status = "live" /\ db.tasks[t].kind = "comp"
  BY CompActs
<1>2. /\ mid \in TxRec
      /\ mid.entries = db.entries /\ mid.subs = db.subs /\ mid.inbox = db.inbox /\ mid.tasks = db.tasks
      /\ mid.live.run = db.live.run
  BY <1>1, RemovedIs
<1>3. mid.live.compactions = RemoveCompactionStatus(db, t).live.compactions
      /\ CommitPhase(t, Ended(mid, t, outcome))
  OBVIOUS
<1> HIDE DEF mid
<1>4. Recorded(db, mid)
  BY <1>1, <1>2, RecordedSame
<1>5. \A i \in DOMAIN mid.entries : ~(i > Len(db.entries))
  BY <1>1, <1>2, TxFields
<1>6. Concluded(db, mid, t)
  BY <1>1, <1>2, <1>3, <1>4, <1>5 DEF Concluded
<1> QED
  BY <1>3, <1>5, <1>6, CompEndKeeps

(* A compaction with nothing to summarize ends.                               *)
LEMMA CompactNothingKeeps ==
    ASSUME IInv, NEW t \in Tasks, CompactNothing(t)
    PROVE  Onward
BY CompDropsKeeps DEF CompactNothing, Runs, Free, Outcomes

(* A summarizer that failed for good ends its compaction.                     *)
LEMMA SummaryFailedKeeps ==
    ASSUME IInv, NEW t \in Tasks, SummaryFailed(t)
    PROVE  Onward
BY CompDropsKeeps DEF SummaryFailed, Runs, Free, Outcomes

-----------------------------------------------------------------------------
(* The active entries, as a sequence.                                         *)
LEMMA ActiveSequence ==
    ASSUME NEW tx \in TxRec, Transcript(tx)
    PROVE  ActiveEntries(tx) \in Seq(Nat)
<1> DEFINE h == LatestHeadMarker(tx)
           inRange(i) == i >= ActiveStart(tx) /\ (h = 0 \/ tx.entries[i].head = 0)
           A == {i \in DOMAIN tx.entries : inRange(i)}
<1>1. Len(tx.entries) \in Nat /\ DOMAIN tx.entries = 1 .. Len(tx.entries) /\ h \in 0 .. Len(tx.entries)
  BY TxFields, HeadsAre
<1>2. IsFiniteSet(1 .. Len(tx.entries)) /\ A \in SUBSET (1 .. Len(tx.entries)) /\ A \subseteq Nat
  <2>1. IsFiniteSet(1 .. Len(tx.entries))
    BY <1>1, FS_Interval
  <2>2. \A i \in A : i \in 1 .. Len(tx.entries) /\ i \in Nat
    BY <1>1
  <2> QED
    BY <2>1, <2>2
<1>3. Finite(A)
  BY <1>2, FS_Subset DEF Finite
<1>4. ActiveEntries(tx) = IF h = 0 THEN Ascending(A) ELSE <<h>> \o Ascending(A)
  BY DEF ActiveEntries
<1> HIDE DEF A, h
<1>5. Ascending(A) \in Seq(Nat)
  BY <1>3, AscendingIs
<1>6. <<h>> \in Seq(Nat)
  <2>1. h \in Nat
    BY <1>1
  <2> QED
    BY <2>1
<1>7. <<h>> \o Ascending(A) \in Seq(Nat)
  BY <1>5, <1>6, Joined
<1> QED
  BY <1>4, <1>5, <1>7

(* A cut that range selection may choose, and what its summary stands for.     *)
LEMMA CutIs ==
    ASSUME NEW tx \in TxRec, Transcript(tx), NEW cut \in SelectCut(tx)
    PROVE  cut \in DOMAIN tx.entries /\ tx.entries[cut].head = 0 /\ cut >= ActiveStart(tx) /\ cut > NewestReset(tx)
<1> DEFINE view == ActiveEntries(tx)
<1>1. view \in Seq(Nat) /\ Range(view) = ActiveSet(tx)
  BY ActiveSequence, ActiveIs
<1>2. PICK k \in (IF LatestHeadMarker(tx) = 0 THEN 1 ELSE 2) .. Len(view) : cut = view[k] /\ IsCandidate(tx, view, k)
  BY DEF SelectCut
<1> HIDE DEF view
<1>3. k \in DOMAIN view
  <2>1. Len(view) \in Nat /\ DOMAIN view = 1 .. Len(view)
    BY <1>1
  <2> QED
    BY <1>2, <2>1
<1>4. cut \in ActiveSet(tx)
  BY <1>1, <1>2, <1>3 DEF Range
<1>5. tx.entries[cut].kind \in {"assistant", "user", "note"}
  BY <1>2 DEF IsCandidate
<1>6. cut \in DOMAIN tx.entries
  BY <1>4 DEF ActiveSet
<1>7. tx.entries[cut].head = 0 /\ tx.entries[cut].head \in Nat /\ cut \in Nat /\ cut > 0
  <2>1. tx.entries[cut].head \in Nat /\ cut \in 1 .. Len(tx.entries) /\ Len(tx.entries) \in Nat
    BY <1>6, EntryFields
  <2>2. ~(tx.entries[cut].head > 0)
    BY <1>5, <1>6 DEF Transcript, HeadKinds
  <2> QED
    BY <2>1, <2>2
<1>8. /\ LatestHeadMarker(tx) \in Nat /\ ActiveStart(tx) \in Nat /\ NewestReset(tx) \in 0 .. ActiveStart(tx)
      /\ LatestHeadMarker(tx) > 0 => tx.entries[LatestHeadMarker(tx)].head = ActiveStart(tx)
      /\ LatestHeadMarker(tx) = 0 <=> ActiveStart(tx) = 0
      /\ NewestReset(tx) > 0 => tx.entries[NewestReset(tx)].kind = "reset"
  <2>1. Len(tx.entries) \in Nat
    BY TxFields
  <2> QED
    BY <2>1, HeadsAre
<1>9. cut >= ActiveStart(tx)
  BY <1>4, <1>7, <1>8 DEF ActiveSet
<1>10. cut > NewestReset(tx)
  BY <1>5, <1>7, <1>8, <1>9
<1> QED
  BY <1>6, <1>7, <1>9, <1>10

(* What range selection summarizes stands for the context before its cut: an  *)
(* older head's cover included.                                               *)
LEMMA SummarizedStands ==
    ASSUME NEW tx \in TxRec, Transcript(tx), Context(tx), NEW cut \in SelectCut(tx)
    PROVE  /\ Stands(tx, cut, Summarized(tx, cut)) /\ Summarized(tx, cut) \in SUBSET Nat
           /\ cut >= ActiveStart(tx)
<1> DEFINE h == LatestHeadMarker(tx)
           cover == Summarized(tx, cut)
<1>1. cut \in DOMAIN tx.entries /\ cut >= ActiveStart(tx) /\ cut > NewestReset(tx)
  BY CutIs
<1>2. /\ \A i : i \in cover <=>
           \/ i \in ActiveSet(tx) /\ i < cut /\ i # h
           \/ h # 0 /\ (i = h \/ i \in tx.entries[h].cover)
      /\ \A i : i \in Remembered(tx) <=> i \in ActiveSet(tx) \/ (h # 0 /\ i \in tx.entries[h].cover)
  BY ActiveIs, RememberedIs DEF Summarized
<1> HIDE DEF cover
<1>3. h \in 0 .. Len(tx.entries) /\ Len(tx.entries) \in Nat /\ DOMAIN tx.entries = 1 .. Len(tx.entries)
  BY HeadsAre, TxFields
<1>4. h # 0 => h \in DOMAIN tx.entries /\ h \in ActiveSet(tx) /\ tx.entries[h].cover \in SUBSET Nat
  <2>1. h # 0 => h \in DOMAIN tx.entries
    BY <1>3
  <2> QED
    BY <2>1, EntryFields DEF ActiveSet
<1>5. \A i \in cover : i \in Remembered(tx)
  BY <1>2, <1>4
<1>6. \A i \in cover : i >= NewestReset(tx)
  BY <1>5 DEF Context, ResetForgets
<1>7. cover \in SUBSET Nat
  BY <1>2, <1>3, <1>4 DEF ActiveSet
<1>8. ~HostCut(tx) => \A i \in DOMAIN tx.entries :
              /\ i >= NewestReset(tx) /\ i < cut
              /\ Contributes(tx.entries[i]) /\ tx.entries[i].kind # "summary"
              => i \in cover
  <2>1. \A i : i \in Remembered(tx) /\ i < cut => i \in cover
    <3> HIDE DEF h
    <3>1. ASSUME NEW i, i \in Remembered(tx), i < cut
          PROVE  i \in cover
      <4>1. i \in ActiveSet(tx) \/ (h # 0 /\ i \in tx.entries[h].cover)
        BY <1>2, <3>1
      <4>2. i = h => h # 0
        BY <1>3, <1>4, <4>1 DEF ActiveSet
      <4> QED
        BY <1>2, <3>1, <4>1, <4>2
    <3> QED
      BY <3>1
  <2>2. ContextComplete(tx)
    BY DEF Context
  <2> HIDE DEF h
  <2> QED
    BY <2>1, <2>2 DEF ContextComplete
<1>9. Stands(tx, cut, cover)
  BY <1>1, <1>6, <1>8 DEF Stands
<1> QED
  BY <1>1, <1>7, <1>9 DEF cover

(* A compaction selects its range.                                            *)
LEMMA SelectKeeps ==
    ASSUME IInv, NEW t \in Tasks, Select(t)
    PROVE  Onward
<1>1. /\ Comp(t) /\ Live(t) /\ db' = db /\ env' = env /\ ~db.tasks[t].marked /\ db.tasks[t].phase = "select"
  BY DEF Select, Runs, Task
<1>2. PICK cut \in SelectCut(db) : local' = local \cup {Local(t, "cut", {}, cut, Summarized(db, cut))}
  BY DEF Select
<1> DEFINE cover == Summarized(db, cut)
           held == Local(t, "cut", {}, cut, cover)
<1>3. held.task = t /\ held.step = "cut" /\ held.cut = cut /\ held.cover = cover
  BY DEF Local
<1>4. db \in TxRec /\ TxInv(db, DOMAIN db.inbox, {}) /\ t \in DOMAIN db.tasks
      /\ db.tasks[t].status = "live" /\ db.tasks[t].kind = "comp"
  BY <1>1, CompActs
<1>5. Stands(db, cut, cover) /\ cover \in SUBSET Nat /\ cut >= ActiveStart(db)
  BY <1>2, <1>4, SummarizedStands DEF TxInv
<1>6. local' = local \cup {held}
  BY <1>2
<1> HIDE DEF cover, held
<1>7. Placeable(db, t, cut, cover)
  BY <1>5 DEF Placeable
<1>8. LocalFits(db, held)
  BY <1>1, <1>3, <1>4, <1>7 DEF LocalFits
<1>9. IInv'
  BY <1>1, <1>6, <1>8 DEF IInv
<1> QED
  BY <1>1, <1>9, StaysForward DEF Onward

(* The entry of a summary.                                                    *)
LEMMA SummaryEntryIs ==
    ASSUME NEW cut \in Nat, NEW cover \in SUBSET Nat
    PROVE  LET e == SummaryEntry(cut, cover) IN
           /\ e \in EntryRec /\ e.kind = "summary" /\ e.head = cut /\ e.cover = cover /\ e.by = 0 /\ e.calls = {}
<1> DEFINE base == Blank
           e == [base EXCEPT !.kind = "summary", !.head = cut, !.cover = cover]
<1>1. /\ base \in EntryRec /\ base.by = 0 /\ base.calls = {}
  BY BlankType
<1>2. SummaryEntry(cut, cover) = e
  BY DEF SummaryEntry
<1> HIDE DEF base
<1>3. /\ e \in EntryRec /\ e.kind = "summary" /\ e.head = cut /\ e.cover = cover
  BY <1>1 DEF EntryRec, EntryKinds
<1>4. e.by = 0 /\ e.calls = {}
  BY <1>1 DEF EntryRec
<1> HIDE DEF e
<1> QED
  BY <1>2, <1>3, <1>4

(* A compaction a generation waits for appends its summary to the transcript.  *)
LEMMA OwnedSummary ==
    ASSUME IInv, NEW t \in Tasks, Comp(t), Live(t), db.tasks[t].owner # 0, NEW cut \in Nat, NEW cover \in SUBSET Nat,
           Placeable(db, t, cut, cover),
           NEW mid, mid = AppendEntry(RemoveCompactionStatus(db, t), SummaryEntry(cut, cover))
    PROVE  /\ Concluded(db, mid, t)
           /\ \A i \in DOMAIN mid.entries : i > Len(db.entries) => mid.entries[i].kind # "result" /\ mid.entries[i].calls = {}
<1> DEFINE listed == RemoveCompactionStatus(db, t)
           e == SummaryEntry(cut, cover)
           id == Len(db.entries) + 1
<1>1. /\ db \in TxRec /\ TxInv(db, DOMAIN db.inbox, {}) /\ Fresh(db, Range(db.live.run.inputs))
      /\ t \in DOMAIN db.tasks /\ db.tasks[t].status = "live" /\ db.tasks[t].kind = "comp"
  BY CompActs
<1>2. /\ listed \in TxRec
      /\ listed.entries = db.entries /\ listed.subs = db.subs /\ listed.inbox = db.inbox /\ listed.tasks = db.tasks
      /\ listed.live.run = db.live.run
  BY <1>1, RemovedIs
<1>3. /\ e \in EntryRec /\ e.kind = "summary" /\ e.head = cut /\ e.cover = cover /\ e.by = 0 /\ e.calls = {}
  BY SummaryEntryIs
<1>4. mid = AppendEntry(listed, e) /\ listed.live.compactions = RemoveCompactionStatus(db, t).live.compactions
  OBVIOUS
<1>5. id \in Nat /\ Len(db.entries) \in Nat /\ DOMAIN db.entries = 1 .. Len(db.entries)
  BY <1>1, TxFields
<1> HIDE DEF listed, e
<1>6. /\ mid \in TxRec
      /\ mid.subs = listed.subs /\ mid.inbox = listed.inbox /\ mid.live = listed.live /\ mid.tasks = listed.tasks
      /\ Len(mid.entries) = id /\ DOMAIN mid.entries = 1 .. id
      /\ \A i \in 1 .. Len(db.entries) : mid.entries[i] = db.entries[i]
      /\ mid.entries[id] = Numbered(e, id)
  <2> DEFINE n == Len(listed.entries) + 1
  <2>1. /\ mid \in TxRec
        /\ mid.subs = listed.subs /\ mid.inbox = listed.inbox /\ mid.live = listed.live /\ mid.tasks = listed.tasks
        /\ Len(mid.entries) = n /\ DOMAIN mid.entries = 1 .. n
        /\ \A i \in 1 .. Len(listed.entries) : mid.entries[i] = listed.entries[i]
        /\ mid.entries[n] = Numbered(e, n)
    BY <1>2, <1>3, <1>4, AppendEntryIs
  <2>2. n = id
    BY <1>2
  <2> HIDE DEF n, id
  <2> QED
    BY <1>2, <2>1, <2>2
<1>7. mid.entries[id] = e
  BY <1>3, <1>6 DEF Numbered
<1>8. Continues(db, mid)
  BY <1>5, <1>6 DEF Continues
<1>9. GoodHead(db, mid.entries[id])
  <2>1. Stands(db, cut, cover) /\ cut \in DOMAIN db.entries /\ cut >= ActiveStart(db) /\ cut > 0
    BY <1>5 DEF Placeable, Stands
  <2> QED
    BY <1>3, <1>7, <2>1 DEF GoodHead, HeadKinds
<1>10. TxInv(mid, DOMAIN db.inbox, {})
  <2>1. mid.entries[id].by = 0 /\ mid.subs = db.subs /\ mid.inbox = db.inbox /\ mid.live.run.inputs = db.live.run.inputs
    BY <1>2, <1>3, <1>6, <1>7
  <2> QED
    BY <1>1, <1>6, <1>8, <1>9, <2>1, HeadKeeps
<1>11. Forward(db, mid)
  BY <1>1, <1>2, <1>6, <1>8, ForwardSame
<1>12. \A i \in DOMAIN mid.entries : i > Len(db.entries) => mid.entries[i].kind = "summary" /\ mid.entries[i].calls = {}
  BY <1>3, <1>5, <1>6, <1>7
<1>13. Fresh(mid, Range(db.live.run.inputs))
  BY <1>1, <1>6, <1>11, <1>12, InputsPlaced, FreshSame
<1>14. Recorded(db, mid)
  BY <1>2, <1>6, <1>10, <1>11, <1>13 DEF Recorded
<1> QED
  BY <1>1, <1>2, <1>4, <1>6, <1>12, <1>14 DEF Concluded

(* A compaction's summary has a request name of its own.                      *)
LEMMA NumbersName ==
    ASSUME NEW n \in Nat
    PROVE  n \in RequestNames
BY DEF RequestNames

(* Any other compaction admits its summary as a write.                        *)
LEMMA FreeSummary ==
    ASSUME IInv, NEW t \in Tasks, Comp(t), Live(t), db.tasks[t].owner = 0, NEW cut \in Nat, NEW cover \in SUBSET Nat,
           Placeable(db, t, cut, cover), NEW modes,
           NEW mid, mid = AdmitSubmission(RemoveCompactionStatus(db, t), t,
                            [type |-> "write", busy |-> "followUp", entry |-> SummaryEntry(cut, cover)], modes)
    PROVE  /\ Concluded(db, mid, t)
           /\ \A i \in DOMAIN mid.entries : i > Len(db.entries) => mid.entries[i].kind # "result" /\ mid.entries[i].calls = {}
<1> DEFINE listed == RemoveCompactionStatus(db, t)
           e == SummaryEntry(cut, cover)
           draft == [type |-> "write", busy |-> "followUp", entry |-> e]
<1>1. /\ db \in TxRec /\ Recorded(db, db) /\ TxInv(db, DOMAIN db.inbox, {}) /\ Fresh(db, Range(db.live.run.inputs))
      /\ t \in DOMAIN db.tasks /\ db.tasks[t].status = "live" /\ db.tasks[t].kind = "comp" /\ t \in Nat
  BY CompActs
<1>2. /\ listed \in TxRec
      /\ listed.entries = db.entries /\ listed.subs = db.subs /\ listed.inbox = db.inbox /\ listed.tasks = db.tasks
      /\ listed.live.run = db.live.run
  BY <1>1, RemovedIs
<1>3. /\ e \in EntryRec /\ e.kind = "summary" /\ e.head = cut /\ e.cover = cover /\ e.by = 0 /\ e.calls = {}
  BY SummaryEntryIs
<1>4. mid = AdmitSubmission(listed, t, draft, modes)
      /\ listed.live.compactions = RemoveCompactionStatus(db, t).live.compactions
  OBVIOUS
<1> HIDE DEF listed, e
<1>5. draft.type = "write" /\ draft.busy = "followUp" /\ draft.entry = e
  OBVIOUS
<1> HIDE DEF draft
<1>6. Recorded(db, listed)
  BY <1>1, <1>2, RecordedSame
<1>7. GoodDraft(listed, draft)
  <2>1. Placeable(listed, t, cut, cover)
    BY <1>2, PlaceableSame
  <2>2. Stands(listed, cut, cover) /\ cut \in DOMAIN db.entries
    BY <1>2, <2>1 DEF Placeable, Stands
  <2>3. cut > 0 /\ cut <= Len(listed.entries)
    BY <1>1, <1>2, <2>2, TxFields
  <2> QED
    BY <1>3, <1>5, <2>2, <2>3 DEF GoodDraft
<1>8. t \in RequestNames
  <2>1. t \in Nat
    BY <1>1
  <2> QED
    BY <2>1, NumbersName
<1>9. Admitted(listed, mid)
  <2>1. TxInv(listed, DOMAIN listed.inbox, {}) /\ Fresh(listed, Range(listed.live.run.inputs))
    BY <1>6 DEF Recorded
  <2> QED
    BY <1>2, <1>4, <1>7, <1>8, <2>1, AdmitKeeps
<1>10. Recorded(db, mid)
  <2>1. Forward(db, mid)
    BY <1>2, <1>9 DEF Admitted, Forward, Continues
  <2> QED
    BY <1>9, <2>1 DEF Admitted, Recorded
<1>11. \A i \in DOMAIN mid.entries : i > Len(db.entries) =>
         /\ mid.entries[i].kind # "result" /\ mid.entries[i].calls = {}
         /\ Busy(db) => mid.entries[i].kind = "display"
  <2>1. Busy(db) <=> Busy(listed)
    BY <1>2 DEF Busy
  <2> QED
    BY <1>2, <1>9, <2>1 DEF Admitted, Quiet
<1>12. CASE mid.live = listed.live /\ mid.tasks = listed.tasks
  BY <1>1, <1>2, <1>4, <1>10, <1>11, <1>12 DEF Concluded
<1>13. CASE RunStarted(listed, mid)
  <2>1. /\ ~Busy(db) /\ Len(mid.tasks) = Len(db.tasks) + 1
        /\ \A c \in DOMAIN db.tasks : mid.tasks[c] = db.tasks[c]
        /\ mid.tasks[Len(db.tasks) + 1] = NewTask
        /\ mid.live.run.task = Len(db.tasks) + 1
        /\ mid.live.compactions = RemoveCompactionStatus(db, t).live.compactions
    BY <1>2, <1>4, <1>13 DEF RunStarted, Busy
  <2> QED
    BY <1>1, <1>10, <1>11, <2>1 DEF Concluded
<1> QED
  BY <1>9, <1>12, <1>13 DEF Admitted

(* A summary submitted as a write is placed, queued or stale, and its         *)
(* compaction ends.                                                           *)
LEMMA PlaceSummaryKeeps ==
    ASSUME IInv, env' = env, NEW t \in Tasks, Comp(t), Live(t), NEW cut \in Nat, NEW cover \in SUBSET Nat,
           Placeable(db, t, cut, cover), NEW modes,
           CommitPhase(t, Ended(PlaceSummary(t, cut, cover, modes), t, "summary"))
    PROVE  Onward
<1> DEFINE mid == PlaceSummary(t, cut, cover, modes)
<1>1. /\ Concluded(db, mid, t)
      /\ \A i \in DOMAIN mid.entries : i > Len(db.entries) => mid.entries[i].kind # "result" /\ mid.entries[i].calls = {}
  <2>1. CASE db.tasks[t].owner # 0
    <3>1. mid = AppendEntry(RemoveCompactionStatus(db, t), SummaryEntry(cut, cover))
      BY <2>1 DEF PlaceSummary, Task
    <3> HIDE DEF mid
    <3> QED
      BY <2>1, <3>1, OwnedSummary
  <2>2. CASE db.tasks[t].owner = 0
    <3>1. mid = AdmitSubmission(RemoveCompactionStatus(db, t), t,
                  [type |-> "write", busy |-> "followUp", entry |-> SummaryEntry(cut, cover)], modes)
      BY <2>2 DEF PlaceSummary, Task
    <3> HIDE DEF mid
    <3> QED
      BY <2>2, <3>1, FreeSummary
  <2> QED
    BY <2>1, <2>2
<1> HIDE DEF mid
<1>2. "summary" \in Outcomes
  BY DEF Outcomes
<1>3. CommitPhase(t, Ended(mid, t, "summary"))
  BY DEF mid
<1> QED
  BY <1>1, <1>2, <1>3, CompEndKeeps

(* A summary an extension supplies is submitted.                              *)
LEMMA PlaceHookSummaryKeeps ==
    ASSUME IInv, NEW t \in Tasks, PlaceHookSummary(t)
    PROVE  Onward
<1>1. Comp(t) /\ Live(t) /\ env' = env
  BY DEF PlaceHookSummary, Runs, Free
<1>2. PICK l \in local, modes \in Modes :
         l.task = t /\ l.step = "cut" /\ CommitPhase(t, Ended(PlaceSummary(t, l.cut, l.cover, modes), t, "summary"))
  BY DEF PlaceHookSummary
<1>3. Placeable(db, t, l.cut, l.cover) /\ l.cut \in Nat /\ l.cover \in SUBSET Nat
  BY <1>1, <1>2, HeldCut
<1> QED
  BY <1>1, <1>2, <1>3, PlaceSummaryKeeps

(* A summary the model wrote is submitted.                                    *)
LEMMA SummaryDoneKeeps ==
    ASSUME IInv, NEW t \in Tasks, SummaryDone(t)
    PROVE  Onward
<1>1. Comp(t) /\ Live(t) /\ env' = env /\ db.tasks[t].phase = "summarize"
  BY DEF SummaryDone, Runs, Free, Task
<1>2. PICK modes \in Modes :
         CommitPhase(t, Ended(PlaceSummary(t, db.tasks[t].cut, db.tasks[t].cover, modes), t, "summary"))
  BY DEF SummaryDone, Task
<1>3. db \in TxRec /\ t \in DOMAIN db.tasks /\ t \in LiveOf(db, "comp") /\ SummaryFits(db, t)
  BY <1>1, CompActs
<1>4. db.tasks[t].cut \in Nat /\ db.tasks[t].cover \in SUBSET Nat
  BY <1>3, TaskFields
<1>5. Placeable(db, t, db.tasks[t].cut, db.tasks[t].cover)
  BY <1>1, <1>3 DEF SummaryFits
<1> QED
  BY <1>1, <1>2, <1>4, <1>5, PlaceSummaryKeeps

-----------------------------------------------------------------------------
(* Handlers that throw, and abort handlers.                                *)

(* Entries of no submission and without a head, one after the other.           *)
Longer(mid, new, results) ==
    /\ new.subs = mid.subs /\ new.inbox = mid.inbox /\ new.live = mid.live /\ new.tasks = mid.tasks
    /\ Len(new.entries) = Len(mid.entries) + Len(results)
    /\ \A i \in DOMAIN mid.entries : i \in DOMAIN new.entries /\ new.entries[i] = mid.entries[i]
    /\ \A k \in DOMAIN results : /\ Len(mid.entries) + k \in DOMAIN new.entries
                                 /\ new.entries[Len(mid.entries) + k] = results[k]
    /\ \A i \in DOMAIN new.entries : i > Len(mid.entries) =>
         /\ i - Len(mid.entries) \in DOMAIN results /\ new.entries[i] = results[i - Len(mid.entries)]
         /\ i = Len(mid.entries) + (i - Len(mid.entries))
WithResults(mid, results) == [mid EXCEPT !.entries = mid.entries \o results]

(* Results of calls that belong to no submission are staged.                  *)
LEMMA ResultsJoin ==
    ASSUME NEW tx \in TxRec, NEW mid, NEW U, Carries(tx, mid, U), NEW results \in Seq(EntryRec),
           \A k \in DOMAIN results : PlainEntry(results[k]) /\ results[k].by = 0,
           NEW new, new = WithResults(mid, results)
    PROVE  Carries(tx, new, U) /\ Longer(mid, new, results)
<1> DEFINE old == mid.entries
           entries == old \o results
           v == Len(old)
           u == Len(results)
<1>1. mid \in TxRec
  BY DEF Carries
<1>2. old \in Seq(EntryRec) /\ DOMAIN old = 1 .. v /\ v \in Nat /\ u \in Nat /\ DOMAIN results = 1 .. u
  BY <1>1, TxFields
<1>3. new = [mid EXCEPT !.entries = entries]
  BY DEF WithResults
<1>4. entries \in Seq(EntryRec) /\ Joins(old, results, v, u, entries)
  BY <1>2, Joined
<1>5. old = mid.entries
  OBVIOUS
<1> HIDE DEF entries
<1>6. /\ new \in TxRec /\ new.entries = entries
      /\ new.subs = mid.subs /\ new.inbox = mid.inbox /\ new.live = mid.live /\ new.tasks = mid.tasks
  BY <1>1, <1>3, <1>4, WithEntries
<1> HIDE DEF old, v, u
<1>7. /\ Len(new.entries) = v + u /\ DOMAIN new.entries = 1 .. v + u
      /\ \A n \in 1 .. v : n \in 1 .. v + u /\ new.entries[n] = old[n]
      /\ \A n \in 1 .. u : v + n \in 1 .. v + u /\ new.entries[v + n] = results[n]
      /\ \A n \in 1 .. v + u : n > v => n - v \in 1 .. u /\ new.entries[n] = results[n - v] /\ n = v + (n - v)
  BY <1>2, <1>4, <1>6 DEF Joins
<1>8. Longer(mid, new, results)
  BY <1>2, <1>5, <1>6, <1>7 DEF Longer, v, u
<1>9. Extends(mid, new)
  <2>1. \A i \in DOMAIN new.entries : i > Len(mid.entries) => PlainEntry(new.entries[i])
    BY <1>8 DEF Longer
  <2>2. Len(mid.entries) <= Len(new.entries)
    BY <1>2, <1>5, <1>7 DEF v, u
  <2>3. \A i \in DOMAIN mid.entries : new.entries[i] = mid.entries[i]
    BY <1>8 DEF Longer
  <2> QED
    BY <2>1, <2>2, <2>3 DEF Extends, Continues
<1>10. \A i \in DOMAIN new.entries : i > Len(mid.entries) => new.entries[i].by = 0
  BY <1>8 DEF Longer
<1>11. Carries(tx, new, U)
  BY <1>6, <1>9, <1>10, CarriesPlain
<1> QED
  BY <1>8, <1>11

(* The results of the calls of a round that were never started.               *)
ResultsOf(ref, calls) == [k \in DOMAIN calls |-> ResultOf(ref, calls[k])]

(* The results of a sequence of calls.                                        *)
LEMMA ResultsAre ==
    ASSUME NEW ref \in Nat, NEW calls \in Seq(Nat)
    PROVE  LET results == ResultsOf(ref, calls) IN
           /\ results \in Seq(EntryRec) /\ DOMAIN results = DOMAIN calls /\ Len(results) = Len(calls)
           /\ \A k \in DOMAIN results :
                /\ PlainEntry(results[k]) /\ results[k].by = 0 /\ results[k].kind = "result"
                /\ results[k].ref = ref /\ results[k].call = calls[k] /\ results[k].calls = {}
<1> DEFINE at(k) == ResultOf(ref, calls[k])
           results == [k \in DOMAIN calls |-> at(k)]
<1>1. Len(calls) \in Nat /\ DOMAIN calls = 1 .. Len(calls) /\ \A k \in DOMAIN calls : calls[k] \in Nat
  OBVIOUS
<1>2. \A k \in DOMAIN calls :
        /\ at(k) \in EntryRec /\ PlainEntry(at(k)) /\ at(k).by = 0 /\ at(k).kind = "result" /\ at(k).ref = ref
        /\ at(k).call = calls[k] /\ at(k).calls = {}
  BY <1>1, ResultIs
<1>3. ResultsOf(ref, calls) = results
  BY DEF ResultsOf
<1> HIDE DEF at
<1>4. results \in Seq(EntryRec) /\ DOMAIN results = DOMAIN calls /\ Len(results) = Len(calls)
      /\ \A k \in DOMAIN calls : results[k] = at(k)
  BY <1>1, <1>2
<1> HIDE DEF results
<1> QED
  BY <1>2, <1>3, <1>4

(* A generation that may be ended from outside.                               *)
LEMMA GenStops ==
    ASSUME IInv, NEW t \in Tasks, Gen(t), Live(t), \A c \in Owned(t) : Terminal(c)
    PROVE  /\ Sound(db) /\ db \in TxRec /\ TasksAgree(db) /\ CallsAgree(db)
           /\ t \in LiveOf(db, "gen") /\ t \in DOMAIN db.tasks /\ OwnsDone(db, t) /\ db.live.run.task = t
<1>1. Sound(db) /\ t \in DOMAIN db.tasks /\ t \in LiveOf(db, "gen")
  BY DEF IInv, Tasks, Gen, Live, Task, LiveOf
<1>2. db \in TxRec /\ TasksAgree(db) /\ CallsAgree(db)
  BY <1>1, SoundParts
<1>3. OwnsDone(db, t)
  BY DEF Owned, Terminal, Tasks, Task, OwnsDone
<1> QED
  BY <1>1, <1>2, <1>3, OneGen

Unstarted(tx, t) == IF tx.tasks[t].phase = "tools" THEN tx.tasks[t].pending ELSE <<>>
Finished(tx, t) == WithResults(ConvertPartial(tx), ResultsOf(tx.tasks[t].ref, Unstarted(tx, t)))

(* The abort of a generation gives the calls it never started a result each   *)
(* and settles its run `unanswered`.                                          *)
LEMMA AbortGenKeeps ==
    ASSUME IInv, env' = env, NEW t \in Tasks, Gen(t), Live(t), \A c \in Owned(t) : Terminal(c),
           CommitPhase(t, Ended(EndRun(Finished(db, t), t, "unanswered", 0, "aborted"), t, "aborted"))
    PROVE  Onward
<1> DEFINE unstarted == Unstarted(db, t)
           mid == ConvertPartial(db)
           results == ResultsOf(db.tasks[t].ref, unstarted)
           answered == Finished(db, t)
           new == EndRun(answered, t, "unanswered", 0, "aborted")
           ref == db.tasks[t].ref
<1>1. /\ Sound(db) /\ db \in TxRec /\ TasksAgree(db) /\ CallsAgree(db)
      /\ t \in LiveOf(db, "gen") /\ t \in DOMAIN db.tasks /\ OwnsDone(db, t) /\ db.live.run.task = t
  BY GenStops
<1>2. /\ mid.tasks = db.tasks /\ mid.live = db.live /\ Carries(db, mid, {}) /\ Continues(db, mid)
      /\ \A i \in DOMAIN mid.entries : i > Len(db.entries) => mid.entries[i].kind # "result" /\ mid.entries[i].calls = {}
  BY <1>1, ConvertIs
<1>3. ref \in Nat /\ db.tasks[t].pending \in Seq(Nat) /\ unstarted \in Seq(Nat)
  <2>1. ref \in Nat /\ db.tasks[t].pending \in Seq(Nat) /\ <<>> \in Seq(Nat)
    BY <1>1, TaskFields
  <2> QED
    BY <2>1 DEF Unstarted
<1>4. answered = WithResults(mid, results) /\ db' = Ended(new, t, "aborted") /\ local' \subseteq Kept(db')
  BY DEF CommitPhase, Finished
<1> DEFINE pending == db.tasks[t].pending
           inTools == db.tasks[t].phase = "tools"
<1>0. /\ ~inTools => \A k : k \notin DOMAIN unstarted
      /\ inTools => unstarted = pending
  BY DEF Unstarted
<1>00. inTools => RoundApart(db, ref, pending)
  BY <1>1 DEF CallsAgree, PendingApart
<1>01. results = ResultsOf(ref, unstarted)
  OBVIOUS
<1> HIDE DEF unstarted, answered, pending, inTools, ref
<1>5. mid \in TxRec /\ Len(mid.entries) \in Nat /\ Len(db.entries) <= Len(mid.entries) /\ Len(db.entries) \in Nat
      /\ DOMAIN mid.entries = 1 .. Len(mid.entries)
  BY <1>1, <1>2, TxFields DEF Carries, Continues
<1> HIDE DEF mid
<1> HIDE DEF results
<1>6. /\ results \in Seq(EntryRec) /\ DOMAIN results = DOMAIN unstarted
      /\ \A k \in DOMAIN results :
                /\ PlainEntry(results[k]) /\ results[k].by = 0 /\ results[k].kind = "result"
                /\ results[k].ref = ref /\ results[k].call = unstarted[k] /\ results[k].calls = {}
  <2>1. LET out == ResultsOf(ref, unstarted) IN
        /\ out \in Seq(EntryRec) /\ DOMAIN out = DOMAIN unstarted /\ Len(out) = Len(unstarted)
        /\ \A k \in DOMAIN out :
             /\ PlainEntry(out[k]) /\ out[k].by = 0 /\ out[k].kind = "result"
             /\ out[k].ref = ref /\ out[k].call = unstarted[k] /\ out[k].calls = {}
    BY <1>3, ResultsAre
  <2> QED
    BY <1>01, <2>1
<1>7. Carries(db, answered, {}) /\ Longer(mid, answered, results)
  BY <1>1, <1>2, <1>4, <1>6, ResultsJoin
<1>8. answered.tasks = db.tasks /\ answered.live.run.task = db.live.run.task /\ answered.live.compactions = db.live.compactions
  BY <1>2, <1>7 DEF Longer
<1>9. "aborted" \in Reasons /\ "aborted" \in Outcomes
  BY DEF Reasons, Outcomes
<1>10. GenOver(db, new) /\ new.entries = answered.entries
  BY <1>1, <1>7, <1>8, <1>9, EndRunOver
<1>11. new \in TxRec /\ answered \in TxRec
  BY <1>7, <1>10 DEF GenOver, Recorded, Carries
<1> HIDE DEF new
<1>12. \A i \in DOMAIN new.entries : i > Len(db.entries) =>
         \/ new.entries[i].kind # "result" /\ new.entries[i].calls = {}
         \/ /\ i > Len(mid.entries) /\ i - Len(mid.entries) \in DOMAIN unstarted
            /\ new.entries[i].kind = "result" /\ new.entries[i].ref = ref
            /\ new.entries[i].call = unstarted[i - Len(mid.entries)] /\ new.entries[i].calls = {}
  <2> SUFFICES ASSUME NEW i \in DOMAIN new.entries, i > Len(db.entries)
               PROVE \/ new.entries[i].kind # "result" /\ new.entries[i].calls = {}
                     \/ /\ i > Len(mid.entries) /\ i - Len(mid.entries) \in DOMAIN unstarted
                        /\ new.entries[i].kind = "result" /\ new.entries[i].ref = ref
                        /\ new.entries[i].call = unstarted[i - Len(mid.entries)] /\ new.entries[i].calls = {}
    OBVIOUS
  <2>1. i \in Nat /\ i > 0 /\ i \in DOMAIN answered.entries
    BY <1>10, <1>11, TxFields
  <2>2. CASE i > Len(mid.entries)
    <3>1. i - Len(mid.entries) \in DOMAIN results /\ new.entries[i] = results[i - Len(mid.entries)]
      BY <1>7, <1>10, <2>1, <2>2 DEF Longer
    <3> QED
      BY <1>6, <2>2, <3>1
  <2>3. CASE ~(i > Len(mid.entries))
    <3>1. i \in DOMAIN mid.entries
      BY <1>5, <2>1, <2>3
    <3>2. new.entries[i] = mid.entries[i]
      BY <1>7, <1>10, <3>1 DEF Longer
    <3> QED
      BY <1>2, <3>1, <3>2
  <2> QED
    BY <2>2, <2>3
<1>14. \A k \in DOMAIN unstarted : inTools /\ unstarted[k] \in Range(pending)
  BY <1>0 DEF Range
<1>15. \A j, k \in DOMAIN unstarted : unstarted[j] = unstarted[k] => j = k
  BY <1>0, <1>00 DEF RoundApart
<1>16. inTools => \A call \in Range(pending) : HasResult(new, ref, call)
  <2> SUFFICES ASSUME inTools, NEW call \in Range(pending)
               PROVE  HasResult(new, ref, call)
    OBVIOUS
  <2>1. PICK k \in DOMAIN unstarted : unstarted[k] = call
    BY <1>0 DEF Range
  <2> DEFINE i == Len(mid.entries) + k
  <2>2. i \in DOMAIN new.entries /\ new.entries[i] = results[k]
    BY <1>6, <1>7, <1>10, <2>1 DEF Longer
  <2>3. IsResult(new, i, ref, call)
    BY <1>6, <2>1, <2>2 DEF IsResult
  <2> HIDE DEF i
  <2> QED
    BY <2>2, <2>3 DEF HasResult
<1>17. RoundOver(db, new, t, "aborted")
  <2>1. \A i \in DOMAIN new.entries : i > Len(db.entries) =>
         /\ new.entries[i].calls = {}
         /\ new.entries[i].kind = "result" =>
              inTools /\ new.entries[i].ref = ref /\ new.entries[i].call \in Range(pending)
    BY <1>12, <1>14
  <2>2. \A i, j \in DOMAIN new.entries : i > Len(db.entries) /\ j > Len(db.entries) =>
         (new.entries[i].kind = "result" /\ new.entries[j].kind = "result" /\ new.entries[i].call = new.entries[j].call => i = j)
    <3> SUFFICES ASSUME NEW i \in DOMAIN new.entries, NEW j \in DOMAIN new.entries, i > Len(db.entries), j > Len(db.entries),
                        new.entries[i].kind = "result", new.entries[j].kind = "result", new.entries[i].call = new.entries[j].call
                 PROVE  i = j
      OBVIOUS
    <3>1. i - Len(mid.entries) \in DOMAIN unstarted /\ j - Len(mid.entries) \in DOMAIN unstarted
          /\ unstarted[i - Len(mid.entries)] = unstarted[j - Len(mid.entries)]
      BY <1>12
    <3>2. i - Len(mid.entries) = j - Len(mid.entries)
      BY <1>15, <3>1
    <3>3. i \in Nat /\ j \in Nat
      BY <1>11, TxFields
    <3> QED
      BY <1>5, <3>2, <3>3
  <2> QED
    BY <1>16, <2>1, <2>2 DEF RoundOver, inTools, pending, ref
<1> QED
  BY <1>1, <1>4, <1>9, <1>10, <1>17, GenEndKeeps

(* The abort handler of a task.                                               *)
LEMMA AbortHandlerKeeps ==
    ASSUME IInv, NEW t \in Tasks, AbortHandler(t)
    PROVE  Onward
<1>1. Live(t) /\ env' = env /\ \A c \in Owned(t) : Terminal(c)
  BY DEF AbortHandler, Free
<1>2. Gen(t) \/ Comp(t) \/ Tool(t)
  <2>1. db \in TxRec /\ t \in DOMAIN db.tasks
    BY SoundParts DEF IInv, Tasks
  <2> QED
    BY <2>1, TaskFields DEF Gen, Comp, Tool, Task
<1> DEFINE gen == CommitPhase(t, Ended(EndRun(Finished(db, t), t, "unanswered", 0, "aborted"), t, "aborted"))
           comp == CommitPhase(t, Ended(RemoveCompactionStatus(db, t), t, "aborted"))
           tool == SettleTool(t, "aborted")
<1>3. (CASE Gen(t) -> gen [] Comp(t) -> comp [] Tool(t) -> tool)
  BY DEF AbortHandler, Finished, WithResults, Unstarted, ResultsOf, ResultOf, Task
<1>4. /\ Gen(t) => ~Comp(t) /\ ~Tool(t)
      /\ Comp(t) => ~Gen(t) /\ ~Tool(t)
      /\ Tool(t) => ~Gen(t) /\ ~Comp(t)
  BY DEF Gen, Comp, Tool
<1> HIDE DEF gen, comp, tool
<1>5. (Gen(t) => gen) /\ (Comp(t) => comp) /\ (Tool(t) => tool)
  BY <1>3, <1>4
<1>6. "aborted" \in Outcomes
  BY DEF Outcomes
<1>7. CASE Gen(t)
  BY <1>1, <1>5, <1>7, AbortGenKeeps DEF gen
<1>8. CASE Comp(t)
  BY <1>1, <1>5, <1>6, <1>8, CompDropsKeeps DEF comp
<1>9. CASE Tool(t)
  BY <1>1, <1>5, <1>6, <1>9, SettleToolKeeps DEF tool
<1> QED
  BY <1>2, <1>7, <1>8, <1>9

-----------------------------------------------------------------------------
(* A handler that throws.                                                     *)
LEMMA FaultKeeps ==
    ASSUME IInv, NEW t \in Tasks, Fault(t)
    PROVE  Onward
<1>1. Live(t) /\ env' = env /\ (\A c \in Owned(t) : Terminal(c)) /\ CommitPhase(t, Ended(SettleSchedulerOutcome(t), t, "faulted"))
  BY DEF Fault, Spend
<1>2. Gen(t) \/ Comp(t) \/ Tool(t)
  <2>1. db \in TxRec /\ t \in DOMAIN db.tasks
    BY SoundParts DEF IInv, Tasks
  <2> QED
    BY <2>1, TaskFields DEF Gen, Comp, Tool, Task
<1>11. LET out == SettleSchedulerOutcome(t) IN
       /\ Tool(t) => out = SetSlot(db, t, "done", 0)
       /\ Comp(t) => out = RemoveCompactionStatus(db, t)
       /\ Gen(t) /\ db.live.run.task = t => out = EndRun(ConvertPartial(db), t, "unanswered", 0, "faulted")
  <2>1. /\ Gen(t) => ~Comp(t) /\ ~Tool(t)
        /\ Comp(t) => ~Gen(t) /\ ~Tool(t)
        /\ Tool(t) => ~Gen(t) /\ ~Comp(t)
    BY DEF Gen, Comp, Tool
  <2> QED
    BY <2>1 DEF SettleSchedulerOutcome
<1>3. "faulted" \in Outcomes /\ "faulted" \in Reasons
  BY DEF Outcomes, Reasons
<1>4. CASE Gen(t)
  <2> DEFINE mid == ConvertPartial(db)
             new == EndRun(mid, t, "unanswered", 0, "faulted")
  <2>1. /\ Sound(db) /\ db \in TxRec /\ TasksAgree(db) /\ CallsAgree(db)
        /\ t \in LiveOf(db, "gen") /\ t \in DOMAIN db.tasks /\ OwnsDone(db, t) /\ db.live.run.task = t
    BY <1>1, <1>4, GenStops
  <2>2. db' = Ended(new, t, "faulted") /\ local' \subseteq Kept(db')
    BY <1>1, <1>4, <1>11, <2>1 DEF CommitPhase
  <2>3. /\ mid.tasks = db.tasks /\ mid.live = db.live /\ Carries(db, mid, {}) /\ Continues(db, mid)
        /\ \A i \in DOMAIN mid.entries : i > Len(db.entries) => mid.entries[i].kind # "result" /\ mid.entries[i].calls = {}
    BY <2>1, ConvertIs
  <2> HIDE DEF mid
  <2>4. mid.live.run.task = db.live.run.task /\ mid.live.compactions = db.live.compactions
    BY <2>3
  <2>5. GenOver(db, new) /\ new.entries = mid.entries
    BY <1>3, <2>1, <2>3, <2>4, EndRunOver
  <2> HIDE DEF new
  <2>6. RoundOver(db, new, t, "faulted")
    BY <2>3, <2>5 DEF RoundOver
  <2> QED
    BY <1>1, <1>3, <2>1, <2>2, <2>5, <2>6, GenEndKeeps
<1>5. CASE Comp(t)
  <2>1. CommitPhase(t, Ended(RemoveCompactionStatus(db, t), t, "faulted"))
    BY <1>1, <1>5, <1>11
  <2> QED
    BY <1>1, <1>3, <1>5, <2>1, CompDropsKeeps
<1>6. CASE Tool(t)
  <2> DEFINE mid == SetSlot(db, t, "done", 0)
  <2>1. db' = Ended(mid, t, "faulted") /\ local' \subseteq Kept(db')
    BY <1>1, <1>6, <1>11 DEF CommitPhase
  <2>2. /\ db \in TxRec /\ TxInv(db, DOMAIN db.inbox, {}) /\ Fresh(db, Range(db.live.run.inputs)) /\ Carries(db, db, {})
        /\ t \in LiveOf(db, "tool")
    BY <1>1, <1>6, SoundParts DEF IInv, Tasks, Tool, Live, Task, LiveOf
  <2>3. "done" \in SlotStates
    BY DEF SlotStates
  <2>4. OnlySlots(db, mid)
    BY <2>2, <2>3, SetSlotIs
  <2> HIDE DEF mid
  <2>5. /\ mid \in TxRec /\ mid.entries = db.entries /\ mid.subs = db.subs /\ mid.inbox = db.inbox
        /\ mid.live.run.inputs = db.live.run.inputs /\ mid.tasks = db.tasks /\ mid.live.run = db.live.run
        /\ mid.live.compactions = db.live.compactions
    BY <2>4 DEF OnlySlots
  <2>6. Carries(db, mid, {})
    BY <2>2, <2>5, CarriesSame
  <2>7. ToolOver(db, mid, t, "faulted")
    BY <2>2, <2>5, <2>6, ToolOverIs
  <2> QED
    BY <1>1, <1>3, <2>1, <2>2, <2>7, ToolEndKeeps
<1> QED
  BY <1>2, <1>4, <1>5, <1>6

-----------------------------------------------------------------------------
(* The calls of a round.                                                   *)

(* The calls of a round: the ones that are refused, the ones that start, the    *)
(* ones that start later.                                                     *)
Refused(calls) == {k \in DOMAIN calls : ~calls[k].offered}
Offered(calls) == DOMAIN calls \ Refused(calls)
Started(calls, sequential) ==
    IF sequential THEN {k \in Offered(calls) : \A j \in Offered(calls) : k <= j} ELSE Offered(calls)
Later(calls, sequential) == Offered(calls) \ Started(calls, sequential)
IdsAt(calls, S) == [n \in 1..Cardinality(S) |-> Keep(calls, S)[n].id]

(* A round of calls a model tells apart.                                      *)
GoodCalls(calls) ==
    /\ calls \in Seq(Calls)
    /\ \A i, j \in DOMAIN calls : calls[i].id = calls[j].id => i = j

(* `ids` are the IDs of the calls at the positions `S`.                        *)
Names(calls, S, ids) ==
    /\ ids \in Seq(Nat) /\ DOMAIN ids = 1 .. Cardinality(S) /\ Cardinality(S) \in Nat
    /\ \A n \in DOMAIN ids : \E k \in S : ids[n] = calls[k].id
    /\ \A k \in S : \E n \in DOMAIN ids : ids[n] = calls[k].id
    /\ \A m, n \in DOMAIN ids : ids[m] = ids[n] => m = n

(* The IDs at some positions are those of the calls there, each once.          *)
LEMMA NamesAre ==
    ASSUME NEW calls, GoodCalls(calls), NEW S, S \subseteq DOMAIN calls
    PROVE  Names(calls, S, IdsAt(calls, S))
<1> DEFINE kept == Keep(calls, S)
           f == Ascending(S)
           ids == IdsAt(calls, S)
           size == Cardinality(S)
<1>1. /\ kept \in Seq(Calls) /\ size \in Nat /\ Len(kept) = size /\ DOMAIN kept = 1 .. size
      /\ Picks(f, calls, S, kept)
  BY KeepIs DEF GoodCalls
<1>2. /\ \A n \in 1 .. size : f[n] \in S /\ kept[n] = calls[f[n]] /\ f[n] \in Nat
      /\ \A i \in S : Rank(S, i) \in 1 .. size /\ f[Rank(S, i)] = i
      /\ DOMAIN f = 1 .. size /\ Increasing(f)
  <2> HIDE DEF f, kept
  <2>1. /\ Len(f) = Len(kept) /\ f \in Seq(Nat) /\ Increasing(f)
        /\ \A n \in 1 .. Len(kept) : f[n] \in S /\ kept[n] = calls[f[n]]
        /\ \A i \in S : Rank(S, i) \in 1 .. Len(kept) /\ f[Rank(S, i)] = i
    BY <1>1 DEF Picks, f
  <2> HIDE DEF size
  <2>2. Len(f) = size /\ Len(kept) = size /\ DOMAIN f = 1 .. size
    BY <1>1, <2>1
  <2>3. \A n \in 1 .. size : f[n] \in Nat
    BY <2>1, <2>2
  <2> QED
    BY <2>1, <2>2, <2>3
<1>3. \A m, n \in 1 .. size : f[m] = f[n] => m = n
  BY <1>1, <1>2, Distinct
<1>4. \A n \in 1 .. size : kept[n].id \in Nat
  <2>1. \A c \in Calls : c.id \in Nat
    BY DEF Calls
  <2>2. \A n \in 1 .. size : kept[n] \in Calls
    <3> HIDE DEF kept, size
    <3> QED
      BY <1>1
  <2> QED
    BY <2>1, <2>2
<1>5. DOMAIN ids = 1 .. size /\ \A n \in 1 .. size : ids[n] = kept[n].id
  BY DEF IdsAt
<1>6. ids \in Seq(Nat)
  <2> DEFINE at(n) == kept[n].id
  <2>1. ids = [n \in 1 .. size |-> at(n)]
    BY DEF IdsAt
  <2>2. \A n \in 1 .. size : at(n) \in Nat
    BY <1>4
  <2> HIDE DEF at, kept, size, ids
  <2> QED
    BY <1>1, <2>1, <2>2
<1> HIDE DEF kept, ids, f, size
<1>7. \A n \in 1 .. size : ids[n] = calls[f[n]].id /\ f[n] \in S
  BY <1>2, <1>5
<1>8. \A m, n \in 1 .. size : ids[m] = ids[n] => m = n
  BY <1>3, <1>7 DEF GoodCalls
<1>9. \A k \in S : \E n \in 1 .. size : ids[n] = calls[k].id
  BY <1>2, <1>7
<1>10. Names(calls, S, ids)
  BY <1>1, <1>5, <1>6, <1>7, <1>8, <1>9 DEF Names, size
<1> QED
  BY <1>10 DEF ids

(* A call is refused, starts now or starts later.                              *)
LEMMA CallsPart ==
    ASSUME NEW calls, GoodCalls(calls), NEW sequential \in BOOLEAN
    PROVE  LET R == Refused(calls) S == Started(calls, sequential) L == Later(calls, sequential) IN
           /\ R \subseteq DOMAIN calls /\ S \subseteq DOMAIN calls /\ L \subseteq DOMAIN calls
           /\ \A k \in DOMAIN calls : k \in R \/ k \in S \/ k \in L
           /\ \A k \in R : k \notin S /\ k \notin L
           /\ \A k \in S : k \notin L
  BY DEF Refused, Started, Later, Offered

(* IDs at positions that are apart are apart.                                  *)
LEMMA NamesApart ==
    ASSUME NEW calls, GoodCalls(calls), NEW S, NEW T, S \subseteq DOMAIN calls, T \subseteq DOMAIN calls,
           \A k \in S : k \notin T, NEW a, NEW b, Names(calls, S, a), Names(calls, T, b)
    PROVE  \A m \in DOMAIN a, n \in DOMAIN b : a[m] # b[n]
<1> SUFFICES ASSUME NEW m \in DOMAIN a, NEW n \in DOMAIN b, a[m] = b[n] PROVE FALSE
  OBVIOUS
<1>1. PICK i \in S : a[m] = calls[i].id
  BY DEF Names
<1>2. PICK j \in T : b[n] = calls[j].id
  BY DEF Names
<1>3. i \in DOMAIN calls /\ j \in DOMAIN calls /\ i # j
  BY <1>1, <1>2
<1> QED
  BY <1>1, <1>2, <1>3 DEF GoodCalls

-----------------------------------------------------------------------------
(* The tool tasks of calls.                                                   *)
ToolTasks(t, answer, ids) == [n \in DOMAIN ids |-> ToolTask(t, answer, ids[n])]
IsTool(task, t, answer, call) ==
    /\ task.kind = "tool" /\ task.phase = "call" /\ task.owner = t /\ task.ref = answer /\ task.call = call
    /\ task.status = "live" /\ task.outcome = "none" /\ task.on = {}
ToolStage(a) == [a EXCEPT !.kind = "tool", !.phase = "call"]
ToolKind(a, t, answer, call) == [a EXCEPT !.owner = t, !.ref = answer, !.call = call]

(* The task of a call.                                                        *)
LEMMA ToolTaskIs ==
    ASSUME NEW t \in Nat, NEW answer \in Nat, NEW call \in Nat
    PROVE  ToolTask(t, answer, call) \in TaskRec /\ IsTool(ToolTask(t, answer, call), t, answer, call)
<1>1. \A a \in TaskRec : a.status = "live" /\ a.outcome = "none" /\ a.on = {} =>
        LET b == ToolKind(ToolStage(a), t, answer, call) IN b \in TaskRec /\ IsTool(b, t, answer, call)
  <2> SUFFICES ASSUME NEW a \in TaskRec, a.status = "live", a.outcome = "none", a.on = {}
               PROVE  LET b == ToolKind(ToolStage(a), t, answer, call) IN b \in TaskRec /\ IsTool(b, t, answer, call)
    OBVIOUS
  <2> DEFINE c == ToolStage(a)
  <2>1. c \in TaskRec /\ c.kind = "tool" /\ c.phase = "call" /\ c.status = "live" /\ c.outcome = "none" /\ c.on = {}
    BY DEF ToolStage, TaskRec
  <2> HIDE DEF c
  <2> DEFINE b == ToolKind(c, t, answer, call)
  <2>2. b \in TaskRec /\ b.owner = t /\ b.ref = answer /\ b.call = call
        /\ b.kind = c.kind /\ b.phase = c.phase /\ b.status = c.status /\ b.outcome = c.outcome /\ b.on = c.on
    BY <2>1 DEF ToolKind, TaskRec
  <2>3. b \in TaskRec /\ IsTool(b, t, answer, call)
    BY <2>1, <2>2 DEF IsTool
  <2> QED
    BY <2>3 DEF c
<1>2. NewTask \in TaskRec /\ NewTask.status = "live" /\ NewTask.outcome = "none" /\ NewTask.on = {}
  BY NewTaskType DEF NewTask
<1>3. ToolTask(t, answer, call) = ToolKind(ToolStage(NewTask), t, answer, call)
  BY Zenon DEF ToolTask, ToolKind, ToolStage
<1> QED
  BY <1>1, <1>2, <1>3

(* The tasks of a sequence of calls.                                          *)
LEMMA ToolTasksAre ==
    ASSUME NEW t \in Nat, NEW answer \in Nat, NEW ids \in Seq(Nat)
    PROVE  LET tools == ToolTasks(t, answer, ids) IN
           /\ tools \in Seq(TaskRec) /\ DOMAIN tools = DOMAIN ids /\ Len(tools) = Len(ids)
           /\ \A n \in DOMAIN ids : IsTool(tools[n], t, answer, ids[n])
<1> DEFINE at(n) == ToolTask(t, answer, ids[n])
           tools == [n \in DOMAIN ids |-> at(n)]
<1>1. Len(ids) \in Nat /\ DOMAIN ids = 1 .. Len(ids) /\ \A n \in DOMAIN ids : ids[n] \in Nat
  OBVIOUS
<1>2. \A n \in DOMAIN ids : at(n) \in TaskRec /\ IsTool(at(n), t, answer, ids[n])
  BY <1>1, ToolTaskIs
<1>3. ToolTasks(t, answer, ids) = tools
  BY DEF ToolTasks
<1> HIDE DEF at
<1>4. tools \in Seq(TaskRec) /\ DOMAIN tools = DOMAIN ids /\ Len(tools) = Len(ids)
      /\ \A n \in DOMAIN ids : tools[n] = at(n)
  BY <1>1, <1>2
<1> HIDE DEF tools
<1> QED
  BY <1>2, <1>3, <1>4

(* Tool tasks added behind the tasks of `tx`.                                  *)
AddsTools(tx, mid, tools, t, answer) ==
    /\ Recorded(tx, mid) /\ mid.live.run = tx.live.run /\ mid.live.compactions = tx.live.compactions
    /\ Len(tools) \in Nat /\ DOMAIN tools = 1 .. Len(tools)
    /\ Len(mid.tasks) = Len(tx.tasks) + Len(tools)
    /\ \A c \in DOMAIN tx.tasks : mid.tasks[c] = tx.tasks[c]
    /\ \A n \in DOMAIN tools : /\ mid.tasks[Len(tx.tasks) + n] = tools[n]
                               /\ IsTool(tools[n], t, answer, tools[n].call)
    /\ \A c \in DOMAIN mid.tasks : c > Len(tx.tasks) =>
         c - Len(tx.tasks) \in DOMAIN tools /\ mid.tasks[c] = tools[c - Len(tx.tasks)] /\ c = Len(tx.tasks) + (c - Len(tx.tasks))

(* A generation whose round has these tool tasks goes on.                      *)
LEMMA RoundGoes ==
    ASSUME NEW tx \in TxRec, TasksAgree(tx), NEW t \in LiveOf(tx, "gen"), OwnsDone(tx, t),
           NEW task, StillGen(tx.tasks[t], task), task.phase = "tools",
           NEW mid, NEW tools, AddsTools(tx, mid, tools, t, task.ref),
           task.on \subseteq DOMAIN mid.tasks,
           \A n \in DOMAIN tools : Len(tx.tasks) + n \in task.on
    PROVE  LET new == SetTask(mid, t, task) IN
           /\ Moves(tx, new, t) /\ new.tasks[t] = task
           /\ new.entries = mid.entries /\ new.subs = mid.subs /\ new.live = mid.live
           /\ Len(new.tasks) = Len(mid.tasks) /\ DOMAIN new.tasks = DOMAIN mid.tasks
           /\ \A c \in DOMAIN mid.tasks : c # t => new.tasks[c] = mid.tasks[c]
<1> DEFINE new == SetTask(mid, t, task)
           n == Len(tx.tasks)
<1>1. t \in DOMAIN tx.tasks /\ tx.tasks[t].kind = "gen" /\ tx.tasks[t].status = "live" /\ DOMAIN tx.tasks = 1 .. n
      /\ n \in Nat /\ t \in Nat /\ t # 0 /\ t <= n
  BY TxFields DEF LiveOf
<1>2. mid \in TxRec /\ task \in TaskRec /\ Recorded(tx, mid)
  BY DEF AddsTools, Recorded, StillGen
<1>3. t \in DOMAIN mid.tasks /\ DOMAIN mid.tasks = 1 .. Len(mid.tasks) /\ n <= Len(mid.tasks) /\ Len(mid.tasks) \in Nat
  BY <1>1, <1>2, TxFields DEF AddsTools
<1>4. /\ new \in TxRec
      /\ new.entries = mid.entries /\ new.subs = mid.subs /\ new.inbox = mid.inbox /\ new.live = mid.live
      /\ Len(new.tasks) = Len(mid.tasks) /\ DOMAIN new.tasks = DOMAIN mid.tasks
      /\ new.tasks[t] = task
      /\ \A i \in DOMAIN mid.tasks : i # t => new.tasks[i] = mid.tasks[i]
  BY <1>2, <1>3, SetTaskIs
<1> HIDE DEF new
<1>5. Recorded(tx, new)
  BY <1>2, <1>4, RecordedSame
<1>6. \A c \in DOMAIN tx.tasks : c # t => Alike(tx.tasks[c], new.tasks[c])
  BY <1>1, <1>3, <1>4, AlikeSelf DEF AddsTools
<1>8. \A c \in DOMAIN new.tasks : c > n => c \in task.on /\ IsTool(new.tasks[c], t, task.ref, new.tasks[c].call)
  <2> SUFFICES ASSUME NEW c \in DOMAIN new.tasks, c > n
               PROVE  c \in task.on /\ IsTool(new.tasks[c], t, task.ref, new.tasks[c].call)
    OBVIOUS
  <2>1. c \in DOMAIN mid.tasks /\ c # t /\ new.tasks[c] = mid.tasks[c]
    BY <1>1, <1>3, <1>4
  <2>2. c - n \in DOMAIN tools /\ mid.tasks[c] = tools[c - n] /\ c = n + (c - n)
    BY <2>1 DEF AddsTools
  <2>3. n + (c - n) \in task.on /\ IsTool(tools[c - n], t, task.ref, tools[c - n].call)
    BY <2>2 DEF AddsTools
  <2> QED
    BY <2>1, <2>2, <2>3
<1>9. \A c \in DOMAIN new.tasks : c > n => Created(new, c, t) /\ new.tasks[c].kind # "gen" /\ new.tasks[c].kind # "comp"
  <2>1. t \in LiveOf(new, "gen") /\ new.tasks[t].phase = "tools" /\ new.tasks[t].on = task.on /\ new.tasks[t].ref = task.ref
    BY <1>3, <1>4 DEF LiveOf, StillGen
  <2> QED
    BY <1>8, <2>1 DEF Created, Hosts, IsTool
<1>10. Continued(tx, new, t)
  <2>1. new.live.run = tx.live.run /\ new.live.compactions = tx.live.compactions
    BY <1>4 DEF AddsTools
  <2>2. new.tasks[t].on \subseteq DOMAIN new.tasks
    BY <1>4
  <2>3. /\ new.tasks[t].kind = tx.tasks[t].kind /\ new.tasks[t].owner = tx.tasks[t].owner
        /\ new.tasks[t].status = "live" /\ new.tasks[t].outcome = "none"
    BY <1>1, <1>4 DEF StillGen
  <2> QED
    BY <1>1, <1>3, <1>4, <1>5, <1>6, <1>9, <2>1, <2>2, <2>3 DEF Continued
<1>11. Moves(tx, new, t)
  BY <1>10, GoesOn
<1> QED
  BY <1>4, <1>11 DEF new

(* A commit that takes a generation on with its round.                         *)
LEMMA RoundKeeps ==
    ASSUME IInv, env' = env, NEW t \in LiveOf(db, "gen"), NEW new, Moves(db, new, t), CallsAgree(new), AskedFits(new, t),
           CommitPhase(t, new)
    PROVE  Onward
<1>1. db' = new /\ \A l \in local' : l \in local /\ l.task # t /\ new.tasks[l.task].status = "live" /\ ~new.tasks[l.task].marked
  BY DEF CommitPhase, Kept
<1>2. t \in DOMAIN db.tasks /\ new.tasks[t].kind = "gen"
  BY DEF LiveOf, Moves, Acts
<1>3. SummaryFits(new, t)
  BY <1>2 DEF SummaryFits, LiveOf
<1> QED
  BY <1>1, <1>3, CommitKeeps

(* The record of a generation with a round under way.                         *)
RoundOf(old, on, pending) == [old EXCEPT !.on = on, !.pending = pending]
Refers(old, ref) == [old EXCEPT !.ref = ref]

(* A generation that waits for the tools of its round is still the same       *)
(* generation.                                                                *)
LEMMA GenRounds ==
    ASSUME NEW old, StillGen(old, old), NEW on \in SUBSET Nat, NEW pending \in Seq(Nat)
    PROVE  LET task == RoundOf(old, on, pending) IN
           StillGen(old, task) /\ task.phase = old.phase /\ task.on = on /\ task.pending = pending /\ task.ref = old.ref
  BY DEF StillGen, RoundOf, TaskRec

(* A generation that notes its answer is still the same generation.           *)
LEMMA GenRefers ==
    ASSUME NEW old, StillGen(old, old), NEW ref \in Nat
    PROVE  LET task == Refers(old, ref) IN
           StillGen(old, task) /\ task.phase = old.phase /\ task.on = old.on /\ task.pending = old.pending /\ task.ref = ref
  BY DEF StillGen, Refers, TaskRec

(* What starting the calls of a round leaves.                                  *)
WithTools(tx, tools) == [tx EXCEPT !.tasks = tx.tasks \o tools]
SlotsOf(tx, calls, sequential) ==
    [k \in DOMAIN calls |->
      [task |-> IF k \in Started(calls, sequential) THEN Len(tx.tasks) + Rank(Started(calls, sequential), k) ELSE 0,
       status |-> IF k \in Refused(calls) THEN "done" ELSE "pending",
       entry |-> IF k \in Refused(calls) THEN Len(tx.entries) + Rank(Refused(calls), k) ELSE 0,
       call |-> calls[k].id]]

(* The slots of a round are slots.                                            *)
LEMMA SlotsAre ==
    ASSUME NEW tx \in TxRec, NEW calls, GoodCalls(calls), NEW sequential \in BOOLEAN
    PROVE  SlotsOf(tx, calls, sequential) \in Seq(SlotRec)
<1> DEFINE R == Refused(calls)
           S == Started(calls, sequential)
           at(k) == [task |-> IF k \in S THEN Len(tx.tasks) + Rank(S, k) ELSE 0,
                     status |-> IF k \in R THEN "done" ELSE "pending",
                     entry |-> IF k \in R THEN Len(tx.entries) + Rank(R, k) ELSE 0,
                     call |-> calls[k].id]
<1>1. /\ calls \in Seq(Calls) /\ R \subseteq DOMAIN calls /\ S \subseteq DOMAIN calls
      /\ Len(tx.tasks) \in Nat /\ Len(tx.entries) \in Nat /\ Len(calls) \in Nat /\ DOMAIN calls = 1 .. Len(calls)
  BY CallsPart, TxFields DEF GoodCalls
<1>2. Finite(R) /\ Finite(S) /\ Cardinality(R) \in Nat /\ Cardinality(S) \in Nat
  BY <1>1, KeepIs
<1> HIDE DEF R, S
<1>3. \A k \in DOMAIN calls : Rank(R, k) \in Nat /\ Rank(S, k) \in Nat /\ k \in Nat
  <2>1. \A k \in DOMAIN calls : k \in Nat
    BY <1>1
  <2>2. \A k \in DOMAIN calls : Rank(R, k) \in 0 .. Cardinality(R) /\ Rank(S, k) \in 0 .. Cardinality(S)
    BY <1>2, <2>1, RankType
  <2> QED
    BY <1>2, <2>1, <2>2
<1>4. \A k \in DOMAIN calls : calls[k].id \in Nat
  <2>1. \A c \in Calls : c.id \in Nat
    BY DEF Calls
  <2>2. \A k \in DOMAIN calls : calls[k] \in Calls
    BY <1>1
  <2> QED
    BY <2>1, <2>2
<1>5. \A k \in DOMAIN calls : at(k) \in SlotRec
  BY <1>1, <1>3, <1>4 DEF SlotRec
<1>6. SlotsOf(tx, calls, sequential) = [k \in DOMAIN calls |-> at(k)]
  BY DEF SlotsOf, R, S
<1> HIDE DEF at
<1>7. [k \in DOMAIN calls |-> at(k)] \in Seq(SlotRec)
  <2>1. Len(calls) \in Nat /\ DOMAIN calls = 1 .. Len(calls)
    BY <1>1
  <2> QED
    BY <1>5, <2>1
<1> QED
  BY <1>6, <1>7

(* startCalls: refused calls have their result at once, started ones a task,  *)
(* and later ones stay pending.                                               *)
LEMMA StartCallsIs ==
    ASSUME NEW tx \in TxRec, NEW round, GoodCalls(round.calls), round.sequential \in BOOLEAN, NEW t
    PROVE  LET calls == round.calls
               out == StartCalls(t, tx, round)
               answer == Len(tx.entries)
               refused == IdsAt(calls, Refused(calls))
               started == IdsAt(calls, Started(calls, round.sequential))
           IN /\ out.tx = WithTools(WithResults(tx, ResultsOf(answer, refused)), ToolTasks(t, answer, started))
              /\ out.on = {Len(tx.tasks) + n : n \in DOMAIN started}
              /\ out.pending = IdsAt(calls, Later(calls, round.sequential))
              /\ out.slots = SlotsOf(tx, calls, round.sequential)
<1> DEFINE calls == round.calls
           answer == Len(tx.entries)
           R == Refused(calls)
           S == Started(calls, round.sequential)
           L == Later(calls, round.sequential)
           refused == IdsAt(calls, R)
           started == IdsAt(calls, S)
           results == [n \in 1..Cardinality(R) |->
                         [Blank EXCEPT !.kind = "result", !.ref = answer, !.call = Keep(calls, R)[n].id]]
           tools == [n \in 1..Cardinality(S) |-> ToolTask(t, answer, Keep(calls, S)[n].id)]
           out == StartCalls(t, tx, round)
<1>1. /\ out.tx = [tx EXCEPT !.entries = tx.entries \o results, !.tasks = tx.tasks \o tools]
      /\ out.on = {Len(tx.tasks) + n : n \in 1..Cardinality(S)}
      /\ out.pending = IdsAt(calls, L)
      /\ out.slots = SlotsOf(tx, calls, round.sequential)
  BY DEF StartCalls, Refused, Started, Later, Offered, IdsAt, SlotsOf
<1>2. results = ResultsOf(answer, refused)
  BY DEF ResultsOf, ResultOf, IdsAt
<1>3. tools = ToolTasks(t, answer, started)
  BY DEF ToolTasks, IdsAt
<1>4. DOMAIN started = 1 .. Cardinality(S)
  BY DEF IdsAt
<1> HIDE DEF results, tools, started, refused, S, R, L, calls
<1>5. [tx EXCEPT !.entries = tx.entries \o results, !.tasks = tx.tasks \o tools] = WithTools(WithResults(tx, results), tools)
  BY DEF WithTools, WithResults, TxRec
<1> HIDE DEF out
<1>6. out.tx = WithTools(WithResults(tx, results), tools) /\ out.on = {Len(tx.tasks) + n : n \in DOMAIN started}
  BY <1>1, <1>4, <1>5
<1> QED
  BY <1>1, <1>2, <1>3, <1>6 DEF out, refused, started, calls, R, S, L

(* The entries a round opens with: its answer, and the results of the calls     *)
(* that are refused.                                                          *)
Opens(tx, new, e, refused) ==
    LET answer == Len(tx.entries) + 1 IN
    /\ Recorded(tx, new) /\ new.subs = tx.subs /\ new.live = tx.live /\ new.tasks = tx.tasks
    /\ answer \in DOMAIN new.entries /\ new.entries[answer] = e
    /\ \A i \in DOMAIN new.entries : i > answer =>
         /\ i - answer \in DOMAIN refused /\ new.entries[i].kind = "result" /\ new.entries[i].ref = answer
         /\ new.entries[i].call = refused[i - answer] /\ new.entries[i].calls = {}
         /\ i = answer + (i - answer)
    /\ \A k \in DOMAIN refused :
         answer + k \in DOMAIN new.entries /\ answer + k > answer /\ new.entries[answer + k].call = refused[k]

(* The answer of a round and the results of its refused calls are appended.   *)
LEMMA OpensIs ==
    ASSUME NEW tx, Sound(tx), NEW e \in EntryRec, PlainEntry(e), e.by = 0, e.kind = "assistant",
           NEW refused \in Seq(Nat), NEW answer, answer = Len(tx.entries) + 1
    PROVE  Opens(tx, WithResults(AppendEntry(tx, e), ResultsOf(answer, refused)), e, refused)
<1> DEFINE mid == AppendEntry(tx, e)
           results == ResultsOf(answer, refused)
           new == WithResults(mid, results)
<1>1. tx \in TxRec /\ Carries(tx, tx, {}) /\ Fresh(tx, Range(tx.live.run.inputs)) /\ TxInv(tx, DOMAIN tx.inbox, {})
  BY SoundParts
<1>2. /\ Carries(tx, mid, {})
      /\ mid.subs = tx.subs /\ mid.inbox = tx.inbox /\ mid.live = tx.live /\ mid.tasks = tx.tasks
      /\ Len(mid.entries) = Len(tx.entries) + 1 /\ DOMAIN mid.entries = 1 .. Len(tx.entries) + 1
      /\ \A i \in 1 .. Len(tx.entries) : mid.entries[i] = tx.entries[i]
      /\ mid.entries[Len(tx.entries) + 1] = e
  BY <1>1, AppendedPlain
<1>3. Len(tx.entries) \in Nat /\ answer \in Nat
  BY <1>1, TxFields
<1> HIDE DEF mid
<1>4. /\ results \in Seq(EntryRec) /\ DOMAIN results = DOMAIN refused /\ Len(results) = Len(refused)
      /\ \A k \in DOMAIN results :
           /\ PlainEntry(results[k]) /\ results[k].by = 0 /\ results[k].kind = "result"
           /\ results[k].ref = answer /\ results[k].call = refused[k] /\ results[k].calls = {}
  BY <1>3, ResultsAre
<1> HIDE DEF results
<1>5. Carries(tx, new, {}) /\ Longer(mid, new, results)
  BY <1>1, <1>2, <1>4, ResultsJoin
<1> HIDE DEF new
<1>6. \A i \in DOMAIN new.entries : i > answer =>
         /\ i - answer \in DOMAIN refused /\ new.entries[i].kind = "result" /\ new.entries[i].ref = answer
         /\ new.entries[i].call = refused[i - answer] /\ new.entries[i].calls = {}
         /\ i = answer + (i - answer)
  <2> SUFFICES ASSUME NEW i \in DOMAIN new.entries, i > answer
               PROVE  /\ i - answer \in DOMAIN refused /\ new.entries[i].kind = "result" /\ new.entries[i].ref = answer
                      /\ new.entries[i].call = refused[i - answer] /\ new.entries[i].calls = {}
                      /\ i = answer + (i - answer)
    OBVIOUS
  <2>1. Len(mid.entries) = answer
    BY <1>2
  <2>2. i - answer \in DOMAIN results /\ new.entries[i] = results[i - answer] /\ i = answer + (i - answer)
    BY <1>5, <2>1 DEF Longer
  <2> QED
    BY <1>4, <2>2
<1>7. /\ answer \in DOMAIN new.entries /\ new.entries[answer] = e
      /\ new.subs = tx.subs /\ new.live = tx.live /\ new.tasks = tx.tasks
  <2>1. answer \in DOMAIN mid.entries /\ mid.entries[answer] = e
    BY <1>2, <1>3
  <2>2. \A i \in DOMAIN mid.entries : i \in DOMAIN new.entries /\ new.entries[i] = mid.entries[i]
    BY <1>5 DEF Longer
  <2>3. new.subs = mid.subs /\ new.live = mid.live /\ new.tasks = mid.tasks
    BY <1>5 DEF Longer
  <2> QED
    BY <1>2, <2>1, <2>2, <2>3, Zenon
<1>8. \A k \in DOMAIN refused :
         answer + k \in DOMAIN new.entries /\ answer + k > answer /\ new.entries[answer + k].call = refused[k]
  <2> SUFFICES ASSUME NEW k \in DOMAIN refused
               PROVE  answer + k \in DOMAIN new.entries /\ answer + k > answer /\ new.entries[answer + k].call = refused[k]
    OBVIOUS
  <2>1. k \in Nat /\ k > 0
    OBVIOUS
  <2>2. answer + k \in DOMAIN new.entries /\ new.entries[answer + k] = results[k]
    BY <1>2, <1>4, <1>5 DEF Longer
  <2> QED
    BY <1>3, <1>4, <2>1, <2>2
<1>9. \A i \in DOMAIN new.entries : i > Len(tx.entries) => new.entries[i].kind # "reset"
  <2> SUFFICES ASSUME NEW i \in DOMAIN new.entries, i > Len(tx.entries) PROVE new.entries[i].kind # "reset"
    OBVIOUS
  <2>1. i \in Nat
    BY <1>5, TxFields DEF Carries
  <2>2. i = answer \/ i > answer
    BY <1>3, <2>1
  <2> QED
    BY <1>6, <1>7, <2>2
<1>10. Grown(tx, new, 0)
  BY <1>1, <1>5, <1>7, <1>9, GrownSame
<1>11. Recorded(tx, new)
  BY <1>10 DEF Grown
<1>12. Opens(tx, new, e, refused)
  BY <1>6, <1>7, <1>8, <1>11 DEF Opens
<1> QED
  BY <1>12 DEF new, results, mid

(* The tool tasks it opens with, and the slots that show.                       *)
WithLiveSlots(tx, slots) == [tx EXCEPT !.live = [@ EXCEPT !.gen = "none", !.slots = slots]]

(* The slots of a new round are nobody else's.                                *)
LEMMA LiveSlotsIs ==
    ASSUME NEW tx \in TxRec, NEW slots \in Seq(SlotRec)
    PROVE  LET new == WithLiveSlots(tx, slots) IN
           /\ new \in TxRec /\ new.entries = tx.entries /\ new.subs = tx.subs /\ new.inbox = tx.inbox /\ new.tasks = tx.tasks
           /\ new.live.run = tx.live.run /\ new.live.compactions = tx.live.compactions
<1> DEFINE live == [tx.live EXCEPT !.gen = "none", !.slots = slots]
<1>1. live \in LiveRec /\ live.run = tx.live.run /\ live.compactions = tx.live.compactions
  <2>1. tx.live \in LiveRec
    BY TxFields
  <2> QED
    BY <2>1 DEF LiveRec
<1>2. WithLiveSlots(tx, slots) = [tx EXCEPT !.live = live]
  BY DEF WithLiveSlots
<1> HIDE DEF live
<1> QED
  BY <1>1, <1>2, WithLive

(* The tasks of the started calls are added.                                  *)
LEMMA ToolsAdded ==
    ASSUME NEW tx \in TxRec, NEW mid, Recorded(tx, mid), mid.tasks = tx.tasks, mid.live = tx.live,
           NEW t \in Nat, NEW answer \in Nat, NEW ids \in Seq(Nat), NEW slots \in Seq(SlotRec),
           NEW tools, tools = ToolTasks(t, answer, ids)
    PROVE  LET new == WithLiveSlots(WithTools(mid, tools), slots) IN
           /\ AddsTools(tx, new, tools, t, answer)
           /\ new.entries = mid.entries /\ new.subs = mid.subs /\ new.live.run = tx.live.run
           /\ DOMAIN tools = DOMAIN ids /\ \A n \in DOMAIN ids : IsTool(tools[n], t, answer, ids[n])
<1> DEFINE tasks == mid.tasks \o tools
           out == WithTools(mid, tools)
           new == WithLiveSlots(out, slots)
           v == Len(mid.tasks)
           u == Len(tools)
           old == mid.tasks
<1>1. /\ tools \in Seq(TaskRec) /\ DOMAIN tools = DOMAIN ids
      /\ \A n \in DOMAIN ids : IsTool(tools[n], t, answer, ids[n])
  BY ToolTasksAre
<1>2. mid \in TxRec /\ old \in Seq(TaskRec) /\ v \in Nat /\ DOMAIN old = 1 .. v
  BY TxFields DEF Recorded
<1>3. tasks \in Seq(TaskRec) /\ Joins(old, tools, v, u, tasks)
  BY <1>1, <1>2, Joined
<1> HIDE DEF tasks
<1>4. /\ out \in TxRec /\ out.tasks = tasks
      /\ out.entries = mid.entries /\ out.subs = mid.subs /\ out.inbox = mid.inbox /\ out.live = mid.live
  <2>1. out = [mid EXCEPT !.tasks = tasks]
    BY DEF WithTools, tasks
  <2>2. mid \in TxRec /\ tasks \in Seq(TaskRec)
    BY <1>2, <1>3
  <2> HIDE DEF out, old, v, u
  <2> QED
    BY <2>1, <2>2, WithTasks
<1> HIDE DEF out
<1>5. /\ new \in TxRec /\ new.entries = out.entries /\ new.subs = out.subs /\ new.inbox = out.inbox /\ new.tasks = out.tasks
      /\ new.live.run = out.live.run /\ new.live.compactions = out.live.compactions
  BY <1>4, LiveSlotsIs
<1> HIDE DEF new
<1>6. Recorded(tx, new)
  BY <1>4, <1>5, RecordedSame
<1>7. u \in Nat /\ u = Len(tools) /\ DOMAIN tools = 1 .. u /\ v = Len(tx.tasks) /\ new.tasks = tasks
  BY <1>1, <1>4, <1>5
<1>8. \A n \in DOMAIN tools : IsTool(tools[n], t, answer, tools[n].call)
  BY <1>1 DEF IsTool
<1>9. DOMAIN tx.tasks = 1 .. v /\ old = tx.tasks
  BY <1>2
<1> HIDE DEF v, u, old
<1>10. /\ Len(new.tasks) = v + u /\ DOMAIN new.tasks = 1 .. v + u
       /\ \A c \in DOMAIN tx.tasks : new.tasks[c] = tx.tasks[c]
       /\ \A n \in DOMAIN tools : new.tasks[v + n] = tools[n]
  BY <1>3, <1>7, <1>9 DEF Joins
<1>11. \A c \in DOMAIN new.tasks : c > v => c - v \in DOMAIN tools /\ new.tasks[c] = tools[c - v] /\ c = v + (c - v)
  <2> SUFFICES ASSUME NEW c \in DOMAIN new.tasks, c > v
               PROVE  c - v \in DOMAIN tools /\ new.tasks[c] = tools[c - v] /\ c = v + (c - v)
    OBVIOUS
  <2>1. c \in Nat /\ c \in 1 .. v + u /\ c \notin 1 .. v
    BY <1>2, <1>7, <1>10
  <2>2. c - v \in 1 .. u /\ new.tasks[c] = tools[c - v]
    BY <1>3, <1>7, <2>1 DEF Joins
  <2> QED
    BY <1>2, <1>7, <2>1, <2>2
<1>12. AddsTools(tx, new, tools, t, answer)
  BY <1>4, <1>5, <1>6, <1>7, <1>8, <1>10, <1>11 DEF AddsTools
<1> QED
  BY <1>1, <1>4, <1>5, <1>12 DEF new, out

(* The IDs of the calls of a round, dealt out: each call has one place.         *)
Made(calls) == {call.id : call \in Range(calls)}
Dealt(calls, refused, started, later) ==
    /\ refused \in Seq(Nat) /\ started \in Seq(Nat) /\ later \in Seq(Nat)
    /\ \A m, n \in DOMAIN refused : refused[m] = refused[n] => m = n
    /\ \A m, n \in DOMAIN started : started[m] = started[n] => m = n
    /\ \A m, n \in DOMAIN later : later[m] = later[n] => m = n
    /\ \A m \in DOMAIN refused, n \in DOMAIN started : refused[m] # started[n]
    /\ \A m \in DOMAIN refused, n \in DOMAIN later : refused[m] # later[n]
    /\ \A m \in DOMAIN started, n \in DOMAIN later : started[m] # later[n]
    /\ \A call \in Made(calls) :
         \/ \E n \in DOMAIN refused : refused[n] = call
         \/ \E n \in DOMAIN started : started[n] = call
         \/ \E n \in DOMAIN later : later[n] = call

(* Each call of a round is refused, started or left for later, and only one of*)
(* them.                                                                      *)
LEMMA DealtIs ==
    ASSUME NEW calls, GoodCalls(calls), NEW sequential \in BOOLEAN
    PROVE  Dealt(calls, IdsAt(calls, Refused(calls)), IdsAt(calls, Started(calls, sequential)),
                 IdsAt(calls, Later(calls, sequential)))
<1> DEFINE R == Refused(calls)
           S == Started(calls, sequential)
           L == Later(calls, sequential)
           refused == IdsAt(calls, R)
           started == IdsAt(calls, S)
           later == IdsAt(calls, L)
<1>1. /\ R \subseteq DOMAIN calls /\ S \subseteq DOMAIN calls /\ L \subseteq DOMAIN calls
      /\ \A k \in DOMAIN calls : k \in R \/ k \in S \/ k \in L
      /\ \A k \in R : k \notin S /\ k \notin L
      /\ \A k \in S : k \notin L
  BY CallsPart
<1> HIDE DEF R, S, L
<1>2. Names(calls, R, refused) /\ Names(calls, S, started) /\ Names(calls, L, later)
  BY <1>1, NamesAre
<1> HIDE DEF refused, started, later
<1>3. \A m \in DOMAIN refused, n \in DOMAIN started : refused[m] # started[n]
  BY <1>1, <1>2, NamesApart
<1>4. \A m \in DOMAIN refused, n \in DOMAIN later : refused[m] # later[n]
  BY <1>1, <1>2, NamesApart
<1>5. \A m \in DOMAIN started, n \in DOMAIN later : started[m] # later[n]
  BY <1>1, <1>2, NamesApart
<1>6. \A call \in Made(calls) :
         \/ \E n \in DOMAIN refused : refused[n] = call
         \/ \E n \in DOMAIN started : started[n] = call
         \/ \E n \in DOMAIN later : later[n] = call
  <2> SUFFICES ASSUME NEW call \in Made(calls)
               PROVE  \/ \E n \in DOMAIN refused : refused[n] = call
                      \/ \E n \in DOMAIN started : started[n] = call
                      \/ \E n \in DOMAIN later : later[n] = call
    OBVIOUS
  <2>1. PICK k \in DOMAIN calls : call = calls[k].id
    BY DEF Made, Range
  <2> QED
    BY <1>1, <1>2, <2>1 DEF Names
<1>7. Dealt(calls, refused, started, later)
  BY <1>2, <1>3, <1>4, <1>5, <1>6 DEF Dealt, Names
<1> QED
  BY <1>7 DEF refused, started, later, R, S, L

(* The calls of a round are calls.                                            *)
LEMMA MadeAre ==
    ASSUME NEW calls, GoodCalls(calls)
    PROVE  Made(calls) \in SUBSET Nat
<1>1. \A c \in Calls : c.id \in Nat
  BY DEF Calls
<1>2. \A c \in Range(calls) : c \in Calls
  BY DEF GoodCalls, Range
<1> QED
  BY <1>1, <1>2 DEF Made

(* The round that a commit opened.                                            *)
Deals(tx, mid, t, task, answer, started, later, staged, tools, new) ==
    /\ answer = Len(tx.entries) + 1 /\ tx.tasks[t].phase # "tools"
    /\ StillGen(tx.tasks[t], task) /\ task.phase = "tools" /\ task.ref = answer /\ task.pending = later
    /\ AddsTools(tx, staged, tools, t, answer) /\ DOMAIN tools = DOMAIN started
    /\ \A n \in DOMAIN started : IsTool(tools[n], t, answer, started[n])
    /\ Moves(tx, new, t) /\ new.tasks[t] = task /\ new.entries = mid.entries
    /\ DOMAIN new.tasks = DOMAIN staged.tasks
    /\ \A c \in DOMAIN staged.tasks : c # t => new.tasks[c] = staged.tasks[c]

(* A round starts with each of its calls dealt out once.                      *)
LEMMA OpensRound ==
    ASSUME NEW tx, Sound(tx), NEW t \in LiveOf(tx, "gen"),
           NEW calls, NEW refused, NEW started, NEW later, Dealt(calls, refused, started, later),
           NEW e, e.kind = "assistant", e.calls = Made(calls), NEW mid, Opens(tx, mid, e, refused),
           NEW answer, NEW task, NEW staged, NEW tools, NEW new,
           Deals(tx, mid, t, task, answer, started, later, staged, tools, new)
    PROVE  RoundStarts(tx, new, t)
<1>0. /\ answer = Len(tx.entries) + 1 /\ tx.tasks[t].phase # "tools"
      /\ StillGen(tx.tasks[t], task) /\ task.phase = "tools" /\ task.ref = answer /\ task.pending = later
      /\ AddsTools(tx, staged, tools, t, answer) /\ DOMAIN tools = DOMAIN started
      /\ \A n \in DOMAIN started : IsTool(tools[n], t, answer, started[n])
      /\ Moves(tx, new, t) /\ new.tasks[t] = task /\ new.entries = mid.entries
      /\ DOMAIN new.tasks = DOMAIN staged.tasks
      /\ \A c \in DOMAIN staged.tasks : c # t => new.tasks[c] = staged.tasks[c]
  BY DEF Deals
<1> USE <1>0
<1> DEFINE n0 == Len(tx.tasks)
<1>1. tx \in TxRec /\ TasksAgree(tx) /\ new \in TxRec /\ Len(tx.entries) \in Nat /\ n0 \in Nat /\ DOMAIN tx.tasks = 1 .. n0
      /\ t \in DOMAIN tx.tasks /\ n0 <= Len(new.tasks) /\ DOMAIN new.tasks = 1 .. Len(new.tasks) /\ Len(new.tasks) \in Nat
  <2>1. tx \in TxRec /\ TasksAgree(tx) /\ new \in TxRec /\ n0 <= Len(new.tasks)
    BY SoundParts DEF Moves, Recorded
  <2> QED
    BY <2>1, TxFields DEF LiveOf
<1>2. t \in DOMAIN new.tasks
  BY <1>1
<1>3. InTools(new, t)
  BY <1>2 DEF InTools, LiveOf, StillGen
<1>4. \A c \in LiveOf(new, "tool") : \E k \in DOMAIN started : c = n0 + k /\ new.tasks[c].call = started[k]
  <2> SUFFICES ASSUME NEW c \in LiveOf(new, "tool")
               PROVE  \E k \in DOMAIN started : c = n0 + k /\ new.tasks[c].call = started[k]
    OBVIOUS
  <2>1. c > n0 /\ c \in DOMAIN new.tasks
    BY <1>1, OwnNow
  <2>2. c \in DOMAIN staged.tasks /\ c # t
    BY <1>1, <2>1
  <2>3. new.tasks[c] = staged.tasks[c]
    BY <2>2
  <2>4. c - n0 \in DOMAIN tools /\ staged.tasks[c] = tools[c - n0] /\ c = n0 + (c - n0)
    BY <2>1, <2>2 DEF AddsTools
  <2>5. IsTool(tools[c - n0], t, answer, started[c - n0])
    BY <2>4
  <2> QED
    BY <2>3, <2>4, <2>5 DEF IsTool
<1>5. \A k \in DOMAIN started : n0 + k \in LiveOf(new, "tool") /\ new.tasks[n0 + k].call = started[k]
  <2> SUFFICES ASSUME NEW k \in DOMAIN started
               PROVE  n0 + k \in LiveOf(new, "tool") /\ new.tasks[n0 + k].call = started[k]
    OBVIOUS
  <2>1. k \in Nat /\ k > 0 /\ k <= Len(tools) /\ Len(tools) \in Nat /\ Len(staged.tasks) = n0 + Len(tools)
    BY DEF AddsTools
  <2>2. n0 + k \in DOMAIN staged.tasks /\ n0 + k # t
    <3>1. staged \in TxRec
      BY DEF AddsTools, Recorded
    <3>2. DOMAIN staged.tasks = 1 .. Len(staged.tasks)
      BY <3>1, TxFields
    <3>3. n0 \in Nat /\ t \in 1 .. n0
      BY <1>1
    <3>4. n0 + k \in 1 .. Len(staged.tasks) /\ n0 + k > n0
      <4> DEFINE size == Len(staged.tasks)
                 more == Len(tools)
      <4>1. size = n0 + more /\ more \in Nat /\ k <= more /\ k \in Nat /\ k > 0 /\ n0 \in Nat
        BY <2>1, <3>3
      <4> HIDE DEF size, more, n0
      <4>2. n0 + k \in 1 .. size /\ n0 + k > n0
        BY <4>1
      <4> QED
        BY <4>2 DEF size
    <3> HIDE DEF n0
    <3>5. n0 + k # t
      BY <2>1, <3>3, <3>4
    <3> QED
      BY <3>2, <3>4, <3>5
  <2>3. staged.tasks[n0 + k] = tools[k] /\ IsTool(tools[k], t, answer, started[k])
    BY DEF AddsTools
  <2> QED
    BY <2>2, <2>3 DEF LiveOf, IsTool
<1>6. /\ answer \in DOMAIN new.entries /\ new.entries[answer] = e
      /\ \A i \in DOMAIN new.entries : i > answer =>
         /\ i - answer \in DOMAIN refused /\ new.entries[i].kind = "result" /\ new.entries[i].ref = answer
         /\ new.entries[i].call = refused[i - answer] /\ new.entries[i].calls = {}
         /\ i = answer + (i - answer)
      /\ \A k \in DOMAIN refused :
         answer + k \in DOMAIN new.entries /\ answer + k > answer /\ new.entries[answer + k].call = refused[k]
  BY DEF Opens
<1>7. \A i, j \in DOMAIN new.entries : i > answer /\ j > answer /\ new.entries[i].call = new.entries[j].call => i = j
  <2> SUFFICES ASSUME NEW i \in DOMAIN new.entries, NEW j \in DOMAIN new.entries, i > answer, j > answer,
                      new.entries[i].call = new.entries[j].call
               PROVE  i = j
    OBVIOUS
  <2>1. i - answer \in DOMAIN refused /\ j - answer \in DOMAIN refused /\ refused[i - answer] = refused[j - answer]
    BY <1>6
  <2>2. i - answer = j - answer
    BY <2>1 DEF Dealt
  <2> QED
    BY <1>6, <2>2
<1>8. \A c \in LiveOf(new, "tool") : /\ new.tasks[c].call \notin Range(later)
                                     /\ \A i \in DOMAIN new.entries : i > answer => new.entries[i].call # new.tasks[c].call
  <2> SUFFICES ASSUME NEW c \in LiveOf(new, "tool")
               PROVE  /\ new.tasks[c].call \notin Range(later)
                      /\ \A i \in DOMAIN new.entries : i > answer => new.entries[i].call # new.tasks[c].call
    OBVIOUS
  <2>1. PICK k \in DOMAIN started : new.tasks[c].call = started[k]
    BY <1>4
  <2>2. started[k] \notin Range(later)
    BY DEF Dealt, Range
  <2>3. \A i \in DOMAIN new.entries : i > answer => new.entries[i].call # started[k]
    BY <1>6 DEF Dealt
  <2> QED
    BY <2>1, <2>2, <2>3
<1>9. \A c, d \in LiveOf(new, "tool") : new.tasks[c].call = new.tasks[d].call => c = d
  BY <1>4 DEF Dealt
<1>10. /\ \A j, k \in DOMAIN later : later[j] = later[k] => j = k
       /\ \A k \in DOMAIN later : \A i \in DOMAIN new.entries : i > answer => new.entries[i].call # later[k]
  BY <1>6 DEF Dealt
<1>11. \A call \in e.calls :
         \/ \E i \in DOMAIN new.entries : i > answer /\ new.entries[i].call = call
         \/ \E c \in LiveOf(new, "tool") : new.tasks[c].call = call
         \/ call \in Range(later)
  <2> SUFFICES ASSUME NEW call \in Made(calls)
               PROVE  \/ \E i \in DOMAIN new.entries : i > answer /\ new.entries[i].call = call
                      \/ \E c \in LiveOf(new, "tool") : new.tasks[c].call = call
                      \/ call \in Range(later)
    OBVIOUS
  <2>1. CASE \E n \in DOMAIN refused : refused[n] = call
    BY <1>6, <2>1
  <2>2. CASE \E n \in DOMAIN started : started[n] = call
    BY <1>5, <2>2
  <2>3. CASE \E n \in DOMAIN later : later[n] = call
    BY <2>3 DEF Range
  <2> QED
    BY <2>1, <2>2, <2>3 DEF Dealt
<1> QED
  BY <1>3, <1>6, <1>7, <1>8, <1>9, <1>10, <1>11 DEF RoundStarts

-----------------------------------------------------------------------------
(* Tool rounds: their start, their next call, their end.                   *)

Calling(t, made) == [Assistant(t, "assistant") EXCEPT !.calls = made]

(* The entry of an answer that makes calls.                                   *)
LEMMA CallingIs ==
    ASSUME IInv, NEW t \in Tasks, HasReply(t), NEW made \in SUBSET Nat
    PROVE  LET e == Calling(t, made) IN
           /\ e \in EntryRec /\ PlainEntry(e) /\ e.by = 0 /\ e.kind = "assistant" /\ e.ref = db.tasks[t].cutoff
           /\ e.calls = made
<1> DEFINE a == Assistant(t, "assistant")
           kind == "assistant"
<1>1. kind \in {"assistant", "failed"} /\ a = Assistant(t, kind)
  OBVIOUS
<1>2. /\ a \in EntryRec /\ PlainEntry(a) /\ a.by = 0 /\ a.kind = kind /\ a.ref = db.tasks[t].cutoff
  <2> HIDE DEF a
  <2> QED
    BY <1>1, AssistantIs
<1> HIDE DEF a
<1>3. LET e == [a EXCEPT !.calls = made] IN
      /\ e \in EntryRec /\ e.head = a.head /\ e.kind = a.kind /\ e.cover = a.cover /\ e.by = a.by /\ e.ref = a.ref
      /\ e.calls = made
  BY <1>2 DEF EntryRec
<1>4. Calling(t, made) = [a EXCEPT !.calls = made]
  BY DEF Calling, a
<1> QED
  BY <1>2, <1>3, <1>4 DEF PlainEntry

(* The rounds of a story.                                                     *)
LEMMA RoundsAreGood ==
    ASSUME env \in Stories, NEW round \in Rounds
    PROVE  GoodCalls(round.calls) /\ round.sequential \in BOOLEAN
<1>1. round \in env.rounds
  BY DEF Rounds
<1> QED
  BY <1>1, StoriesAssumption DEF GoodCalls

(* An answer with tool calls starts a round.                                  *)
LEMMA StartToolRoundKeeps ==
    ASSUME IInv, NEW t \in Tasks, StartToolRound(t)
    PROVE  Onward
<1>1. HasReply(t) /\ env' = env
  BY DEF StartToolRound, Spend
<1>2. PICK round \in Rounds :
        LET r == StartCalls(t, AppendEntry(db, Calling(t, Made(round.calls))), round)
        IN CommitPhase(t, SetTask(WithLiveSlots(r.tx, r.slots), t,
                   [Task(t) EXCEPT !.phase = "tools", !.on = r.on, !.pending = r.pending, !.ref = Len(db.entries) + 1]))
  BY DEF StartToolRound, Calling, Made, WithLiveSlots
<1> DEFINE calls == round.calls
           e == Calling(t, Made(calls))
           start == AppendEntry(db, e)
           r == StartCalls(t, start, round)
           answer == Len(db.entries) + 1
           refused == IdsAt(calls, Refused(calls))
           started == IdsAt(calls, Started(calls, round.sequential))
           later == IdsAt(calls, Later(calls, round.sequential))
           mid == WithResults(start, ResultsOf(answer, refused))
           tools == ToolTasks(t, answer, started)
           slots == SlotsOf(start, calls, round.sequential)
           staged == WithLiveSlots(WithTools(mid, tools), slots)
           on == {Len(db.tasks) + n : n \in DOMAIN started}
           old == db.tasks[t]
           first == InPhase(old, "tools")
           second == RoundOf(first, on, later)
           task == Refers(second, answer)
           new == SetTask(staged, t, task)
<1>3. GoodCalls(calls) /\ round.sequential \in BOOLEAN
  BY RoundsAreGood DEF IInv
<1>4. /\ Sound(db) /\ db \in TxRec /\ TasksAgree(db) /\ t \in LiveOf(db, "gen") /\ t \in DOMAIN db.tasks /\ OwnsDone(db, t)
      /\ old.phase # "tools" /\ Saw(db, old.cutoff) /\ old.cutoff \in Nat /\ StillGen(old, old)
  BY <1>1, ReplyIs
<1>5. Made(calls) \in SUBSET Nat
  BY <1>3, MadeAre
<1>6. /\ e \in EntryRec /\ PlainEntry(e) /\ e.by = 0 /\ e.kind = "assistant" /\ e.ref = old.cutoff /\ e.calls = Made(calls)
  BY <1>1, <1>5, CallingIs
<1> HIDE DEF e
<1>7. /\ start \in TxRec /\ Len(start.entries) = answer /\ start.tasks = db.tasks
  BY <1>4, <1>6, AppendEntryIs
<1> HIDE DEF start
<1>8. Dealt(calls, refused, started, later)
  BY <1>3, DealtIs
<1>9. /\ r.tx = WithTools(mid, tools) /\ r.on = on /\ r.pending = later /\ r.slots = slots
  <2> HIDE DEF r
  <2> QED
    BY <1>3, <1>7, StartCallsIs DEF r
<1>10. slots \in Seq(SlotRec)
  BY <1>3, <1>7, SlotsAre
<1> HIDE DEF refused, started, later, r, slots
<1>11. refused \in Seq(Nat) /\ started \in Seq(Nat) /\ later \in Seq(Nat)
  BY <1>8 DEF Dealt
<1>12. Opens(db, mid, e, refused)
  BY <1>4, <1>6, <1>11, OpensIs DEF start
<1> HIDE DEF mid
<1>13. answer \in Nat /\ t \in Nat /\ Len(db.tasks) \in Nat /\ DOMAIN db.tasks = 1 .. Len(db.tasks)
  BY <1>4, TxFields
<1>14. Recorded(db, mid) /\ mid.tasks = db.tasks /\ mid.live = db.live /\ mid.subs = db.subs
  BY <1>12 DEF Opens
<1>15. /\ AddsTools(db, staged, tools, t, answer)
       /\ staged.entries = mid.entries /\ staged.subs = mid.subs /\ staged.live.run = db.live.run
       /\ DOMAIN tools = DOMAIN started /\ \A n \in DOMAIN started : IsTool(tools[n], t, answer, started[n])
  <2> HIDE DEF staged, tools, answer
  <2> QED
    BY <1>4, <1>10, <1>11, <1>13, <1>14, ToolsAdded DEF staged, tools
<1> HIDE DEF staged, tools
<1>16. on \in SUBSET Nat /\ on \subseteq DOMAIN staged.tasks
  <2>1. staged \in TxRec /\ Len(staged.tasks) = Len(db.tasks) + Len(tools) /\ DOMAIN tools = 1 .. Len(tools) /\ Len(tools) \in Nat
    BY <1>15 DEF AddsTools, Recorded
  <2>2. DOMAIN staged.tasks = 1 .. Len(staged.tasks)
    BY <2>1, TxFields
  <2>3. \A n \in DOMAIN started : Len(db.tasks) + n \in 1 .. Len(staged.tasks) /\ Len(db.tasks) + n \in Nat
    BY <1>13, <1>15, <2>1
  <2> QED
    BY <2>2, <2>3
<1>17. \A n \in DOMAIN tools : Len(db.tasks) + n \in on
  BY <1>15
<1> HIDE DEF on, old
<1>18. /\ StillGen(old, task) /\ task.phase = "tools" /\ task.on = on /\ task.pending = later /\ task.ref = answer
  <2> DEFINE phase == "tools"
  <2>1. phase \in Phases /\ first = InPhase(old, phase)
    BY DEF Phases
  <2> HIDE DEF phase, first
  <2>2. StillGen(old, first) /\ first.phase = phase
    BY <1>4, <2>1, GenInPhase
  <2>3. StillGen(first, first)
    BY <2>2, StillNow
  <2> HIDE DEF second
  <2>4. StillGen(first, second) /\ second.phase = first.phase /\ second.on = on /\ second.pending = later
    BY <1>11, <1>16, <2>3, GenRounds DEF second
  <2>5. StillGen(second, second)
    BY <2>4, StillNow
  <2> HIDE DEF task, answer
  <2>6. StillGen(second, task) /\ task.phase = second.phase /\ task.on = second.on /\ task.pending = second.pending
        /\ task.ref = answer
    BY <1>13, <2>5, GenRefers DEF task
  <2> QED
    BY <2>2, <2>4, <2>6, StillTwice DEF phase
<1>19. [Task(t) EXCEPT !.phase = "tools", !.on = on, !.pending = later, !.ref = answer] = task
  BY DEF Task, InPhase, RoundOf, Refers, old
<1>20. CommitPhase(t, SetTask(staged, t, task))
  BY <1>2, <1>9, <1>19 DEF staged, e, start, r
<1> HIDE DEF task, answer
<1>21. /\ Moves(db, new, t) /\ new.tasks[t] = task
       /\ new.entries = staged.entries /\ new.subs = staged.subs /\ new.live = staged.live
       /\ DOMAIN new.tasks = DOMAIN staged.tasks
       /\ \A c \in DOMAIN staged.tasks : c # t => new.tasks[c] = staged.tasks[c]
  <2>1. AddsTools(db, staged, tools, t, task.ref) /\ task.on \subseteq DOMAIN staged.tasks
        /\ \A n \in DOMAIN tools : Len(db.tasks) + n \in task.on
    BY <1>15, <1>16, <1>17, <1>18
  <2>2. StillGen(db.tasks[t], task)
    BY <1>18 DEF old
  <2> QED
    BY <1>4, <1>18, <2>1, <2>2, RoundGoes
<1> HIDE DEF new
<1>22. RoundStarts(db, new, t)
  <2>1. answer = Len(db.entries) + 1 /\ db.tasks[t].phase # "tools" /\ StillGen(db.tasks[t], task)
    BY <1>4, <1>18 DEF old, answer
  <2>2. new.entries = mid.entries
    BY <1>15, <1>21
  <2>3. e.kind = "assistant" /\ e.calls = Made(calls)
    BY <1>6
  <2> HIDE DEF calls
  <2>4. Deals(db, mid, t, task, answer, started, later, staged, tools, new)
    BY <1>15, <1>18, <1>21, <2>1, <2>2 DEF Deals
  <2> QED
    BY <1>4, <1>8, <1>12, <2>3, <2>4, OpensRound
<1>23. CallsAgree(new)
  BY <1>4, <1>21, <1>22, SoundParts, RoundStartsApart
<1>24. AskedFits(new, t)
  <2>1. answer \in DOMAIN new.entries /\ new.entries[answer] = e
    BY <1>12, <1>15, <1>21 DEF Opens, answer
  <2>2. Saw(new, old.cutoff)
    BY <1>4, <1>14, <1>15, <1>21, SawSame
  <2> QED
    BY <1>6, <1>18, <1>21, <2>1, <2>2 DEF AskedFits
<1> QED
  BY <1>1, <1>4, <1>20, <1>21, <1>23, <1>24, RoundKeeps DEF new

(* The next call of a sequential round.                                       *)
NextSlots(slots, call, child) ==
    [i \in DOMAIN slots |-> IF slots[i].call = call /\ slots[i].task = 0 THEN [slots[i] EXCEPT !.task = child] ELSE slots[i]]

(* The slots after the next call has its task are slots.                      *)
LEMMA NextSlotsAre ==
    ASSUME NEW slots \in Seq(SlotRec), NEW call, NEW child \in Nat
    PROVE  NextSlots(slots, call, child) \in Seq(SlotRec)
<1> DEFINE at(i) == IF slots[i].call = call /\ slots[i].task = 0 THEN [slots[i] EXCEPT !.task = child] ELSE slots[i]
<1>1. \A s \in SlotRec : [s EXCEPT !.task = child] \in SlotRec
  BY DEF SlotRec
<1>2. \A i \in DOMAIN slots : slots[i] \in SlotRec
  OBVIOUS
<1>3. \A i \in DOMAIN slots : at(i) \in SlotRec
  BY <1>1, <1>2
<1>4. NextSlots(slots, call, child) = [i \in DOMAIN slots |-> at(i)]
  BY DEF NextSlots
<1> HIDE DEF at
<1> QED
  BY <1>3, <1>4

(* A sequential round starts its next call once the one before has ended.     *)
LEMMA ToolsNextKeeps ==
    ASSUME IInv, NEW t \in Tasks, ToolsNext(t)
    PROVE  Onward
<1> DEFINE old == db.tasks[t]
           ref == old.ref
           call == Head(old.pending)
           child == Len(db.tasks) + 1
           tool == ToolTask(t, ref, call)
           created == CreateTask(db, tool)
           slots == NextSlots(created.live.slots, call, child)
           staged == WithSlots(created, slots)
           on == old.on \cup {child}
           rest == Tail(old.pending)
           task == RoundOf(old, on, rest)
           new == SetTask(staged, t, task)
           tools == <<tool>>
<1>1. /\ Gen(t) /\ Live(t) /\ (\A c \in Task(t).on : Terminal(c)) /\ old.phase = "tools" /\ old.pending # <<>> /\ env' = env
      /\ Commit(new)
  BY DEF ToolsNext, Runs, Task, Free, NextSlots, WithSlots, RoundOf
<1>2. /\ Sound(db) /\ db \in TxRec /\ TasksAgree(db) /\ CallsAgree(db) /\ Recorded(db, db) /\ AskedFits(db, t)
      /\ t \in LiveOf(db, "gen") /\ t \in DOMAIN db.tasks /\ OwnsDone(db, t)
  BY <1>1, GenActs
<1>3. CommitPhase(t, new)
  <2> HIDE DEF new
  <2>1. Task(t).phase \notin {"prepare", "request"}
    BY <1>1 DEF Task
  <2> QED
    BY <1>1, <2>1, HoldsNothing
<1>4. /\ Len(db.tasks) \in Nat /\ DOMAIN db.tasks = 1 .. Len(db.tasks) /\ t \in Nat /\ child \in Nat
      /\ ref \in Nat /\ old.pending \in Seq(Nat)
  BY <1>2, TaskFields
<1>5. call \in Nat /\ rest \in Seq(Nat)
  <2>1. Head(old.pending) = old.pending[1] /\ 1 \in DOMAIN old.pending /\ Tail(old.pending) \in Seq(Nat)
    BY <1>1, <1>4, HeadTail
  <2> QED
    BY <1>4, <2>1
<1>6. StillGen(old, old) /\ old.on \in SUBSET Nat /\ old.on \subseteq DOMAIN db.tasks
  BY <1>2, StillSelf
<1> HIDE DEF call, rest, old
<1>7. tool \in TaskRec /\ IsTool(tool, t, ref, call)
  BY <1>4, <1>5, ToolTaskIs
<1> HIDE DEF tool
<1>8. /\ created \in TxRec
      /\ created.entries = db.entries /\ created.subs = db.subs /\ created.inbox = db.inbox /\ created.live = db.live
      /\ Len(created.tasks) = child /\ DOMAIN created.tasks = 1 .. child
      /\ \A i \in 1 .. Len(db.tasks) : created.tasks[i] = db.tasks[i]
      /\ created.tasks[child] = tool
  BY <1>2, <1>7, CreateTaskIs
<1> HIDE DEF created
<1>9. slots \in Seq(SlotRec)
  BY <1>4, <1>8, TxFields, NextSlotsAre
<1> HIDE DEF slots
<1>10. OnlySlots(created, staged)
  BY <1>8, <1>9, SlotsChange
<1> HIDE DEF staged
<1>11. /\ staged \in TxRec /\ staged.entries = db.entries /\ staged.subs = db.subs /\ staged.inbox = db.inbox
       /\ staged.tasks = created.tasks /\ staged.live.run = db.live.run /\ staged.live.compactions = db.live.compactions
  BY <1>8, <1>10 DEF OnlySlots
<1>12. Recorded(db, staged)
  BY <1>2, <1>11, RecordedSame
<1>13. Len(tools) = 1 /\ DOMAIN tools = 1 .. 1 /\ tools[1] = tool
  OBVIOUS
<1>14. tool.call = call /\ tool.kind = "tool" /\ tool.ref = ref
  BY <1>7 DEF IsTool
<1> HIDE DEF tools
<1>15. AddsTools(db, staged, tools, t, ref)
  <2>1. \A n \in DOMAIN tools : n = 1
    BY <1>13
  <2>2. /\ \A n \in DOMAIN tools : /\ staged.tasks[Len(db.tasks) + n] = tools[n]
                                   /\ IsTool(tools[n], t, ref, tools[n].call)
    BY <1>7, <1>8, <1>11, <1>13, <1>14, <2>1
  <2>3. \A c \in DOMAIN staged.tasks : c > Len(db.tasks) =>
         c - Len(db.tasks) \in DOMAIN tools /\ staged.tasks[c] = tools[c - Len(db.tasks)] /\ c = Len(db.tasks) + (c - Len(db.tasks))
    <3> SUFFICES ASSUME NEW c \in DOMAIN staged.tasks, c > Len(db.tasks)
                 PROVE  c - Len(db.tasks) \in DOMAIN tools /\ staged.tasks[c] = tools[c - Len(db.tasks)] /\ c = Len(db.tasks) + (c - Len(db.tasks))
      OBVIOUS
    <3>1. c \in 1 .. child
      BY <1>8, <1>11
    <3>2. c = child /\ c - Len(db.tasks) = 1
      BY <1>4, <3>1
    <3> QED
      BY <1>8, <1>11, <1>13, <3>2
  <2>4. \A c \in DOMAIN db.tasks : staged.tasks[c] = db.tasks[c]
    BY <1>4, <1>8, <1>11
  <2>5. Len(tools) \in Nat /\ DOMAIN tools = 1 .. Len(tools) /\ Len(staged.tasks) = Len(db.tasks) + Len(tools)
    BY <1>8, <1>11, <1>13
  <2> QED
    BY <1>11, <1>12, <2>2, <2>3, <2>4, <2>5 DEF AddsTools
<1>16. on \in SUBSET Nat /\ on \subseteq DOMAIN staged.tasks
  BY <1>4, <1>6, <1>8, <1>11
<1>17. \A n \in DOMAIN tools : Len(db.tasks) + n \in on
  BY <1>13
<1> HIDE DEF on
<1>18. StillGen(old, task) /\ task.phase = old.phase /\ task.on = on /\ task.pending = rest /\ task.ref = old.ref
  BY <1>5, <1>6, <1>16, GenRounds
<1> HIDE DEF task
<1>19. /\ Moves(db, new, t) /\ new.tasks[t] = task
       /\ new.entries = staged.entries /\ new.subs = staged.subs /\ new.live = staged.live
       /\ Len(new.tasks) = Len(staged.tasks) /\ DOMAIN new.tasks = DOMAIN staged.tasks
       /\ \A c \in DOMAIN staged.tasks : c # t => new.tasks[c] = staged.tasks[c]
  <2>1. StillGen(db.tasks[t], task) /\ task.phase = "tools" /\ task.on \subseteq DOMAIN staged.tasks
        /\ AddsTools(db, staged, tools, t, task.ref) /\ \A n \in DOMAIN tools : Len(db.tasks) + n \in task.on
    BY <1>1, <1>15, <1>16, <1>17, <1>18 DEF old
  <2> QED
    BY <1>2, <2>1, RoundGoes
<1> HIDE DEF new
<1>20. child \in DOMAIN staged.tasks /\ child # t /\ t \in DOMAIN new.tasks
  BY <1>2, <1>4, <1>8, <1>11, <1>19
<1>21. StartsNext(db, new, t)
  <2>1. InTools(db, t)
    BY <1>1, <1>2 DEF InTools, old
  <2>2. InTools(new, t)
    BY <1>1, <1>18, <1>19, <1>20 DEF InTools, LiveOf, StillGen
  <2>3. new.tasks[child] = tool
    BY <1>8, <1>11, <1>19, <1>20
  <2> QED
    BY <1>1, <1>8, <1>11, <1>14, <1>18, <1>19, <2>1, <2>2, <2>3 DEF StartsNext, old, call, rest
<1>22. CallsAgree(new)
  BY <1>2, <1>19, <1>21, NextStarts
<1>23. AskedFits(new, t)
  <2>1. db.tasks[t].phase = "tools" /\ old = db.tasks[t]
    BY <1>1 DEF old
  <2>2. /\ old.ref \in DOMAIN db.entries /\ db.entries[old.ref].kind = "assistant"
        /\ Saw(db, db.entries[old.ref].ref)
    BY <1>2, <2>1 DEF AskedFits
  <2>3. new.entries = db.entries /\ new.subs = db.subs /\ new.live.run = db.live.run
    BY <1>11, <1>19
  <2>4. Saw(new, db.entries[old.ref].ref)
    BY <2>2, <2>3, SawSame
  <2> QED
    BY <1>1, <1>18, <1>19, <2>2, <2>3, <2>4 DEF AskedFits
<1>24. env' = env /\ t \in LiveOf(db, "gen")
  BY <1>1, <1>2
<1>25. Moves(db, new, t)
  BY <1>19
<1> QED
  BY Zenon, <1>3, <1>22, <1>23, <1>24, <1>25, RoundKeeps

(* The reset entry a handoff writes.                                          *)
Fence == [Blank EXCEPT !.kind = "reset"]

(* The entry of a handoff: a reset.                                           *)
LEMMA FenceIs ==
    Fence \in EntryRec /\ Fence.kind = "reset" /\ Fence.by = 0 /\ Fence.cover = {} /\ Fence.calls = {}
<1> DEFINE kind == "reset"
<1>1. Blank \in EntryRec /\ Blank.by = 0 /\ Blank.cover = {} /\ Blank.calls = {} /\ kind \in EntryKinds
  BY BlankType DEF EntryKinds, Blank, PlainEntry
<1> HIDE DEF kind
<1>2. [Blank EXCEPT !.kind = kind] \in EntryRec
  BY <1>1 DEF EntryRec
<1>3. /\ [Blank EXCEPT !.kind = kind].kind = kind /\ [Blank EXCEPT !.kind = kind].by = Blank.by
      /\ [Blank EXCEPT !.kind = kind].cover = Blank.cover /\ [Blank EXCEPT !.kind = kind].calls = Blank.calls
  BY <1>1 DEF EntryRec
<1> QED
  BY <1>1, <1>2, <1>3 DEF Fence, kind

(* A handoff at the end of a round is staged.                                 *)
LEMMA FenceStaged ==
    ASSUME NEW tx, Sound(tx)
    PROVE  LET cut == AppendEntry(tx, Fence) IN
           /\ Staged(tx, cut) /\ ActiveStart(cut) = Len(cut.entries) /\ Len(cut.entries) = Len(tx.entries) + 1
           /\ \A i \in DOMAIN cut.entries : i > Len(tx.entries) =>
                cut.entries[i].calls = {} /\ cut.entries[i].kind # "result"
<1> DEFINE e == Fence
           cut == AppendEntry(tx, e)
           id == Len(tx.entries) + 1
<1>1. tx \in TxRec /\ TxInv(tx, DOMAIN tx.inbox, {}) /\ Transcript(tx)
  BY SoundParts DEF TxInv
<1>2. e \in EntryRec /\ e.kind = "reset" /\ e.by = 0 /\ e.cover = {} /\ e.calls = {}
  BY FenceIs
<1> HIDE DEF e
<1>3. id \in Nat /\ Len(tx.entries) \in Nat /\ DOMAIN tx.entries = 1 .. Len(tx.entries)
  BY <1>1, TxFields
<1>4. /\ cut \in TxRec
      /\ cut.subs = tx.subs /\ cut.inbox = tx.inbox /\ cut.live = tx.live /\ cut.tasks = tx.tasks
      /\ Len(cut.entries) = id /\ DOMAIN cut.entries = 1 .. id
      /\ \A i \in 1 .. Len(tx.entries) : cut.entries[i] = tx.entries[i]
      /\ cut.entries[id] = Numbered(e, id)
  BY <1>1, <1>2, AppendEntryIs
<1> HIDE DEF cut
<1>5. /\ cut.entries[id].kind = "reset" /\ cut.entries[id].by = 0 /\ cut.entries[id].cover = {}
      /\ cut.entries[id].calls = {} /\ cut.entries[id].head = id
  <2>1. Numbered(e, id).kind = e.kind /\ Numbered(e, id).by = e.by /\ Numbered(e, id).cover = e.cover
        /\ Numbered(e, id).calls = e.calls /\ Numbered(e, id).head = IF e.kind = "reset" THEN id ELSE e.head
    <3> HIDE DEF id
    <3> QED
      BY <1>2, <1>3, NumberedType
  <2> HIDE DEF id
  <2> QED
    BY <1>2, <1>4, <2>1
<1>6. Continues(tx, cut)
  <2>1. Len(tx.entries) <= Len(cut.entries)
    BY <1>3, <1>4
  <2>2. \A i \in DOMAIN tx.entries : cut.entries[i] = tx.entries[i]
    BY <1>3, <1>4
  <2> QED
    BY <2>1, <2>2 DEF Continues
<1>7. GoodHead(tx, cut.entries[id])
  <2>1. ActiveStart(tx) \in Nat /\ ActiveStart(tx) <= Len(tx.entries)
    BY <1>1, <1>3, HeadsAre
  <2> QED
    BY <1>3, <1>5, <2>1 DEF GoodHead, HeadKinds
<1>8. TxInv(cut, DOMAIN cut.inbox, {})
  BY <1>1, <1>3, <1>4, <1>5, <1>6, <1>7, HeadKeeps
<1>9. Forward(tx, cut)
  BY <1>1, <1>4, <1>6, ForwardSame
<1>10. Staged(tx, cut)
  BY <1>4, <1>8, <1>9 DEF Staged, Carries
<1>11. ActiveStart(cut) = Len(cut.entries)
  BY <1>1, <1>4, <1>5, <1>6, <1>7, HeadExtends
<1>12. \A i \in DOMAIN cut.entries : i > Len(tx.entries) => i = id
  BY <1>3, <1>4
<1>13. \A i \in DOMAIN cut.entries : i > Len(tx.entries) => cut.entries[i].calls = {} /\ cut.entries[i].kind # "result"
  BY <1>5, <1>12
<1> QED
  BY <1>4, <1>10, <1>11, <1>13 DEF cut, e

(* A round with nothing pending is over.                                      *)
LEMMA EmptyRoundOver ==
    ASSUME NEW tx \in TxRec, NEW mid, NEW t, tx.tasks[t].pending = <<>>,
           \A i \in DOMAIN mid.entries : i > Len(tx.entries) => mid.entries[i].calls = {} /\ mid.entries[i].kind # "result",
           NEW outcome
    PROVE  RoundOver(tx, mid, t, outcome)
<1>1. Range(tx.tasks[t].pending) = {}
  BY DEF Range
<1> QED
  BY <1>1 DEF RoundOver

(* The entries of a boundary hold no calls and no results.                    *)
LEMMA CrossedQuiet ==
    ASSUME NEW tx \in TxRec, NEW cut, Staged(tx, cut), NEW at, Crossed(cut, at),
           \A i \in DOMAIN cut.entries : i > Len(tx.entries) => cut.entries[i].calls = {} /\ cut.entries[i].kind # "result"
    PROVE  \A i \in DOMAIN at.tx.entries : i > Len(tx.entries) =>
             at.tx.entries[i].calls = {} /\ at.tx.entries[i].kind # "result"
<1> SUFFICES ASSUME NEW i \in DOMAIN at.tx.entries, i > Len(tx.entries)
             PROVE  at.tx.entries[i].calls = {} /\ at.tx.entries[i].kind # "result"
  OBVIOUS
<1>1. at.tx \in TxRec /\ Continues(cut, at.tx) /\ cut \in TxRec
  BY DEF Crossed, Forward, Staged, Carries
<1>2. CASE i \in DOMAIN cut.entries
  BY <1>1, <1>2 DEF Continues
<1>3. CASE i \notin DOMAIN cut.entries
  <2>1. i > Len(cut.entries)
    BY <1>1, <1>3, TxFields
  <2>2. Added(cut, at.tx.entries[i])
    BY <2>1 DEF Crossed
  <2> QED
    BY <2>2 DEF Added, Quiet
<1> QED
  BY <1>2, <1>3
(* A tool round that the conversation does not go on from ends its run.       *)
LEMMA RoundDone ==
    ASSUME NEW tx, Sound(tx), NEW t \in LiveOf(tx, "gen"), tx.live.run.task = t,
           tx.tasks[t].phase = "tools", tx.tasks[t].pending = <<>>,
           NEW cut, Staged(tx, cut), NEW start, start = ActiveStart(cut), Len(cut.entries) <= Len(tx.entries) + 1,
           \A i \in DOMAIN cut.entries : i > Len(tx.entries) => cut.entries[i].calls = {} /\ cut.entries[i].kind # "result",
           NEW where, NEW modes, NEW at, at = ApplyBoundary(cut, start, where, modes),
           NEW status \in Settled, NEW answer \in Nat, NEW why \in Reasons,
           status = "done" => answer = tx.tasks[t].ref
    PROVE  LET new == AfterRun(at, t, status, answer, why) IN
           GenOver(tx, new) /\ RoundOver(tx, new, t, "completed")
<1> DEFINE new == AfterRun(at, t, status, answer, why)
<1>1. tx \in TxRec /\ cut \in TxRec /\ TxInv(cut, DOMAIN cut.inbox, {}) /\ AskedFits(tx, t) /\ t \in DOMAIN tx.tasks
  BY SoundParts DEF Staged, Carries, LiveOf
<1>2. Crossed(cut, at)
  BY <1>1, BoundaryKeeps
<1>3. at.tx \in TxRec /\ Forward(tx, at.tx)
  BY <1>1, <1>2, CrossedCarries DEF Carries
<1>4. status = "done" => \A s \in Range(tx.live.run.inputs) : AnsweredBy(at.tx.entries, at.tx.subs[s].entry, answer)
  <2> SUFFICES ASSUME status = "done"
               PROVE  \A s \in Range(tx.live.run.inputs) : AnsweredBy(at.tx.entries, at.tx.subs[s].entry, answer)
    OBVIOUS
  <2>1. answer \in DOMAIN tx.entries /\ tx.entries[answer].kind = "assistant" /\ Saw(tx, tx.entries[answer].ref)
    BY <1>1 DEF AskedFits
  <2>2. at.tx.entries[answer] = tx.entries[answer]
    BY <1>3, <2>1 DEF Forward, Continues
  <2>3. answer \in 1 .. Len(tx.entries) /\ Len(tx.entries) \in Nat
    BY <1>1, <2>1, TxFields
  <2>4. answer \in DOMAIN at.tx.entries /\ answer <= Len(tx.entries) + 1
    BY <1>3, <2>3, TxFields DEF Forward, Continues
  <2> QED
    BY <1>3, <2>1, <2>2, <2>4, InputsHaveAnswer
<1>5. GenOver(tx, new) /\ new.entries = at.tx.entries
  BY <1>1, <1>2, <1>4, BoundaryEnds
<1> HIDE DEF new
<1>6. \A i \in DOMAIN new.entries : i > Len(tx.entries) => new.entries[i].calls = {} /\ new.entries[i].kind # "result"
  BY <1>1, <1>2, <1>5, CrossedQuiet
<1>7. RoundOver(tx, new, t, "completed")
  BY <1>1, <1>6, EmptyRoundOver
<1> QED
  BY <1>5, <1>7 DEF new

(* The run of `t` takes on the inputs a boundary placed.                      *)
RunWith(run, users) == [run EXCEPT !.inputs = @ \o users]
KeptLive(tx, users) == [tx.live EXCEPT !.slots = <<>>, !.run = RunWith(@, users)]
KeptRun(at) == [at.tx EXCEPT !.live = KeptLive(at.tx, at.users)]

(* A run that goes on is joined by the users a boundary placed.               *)
LEMMA KeptRunIs ==
    ASSUME NEW at, at.tx \in TxRec, at.users \in Seq(Nat)
    PROVE  LET new == KeptRun(at) IN
           /\ new \in TxRec
           /\ new.entries = at.tx.entries /\ new.subs = at.tx.subs /\ new.inbox = at.tx.inbox /\ new.tasks = at.tx.tasks
           /\ new.live.run.task = at.tx.live.run.task /\ new.live.compactions = at.tx.live.compactions
           /\ new.live.run.inputs = at.tx.live.run.inputs \o at.users
<1> DEFINE tx == at.tx
           run == RunWith(tx.live.run, at.users)
           live == [tx.live EXCEPT !.slots = <<>>, !.run = run]
           new == [tx EXCEPT !.live = live]
<1>1. tx.live \in LiveRec /\ tx.live.run \in RunRec /\ tx.live.run.inputs \in Seq(Nat)
  BY TxFields
<1>2. tx.live.run.inputs \o at.users \in Seq(Nat) /\ <<>> \in Seq(SlotRec)
  BY <1>1, Joined, EmptySeq
<1>3. run \in RunRec /\ run.task = tx.live.run.task /\ run.inputs = tx.live.run.inputs \o at.users
  BY <1>1, <1>2 DEF RunWith, RunRec
<1>5. KeptRun(at) = new
  BY DEF KeptRun, KeptLive
<1> HIDE DEF run
<1>6. live \in LiveRec /\ live.run = run /\ live.compactions = tx.live.compactions
  BY <1>1, <1>2, <1>3 DEF LiveRec
<1> HIDE DEF live
<1>7. /\ new \in TxRec /\ new.live = live
      /\ new.entries = tx.entries /\ new.subs = tx.subs /\ new.inbox = tx.inbox /\ new.tasks = tx.tasks
  BY <1>6, WithLive
<1> HIDE DEF new
<1> QED
  BY <1>3, <1>5, <1>6, <1>7

(* Two sequences without repetitions and without a common element.            *)
LEMMA DistinctJoin ==
    ASSUME NEW f \in Seq(Nat), NEW g \in Seq(Nat), Range(f) \cap Range(g) = {},
           \A i, j \in DOMAIN f : f[i] = f[j] => i = j,
           \A i, j \in DOMAIN g : g[i] = g[j] => i = j
    PROVE  /\ Range(f \o g) = Range(f) \cup Range(g)
           /\ \A i, j \in DOMAIN (f \o g) : (f \o g)[i] = (f \o g)[j] => i = j
<1> DEFINE r == f \o g
           v == Len(f)
           u == Len(g)
<1>1. v \in Nat /\ u \in Nat /\ DOMAIN f = 1 .. v /\ DOMAIN g = 1 .. u
  BY LenProperties
<1>2. Joins(f, g, v, u, r)
  BY Joined
<1> HIDE DEF r, v, u
<1>3. /\ DOMAIN r = 1 .. v + u
      /\ \A n \in 1 .. v : n \in DOMAIN r /\ r[n] = f[n]
      /\ \A n \in 1 .. u : v + n \in DOMAIN r /\ r[v + n] = g[n]
      /\ \A n \in DOMAIN r : n \in 1 .. v \/ (n - v \in 1 .. u /\ n > v /\ r[n] = g[n - v])
  BY <1>2 DEF Joins
<1>4. \A n \in DOMAIN r : (n \in DOMAIN f /\ r[n] = f[n]) \/ (n - v \in DOMAIN g /\ n > v /\ r[n] = g[n - v])
  BY <1>1, <1>3
<1>5. \A x \in Range(r) : x \in Range(f) \cup Range(g)
  BY <1>4 DEF Range
<1>6. \A x \in Range(f) \cup Range(g) : x \in Range(r)
  <2>1. \A x \in Range(f) : x \in Range(r)
    BY <1>1, <1>3 DEF Range
  <2>2. \A x \in Range(g) : x \in Range(r)
    <3> SUFFICES ASSUME NEW x \in Range(g) PROVE x \in Range(r)
      OBVIOUS
    <3>1. PICK n \in DOMAIN g : g[n] = x
      BY DEF Range
    <3>2. v + n \in DOMAIN r /\ r[v + n] = x
      BY <1>1, <1>3, <3>1
    <3> QED
      BY <3>2 DEF Range
  <2> QED
    BY <2>1, <2>2
<1>7. \A i, j \in DOMAIN r : r[i] = r[j] => i = j
  <2> SUFFICES ASSUME NEW i \in DOMAIN r, NEW j \in DOMAIN r, r[i] = r[j] PROVE i = j
    OBVIOUS
  <2>1. (i \in DOMAIN f /\ r[i] = f[i]) \/ (i - v \in DOMAIN g /\ i > v /\ r[i] = g[i - v])
    BY <1>4
  <2>2. (j \in DOMAIN f /\ r[j] = f[j]) \/ (j - v \in DOMAIN g /\ j > v /\ r[j] = g[j - v])
    BY <1>4
  <2>3. CASE i \in DOMAIN f /\ r[i] = f[i] /\ j \in DOMAIN f /\ r[j] = f[j]
    BY <2>3
  <2>4. CASE i \in DOMAIN f /\ r[i] = f[i] /\ j - v \in DOMAIN g /\ r[j] = g[j - v]
    BY <2>4 DEF Range
  <2>5. CASE j \in DOMAIN f /\ r[j] = f[j] /\ i - v \in DOMAIN g /\ r[i] = g[i - v]
    BY <2>5 DEF Range
  <2>6. CASE i - v \in DOMAIN g /\ r[i] = g[i - v] /\ j - v \in DOMAIN g /\ r[j] = g[j - v]
    <3>1. i - v = j - v
      BY <2>6
    <3>2. i \in Int /\ j \in Int
      BY <1>1, <1>3
    <3> QED
      BY <1>1, <3>1, <3>2
  <2> QED
    BY <2>1, <2>2, <2>3, <2>4, <2>5, <2>6
<1> QED
  BY <1>5, <1>6, <1>7 DEF r

(* The run goes on after a round with the inputs its boundary placed.         *)
LEMMA RoundGoesOn ==
    ASSUME NEW tx, Sound(tx), NEW t \in LiveOf(tx, "gen"), tx.live.run.task = t, tx.tasks[t].pending = <<>>,
           NEW at, Crossed(tx, at), ~at.reset
    PROVE  LET new == HandOver(KeptRun(at), t) IN
           GenOver(tx, new) /\ RoundOver(tx, new, t, "completed")
<1> DEFINE mid == KeptRun(at)
           new == HandOver(mid, t)
           inputs == tx.live.run.inputs
           I == Range(inputs)
           U == Range(at.users)
<1>1. /\ tx \in TxRec /\ TxInv(tx, DOMAIN tx.inbox, {}) /\ Fresh(tx, I) /\ Staged(tx, tx)
      /\ inputs \in Seq(Nat)
  BY SoundParts, TxFields DEF Staged
<1>2. /\ at.tx \in TxRec /\ TxInv(at.tx, DOMAIN at.tx.inbox, U) /\ Forward(tx, at.tx)
      /\ at.tx.tasks = tx.tasks /\ at.tx.live = tx.live
  BY <1>1, CrossedCarries DEF Carries
<1>3. /\ mid \in TxRec
      /\ mid.entries = at.tx.entries /\ mid.subs = at.tx.subs /\ mid.inbox = at.tx.inbox /\ mid.tasks = at.tx.tasks
      /\ mid.live.run.task = t /\ mid.live.compactions = tx.live.compactions
      /\ mid.live.run.inputs = inputs \o at.users
  BY <1>2, KeptRunIs DEF Crossed
<1> HIDE DEF mid
<1>4. at.users \in Seq(Nat) /\ \A i, j \in DOMAIN at.users : at.users[i] = at.users[j] => i = j
  BY DEF Crossed
<1>5. Owns(at.tx, U)
  BY <1>2 DEF TxInv
<1>6. /\ Range(mid.live.run.inputs) = I \cup U
      /\ (\A i, j \in DOMAIN mid.live.run.inputs : mid.live.run.inputs[i] = mid.live.run.inputs[j] => i = j)
  <2>1. I \cap U = {} /\ \A i, j \in DOMAIN inputs : inputs[i] = inputs[j] => i = j
    BY <1>2, <1>5 DEF Owns
  <2> HIDE DEF inputs
  <2>2. /\ Range(inputs \o at.users) = Range(inputs) \cup Range(at.users)
        /\ \A i, j \in DOMAIN (inputs \o at.users) : (inputs \o at.users)[i] = (inputs \o at.users)[j] => i = j
    BY <1>1, <1>4, <2>1, DistinctJoin
  <2> QED
    BY <1>3, <2>2
<1>7. Owns(mid, {})
  <2>1. /\ I \cup U \subseteq DOMAIN at.tx.subs
        /\ \A s \in DOMAIN at.tx.subs : at.tx.subs[s].status = "placed" <=> s \in I \cup U
    BY <1>2, <1>5 DEF Owns
  <2> HIDE DEF I, U
  <2> QED
    BY <1>3, <1>6, <2>1 DEF Owns
<1>8. TxInv(mid, DOMAIN mid.inbox, {})
  BY <1>2, <1>3, <1>7, SameRecords
<1>9. Forward(tx, mid)
  BY <1>2, <1>3 DEF Forward, Continues
<1>10. Carries(tx, mid, {})
  BY <1>3, <1>8, <1>9 DEF Carries
<1>11. \A i \in DOMAIN mid.entries : i > Len(tx.entries) => Added(tx, mid.entries[i])
  BY <1>3 DEF Crossed
<1>12. \A i \in DOMAIN mid.entries : i > Len(tx.entries) =>
         mid.entries[i].kind # "reset" /\ mid.entries[i].calls = {} /\ mid.entries[i].kind # "result"
  <2>1. ~HasQueuedReset(tx)
    BY DEF Crossed
  <2> QED
    BY <1>11, <2>1 DEF Added, Quiet
<1>13. Fresh(mid, I \cup U)
  <2>1. I \subseteq DOMAIN tx.subs /\ \A s \in I : tx.subs[s].status = "placed"
    BY <1>1, InputsPlaced
  <2>2. Fresh(mid, I)
    <3> HIDE DEF I
    <3> QED
      BY <1>1, <1>3, <1>9, <1>12, <2>1, FreshSame
  <2>3. Fresh(mid, U)
    BY <1>3 DEF Fresh, Crossed
  <2> QED
    BY <2>2, <2>3 DEF Fresh
<1>14. GenOver(tx, new) /\ new.entries = mid.entries
  <2>1. /\ Fresh(mid, Range(mid.live.run.inputs)) /\ mid.tasks = tx.tasks
        /\ mid.live.run.task = t /\ mid.live.compactions = tx.live.compactions
    BY <1>2, <1>3, <1>6, <1>13
  <2>2. tx \in TxRec
    BY <1>1
  <2> HIDE DEF new
  <2>3. new = HandOver(mid, t)
    BY DEF new
  <2> QED
    BY Zenon, <1>10, <2>1, <2>2, <2>3, HandOverIs
<1> HIDE DEF new
<1>15. RoundOver(tx, new, t, "completed")
  <2>1. \A i \in DOMAIN new.entries : i > Len(tx.entries) => new.entries[i].calls = {} /\ new.entries[i].kind # "result"
    BY <1>12, <1>14
  <2> QED
    BY <1>1, <2>1, EmptyRoundOver
<1> QED
  BY <1>14, <1>15 DEF new, mid
(* The end of a tool round.                                                   *)
LEMMA FinishToolRoundKeeps ==
    ASSUME IInv, NEW t \in Tasks, FinishToolRound(t)
    PROVE  Onward
<1> DEFINE slots == db.live.slots
           controls == {Task(c).outcome : c \in Task(t).on}
           terminate == slots # <<>> /\ \A i \in DOMAIN slots : ControlOf(slots[i]) = "terminate"
           handoff == "handoff" \in controls
           cut == IF handoff THEN AppendEntry(db, Fence) ELSE db
           start == IF handoff THEN Len(cut.entries) ELSE ActiveStart(db)
           done == "done"
           ref == Task(t).ref
           none == "none"
           unanswered == "unanswered"
           why == "reset"
           final == "final"
           post == "postTools"
<1>1. Gen(t) /\ Runs(t, "tools") /\ Task(t).pending = <<>> /\ env' = env
  BY DEF FinishToolRound, Free
<1>2. PICK modes \in Modes :
        IF terminate \/ handoff
        THEN Commit(Ended(AfterRun(ApplyBoundary(cut, start, final, modes), t, done, ref, none), t, "completed"))
        ELSE LET at == ApplyBoundary(db, start, post, modes) IN
             IF at.reset
             THEN Commit(Ended(AfterRun(at, t, unanswered, 0, why), t, "completed"))
             ELSE Commit(Ended(HandOver([at.tx EXCEPT !.live = [at.tx.live EXCEPT !.slots = <<>>, !.run = JoinRun(@, t, at.users)]], t), t, "completed"))
  BY Zenon DEF FinishToolRound, AfterRun, Fence
<1>3. /\ Live(t) /\ (\A c \in Task(t).on : Terminal(c)) /\ Task(t).phase = "tools"
  BY <1>1 DEF Runs
<1>4. /\ Sound(db) /\ db \in TxRec /\ t \in LiveOf(db, "gen") /\ OwnsDone(db, t) /\ db.live.run.task = t
      /\ db.tasks[t].phase = "tools" /\ db.tasks[t].pending = <<>> /\ Carries(db, db, {}) /\ AskedFits(db, t)
  BY <1>1, <1>3, GenActs DEF Task
<1>5. /\ "completed" \in Outcomes /\ done \in Settled /\ none \in Reasons /\ unanswered \in Settled /\ why \in Reasons
      /\ 0 \in Nat /\ unanswered # "done"
  BY DEF Outcomes, Settled, Reasons
<1>6. ref \in Nat /\ ref = db.tasks[t].ref
  BY <1>1, <1>3, <1>4, TxFields DEF AskedFits, Task
<1>7. /\ Staged(db, cut) /\ start = ActiveStart(cut) /\ Len(cut.entries) <= Len(db.entries) + 1
      /\ \A i \in DOMAIN cut.entries : i > Len(db.entries) => cut.entries[i].calls = {} /\ cut.entries[i].kind # "result"
  <2>1. CASE handoff
    <3>1. /\ Staged(db, AppendEntry(db, Fence)) /\ ActiveStart(AppendEntry(db, Fence)) = Len(AppendEntry(db, Fence).entries)
          /\ Len(AppendEntry(db, Fence).entries) = Len(db.entries) + 1
          /\ \A i \in DOMAIN AppendEntry(db, Fence).entries : i > Len(db.entries) =>
               AppendEntry(db, Fence).entries[i].calls = {} /\ AppendEntry(db, Fence).entries[i].kind # "result"
      BY <1>4, FenceStaged
    <3>2. cut = AppendEntry(db, Fence) /\ start = Len(cut.entries) /\ Len(db.entries) \in Nat
      BY <1>4, <2>1, TxFields
    <3> HIDE DEF cut, start
    <3> QED
      BY <3>1, <3>2
  <2>2. CASE ~handoff
    <3>1. cut = db /\ start = ActiveStart(db)
      BY <2>2
    <3>2. Staged(db, db) /\ Len(db.entries) \in Nat /\ \A i \in DOMAIN db.entries : ~(i > Len(db.entries))
      BY <1>4, TxFields DEF Staged
    <3> HIDE DEF cut, start
    <3> QED
      BY <3>1, <3>2
  <2> QED
    BY <2>1, <2>2
<1> HIDE DEF cut, done, none, unanswered, why, final, post, ref
<1>8. CASE Commit(Ended(AfterRun(ApplyBoundary(cut, start, final, modes), t, done, ref, none), t, "completed"))
  <2> DEFINE at == ApplyBoundary(cut, start, final, modes)
             new == AfterRun(at, t, done, ref, none)
  <2>1. GenOver(db, new) /\ RoundOver(db, new, t, "completed")
    <3> HIDE DEF at, start
    <3>1. at = ApplyBoundary(cut, start, final, modes)
      BY DEF at
    <3> QED
      BY <1>4, <1>5, <1>6, <1>7, <3>1, RoundDone
  <2>2. db' = Ended(new, t, "completed") /\ local' = Kept(db')
    BY <1>8 DEF Commit
  <2> HIDE DEF new
  <2> QED
    BY <1>1, <1>4, <1>5, <2>1, <2>2, GenEndKeeps
<1>9. CASE ~handoff /\ LET at == ApplyBoundary(db, start, post, modes) IN
             at.reset /\ Commit(Ended(AfterRun(at, t, unanswered, 0, why), t, "completed"))
  <2> DEFINE at == ApplyBoundary(db, start, post, modes)
             new == AfterRun(at, t, unanswered, 0, why)
  <2>0. cut = db
    BY <1>9 DEF cut
  <2>1. GenOver(db, new) /\ RoundOver(db, new, t, "completed")
    <3> HIDE DEF at, start
    <3>1. at = ApplyBoundary(cut, start, post, modes)
      BY <2>0 DEF at
    <3> QED
      BY <1>4, <1>5, <1>7, <3>1, RoundDone
  <2>2. db' = Ended(new, t, "completed") /\ local' = Kept(db')
    BY <1>9 DEF Commit
  <2> HIDE DEF new
  <2> QED
    BY <1>1, <1>4, <1>5, <2>1, <2>2, GenEndKeeps
<1>10. CASE ~handoff /\ LET at == ApplyBoundary(db, start, post, modes) IN
             ~at.reset /\ Commit(Ended(HandOver([at.tx EXCEPT !.live = [at.tx.live EXCEPT !.slots = <<>>, !.run = JoinRun(@, t, at.users)]], t), t, "completed"))
  <2> DEFINE at == ApplyBoundary(db, start, post, modes)
             new == HandOver(KeptRun(at), t)
  <2>0. cut = db
    BY <1>10 DEF cut
  <2>1. Crossed(db, at)
    <3>1. start = ActiveStart(db) /\ TxInv(db, DOMAIN db.inbox, {})
      BY <1>4, <1>7, <2>0, SoundParts
    <3> HIDE DEF start
    <3> QED
      BY <1>4, <3>1, BoundaryKeeps
  <2>2. at.tx.live.run.task = t
    BY <1>4, <2>1 DEF Crossed
  <2>3. db' = Ended(HandOver([at.tx EXCEPT !.live = [at.tx.live EXCEPT !.slots = <<>>, !.run = JoinRun(@, t, at.users)]], t), t, "completed")
        /\ local' = Kept(db') /\ ~at.reset
    BY <1>10 DEF Commit
  <2> HIDE DEF at
  <2>4. [at.tx EXCEPT !.live = [at.tx.live EXCEPT !.slots = <<>>, !.run = JoinRun(@, t, at.users)]] = KeptRun(at)
    <3> DEFINE users == at.users
               tx == at.tx
    <3>1. tx.live \in LiveRec /\ tx.live.run.task = t
      BY <2>1, <2>2, TxFields DEF Crossed
    <3> HIDE DEF tx, users
    <3>2. JoinRun(tx.live.run, t, users) = RunWith(tx.live.run, users)
      BY <3>1 DEF RunWith, JoinRun
    <3> QED
      BY <3>2 DEF KeptRun, KeptLive, tx, users
  <2>5. db' = Ended(new, t, "completed")
    BY <2>3, <2>4
  <2>6. GenOver(db, new) /\ RoundOver(db, new, t, "completed")
    BY <1>4, <2>1, <2>3, RoundGoesOn
  <2> HIDE DEF new
  <2> QED
    BY <1>1, <1>4, <1>5, <2>3, <2>5, <2>6, GenEndKeeps
<1> QED
  BY <1>2, <1>8, <1>9, <1>10

-----------------------------------------------------------------------------
(* The invariant.                                                          *)

(* The empty conversation has nothing to disagree about.                      *)
LEMMA EmptySound == Sound(EmptyTx)
<1> DEFINE tx == EmptyTx
<1>1. /\ tx.entries = <<>> /\ tx.subs = <<>> /\ tx.inbox = <<>> /\ tx.tasks = <<>>
      /\ tx.live.run = NoRun /\ tx.live.compactions = <<>> /\ tx.live.run.inputs = <<>> /\ tx.live.run.task = 0
  BY DEF EmptyTx, IdleLive, NoRun
<1>2. tx \in TxRec
  <2>1. /\ <<>> \in Seq(EntryRec) /\ <<>> \in Seq(SubmissionRec) /\ <<>> \in Seq(ItemRec) /\ <<>> \in Seq(TaskRec)
        /\ <<>> \in Seq(Nat) /\ <<>> \in Seq(SlotRec)
    BY EmptySeq
  <2>2. NoRun \in RunRec
    BY <2>1 DEF NoRun, RunRec
  <2>3. IdleLive \in LiveRec
    BY <2>1, <2>2 DEF IdleLive, LiveRec
  <2> QED
    BY <2>1, <2>3 DEF EmptyTx, TxRec
<1> HIDE DEF tx
<1>3. /\ DOMAIN tx.entries = {} /\ DOMAIN tx.subs = {} /\ DOMAIN tx.inbox = {} /\ DOMAIN tx.tasks = {}
      /\ DOMAIN tx.live.run.inputs = {} /\ Range(tx.live.run.inputs) = {}
  BY <1>1 DEF Range
<1>4. LatestHeadMarker(tx) = 0
  BY <1>3, NewestOfEmpty DEF LatestHeadMarker
<1>5. Context(tx)
  <2>1. Range(ActiveEntries(tx)) = {}
    <3> DEFINE S == {i \in DOMAIN tx.entries : i >= ActiveStart(tx) /\ (LatestHeadMarker(tx) = 0 \/ tx.entries[i].head = 0)}
    <3>1. S = {}
      BY <1>3
    <3>2. ActiveEntries(tx) = Ascending(S)
      BY <1>4 DEF ActiveEntries
    <3> HIDE DEF S
    <3>3. Finite({}) /\ Range(Ascending({})) = {}
      BY FS_EmptySet, AscendingIs DEF Finite
    <3> QED
      BY <3>1, <3>2, <3>3
  <2>2. Remembered(tx) = {}
    BY <1>4, <2>1 DEF Remembered
  <2> QED
    BY <1>3, <2>2 DEF Context, ContextComplete, ResetForgets
<1>6. Transcript(tx) /\ Placement(tx) /\ Answered(tx) /\ Owns(tx, {})
  BY <1>3 DEF Transcript, Placement, Answered, Owns
<1>7. Queue(tx, DOMAIN tx.inbox) /\ HeldItems(tx, DOMAIN tx.inbox) /\ ResetFirst(tx, DOMAIN tx.inbox)
  BY <1>3 DEF Queue, HeldItems, ResetFirst
<1>8. LandsInOrder(tx)
  BY <1>3 DEF LandsInOrder
<1>9. TxInv(tx, DOMAIN tx.inbox, {})
  BY <1>2, <1>5, <1>6, <1>7, <1>8 DEF TxInv, Order
<1>10. Fresh(tx, Range(tx.live.run.inputs))
  BY <1>3 DEF Fresh
<1>11. LiveOf(tx, "comp") = {} /\ LiveOf(tx, "gen") = {} /\ LiveOf(tx, "tool") = {}
  BY <1>3 DEF LiveOf
<1>12. TasksAgree(tx)
  <2>1. RunAgrees(tx)
    BY <1>1, <1>11 DEF RunAgrees, Busy
  <2>2. ListAgrees(tx)
    <3>1. Range(<<>>) = {} /\ <<>> \in Seq(Nat) /\ Increasing(<<>>)
      BY EmptySeq DEF Range, Increasing
    <3>2. <<>> = Ascending({})
      BY <3>1, AscendingOnly
    <3> QED
      BY <1>1, <1>11, <3>2 DEF ListAgrees
  <2> QED
    BY <1>3, <2>1, <2>2 DEF TasksAgree
<1>13. CallsAgree(tx)
  BY <1>3, <1>11 DEF CallsAgree, ResultsOnce, ToolsApart, PendingApart, CallsKept
<1>14. \A t \in DOMAIN tx.tasks : SummaryFits(tx, t) /\ AskedFits(tx, t)
  BY <1>3
<1>15. Sound(tx)
  BY <1>2, <1>9, <1>10, <1>12, <1>13, <1>14 DEF Sound
<1> QED
  BY <1>15 DEF tx

(* A conversation starts out empty.                                           *)
LEMMA InitKeeps == Init => IInv
BY EmptySound DEF Init, IInv

(* Every step of a task keeps the invariant.                                  *)
LEMMA GenStepKeeps ==
    ASSUME IInv, NEW t \in Tasks, GenStep(t)
    PROVE  Onward
<1>1. CASE FailNoModel(t)
  BY <1>1, FailNoModelKeeps
<1>2. CASE FailCompaction(t)
  BY <1>2, FailCompactionKeeps
<1>3. CASE ReadContext(t)
  BY <1>3, ReadContextKeeps
<1>4. CASE PrepareBlocked(t)
  BY <1>4, PrepareBlockedKeeps
<1>5. CASE PrepareRequest(t)
  BY <1>5, PrepareRequestKeeps
<1>6. CASE RequestStart(t)
  BY <1>6, RequestStartKeeps
<1>7. CASE Deferred(t)
  BY <1>7, DeferredKeeps
<1>8. CASE Answer(t)
  BY <1>8, AnswerKeeps
<1>9. CASE Overflow(t)
  BY <1>9, OverflowKeeps
<1>10. CASE RetryLater(t)
  BY <1>10, RetryLaterKeeps
<1>11. CASE RetryWake(t)
  BY <1>11, RetryWakeKeeps
<1>12. CASE ModelError(t)
  BY <1>12, ModelErrorKeeps
<1>13. CASE StartToolRound(t)
  BY <1>13, StartToolRoundKeeps
<1>14. CASE ToolsNext(t)
  BY <1>14, ToolsNextKeeps
<1>15. CASE FinishToolRound(t)
  BY <1>15, FinishToolRoundKeeps
<1> QED
  BY <1>1, <1>2, <1>3, <1>4, <1>5, <1>6, <1>7, <1>8, <1>9, <1>10, <1>11, <1>12, <1>13, <1>14, <1>15 DEF GenStep

(* Every step of a tool task keeps the invariant.                             *)
LEMMA ToolStepKeeps ==
    ASSUME IInv, NEW t \in Tasks, ToolStep(t)
    PROVE  Onward
BY ToolRefusedKeeps, ToolStartKeeps, ToolDoneKeeps, ToolRerunKeeps, ToolInterruptedKeeps DEF ToolStep

(* Every step of a compaction keeps the invariant.                            *)
LEMMA CompStepKeeps ==
    ASSUME IInv, NEW t \in Tasks, CompStep(t)
    PROVE  Onward
<1>1. CASE Select(t)
  BY <1>1, SelectKeeps
<1>2. CASE CompactNothing(t)
  BY <1>2, CompactNothingKeeps
<1>3. CASE PlaceHookSummary(t)
  BY <1>3, PlaceHookSummaryKeeps
<1>4. CASE Summarize(t)
  BY <1>4, SummarizeKeeps
<1>5. CASE SummaryDone(t)
  BY <1>5, SummaryDoneKeeps
<1>6. CASE SummaryFailed(t)
  BY <1>6, SummaryFailedKeeps
<1>7. CASE SummaryRetry(t)
  BY <1>7, SummaryRetryKeeps
<1>8. CASE SummaryWake(t)
  BY <1>8, SummaryWakeKeeps
<1> QED
  BY <1>1, <1>2, <1>3, <1>4, <1>5, <1>6, <1>7, <1>8 DEF CompStep

(* Every step keeps the invariant.                                            *)
LEMMA NextKeeps ==
    ASSUME IInv, [Next]_vars
    PROVE  Onward
<1>1. CASE \E r \in Requests : Submit(r)
  BY <1>1, SubmitKeeps
<1>2. CASE \E s \in DOMAIN db.subs : AbortSubmission(s)
  BY <1>2, AbortSubmissionKeeps
<1>3. CASE \E background \in BOOLEAN : AbortConversation(background)
  BY <1>3, AbortConversationKeeps
<1>4. CASE \E t \in Tasks : AbortTask(t)
  BY <1>4, AbortTaskKeeps
<1>5. CASE Compact
  BY <1>5, CompactKeeps
<1>6. ASSUME NEW t \in Tasks, TaskStep(t) PROVE Onward
  BY <1>6, GenStepKeeps, ToolStepKeeps, CompStepKeeps, AbortHandlerKeeps DEF TaskStep
<1>7. ASSUME NEW t \in Tasks, StreamPartial(t) PROVE Onward
  BY <1>7, StreamPartialKeeps
<1>8. ASSUME NEW t \in Tasks, Fault(t) PROVE Onward
  BY <1>8, FaultKeeps
<1>9. CASE Cascade
  BY <1>9, CascadeKeeps
<1>10. CASE Crash
  BY <1>10, CrashKeeps
<1>11. CASE UNCHANGED vars
  <2>1. env' = env /\ db' = db /\ local' = local
    BY <1>11 DEF vars
  <2>2. IInv'
    BY <2>1 DEF IInv
  <2> QED
    BY <2>1, <2>2, StaysForward DEF Onward
<1> QED
  BY <1>1, <1>2, <1>3, <1>4, <1>5, <1>6, <1>7, <1>8, <1>9, <1>10, <1>11 DEF Next, HostStep

-----------------------------------------------------------------------------
(* What the invariant promises.                                            *)

(* A sequence without repetitions has as many members as positions.           *)
LEMMA DistinctSize ==
    ASSUME NEW f \in Seq(Nat), \A i, j \in DOMAIN f : f[i] = f[j] => i = j
    PROVE  Cardinality(Range(f)) = Len(f)
<1> DEFINE S == Range(f)
           n == Len(f)
<1>1. n \in Nat /\ DOMAIN f = 1 .. n /\ f \in [1 .. n -> S] /\ \A x \in S : \E i \in 1 .. n : f[i] = x
  BY LenProperties DEF Range
<1> HIDE DEF S, n
<1>2. f \in Bijection(1 .. n, S)
  BY <1>1 DEF Bijection, Injection, Surjection, IsInjective
<1>3. IsFiniteSet(1 .. n) /\ Cardinality(1 .. n) = n
  BY <1>1, FS_Interval
<1>4. Cardinality(S) = n
  BY <1>2, <1>3, FS_Bijection DEF ExistsBijection
<1> QED
  BY <1>4 DEF S, n

(* The records of the invariant are typed.                                    *)
LEMMA SoundTypes == ASSUME IInv PROVE TypeOK
<1>1. Sound(db) /\ db \in TxRec /\ TxInv(db, DOMAIN db.inbox, {}) /\ TasksAgree(db) /\ \A l \in local : LocalFits(db, l)
  BY SoundParts DEF IInv
<1>2. /\ Len(db.entries) \in Nat /\ DOMAIN db.entries = 1 .. Len(db.entries)
      /\ Len(db.subs) \in Nat /\ DOMAIN db.subs = 1 .. Len(db.subs)
      /\ Len(db.tasks) \in Nat /\ DOMAIN db.tasks = 1 .. Len(db.tasks)
      /\ \A s \in 1 .. Len(db.subs) : db.subs[s] \in SubmissionRec
      /\ \A t \in 1 .. Len(db.tasks) : db.tasks[t] \in TaskRec
      /\ \A i \in 1 .. Len(db.entries) : db.entries[i] \in EntryRec
  BY <1>1, TxFields
<1>3. \A i \in DOMAIN db.entries : db.entries[i].head \in 0..i /\ db.entries[i].by \in 0..Len(db.subs)
  <2> SUFFICES ASSUME NEW i \in DOMAIN db.entries
               PROVE  db.entries[i].head \in 0..i /\ db.entries[i].by \in 0..Len(db.subs)
    OBVIOUS
  <2>1. db.entries[i].head \in 0..i
    BY <1>1 DEF TxInv, Transcript
  <2>2. db.entries[i].by # 0 => db.entries[i].by \in DOMAIN db.subs
    BY <1>1 DEF TxInv, Placement
  <2>3. db.entries[i].by \in Nat
    BY <1>2 DEF EntryRec
  <2> QED
    BY <1>2, <2>1, <2>2, <2>3
<1>4. \A s \in DOMAIN db.subs : /\ db.subs[s].status \in {"queued", "placed"} \cup Settled
                                /\ db.subs[s].entry \in 0..Len(db.entries)
  <2>1. \A s \in DOMAIN db.subs : db.subs[s].entry \in 0..Len(db.entries)
    BY <1>1 DEF TxInv, Placement
  <2>2. \A s \in DOMAIN db.subs : db.subs[s].status \in {"queued", "placed"} \cup Settled
    BY <1>2 DEF SubmissionRec, Settled
  <2> QED
    BY <2>1, <2>2
<1>5. \A i \in DOMAIN db.inbox : db.inbox[i].mode \in {"steer", "followUp", "write"}
  BY <1>1, TxFields DEF ItemRec
<1>6. db.live.gen \in {"none", "attempt", "partial", "retry", "deferred"}
  BY <1>1, TxFields DEF LiveRec
<1>7. db.live.run.task \in 0..Len(db.tasks)
  <2>1. CASE db.live.run = NoRun
    BY <1>2, <2>1 DEF NoRun
  <2>2. CASE db.live.run # NoRun
    <3>1. db.live.run.task \in LiveOf(db, "gen")
      BY <1>1, <2>2 DEF TasksAgree, RunAgrees, Busy
    <3> QED
      BY <1>2, <3>1 DEF LiveOf
  <2> QED
    BY <2>1, <2>2
<1>8. \A t \in Tasks : Task(t).status \in {"live", "done"} /\ Task(t).on \subseteq Tasks
  <2>1. \A t \in DOMAIN db.tasks : db.tasks[t].status \in {"live", "done"}
    BY <1>2 DEF TaskRec
  <2>2. \A t \in DOMAIN db.tasks : db.tasks[t].on \subseteq DOMAIN db.tasks
    BY <1>1 DEF TasksAgree, TaskFits
  <2> QED
    BY <2>1, <2>2 DEF Tasks, Task
<1>9. \A l \in local : l.task \in Tasks
  BY <1>1 DEF LocalFits, Tasks
<1> QED
  BY <1>3, <1>4, <1>5, <1>6, <1>7, <1>8, <1>9 DEF TypeOK

(* The invariant says that the records of a conversation agree.               *)
LEMMA SoundConsistent == ASSUME IInv PROVE Consistent
<1>1. Sound(db) /\ db \in TxRec /\ TxInv(db, DOMAIN db.inbox, {}) /\ TasksAgree(db)
  BY SoundParts DEF IInv
<1>2. InboxIsQueued
  <2> DEFINE f == [i \in DOMAIN db.inbox |-> db.inbox[i].sub]
             queued == {s \in DOMAIN db.subs : db.subs[s].status = "queued"}
  <2>1. /\ db.inbox \in Seq(ItemRec) /\ DOMAIN db.inbox = 1 .. Len(db.inbox) /\ Len(db.inbox) \in Nat
        /\ \A i \in DOMAIN db.inbox : db.inbox[i].sub \in Nat
    BY <1>1, TxFields DEF ItemRec
  <2>2. /\ \A i, j \in DOMAIN db.inbox : i < j => db.inbox[i].sub < db.inbox[j].sub
        /\ \A i \in DOMAIN db.inbox : db.inbox[i].sub \in DOMAIN db.subs
        /\ \A s \in DOMAIN db.subs : db.subs[s].status = "queued" <=> \E i \in DOMAIN db.inbox : db.inbox[i].sub = s
    BY <1>1 DEF TxInv, Queue, ItemFits
  <2>3. DOMAIN f = DOMAIN db.inbox /\ \A i \in DOMAIN db.inbox : f[i] = db.inbox[i].sub
    OBVIOUS
  <2>4. f \in Seq(Nat)
    BY <2>1
  <2> HIDE DEF f
  <2>5. Increasing(f)
    BY <2>2, <2>3 DEF Increasing
  <2>6. \A s \in Range(f) : s \in queued
    BY <2>2, <2>3 DEF Range
  <2>7. \A s \in queued : s \in Range(f)
    BY <2>2, <2>3 DEF Range
  <2>8. Range(f) = queued
    BY <2>6, <2>7
  <2>9. f = Ascending(Range(f))
    BY <2>4, <2>5, AscendingOnly
  <2> QED
    BY <2>8, <2>9 DEF InboxIsQueued, f
<1>3. CompactionsListed
  BY <1>1 DEF TasksAgree, ListAgrees, LiveOf, CompactionsListed, Comp, Live, Task, Tasks
<1>4. RunHasItsTask
  <2>1. {t \in Tasks : Gen(t) /\ Live(t)} = LiveOf(db, "gen")
    BY DEF LiveOf, Gen, Live, Task, Tasks
  <2> QED
    BY <1>1, <2>1 DEF TasksAgree, RunAgrees, RunHasItsTask
<1>5. RunOwnsPlaced
  <2> DEFINE inputs == db.live.run.inputs
  <2>1. /\ Range(inputs) \subseteq DOMAIN db.subs
        /\ \A s \in DOMAIN db.subs : db.subs[s].status = "placed" <=> s \in Range(inputs)
        /\ \A i, j \in DOMAIN inputs : inputs[i] = inputs[j] => i = j
    BY <1>1 DEF TxInv, Owns
  <2>2. inputs \in Seq(Nat)
    BY <1>1, TxFields
  <2> HIDE DEF inputs
  <2>3. Cardinality(Range(inputs)) = Len(inputs)
    BY <2>1, <2>2, DistinctSize
  <2>4. {s \in DOMAIN db.subs : db.subs[s].status = "placed"} = Range(inputs)
    BY <2>1
  <2> QED
    BY <2>3, <2>4 DEF RunOwnsPlaced, inputs
<1> QED
  BY <1>2, <1>3, <1>4, <1>5, SoundTypes DEF Consistent, RunOwnsInputs

(* The invariant says that drafts land once and in order.                     *)
LEMMA SoundLanding == ASSUME IInv PROVE Landing
<1>1. Placement(db) /\ LandsInOrder(db)
  BY SoundParts DEF IInv, TxInv, Order
<1>2. PlacedOnce
  <2> SUFFICES ASSUME NEW i \in DOMAIN db.entries, NEW j \in DOMAIN db.entries, i # j,
                      db.entries[i].by # 0, db.entries[j].by # 0,
                      db.subs[db.entries[i].by].req = db.subs[db.entries[j].by].req
               PROVE  FALSE
    BY DEF PlacedOnce
  <2>1. /\ db.entries[i].by \in DOMAIN db.subs /\ db.subs[db.entries[i].by].entry = i
        /\ db.entries[j].by \in DOMAIN db.subs /\ db.subs[db.entries[j].by].entry = j
    BY <1>1 DEF Placement
  <2>2. db.entries[i].by = db.entries[j].by
    BY <1>1, <2>1 DEF Placement
  <2> QED
    BY <2>1, <2>2
<1> QED
  BY <1>1, <1>2 DEF Landing, LandingOrder

(* The invariant says that the context is complete and free of what a reset   *)
(* cut.                                                                       *)
LEMMA SoundContext == ASSUME IInv PROVE ContextIntact
<1>1. Context(db) /\ \A l \in local : LocalFits(db, l)
  BY SoundParts DEF IInv, TxInv
<1>2. PreparedIsCurrent
  BY <1>1 DEF PreparedIsCurrent, LocalFits
<1> QED
  BY <1>1, <1>2 DEF ContextIntact, Context

(* The invariant says that answers match what was asked.                      *)
LEMMA SoundAnswers == ASSUME IInv PROVE AnswersMatch
<1>1. /\ Sound(db) /\ db \in TxRec /\ TxInv(db, DOMAIN db.inbox, {}) /\ TasksAgree(db) /\ CallsAgree(db)
  BY SoundParts DEF IInv
<1>2. AnsweredWasAsked
  BY <1>1 DEF TxInv, Answered, AnsweredBy, AnsweredWasAsked, InputsAnswered
<1>3. ASSUME NEW answer \in DOMAIN db.entries, NEW call \in db.entries[answer].calls
      PROVE  /\ Cardinality(Results(answer, call)) <= 1
             /\ Results(answer, call) = {} => InRound(answer) \/ Threw(answer, call)
  <2>1. \A i \in Results(answer, call) : i \in DOMAIN db.entries /\ IsResult(db, i, answer, call)
    BY DEF Results, IsResult
  <2>2. \A i, j \in Results(answer, call) : i = j
    BY <1>1, <2>1 DEF CallsAgree, ResultsOnce, IsResult
  <2>3. Cardinality(Results(answer, call)) <= 1
    <3>1. CASE Results(answer, call) = {}
      BY <3>1, FS_EmptySet
    <3>2. CASE Results(answer, call) # {}
      <4>1. PICK i : i \in Results(answer, call)
        BY <3>2
      <4>2. Results(answer, call) = {i}
        BY <2>2, <4>1
      <4> DEFINE single == {i}
      <4>3. Cardinality(single) = 1 /\ Results(answer, call) = single
        BY <4>2, FS_Singleton
      <4> HIDE DEF single
      <4> QED
        BY <4>3
    <3> QED
      BY <3>1, <3>2
  <2>4. ASSUME Results(answer, call) = {} PROVE InRound(answer) \/ Threw(answer, call)
    <3>1. ~HasResult(db, answer, call)
      BY <2>4 DEF HasResult, IsResult, Results
    <3>2. Gave(db, answer, call) \/ InHand(db, answer, call)
      BY <1>1, <3>1 DEF CallsAgree, CallsKept
    <3>3. CASE Gave(db, answer, call)
      BY <3>3 DEF Gave, Threw, Tasks, Task, Gen
    <3>4. CASE \E c \in LiveOf(db, "tool") : db.tasks[c].ref = answer /\ db.tasks[c].call = call
      <4>1. PICK c \in LiveOf(db, "tool") : db.tasks[c].ref = answer
        BY <3>4
      <4>2. TaskFits(db, c) /\ db.tasks[c].status = "live" /\ db.tasks[c].kind = "tool"
        BY <1>1, <4>1 DEF TasksAgree, LiveOf
      <4>3. Hosts(db, db.tasks[c].owner, c, "tools") /\ db.tasks[db.tasks[c].owner].ref = answer
        BY <4>1, <4>2 DEF TaskFits
      <4> QED
        BY <4>3 DEF Hosts, LiveOf, InRound, Tasks, Task, Gen, Live
    <3>5. CASE \E t \in LiveOf(db, "gen") : db.tasks[t].phase = "tools" /\ db.tasks[t].ref = answer
      BY <3>5 DEF LiveOf, InRound, Tasks, Task, Gen, Live
    <3> QED
      BY <3>2, <3>3, <3>4, <3>5 DEF InHand
  <2> QED
    BY <2>3, <2>4
<1> QED
  BY <1>2, <1>3 DEF AnswersMatch, ResultsComplete

(* A step takes nothing back.                                                 *)
LEMMA OnwardKeeps ==
    ASSUME IInv, Onward
    PROVE  /\ \A s \in DOMAIN db.subs :
                /\ db.subs[s].status \in Settled => db'.subs[s] = db.subs[s]
                /\ db.subs[s].status = "placed" => db'.subs[s].entry = db.subs[s].entry
                                                    /\ db'.subs[s].status # "queued"
           /\ ActiveStart(db') >= ActiveStart(db)
<1>1. db \in TxRec /\ Transcript(db) /\ db' \in TxRec /\ Transcript(db')
  BY DEF IInv, Onward, Sound, TxInv
<1>2. Continues(db, db')
  BY DEF Onward, Forward
<1>3. ActiveStart(db) <= ActiveStart(db')
  BY <1>1, <1>2, StartGrows
<1>4. ActiveStart(db) \in Nat /\ ActiveStart(db') \in Nat
  BY <1>1, TxFields, HeadsAre
<1>5. ActiveStart(db') >= ActiveStart(db)
  BY <1>3, <1>4
<1> QED
  BY <1>5 DEF Onward, Forward

(* Between two commits the records of a conversation are sound: transcript,    *)
(* submissions, inbox, run, tasks and the calls of a round agree with one      *)
(* another, and whatever a handler read before an await still fits its task    *)
(* (Transaction, prepareBoundary, GenerationTask, ToolTask, CompactionTask).  *)
THEOREM RecordsSound == Spec => []IInv
<1>1. IInv /\ [Next]_vars => IInv'
  BY NextKeeps DEF Onward
<1> QED
  BY <1>1, InitKeeps, PTL DEF Spec

(* The inbox is the queued submissions in their order, the compactions listed *)
(* are the live ones, and every placed input is in the hands of a run that has*)
(* its one live task (harness/inbox.ts, generation.ts): an accepted input is  *)
(* never without the task that will settle it.                                *)
THEOREM RecordsConsistent == Spec => []Consistent
BY RecordsSound, SoundConsistent, PTL

(* However often a request is submitted its draft lands at most once, and     *)
(* writes land in the order they were submitted, display-only ones excepted   *)
(* (applyBoundary, inbox.ts; admitSubmission, submissions.ts).                *)
THEOREM DraftsLand == Spec => []Landing
BY RecordsSound, SoundLanding, PTL

(* Whatever is submitted, reset, handed over and compacted, in whichever order*)
(* compactions select and place: the context holds what came after the newest *)
(* reset or a summary that stands for it, nothing from before it, and a       *)
(* request is made for the context as it is (view.ts, compaction.ts).         *)
THEOREM ContextHolds == Spec => []ContextIntact
BY RecordsSound, SoundContext, PTL

(* An input is settled `done` only by an answer whose request included it, and*)
(* every call of a round has one result once the round is over, unless its    *)
(* tool or its generation threw (generation.ts, tool.ts, abort handlers       *)
(* included).                                                                 *)
THEOREM AnswersHold == Spec => []AnswersMatch
BY RecordsSound, SoundAnswers, PTL

(* No step of the Harness changes a settled submission, moves a placed one, or*)
(* brings back history a head has cut.                                        *)
THEOREM NothingGoesBack == Spec => NothingTakenBack
<1>1. IInv /\ [Next]_vars =>
        [/\ \A s \in DOMAIN db.subs :
            /\ db.subs[s].status \in Settled => db'.subs[s] = db.subs[s]
            /\ db.subs[s].status = "placed" => db'.subs[s].entry = db.subs[s].entry
                                                /\ db'.subs[s].status # "queued"
         /\ ActiveStart(db') >= ActiveStart(db)]_vars
  BY NextKeeps, OnwardKeeps
<1> QED
  BY <1>1, RecordsSound, PTL DEF Spec, NothingTakenBack

-----------------------------------------------------------------------------
(* The mount of the active transcript.                                     *)

(* A number above a set comes last in its ascending sequence.                 *)
LEMMA AscendingAppend ==
    ASSUME NEW S, Finite(S), NEW x \in Nat, \A i \in S : i < x
    PROVE  Ascending(S \cup {x}) = Append(Ascending(S), x)
<1> DEFINE a == Ascending(S)
           r == Append(a, x)
           n == Cardinality(S)
<1>1. n \in Nat /\ a \in Seq(Nat) /\ Len(a) = n /\ DOMAIN a = 1 .. n /\ Increasing(a) /\ Range(a) = S
  BY AscendingIs
<1> HIDE DEF a, n
<1>2. r \in Seq(Nat) /\ Len(r) = n + 1 /\ (\A i \in 1 .. n : r[i] = a[i]) /\ r[n + 1] = x
  BY <1>1, AppendProperties
<1> HIDE DEF r
<1>3. DOMAIN r = 1 .. n + 1
  BY <1>2, LenProperties
<1>4. \A i \in 1 .. n : a[i] \in S
  BY <1>1 DEF Range
<1>5. \A i \in 1 .. n + 1 : i = n + 1 \/ i \in 1 .. n
  BY <1>1
<1>6. Increasing(r)
  <2> SUFFICES ASSUME NEW i \in 1 .. n + 1, NEW j \in 1 .. n + 1, i < j PROVE r[i] < r[j]
    BY <1>3 DEF Increasing
  <2>1. i \in 1 .. n
    BY <1>1
  <2>2. CASE j \in 1 .. n
    BY <1>1, <1>2, <2>1, <2>2 DEF Increasing
  <2>3. CASE j = n + 1
    BY <1>2, <1>4, <2>1, <2>3
  <2> QED
    BY <1>5, <2>2, <2>3
<1>7. \A y \in Range(r) : y \in S \cup {x}
  BY <1>2, <1>3, <1>4, <1>5 DEF Range
<1>8. \A y \in S : y \in Range(r)
  <2> SUFFICES ASSUME NEW y \in S PROVE y \in Range(r)
    OBVIOUS
  <2>1. PICK i \in 1 .. n : a[i] = y
    BY <1>1 DEF Range
  <2>2. i \in 1 .. n + 1 /\ r[i] = y
    BY <1>1, <1>2, <2>1
  <2> QED
    BY <1>3, <2>2 DEF Range
<1>9. x \in Range(r)
  <2>1. n + 1 \in 1 .. n + 1
    BY <1>1
  <2> QED
    BY <1>2, <1>3, <2>1 DEF Range
<1>10. Range(r) = S \cup {x}
  BY <1>7, <1>8, <1>9
<1>11. r = Ascending(Range(r))
  BY <1>2, <1>6, AscendingOnly
<1> QED
  BY <1>10, <1>11 DEF r, a

(* The tail of a sequence from the first position that holds a member of `K`,  *)
(* where the members are those that reach `c`.                               *)
Follows(m, off, a) ==
    /\ m \in Seq(Nat) /\ a \in Seq(Nat) /\ off \in {0, 1} /\ Len(m) = off + Len(a)
    /\ \A j \in 1 .. Len(a) : m[off + j] = a[j]
HeldAt(m, K) == {i \in 1 .. Len(m) : m[i] \in K}
TailIs(m, I, T) ==
    /\ I = {} => T = {}
    /\ I # {} => Min(I) # 0 /\ SubSeq(m, Min(I), Len(m)) = Ascending(T)

(* The members of an increasing sequence that reach a number are its tail.    *)
LEMMA TailFrom ==
    ASSUME NEW m, NEW off, NEW a, Follows(m, off, a), Increasing(a), NEW c \in Nat, NEW K,
           \A x \in Range(a) : x \in K <=> x >= c, off = 1 => m[1] \notin K
    PROVE  TailIs(m, HeldAt(m, K), {x \in Range(a) : x >= c})
<1> DEFINE I == HeldAt(m, K)
           T == {x \in Range(a) : x >= c}
           n == Len(a)
<1>1. /\ m \in Seq(Nat) /\ a \in Seq(Nat) /\ off \in {0, 1} /\ Len(m) = off + n /\ n \in Nat
      /\ DOMAIN a = 1 .. n /\ (\A j \in 1 .. n : a[j] \in Nat /\ m[off + j] = a[j])
  BY LenProperties, ElementOfSeq DEF Follows
<1>2. \A i \in I : i > off /\ i - off \in 1 .. n /\ a[i - off] >= c /\ i = off + (i - off)
  <2> SUFFICES ASSUME NEW i \in I PROVE i > off /\ i - off \in 1 .. n /\ a[i - off] >= c /\ i = off + (i - off)
    OBVIOUS
  <2>1. i \in 1 .. off + n /\ m[i] \in K
    BY <1>1 DEF HeldAt
  <2>2. i > off /\ i - off \in 1 .. n /\ i = off + (i - off)
    BY <1>1, <2>1
  <2>3. a[i - off] \in K /\ a[i - off] \in Range(a)
    BY <1>1, <2>1, <2>2 DEF Range
  <2> QED
    BY <2>2, <2>3
<1>3. \A j \in 1 .. n : a[j] >= c => off + j \in I
  <2> SUFFICES ASSUME NEW j \in 1 .. n, a[j] >= c PROVE off + j \in I
    OBVIOUS
  <2>1. a[j] \in Range(a) /\ a[j] \in K
    BY <1>1 DEF Range
  <2>2. off + j \in 1 .. off + n
    BY <1>1
  <2> QED
    BY <1>1, <2>1, <2>2 DEF HeldAt
<1>4. \A x \in T : \E j \in 1 .. n : a[j] = x /\ x >= c
  BY <1>1 DEF Range
<1>5. I = {} => T = {}
  BY <1>3, <1>4
<1>6. ASSUME I # {} PROVE Min(I) # 0 /\ SubSeq(m, Min(I), Len(m)) = Ascending(T)
  <2> DEFINE p == Min(I)
             t == SubSeq(m, p, Len(m))
             u == Len(m) - p + 1
  <2>1. I \in SUBSET Nat
    BY <1>1 DEF HeldAt
  <2>2. p \in I /\ \A i \in I : p <= i
    <3> HIDE DEF I
    <3>1. \E x \in I : \A y \in I : x <= y
      BY <1>6, <2>1, LeastNumber
    <3> QED
      BY <3>1 DEF Min
  <2> HIDE DEF p
  <2>3. p \in Nat /\ p > off /\ p <= Len(m) /\ p - off \in 1 .. n /\ a[p - off] >= c
    <3>1. p > off /\ p - off \in 1 .. n /\ a[p - off] >= c /\ p = off + (p - off)
      <4> HIDE DEF I, n
      <4> QED
        BY <1>2, <2>2
    <3>2. n \in Nat /\ off \in Nat /\ Len(m) = off + n
      BY <1>1
    <3> DEFINE d == p - off
    <3>3. d \in 1 .. n /\ p = off + d
      BY <3>1
    <3> HIDE DEF d, n
    <3>4. p \in Nat /\ p <= Len(m)
      BY <3>2, <3>3
    <3> QED
      BY <3>1, <3>4
  <2>4. u \in Nat /\ u >= 1 /\ u = n - (p - off) + 1
    <3>1. n \in Nat /\ off \in Nat /\ Len(m) = off + n
      BY <1>1
    <3>2. p \in Nat /\ p > off /\ p <= Len(m)
      BY <2>3
    <3> QED
      BY <3>1, <3>2
  <2>5. \A i \in p .. Len(m) : m[i] \in Nat
    <3> SUFFICES ASSUME NEW i \in p .. Len(m) PROVE m[i] \in Nat
      OBVIOUS
    <3>1. i \in 1 .. Len(m)
      BY <1>1, <2>3
    <3> QED
      BY <1>1, <3>1, ElementOfSeq
  <2>6. t \in Seq(Nat) /\ Len(t) = u /\ \A k \in 1 .. u : t[k] = m[p + k - 1]
    <3> DEFINE N == Len(m)
    <3>1. N \in Int /\ p \in Int /\ p <= N /\ \A i \in p .. N : m[i] \in Nat
      <4>1. Len(m) \in Int
        BY <1>1
      <4> QED
        BY <2>3, <2>5, <4>1
    <3>2. t = SubSeq(m, p, N) /\ u = N - p + 1
      OBVIOUS
    <3> HIDE DEF N, t, u
    <3>3. /\ SubSeq(m, p, N) \in Seq(Nat) /\ Len(SubSeq(m, p, N)) = N - p + 1
          /\ \A k \in 1 .. N - p + 1 : SubSeq(m, p, N)[k] = m[p + k - 1]
      BY <3>1, SubSeqProperties
    <3> QED
      BY <3>2, <3>3
  <2> HIDE DEF t, u
  <2>7. DOMAIN t = 1 .. u
    BY <2>6, LenProperties
  <2>8. \A k \in 1 .. u : (p - off) + k - 1 \in 1 .. n /\ t[k] = a[(p - off) + k - 1] /\ a[(p - off) + k - 1] \in Nat
    <3> SUFFICES ASSUME NEW k \in 1 .. u
                 PROVE  (p - off) + k - 1 \in 1 .. n /\ t[k] = a[(p - off) + k - 1] /\ a[(p - off) + k - 1] \in Nat
      OBVIOUS
    <3>1. (p - off) + k - 1 \in 1 .. n /\ off + ((p - off) + k - 1) = p + k - 1
      BY <1>1, <2>3, <2>4
    <3>2. m[p + k - 1] = a[(p - off) + k - 1] /\ a[(p - off) + k - 1] \in Nat
      BY <1>1, <3>1
    <3> QED
      BY <2>6, <3>1, <3>2
  <2>9. Increasing(t)
    <3> SUFFICES ASSUME NEW i \in 1 .. u, NEW j \in 1 .. u, i < j PROVE t[i] < t[j]
      BY <2>7 DEF Increasing
    <3>1. (p - off) + i - 1 < (p - off) + j - 1
      BY <1>1, <2>3, <2>4
    <3> QED
      BY <1>1, <2>8, <3>1 DEF Increasing
  <2>10. \A x \in Range(t) : x \in T
    <3> SUFFICES ASSUME NEW x \in Range(t) PROVE x \in T
      OBVIOUS
    <3>1. PICK k \in 1 .. u : t[k] = x
      BY <2>7 DEF Range
    <3> DEFINE q == p - off
               z == q + k - 1
    <3>2. z \in 1 .. n /\ x = a[z] /\ x \in Nat
      BY <2>8, <3>1
    <3>3. q \in 1 .. n /\ a[q] >= c /\ a[q] \in Nat /\ z >= q
      <4>1. q \in 1 .. n /\ a[q] >= c
        BY <2>3
      <4>2. n \in Nat /\ q \in Nat
        BY <1>1, <2>3
      <4> HIDE DEF q
      <4>3. a[q] \in Nat
        BY <1>1, <4>1
      <4>4. k \in Nat /\ k >= 1
        BY <2>4
      <4>5. z >= q
        BY <4>2, <4>4
      <4> QED
        BY <4>1, <4>3, <4>5
    <3> HIDE DEF q, z
    <3>4. z = q \/ q < z
      BY <1>1, <3>2, <3>3
    <3>5. a[z] >= a[q]
      <4>1. z \in DOMAIN a /\ q \in DOMAIN a /\ a[z] \in Nat /\ a[q] \in Nat
        BY <1>1, <3>2, <3>3
      <4>2. CASE z = q
        BY <4>1, <4>2
      <4>3. CASE q < z
        BY <4>1, <4>3 DEF Increasing
      <4> QED
        BY <3>4, <4>2, <4>3
    <3>6. x >= c
      BY <3>2, <3>3, <3>5
    <3> QED
      BY <1>1, <3>2, <3>6 DEF Range
  <2>11. \A x \in T : x \in Range(t)
    <3> SUFFICES ASSUME NEW x \in T PROVE x \in Range(t)
      OBVIOUS
    <3>1. PICK j \in 1 .. n : a[j] = x /\ x >= c
      BY <1>4
    <3>2. p <= off + j
      BY <1>3, <2>2, <3>1
    <3> DEFINE k == off + j - p + 1
    <3>3. k \in 1 .. u /\ (p - off) + k - 1 = j
      <4>1. off \in Nat /\ j \in Nat /\ j <= n /\ n \in Nat /\ p \in Nat /\ u = n - (p - off) + 1
        BY <1>1, <2>3, <2>4
      <4> HIDE DEF n
      <4>2. k \in Int /\ k >= 1 /\ k <= u /\ (p - off) + k - 1 = j
        BY <3>2, <4>1
      <4> QED
        BY <2>4, <4>2
    <3> HIDE DEF k
    <3>4. t[k] = x
      BY <2>8, <3>1, <3>3
    <3> QED
      BY <2>7, <3>3, <3>4 DEF Range
  <2>12. Range(t) = T
    BY <2>10, <2>11
  <2>13. t = Ascending(Range(t))
    BY <2>6, <2>9, AscendingOnly
  <2>14. p # 0
    BY <1>1, <2>3
  <2> QED
    BY <2>12, <2>13, <2>14 DEF p, t
<1> QED
  BY <1>5, <1>6 DEF TailIs

(* The active range of the first `k` entries.                                 *)
HeadsTo(entries, k) == {i \in 1 .. k : entries[i].head > 0}
MarkTo(entries, k) == NewestOf(HeadsTo(entries, k))
StartTo(entries, k) == IF MarkTo(entries, k) = 0 THEN 0 ELSE entries[MarkTo(entries, k)].head
RestTo(entries, k) == {i \in 1 .. k : i >= StartTo(entries, k) /\ entries[i].head = 0}
ActiveTo(entries, k) ==
    IF MarkTo(entries, k) = 0 THEN Ascending(RestTo(entries, k))
    ELSE <<MarkTo(entries, k)>> \o Ascending(RestTo(entries, k))

(* Heads reach back, and never further than an older one.                      *)
HeadsFit(entries, n) ==
    /\ \A i \in 1 .. n : entries[i].head \in 0 .. i
    /\ \A i, j \in 1 .. n : i < j /\ entries[i].head > 0 /\ entries[j].head > 0 => entries[i].head <= entries[j].head

(* Where the newest head of the first entries is, and where its range starts. *)
LEMMA NewestHeadIs ==
    ASSUME NEW n \in Nat, NEW entries, HeadsFit(entries, n), NEW k \in 0 .. n
    PROVE  /\ MarkTo(entries, k) \in 0 .. k /\ StartTo(entries, k) \in 0 .. MarkTo(entries, k)
           /\ MarkTo(entries, k) > 0 => entries[MarkTo(entries, k)].head > 0
           /\ \A i \in 1 .. k : entries[i].head > 0 => i <= MarkTo(entries, k) /\ entries[i].head <= StartTo(entries, k)
           /\ Finite(RestTo(entries, k)) /\ RestTo(entries, k) \subseteq 1 .. k
<1> DEFINE H == HeadsTo(entries, k)
           h == MarkTo(entries, k)
<1>1. H \in SUBSET (1 .. k) /\ k \in Nat /\ k <= n /\ \A i \in 1 .. k : i \in 1 .. n
  BY DEF HeadsTo
<1>2. h \in 0 .. k /\ (h > 0 => h \in H) /\ \A i \in H : i <= h
  <2> HIDE DEF H
  <2>1. CASE H = {}
    BY <1>1, <2>1, NewestOfEmpty DEF MarkTo, H
  <2>2. CASE H # {}
    <3>1. H \in SUBSET Nat /\ \A i \in H : i <= k
      BY <1>1
    <3>2. NewestOf(H) \in H /\ \A j \in H : j <= NewestOf(H)
      BY <1>1, <2>2, <3>1, GreatestNumber
    <3> QED
      BY <1>1, <3>2 DEF MarkTo, H
  <2> QED
    BY <2>1, <2>2
<1> HIDE DEF h
<1>3. \A i \in 1 .. k : entries[i].head > 0 <=> i \in H
  BY DEF HeadsTo
<1> HIDE DEF H
<1>4. StartTo(entries, k) \in 0 .. h
  <2>1. CASE h = 0
    BY <2>1 DEF StartTo, h
  <2>2. CASE h # 0
    <3>1. h \in 1 .. k
      BY <1>1, <1>2, <2>2
    <3>2. entries[h].head \in 0 .. h
      BY <1>1, <3>1 DEF HeadsFit
    <3> QED
      BY <2>2, <3>2 DEF StartTo, h
  <2> QED
    BY <2>1, <2>2
<1>5. \A i \in 1 .. k : entries[i].head > 0 => i <= h /\ entries[i].head <= StartTo(entries, k)
  <2> SUFFICES ASSUME NEW i \in 1 .. k, entries[i].head > 0 PROVE i <= h /\ entries[i].head <= StartTo(entries, k)
    OBVIOUS
  <2>1. i <= h /\ h \in 1 .. k /\ h # 0
    BY <1>1, <1>2, <1>3
  <2>2. entries[h].head > 0 /\ StartTo(entries, k) = entries[h].head
    BY <1>3, <1>2, <2>1 DEF StartTo, h
  <2>3. i = h \/ i < h
    BY <1>1, <2>1
  <2>4. i \in 1 .. n /\ h \in 1 .. n
    BY <1>1, <2>1
  <2>5. entries[i].head <= entries[h].head
    BY <2>2, <2>3, <2>4 DEF HeadsFit
  <2> QED
    BY <2>1, <2>2, <2>5
<1>6. h > 0 => entries[h].head > 0
  BY <1>2, <1>3, <1>1
<1>7. RestTo(entries, k) \subseteq 1 .. k
  BY DEF RestTo
<1>8. Finite(RestTo(entries, k))
  <2>1. IsFiniteSet(1 .. k)
    BY <1>1, FS_Interval
  <2>2. IsFiniteSet(RestTo(entries, k))
    BY <1>7, <2>1, FS_Subset
  <2> QED
    BY <1>7, <2>2 DEF Finite
<1> QED
  BY <1>2, <1>4, <1>5, <1>6, <1>7, <1>8 DEF h

(* An entry without a head goes at the end.                                   *)
LEMMA PlainGoesLast ==
    ASSUME NEW n \in Nat, NEW entries, HeadsFit(entries, n), NEW k \in 0 .. n, k + 1 <= n, entries[k + 1].head = 0
    PROVE  ActiveTo(entries, k + 1) = Append(ActiveTo(entries, k), k + 1)
<1> DEFINE h == MarkTo(entries, k)
           S == RestTo(entries, k)
           a == Ascending(S)
           x == k + 1
<1>1. /\ h \in 0 .. k /\ StartTo(entries, k) \in 0 .. h /\ Finite(S) /\ S \subseteq 1 .. k
      /\ k \in Nat /\ x \in 0 .. n /\ x \in Nat /\ \A i \in 1 .. x : i \in 1 .. k \/ i = x
  BY NewestHeadIs
<1>2. HeadsTo(entries, x) = HeadsTo(entries, k)
  <2>1. \A i \in 1 .. x : entries[i].head > 0 => i \in 1 .. k
    BY <1>1
  <2>2. \A i \in 1 .. k : i \in 1 .. x
    BY <1>1
  <2> QED
    BY <2>1, <2>2 DEF HeadsTo
<1>3. MarkTo(entries, x) = h /\ StartTo(entries, x) = StartTo(entries, k)
  BY <1>2 DEF MarkTo, StartTo
<1>4. RestTo(entries, x) = S \cup {x}
  <2>1. \A i \in RestTo(entries, x) : i \in S \cup {x}
    BY <1>1, <1>3 DEF RestTo
  <2>2. \A i \in S : i \in RestTo(entries, x)
    BY <1>1, <1>3 DEF RestTo
  <2>3. x \in RestTo(entries, x)
    <3>1. x \in 1 .. x /\ x >= StartTo(entries, k)
      BY <1>1
    <3> QED
      BY <1>3, <3>1 DEF RestTo
  <2> QED
    BY <2>1, <2>2, <2>3
<1>5. Ascending(S \cup {x}) = Append(a, x) /\ a \in Seq(Nat)
  <2>1. \A i \in S : i < x
    BY <1>1
  <2> HIDE DEF S, x
  <2> QED
    BY <1>1, <2>1, AscendingAppend, AscendingIs
<1> HIDE DEF a, x, h
<1>6. CASE h = 0
  <2>1. ActiveTo(entries, k) = a /\ ActiveTo(entries, x) = Append(a, x)
    BY <1>3, <1>4, <1>5, <1>6 DEF ActiveTo, a, h
  <2> QED
    BY <2>1 DEF x
<1>7. CASE h # 0
  <2>1. <<h>> \in Seq(Nat) /\ <<x>> \in Seq(Nat)
    BY <1>1
  <2>2. <<h>> \o a \in Seq(Nat)
    BY <1>5, <2>1, ConcatProperties
  <2>3. <<h>> \o Append(a, x) = <<h>> \o (a \o <<x>>)
    BY <1>1, <1>5, AppendIsConcat
  <2>4. Append(<<h>> \o a, x) = (<<h>> \o a) \o <<x>>
    BY <1>1, <2>2, AppendIsConcat
  <2>5. (<<h>> \o a) \o <<x>> = <<h>> \o (a \o <<x>>)
    BY <1>5, <2>1, ConcatAssociative
  <2>6. ActiveTo(entries, k) = <<h>> \o a /\ ActiveTo(entries, x) = <<h>> \o Append(a, x)
    BY <1>3, <1>4, <1>5, <1>7 DEF ActiveTo, a, h
  <2> QED
    BY <2>3, <2>4, <2>5, <2>6 DEF x
<1> QED
  BY <1>6, <1>7

(* A head marker keeps what follows its head, and goes in front.               *)
LEMMA MarkerGoesFirst ==
    ASSUME NEW n \in Nat, NEW entries, HeadsFit(entries, n), NEW k \in 0 .. n, k + 1 <= n, entries[k + 1].head > 0
    PROVE  ActiveTo(entries, k + 1) = AddMarker(ActiveTo(entries, k), entries, k + 1)
<1> DEFINE h == MarkTo(entries, k)
           S == RestTo(entries, k)
           a == Ascending(S)
           x == k + 1
           c == entries[x].head
           m == ActiveTo(entries, k)
           off == IF h = 0 THEN 0 ELSE 1
           K == {i \in Nat : entries[i].head = 0 /\ i >= c}
           I == HeldAt(m, K)
           T == {i \in S : i >= c}
<1>1. /\ h \in 0 .. k /\ StartTo(entries, k) \in 0 .. h /\ Finite(S) /\ S \subseteq 1 .. k
      /\ h > 0 => entries[h].head > 0
      /\ \A i \in 1 .. k : entries[i].head > 0 => entries[i].head <= StartTo(entries, k)
      /\ k \in Nat /\ x \in 0 .. n /\ x \in Nat /\ \A i \in 1 .. x : i \in 1 .. k \/ i = x
  BY NewestHeadIs
<1>2. x \in 1 .. n /\ c \in 0 .. x /\ c \in Nat
  <2>1. x \in 1 .. n
    BY <1>1
  <2> QED
    BY <1>1, <2>1 DEF HeadsFit
<1>3. MarkTo(entries, x) = x /\ StartTo(entries, x) = c
  <2>1. HeadsTo(entries, x) \in SUBSET Nat /\ x \in HeadsTo(entries, x) /\ \A j \in HeadsTo(entries, x) : j <= x
    BY <1>1, <1>2 DEF HeadsTo
  <2>2. NewestOf(HeadsTo(entries, x)) = x
    BY <2>1, NewestIs
  <2> QED
    BY <1>1, <2>2 DEF MarkTo, StartTo
<1>4. c >= StartTo(entries, k)
  <2>1. CASE h = 0
    BY <1>1, <1>2, <2>1
  <2>2. CASE h # 0
    <3>1. h \in 1 .. n /\ h < x /\ entries[h].head > 0 /\ StartTo(entries, k) = entries[h].head
      BY <1>1, <2>2 DEF StartTo
    <3>2. entries[h].head <= c
      BY <1>2, <3>1 DEF HeadsFit
    <3> QED
      BY <1>1, <1>2, <3>1, <3>2
  <2> QED
    BY <2>1, <2>2
<1>5. RestTo(entries, x) = T
  <2>1. \A i \in RestTo(entries, x) : i \in T
    <3> SUFFICES ASSUME NEW i \in RestTo(entries, x) PROVE i \in T
      OBVIOUS
    <3>1. i \in 1 .. x /\ i >= c /\ entries[i].head = 0
      BY <1>3 DEF RestTo
    <3>2. i \in 1 .. k
      BY <1>1, <3>1
    <3>3. i >= StartTo(entries, k)
      BY <1>1, <1>2, <1>4, <3>1, <3>2
    <3> QED
      BY <3>1, <3>2, <3>3 DEF RestTo
  <2>2. \A i \in T : i \in RestTo(entries, x)
    <3> SUFFICES ASSUME NEW i \in T PROVE i \in RestTo(entries, x)
      OBVIOUS
    <3>1. i \in 1 .. k /\ i >= c /\ entries[i].head = 0
      BY DEF RestTo
    <3>2. i \in 1 .. x
      BY <1>1, <3>1
    <3> QED
      BY <1>3, <3>1, <3>2 DEF RestTo
  <2> HIDE DEF T
  <2> QED
    BY <2>1, <2>2
<1>6. a \in Seq(Nat) /\ Increasing(a) /\ Range(a) = S
  BY <1>1, AscendingIs
<1>7. \A i \in S : i \in K <=> i >= c
  BY <1>1 DEF RestTo
<1>8. Follows(m, off, a) /\ (off = 1 => m[1] \notin K)
  <2> HIDE DEF S, K
  <2>1. CASE h = 0
    <3>1. m = a /\ off = 0
      BY <2>1 DEF ActiveTo, S
    <3>2. Len(a) \in Nat
      BY <1>6, LenProperties
    <3> HIDE DEF m, off, a
    <3>3. \A j \in 1 .. Len(a) : 0 + j = j
      BY <3>2
    <3> QED
      BY <1>6, <3>1, <3>2, <3>3 DEF Follows
  <2>2. CASE h # 0
    <3> DEFINE f == <<h>>
    <3>1. m = f \o a /\ off = 1
      BY <2>2 DEF ActiveTo, S
    <3>2. f \in Seq(Nat) /\ Len(f) = 1 /\ f[1] = h
      BY <1>1
    <3> HIDE DEF f, m, off, a, h
    <3>3. /\ m \in Seq(Nat) /\ Len(m) = 1 + Len(a)
          /\ \A i \in 1 .. 1 + Len(a) : m[i] = IF i <= 1 THEN f[i] ELSE a[i - 1]
      <4>1. /\ f \o a \in Seq(Nat) /\ Len(f \o a) = Len(f) + Len(a)
            /\ \A i \in 1 .. Len(f) + Len(a) : (f \o a)[i] = IF i <= Len(f) THEN f[i] ELSE a[i - Len(f)]
        BY <1>6, <3>2, ConcatProperties
      <4> QED
        BY <3>1, <3>2, <4>1
    <3>4. Len(a) \in Nat
      BY <1>6, LenProperties
    <3>5. \A j \in 1 .. Len(a) : 1 + j \in 1 .. 1 + Len(a) /\ ~(1 + j <= 1) /\ (1 + j) - 1 = j
      BY <3>4
    <3>6. \A j \in 1 .. Len(a) : m[1 + j] = a[j]
      BY <3>3, <3>5
    <3>7. m[1] = h
      BY <3>2, <3>3, <3>4
    <3>8. entries[h].head > 0
      BY <1>1, <2>2
    <3>9. h \notin K
      BY <3>8 DEF K
    <3> QED
      BY <1>6, <3>1, <3>3, <3>6, <3>7, <3>9 DEF Follows
  <2> QED
    BY <2>1, <2>2
<1> HIDE DEF a, m, off, K
<1>9. TailIs(m, I, T)
  <2>1. \A i \in Range(a) : i \in K <=> i >= c
    BY <1>6, <1>7
  <2>2. T = {i \in Range(a) : i >= c}
    BY <1>6
  <2> HIDE DEF T, S, c
  <2>3. TailIs(m, HeldAt(m, K), {i \in Range(a) : i >= c})
    BY <1>2, <1>6, <1>8, <2>1, TailFrom
  <2> QED
    BY <2>2, <2>3
<1>10. AddMarker(m, entries, x) = <<x>> \o IF I = {} THEN <<>> ELSE SubSeq(m, Min(I), Len(m))
  <2> DEFINE J == {i \in 1 .. Len(m) : entries[m[i]].head = 0 /\ m[i] >= c}
  <2>1. J = I
    <3>1. \A i \in 1 .. Len(m) : m[i] \in Nat
      BY <1>8, ElementOfSeq DEF Follows
    <3> QED
      BY <3>1 DEF K, HeldAt
  <2>2. AddMarker(m, entries, x) = <<x>> \o IF (IF J # {} THEN Min(J) ELSE 0) = 0 THEN <<>>
                                            ELSE SubSeq(m, IF J # {} THEN Min(J) ELSE 0, Len(m))
    BY DEF AddMarker, SelectInSeq
  <2> HIDE DEF I, J
  <2>3. AddMarker(m, entries, x) = <<x>> \o IF (IF I # {} THEN Min(I) ELSE 0) = 0 THEN <<>>
                                            ELSE SubSeq(m, IF I # {} THEN Min(I) ELSE 0, Len(m))
    BY <2>1, <2>2
  <2>4. CASE I = {}
    BY <2>3, <2>4
  <2>5. CASE I # {}
    BY <1>9, <2>3, <2>5 DEF TailIs
  <2> QED
    BY <2>4, <2>5
<1>11. ActiveTo(entries, x) = <<x>> \o Ascending(T)
  <2>1. MarkTo(entries, x) = x /\ x # 0 /\ RestTo(entries, x) = T
    BY <1>1, <1>3, <1>5
  <2> HIDE DEF x, T
  <2> QED
    BY <2>1 DEF ActiveTo
<1>12. Ascending({}) = <<>>
  <2>1. Range(<<>>) = {} /\ <<>> \in Seq(Nat) /\ Increasing(<<>>)
    BY EmptySeq DEF Range, Increasing
  <2> QED
    BY <2>1, AscendingOnly
<1> HIDE DEF I, T
<1>13. Ascending(T) = IF I = {} THEN <<>> ELSE SubSeq(m, Min(I), Len(m))
  BY <1>9, <1>12 DEF TailIs
<1> QED
  BY <1>10, <1>11, <1>13 DEF m

(* The revisions of a commit are derived one entry after the other.            *)
Derived(mounted, entries, shown, id, before) ==
    IF id = shown THEN mounted
    ELSE IF entries[id].head = 0 THEN Append(before, id)
    ELSE AddMarker(before, entries, id)
Revises(after, mounted, entries, shown, n) ==
    /\ \A id \in shown .. n : after[id] = Derived(mounted, entries, shown, id, after[id - 1])
    /\ Advance(mounted, entries, shown) = after[n]

(* A mount takes the published entries one after the other.                   *)
LEMMA AdvanceSteps ==
    ASSUME NEW mounted, NEW entries, NEW shown \in Nat, NEW n \in Nat, shown <= n, n = Len(entries)
    PROVE  \E after : Revises(after, mounted, entries, shown, n)
<1> DEFINE Steps(f, m) == f = [id \in shown .. m |-> IF id = shown THEN mounted
                                                     ELSE IF entries[id].head = 0 THEN Append(f[id - 1], id)
                                                     ELSE AddMarker(f[id - 1], entries, id)]
           S == {k \in Nat : \E f : Steps(f, shown + k)}
<1>1. 0 \in S
  <2>1. Steps([id \in shown .. shown |-> mounted], shown)
    OBVIOUS
  <2>2. shown + 0 = shown
    OBVIOUS
  <2> HIDE DEF Steps
  <2> QED
    BY <2>1, <2>2
<1>2. \A k \in 0 .. (n - shown) - 1 : k \in S => k + 1 \in S
  <2> SUFFICES ASSUME NEW k \in 0 .. (n - shown) - 1, k \in S PROVE k + 1 \in S
    OBVIOUS
  <2> DEFINE m == shown + k
  <2>1. PICK f : Steps(f, m)
    OBVIOUS
  <2>2. m \in Nat /\ m >= shown /\ shown + (k + 1) = m + 1 /\ k + 1 \in Nat
    OBVIOUS
  <2> HIDE DEF m
  <2> DEFINE g == [id \in shown .. m + 1 |->
                     IF id = m + 1 THEN (IF entries[m + 1].head = 0 THEN Append(f[m], m + 1)
                                         ELSE AddMarker(f[m], entries, m + 1))
                     ELSE f[id]]
  <2>3. ASSUME NEW id \in shown .. m + 1
        PROVE  g[id] = IF id = shown THEN mounted
                       ELSE IF entries[id].head = 0 THEN Append(g[id - 1], id)
                       ELSE AddMarker(g[id - 1], entries, id)
    <3>1. CASE id = shown
      <4>1. id \in shown .. m /\ id # m + 1
        BY <2>2, <3>1
      <4>2. g[id] = f[id] /\ f[id] = mounted
        BY <2>1, <3>1, <4>1
      <4> QED
        BY <3>1, <4>2
    <3>2. CASE id = m + 1
      <4>1. id # shown /\ id - 1 = m /\ m \in shown .. m + 1 /\ m # m + 1
        BY <2>2, <3>2
      <4>2. g[id - 1] = f[m]
        BY <4>1
      <4> QED
        BY <3>2, <4>1, <4>2
    <3>3. CASE id # shown /\ id # m + 1
      <4>1. id \in shown .. m /\ id - 1 \in shown .. m + 1 /\ id - 1 # m + 1
        BY <2>2, <3>3
      <4>2. g[id] = f[id] /\ g[id - 1] = f[id - 1]
        BY <3>3, <4>1
      <4>3. f[id] = IF id = shown THEN mounted
                    ELSE IF entries[id].head = 0 THEN Append(f[id - 1], id)
                    ELSE AddMarker(f[id - 1], entries, id)
        BY <2>1, <4>1
      <4> HIDE DEF g
      <4> QED
        BY <4>2, <4>3
    <3> QED
      BY <3>1, <3>2, <3>3
  <2>4. Steps(g, m + 1)
    <3>1. g = [id \in shown .. m + 1 |-> g[id]]
      OBVIOUS
    <3> HIDE DEF g
    <3> QED
      BY <2>3, <3>1
  <2> HIDE DEF Steps
  <2> QED
    BY <2>2, <2>4
<1>3. n - shown \in 0 .. n - shown /\ n - shown \in Nat /\ shown + (n - shown) = n
  OBVIOUS
<1>4. 0 .. n - shown \subseteq S
  <2> HIDE DEF S
  <2> QED
    BY <1>1, <1>2, <1>3, UpTo
<1>5. \E f : Steps(f, n)
  <2> HIDE DEF Steps
  <2> QED
    BY <1>3, <1>4
<1> DEFINE a == CHOOSE f : Steps(f, n)
<1>6. Steps(a, n)
  <2> HIDE DEF Steps
  <2> QED
    BY <1>5
<1>7. Advance(mounted, entries, shown) = a[n]
  BY DEF Advance
<1> HIDE DEF a
<1>8. \A id \in shown .. n : a[id] = Derived(mounted, entries, shown, id, a[id - 1])
  BY <1>6 DEF Derived
<1> QED
  BY <1>7, <1>8 DEF Revises

(* The active range, by positions.                                            *)
LEMMA PositionsActive ==
    ASSUME NEW tx \in TxRec, Transcript(tx)
    PROVE  /\ HeadsFit(tx.entries, Len(tx.entries))
           /\ ActiveEntries(tx) = ActiveTo(tx.entries, Len(tx.entries))
<1> DEFINE e == tx.entries
           n == Len(tx.entries)
           h == MarkTo(e, n)
<1>1. n \in Nat /\ DOMAIN e = 1 .. n /\ n \in 0 .. n /\ \A i \in 1 .. n : e[i].head \in Nat
  <2>1. n \in Nat /\ DOMAIN e = 1 .. n
    BY TxFields
  <2> QED
    BY <2>1 DEF Transcript
<1>2. HeadsFit(e, n)
  BY <1>1 DEF HeadsFit, Transcript
<1>3. HeadsTo(e, n) = {i \in DOMAIN tx.entries : tx.entries[i].head > 0}
  BY <1>1 DEF HeadsTo
<1>4. LatestHeadMarker(tx) = h /\ ActiveStart(tx) = StartTo(e, n)
  BY <1>3 DEF LatestHeadMarker, ActiveStart, MarkTo, StartTo
<1>5. h \in 0 .. n /\ \A i \in 1 .. n : e[i].head > 0 => i <= h
  <2> HIDE DEF e, n, h
  <2> QED
    BY <1>1, <1>2, NewestHeadIs DEF h
<1>6. RestTo(e, n) = {i \in DOMAIN tx.entries : i >= ActiveStart(tx) /\ (h = 0 \/ tx.entries[i].head = 0)}
  <2>1. \A i \in 1 .. n : h = 0 => e[i].head = 0
    BY <1>1, <1>5
  <2> QED
    BY <1>1, <1>4, <2>1 DEF RestTo
<1> HIDE DEF h
<1>7. ActiveEntries(tx) = IF h = 0 THEN Ascending(RestTo(e, n)) ELSE <<h>> \o Ascending(RestTo(e, n))
  BY <1>4, <1>6 DEF ActiveEntries
<1>8. ActiveTo(e, n) = IF h = 0 THEN Ascending(RestTo(e, n)) ELSE <<h>> \o Ascending(RestTo(e, n))
  BY DEF ActiveTo, h
<1> QED
  BY <1>2, <1>7, <1>8

(* What is appended changes nothing of the range before it.                    *)
LEMMA ActiveStays ==
    ASSUME NEW tx \in TxRec, NEW tx2 \in TxRec, Transcript(tx), Continues(tx, tx2)
    PROVE  ActiveTo(tx2.entries, Len(tx.entries)) = ActiveTo(tx.entries, Len(tx.entries))
<1> DEFINE e == tx.entries
           f == tx2.entries
           n == Len(tx.entries)
           h == MarkTo(e, n)
<1>1. n \in Nat /\ n \in 0 .. n /\ \A i \in 1 .. n : f[i] = e[i]
  BY TxFields DEF Continues
<1>2. h \in 0 .. n
  <2>1. HeadsFit(e, n)
    BY PositionsActive
  <2> HIDE DEF e, n, h
  <2> QED
    BY <1>1, <2>1, NewestHeadIs DEF h
<1> HIDE DEF e, f, n, h
<1>3. HeadsTo(f, n) = HeadsTo(e, n)
  BY <1>1 DEF HeadsTo
<1>4. MarkTo(f, n) = h
  BY <1>3 DEF MarkTo, h
<1>5. StartTo(f, n) = StartTo(e, n)
  <2>1. h # 0 => h \in 1 .. n
    BY <1>1, <1>2
  <2> QED
    BY <1>1, <1>4, <2>1 DEF StartTo, h
<1>6. RestTo(f, n) = RestTo(e, n)
  BY <1>1, <1>5 DEF RestTo
<1>7. ActiveTo(f, n) = ActiveTo(e, n)
  BY <1>4, <1>6 DEF ActiveTo, h
<1> QED
  BY <1>7 DEF e, f, n

(* A mount that shows the active range before a commit shows it after.         *)
LEMMA AdvanceIs ==
    ASSUME NEW tx \in TxRec, NEW tx2 \in TxRec, Transcript(tx), Transcript(tx2), Continues(tx, tx2)
    PROVE  Advance(ActiveEntries(tx), tx2.entries, Len(tx.entries)) = ActiveEntries(tx2)
<1> DEFINE m == ActiveEntries(tx)
           e == tx2.entries
           k == Len(tx.entries)
           n == Len(tx2.entries)
<1>1. k \in Nat /\ n \in Nat /\ k <= n /\ HeadsFit(e, n)
  <2>1. k \in Nat /\ n \in Nat
    BY TxFields
  <2>2. k <= n
    BY DEF Continues
  <2> QED
    BY <2>1, <2>2, PositionsActive
<1>2. m = ActiveTo(e, k) /\ ActiveEntries(tx2) = ActiveTo(e, n)
  BY PositionsActive, ActiveStays
<1> HIDE DEF m, e, k, n
<1>3. PICK after : Revises(after, m, e, k, n)
  <2>1. n = Len(e)
    BY DEF n, e
  <2> QED
    BY <1>1, <2>1, AdvanceSteps
<1> DEFINE S == {j \in Nat : after[k + j] = ActiveTo(e, k + j)}
<1>4. 0 \in S
  <2>1. k \in k .. n /\ k + 0 = k
    BY <1>1
  <2>2. after[k] = m
    BY <1>3, <2>1 DEF Revises, Derived
  <2> QED
    BY <1>2, <2>1, <2>2
<1>5. \A j \in 0 .. (n - k) - 1 : j \in S => j + 1 \in S
  <2> SUFFICES ASSUME NEW j \in 0 .. (n - k) - 1, j \in S PROVE j + 1 \in S
    OBVIOUS
  <2> DEFINE p == k + j
             id == p + 1
  <2>1. p \in 0 .. n /\ p + 1 <= n /\ id \in k .. n /\ id # k /\ id - 1 = p /\ id \in 1 .. n /\ k + (j + 1) = id /\ j + 1 \in Nat
    BY <1>1
  <2>2. after[p] = ActiveTo(e, p)
    OBVIOUS
  <2> HIDE DEF p, S
  <2>3. after[id] = IF e[id].head = 0 THEN Append(after[p], id) ELSE AddMarker(after[p], e, id)
    <3>1. after[id] = Derived(m, e, k, id, after[id - 1])
      BY <1>3, <2>1 DEF Revises
    <3> HIDE DEF id
    <3> QED
      BY <2>1, <3>1 DEF Derived
  <2>4. e[id].head \in 0 .. id
    BY <1>1, <2>1 DEF HeadsFit
  <2>5. after[id] = ActiveTo(e, id)
    <3>1. CASE e[id].head = 0
      BY <1>1, <2>1, <2>2, <2>3, <3>1, PlainGoesLast
    <3>2. CASE e[id].head # 0
      <4>1. e[p + 1].head > 0
        BY <2>1, <2>4, <3>2
      <4> QED
        BY <1>1, <2>1, <2>2, <2>3, <3>2, <4>1, MarkerGoesFirst
    <3> QED
      BY <3>1, <3>2
  <2> HIDE DEF id
  <2> QED
    BY <2>1, <2>5 DEF S
<1>6. n - k \in Nat /\ n - k \in 0 .. n - k /\ k + (n - k) = n
  BY <1>1
<1>7. 0 .. n - k \subseteq S
  <2> HIDE DEF S
  <2> QED
    BY <1>4, <1>5, <1>6, UpTo
<1>8. after[n] = ActiveTo(e, n)
  BY <1>6, <1>7
<1> QED
  BY <1>2, <1>3, <1>8 DEF m, e, k, Revises

(* A commit keeps what a mount shows.                                          *)
LEMMA PublishKeeps ==
    ASSUME IInv, Onward, MountIsActive, Publish
    PROVE  MountIsActive'
<1>1. db \in TxRec /\ Transcript(db) /\ db' \in TxRec /\ Transcript(db')
  BY DEF IInv, Onward, Sound, TxInv
<1>2. Continues(db, db')
  BY DEF Onward, Forward
<1>3. Advance(ActiveEntries(db), db'.entries, Len(db.entries)) = ActiveEntries(db')
  BY <1>1, <1>2, AdvanceIs
<1>4. CASE Mounted
  BY <1>3, <1>4 DEF Publish, MountIsActive
<1>5. CASE ~Mounted
  BY <1>5 DEF Publish, MountIsActive, Mounted
<1> QED
  BY <1>4, <1>5

(* Every step of the view keeps what it shows.                                 *)
LEMMA ViewNextKeeps ==
    ASSUME IInv, MountIsActive, [ViewNext]_viewVars
    PROVE  Onward /\ MountIsActive'
<1>1. CASE HostStep /\ Publish
  BY <1>1, NextKeeps, PublishKeeps DEF Next
<1>2. CASE \E t \in Tasks : (TaskStep(t) \/ StreamPartial(t) \/ Fault(t)) /\ Publish
  BY <1>2, NextKeeps, PublishKeeps DEF Next
<1>3. CASE Cascade /\ Publish
  BY <1>3, NextKeeps, PublishKeeps DEF Next
<1>4. CASE Crash /\ mount' = Unmounted
  BY <1>4, NextKeeps DEF Next, MountIsActive, Mounted
<1>5. CASE Attach
  <2>1. db' = db /\ [Next]_vars /\ mount' = ActiveEntries(db)
    BY <1>5 DEF Attach, vars
  <2> QED
    BY <2>1, NextKeeps DEF MountIsActive
<1>6. CASE Detach
  BY <1>6, NextKeeps DEF Detach, MountIsActive, Mounted
<1>7. CASE UNCHANGED viewVars
  <2>1. db' = db /\ [Next]_vars /\ mount' = mount
    BY <1>7 DEF viewVars, vars
  <2> QED
    BY <2>1, NextKeeps DEF MountIsActive, Mounted
<1> QED
  BY <1>1, <1>2, <1>3, <1>4, <1>5, <1>6, <1>7 DEF ViewNext

(* The mount only watches: the conversation below it moves as it does without. *)
THEOREM ViewWatches == ViewSpec => Spec
<1>1. [ViewNext]_viewVars => [Next]_vars
  BY DEF ViewNext, Next, Attach, Detach, viewVars, vars
<1> QED
  BY <1>1, PTL DEF ViewSpec, ViewInit, Spec

(* A mount built once and advanced commit by commit shows exactly the active  *)
(* transcript (view.ts): the entries a new head keeps are always mounted      *)
(* already, so the transcript is never read again.                            *)
THEOREM MountShowsActive == ViewSpec => []MountIsActive
<1>1. ViewInit => IInv /\ MountIsActive
  BY InitKeeps DEF ViewInit, MountIsActive, Mounted
<1>2. IInv /\ MountIsActive /\ [ViewNext]_viewVars => IInv' /\ MountIsActive'
  BY ViewNextKeeps DEF Onward
<1> QED
  BY <1>1, <1>2, PTL DEF ViewSpec
=============================================================================
