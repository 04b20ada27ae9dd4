----------------------------- MODULE AgentLoop ------------------------------
(***************************************************************************)
(* The interactive agent: Agent (packages/agent/src/agent.ts) owns the      *)
(* transcript and the two queues hosts put messages in, and runs the loop   *)
(* of agent-loop.ts, one run at a time: poll steering, prepare the turn,    *)
(* inject what is pending, request the model, run its tool calls, finish    *)
(* the turn, poll again, and poll follow-ups before it stops.  An action is *)
(* what runs between two awaits - or over several when no step between them *)
(* reads what a host can change - so hosts steer, clear and abort between   *)
(* any two actions, and hooks, listeners and streams may throw at each.     *)
(*                                                                         *)
(* The loop works on a context of its own; the transcript grows by the      *)
(* events the loop emits.  Replies, tool outcomes and hook decisions are    *)
(* the environment's choices.  A stream requested after the abort ends as   *)
(* "aborted", as the providers' do.                                        *)
(***************************************************************************)
EXTENDS Naturals, Sequences, FiniteSets

CONSTANTS
    Steers, FollowUps,   \* messages hosts queue, each once
    QueueModes,          \* steeringMode and followUpMode of the Agent
    MaxCalls,            \* bound: tool calls of a reply
    MaxRequests,         \* bound: requests before no run starts or is prolonged by choice
    MaxFaults            \* bound: hooks, listeners or streams that throw

ASSUME AgentAssumption ==
    /\ Steers \cap FollowUps = {} /\ "prompt" \notin Steers \cup FollowUps
    /\ QueueModes \subseteq [steer : {"all", "one-at-a-time"}, followUp : {"all", "one-at-a-time"}]
    /\ MaxCalls \in Nat /\ MaxRequests \in Nat /\ MaxFaults \in Nat

VARIABLES
    mode,        \* the queue modes of this behaviour
    steering, followUps,
    messages,    \* Agent.state.messages
    context,     \* currentContext.messages of the run
    run,         \* the active run: where it waits and the locals of runLoop
    batch,       \* the tool calls of the reply being executed; history: those started late
    fate,        \* of every message: unsent, sent, or dropped by a host or a fault
    used         \* requests and faults so far

queues == <<steering, followUps>>
vars == <<mode, steering, followUps, messages, context, run, batch, fate, used>>

User(m) == [role |-> "user", id |-> m]
Assistant(calls, stop) == [role |-> "assistant", calls |-> calls, stop |-> stop]
Result(i) == [role |-> "toolResult", call |-> i]
Users(ms) == [i \in DOMAIN ms |-> User(ms[i])]
Results(is) == [i \in DOMAIN is |-> Result(is[i])]

Sent(ms) == {ms[i] : i \in DOMAIN ms} \cap (Steers \cup FollowUps)
Dropped(S) == [m \in DOMAIN fate |-> IF m \in S THEN "dropped" ELSE fate[m]]

NoRun == [at |-> "idle", prompts |-> <<>>, pending |-> <<>>, more |-> TRUE, again |-> FALSE,
          skip |-> FALSE, turned |-> FALSE, aborted |-> FALSE, left |-> <<>>]
NoBatch == [calls |-> 0, size |-> 0, serial |-> FALSE, truncated |-> FALSE, next |-> 1,
            state |-> <<>>, ends |-> <<>>, results |-> <<>>, late |-> {}]
NewBatch(n, serial, truncated) ==
    [NoBatch EXCEPT !.calls = n, !.size = n, !.serial = serial \/ truncated, !.truncated = truncated,
                    !.state = [i \in 1 .. n |-> "new"], !.ends = [i \in 1 .. n |-> FALSE]]

(* PendingMessageQueue: what a drain takes, and what it leaves.              *)
Taken(queue, how) == IF how = "all" \/ queue = <<>> THEN queue ELSE <<Head(queue)>>
Left(queue, how) == SubSeq(queue, Len(Taken(queue, how)) + 1, Len(queue))

Init ==
    /\ mode \in QueueModes
    /\ steering = <<>> /\ followUps = <<>>
    /\ messages = <<>> /\ context = <<>>
    /\ run = NoRun /\ batch = NoBatch
    /\ fate = [m \in Steers \cup FollowUps |-> "unsent"]
    /\ used = [requests |-> 0, faults |-> 0]

Idle == run.at = "idle"
MayProlong == used.requests < MaxRequests

-----------------------------------------------------------------------------
(* The host                                                                *)

Steer(m) ==
    /\ m \in Steers /\ fate[m] = "unsent"
    /\ steering' = Append(steering, m) /\ fate' = [fate EXCEPT ![m] = "sent"]
    /\ UNCHANGED <<mode, followUps, messages, context, run, batch, used>>

FollowUp(m) ==
    /\ m \in FollowUps /\ fate[m] = "unsent"
    /\ followUps' = Append(followUps, m) /\ fate' = [fate EXCEPT ![m] = "sent"]
    /\ UNCHANGED <<mode, steering, messages, context, run, batch, used>>

ClearQueues(which) ==
    /\ steering' = IF "steer" \in which THEN <<>> ELSE steering
    /\ followUps' = IF "followUp" \in which THEN <<>> ELSE followUps
    /\ fate' = Dropped((IF "steer" \in which THEN Sent(steering) ELSE {})
                       \cup (IF "followUp" \in which THEN Sent(followUps) ELSE {}))
    /\ UNCHANGED <<mode, messages, context, run, batch, used>>

Abort ==
    /\ ~Idle
    /\ run' = [run EXCEPT !.aborted = TRUE]
    /\ UNCHANGED <<mode, queues, messages, context, batch, fate, used>>

\* Refused while a run is active.
Reset ==
    /\ Idle
    /\ messages' = <<>> /\ steering' = <<>> /\ followUps' = <<>>
    /\ fate' = Dropped(Sent(steering) \cup Sent(followUps)
                       \cup {messages[i].id : i \in {j \in DOMAIN messages : messages[j].role = "user"}})
    /\ UNCHANGED <<mode, context, run, batch, used>>

\* A run starts from a snapshot of the transcript and its prompts.
Start(prompts, skip) ==
    /\ Idle /\ MayProlong
    /\ run' = [NoRun EXCEPT !.at = "begin", !.prompts = prompts, !.skip = skip]
    /\ context' = messages \o Users(prompts)
    /\ UNCHANGED <<mode, messages, batch, fate, used>>

Prompt == Start(<<"prompt">>, FALSE) /\ UNCHANGED queues

\* After an assistant message only queued messages continue; else the transcript does.
Continue ==
    /\ messages # <<>>
    /\ LET answered == messages[Len(messages)].role = "assistant"
       IN \/ ~answered /\ Start(<<>>, FALSE) /\ UNCHANGED queues
          \/ /\ answered /\ steering # <<>>
             /\ Start(Taken(steering, mode.steer), TRUE)
             /\ steering' = Left(steering, mode.steer) /\ UNCHANGED followUps
          \/ /\ answered /\ steering = <<>> /\ followUps # <<>>
             /\ Start(Taken(followUps, mode.followUp), FALSE)
             /\ followUps' = Left(followUps, mode.followUp) /\ UNCHANGED steering

-----------------------------------------------------------------------------
(* The turns of a run                                                      *)

\* The run after a steering poll that it does, or leaves out, in state r.
Polled(r, asks) == IF asks THEN [r EXCEPT !.pending = Taken(steering, mode.steer),
                                          !.left = Left(steering, mode.steer)] ELSE r
Poll(r, asks) ==
    /\ run' = Polled(r, asks)
    /\ steering' = IF asks THEN Left(steering, mode.steer) ELSE steering
    /\ UNCHANGED <<mode, followUps, messages, context, batch, fate, used>>

EmitPrompt ==
    /\ run.at = "begin" /\ run.prompts # <<>>
    /\ messages' = Append(messages, User(Head(run.prompts)))
    /\ run' = [run EXCEPT !.prompts = Tail(@)]
    /\ UNCHANGED <<mode, queues, context, batch, fate, used>>

PollFirst ==
    /\ run.at = "begin" /\ run.prompts = <<>>
    /\ Poll([run EXCEPT !.at = "inject", !.skip = FALSE], ~run.skip)

\* Mutant: what was queued while the turn was prepared is polled in any case.
Repolls_Always == TRUE
Repolls == run.pending = <<>>
\* prepareNextTurn returned.
PrepareNextTurn == run.at = "turn" /\ Poll([run EXCEPT !.at = "inject"], Repolls)

\* A message is emitted, and joins the context when the listeners are done.
Inject ==
    /\ run.at = "inject" /\ run.pending # <<>>
    /\ messages' = Append(messages, User(Head(run.pending)))
    /\ run' = [run EXCEPT !.at = "push"]
    /\ UNCHANGED <<mode, queues, context, batch, fate, used>>
Push ==
    /\ run.at = "push"
    /\ context' = Append(context, User(Head(run.pending)))
    /\ run' = [run EXCEPT !.at = "inject", !.pending = Tail(@)]
    /\ UNCHANGED <<mode, queues, messages, batch, fate, used>>

Requesting == run.at = "inject" /\ run.pending = <<>>
Replies ==
    IF run.aborted THEN {Assistant(0, "aborted")}
    ELSE {Assistant(0, stop) : stop \in {"stop", "error"}}
         \cup IF used.requests + 1 >= MaxRequests THEN {}
              ELSE {Assistant(n, stop) : n \in 1 .. MaxCalls, stop \in {"stop", "length"}}

Respond ==
    /\ Requesting
    /\ \E reply \in Replies, serial \in BOOLEAN :
        /\ messages' = Append(messages, reply) /\ context' = Append(context, reply)
        /\ run' = [run EXCEPT !.more = reply.calls > 0, !.turned = TRUE,
                              !.at = CASE reply.stop \in {"error", "aborted"} -> "stopped"
                                       [] reply.calls > 0 -> "calls"
                                       [] OTHER -> "finish"]
        /\ IF run'.at = "calls"
           THEN batch' = NewBatch(reply.calls, serial, reply.stop = "length")
           ELSE serial /\ batch' = NoBatch
    /\ used' = [used EXCEPT !.requests = @ + 1]
    /\ UNCHANGED <<mode, queues, fate>>

-----------------------------------------------------------------------------
(* The tool calls of a reply                                               *)

Prepared == batch.next > batch.size
\* Call i ended, with the word to terminate the run or not; a serial batch reports the
\* result at once, a parallel one when every call ended.
Over(b, i, terminate) ==
    [b EXCEPT !.state[i] = "over", !.ends[i] = terminate,
              !.results = IF b.serial THEN Append(@, i) ELSE @]
Report(is) == messages' = messages \o Results(is)
Reported(i) == IF batch.serial THEN Report(<<i>>) ELSE UNCHANGED messages

\* prepareToolCall hands the call over for execution.
Admits(i) == ~batch.truncated /\ ~run.aborted

\* prepareToolCall: an unknown tool, invalid arguments, a hook that blocks or throws, an
\* abort or a truncated reply settle the call at once; else it is handed over.
PrepareCall ==
    /\ run.at = "calls" /\ ~Prepared
    /\ LET i == batch.next IN
        /\ batch.state[i] = "new"
        /\ \/ \E terminate \in {FALSE} \cup (IF run.aborted \/ batch.truncated THEN {} ELSE {TRUE}) :
                /\ batch' = Over(batch, i, terminate)
                /\ Reported(i)
           \/ /\ Admits(i)
              /\ batch' = [batch EXCEPT !.state[i] = "ready"]
              /\ UNCHANGED messages
    /\ UNCHANGED <<mode, queues, context, run, fate, used>>

\* The calls of S that start in a run already aborted.
Late(S) == IF run.aborted THEN S ELSE {}

\* A serial batch starts the call it was handed, and looks at the abort no second time.
StartNext ==
    /\ run.at = "calls" /\ ~Prepared
    /\ LET i == batch.next IN
        /\ batch.serial /\ batch.state[i] = "ready"
        /\ batch' = [batch EXCEPT !.state[i] = "running", !.late = @ \cup Late({i})]
    /\ UNCHANGED <<mode, queues, messages, context, run, fate, used>>

\* The call is dealt with, or kept for the others, and its listeners are done: an abort
\* cuts the batch here, and calls never prepared have no entry in it.
NextCall ==
    /\ run.at = "calls" /\ ~Prepared
    /\ LET i == batch.next IN
        /\ batch.state[i] \in (IF batch.serial THEN {"over"} ELSE {"ready", "over"})
        /\ batch' = [batch EXCEPT !.next = i + 1,
                                 !.size = IF run.aborted /\ ~batch.truncated THEN i ELSE @]
    /\ UNCHANGED <<mode, queues, messages, context, run, fate, used>>

\* Mutant: prepared calls start whatever happened while others were prepared.
Starts_Always == TRUE
Starts == ~run.aborted
ReadyCalls == {i \in DOMAIN batch.state : batch.state[i] = "ready"}
\* Once all calls of a parallel batch are prepared, those handed over start together.
StartReady ==
    /\ run.at = "calls" /\ Prepared /\ ReadyCalls # {}
    /\ batch' = [batch EXCEPT !.state = [i \in DOMAIN @ |-> IF i \notin ReadyCalls THEN @[i]
                                                           ELSE IF Starts THEN "running" ELSE "over"],
                              !.late = @ \cup Late(IF Starts THEN ReadyCalls ELSE {})]
    /\ UNCHANGED <<mode, queues, messages, context, run, fate, used>>

\* The tool returned or threw, and afterToolCall may have changed the outcome.
EndCall(i) ==
    /\ run.at = "calls" /\ i \in DOMAIN batch.state /\ batch.state[i] = "running"
    /\ \E terminate \in BOOLEAN :
        batch' = Over(batch, i, terminate)
    /\ Reported(i)
    /\ UNCHANGED <<mode, queues, context, run, fate, used>>

\* Mutant: parallel results are reported as the calls end.
MayReport_Ended(i) == batch.state[i] = "over"
\* Parallel results are reported in the order of the calls, when all have ended.
MayReport(i) ==
    /\ \A k \in 1 .. batch.size : batch.state[k] = "over"
    /\ i = Len(batch.results) + 1
ReportResult ==
    /\ run.at = "calls" /\ Prepared /\ ~batch.serial
    /\ \E i \in (1 .. batch.size) \ {batch.results[k] : k \in DOMAIN batch.results} :
        /\ MayReport(i)
        /\ batch' = [batch EXCEPT !.results = Append(@, i)]
        /\ Report(<<i>>)
    /\ UNCHANGED <<mode, queues, context, run, fate, used>>

\* The run goes on unless every result says to terminate.
CloseBatch ==
    /\ run.at = "calls" /\ Prepared /\ Len(batch.results) = batch.size
    /\ context' = context \o Results(batch.results)
    /\ run' = [run EXCEPT !.at = "finish", !.more = \E i \in 1 .. batch.size : ~batch.ends[i]]
    /\ batch' = NoBatch
    /\ UNCHANGED <<mode, queues, messages, fate, used>>

-----------------------------------------------------------------------------
(* The end of a turn and of a run                                          *)

\* finishTurn ends the run, asks for one more turn, or neither.
FinishTurn ==
    /\ run.at = "finish"
    /\ \/ run' = [run EXCEPT !.at = "stopped"]
       \/ \E again \in {FALSE} \cup (IF MayProlong THEN {TRUE} ELSE {}) :
            run' = [run EXCEPT !.at = "poll", !.again = again]
    /\ UNCHANGED <<mode, queues, messages, context, batch, fate, used>>

GoesOn(r) == r.more \/ r.pending # <<>>
PollNext ==
    /\ run.at = "poll"
    /\ LET r == Polled(run, TRUE) IN
        Poll(IF GoesOn(r) THEN [run EXCEPT !.at = "turn", !.again = FALSE]
             ELSE [run EXCEPT !.at = "followUp"], TRUE)

PollFollowUps ==
    /\ run.at = "followUp"
    /\ LET taken == Taken(followUps, mode.followUp) IN
        run' = IF taken # <<>> THEN [run EXCEPT !.at = "turn", !.again = FALSE, !.pending = taken]
               ELSE IF run.again THEN [run EXCEPT !.at = "turn", !.again = FALSE]
               ELSE [run EXCEPT !.at = "ending"]
    /\ followUps' = Left(followUps, mode.followUp)
    /\ UNCHANGED <<mode, steering, messages, context, batch, fate, used>>

\* The listeners of agent_end are done: finishRun.
FinishRun ==
    /\ run.at \in {"ending", "stopped", "failed"}
    /\ run' = NoRun
    /\ UNCHANGED <<mode, queues, messages, context, batch, fate, used>>

\* What the run holds that the transcript has not.
Held == Sent(run.prompts) \cup Sent(IF run.at = "push" THEN Tail(run.pending) ELSE run.pending)
\* A hook, a listener or the stream throws: handleRunFailure ends the run with a message
\* of its own; what the run had drained is gone.
Throw ==
    /\ ~Idle /\ run.at # "failed" /\ used.faults < MaxFaults
    /\ messages' = Append(messages, Assistant(0, IF run.aborted THEN "aborted" ELSE "error"))
    /\ fate' = Dropped(Held)
    /\ run' = [NoRun EXCEPT !.at = "failed", !.aborted = run.aborted]
    /\ batch' = NoBatch
    /\ used' = [used EXCEPT !.faults = @ + 1]
    /\ UNCHANGED <<mode, queues, context>>

Host ==
    \/ \E m \in Steers : Steer(m)
    \/ \E m \in FollowUps : FollowUp(m)
    \/ \E which \in SUBSET {"steer", "followUp"} : ClearQueues(which)
    \/ Abort \/ Reset \/ Prompt \/ Continue
Turn == EmitPrompt \/ PollFirst \/ PrepareNextTurn \/ Inject \/ Push \/ Respond
Calls ==
    \/ PrepareCall \/ StartNext \/ NextCall \/ StartReady
    \/ (\E i \in 1 .. MaxCalls : EndCall(i)) \/ ReportResult \/ CloseBatch
End == FinishTurn \/ PollNext \/ PollFollowUps \/ FinishRun
Next == Host \/ Turn \/ Calls \/ End \/ Throw

Spec == Init /\ [][Next]_vars

-----------------------------------------------------------------------------
(* Properties                                                              *)

TypeOK ==
    /\ mode \in QueueModes
    /\ steering \in Seq(Steers) /\ followUps \in Seq(FollowUps)
    /\ fate \in [Steers \cup FollowUps -> {"unsent", "sent", "dropped"}]
    /\ run.at \in {"idle", "begin", "turn", "inject", "push", "calls", "finish", "poll",
                   "followUp", "ending", "stopped", "failed"}
    /\ batch.size \in 0 .. MaxCalls /\ Len(batch.results) <= batch.size
    /\ run.at # "calls" => batch = NoBatch

Occurrences(m, ms) == Cardinality({i \in DOMAIN ms : ms[i] = m})
Shown(m) == Cardinality({i \in DOMAIN messages : messages[i] = User(m)})
InRun == run.prompts \o IF run.at = "push" THEN Tail(run.pending) ELSE run.pending

\* A message is in one place at a time - a queue, what the run took, or the transcript -
\* until a host drops it or the run that took it fails: no poll loses or repeats it.
Conserved ==
    \A m \in Steers \cup FollowUps :
        Occurrences(m, steering) + Occurrences(m, followUps) + Occurrences(m, InRun) + Shown(m)
            = IF fate[m] = "sent" THEN 1 ELSE 0

\* The steering messages after the last assistant message of a transcript.
Unanswered(ms) == {i \in DOMAIN ms : \A k \in i .. Len(ms) : ms[k].role # "assistant"}
Steered(ms) == {m \in Steers : \E i \in Unanswered(ms) : ms[i] = User(m)}
\* One-at-a-time steering reaches the model one message a turn.
OneAtATime ==
    Requesting /\ mode.steer = "one-at-a-time" =>
        Cardinality(Steered(context)) <= 1

\* A run that stops by itself leaves no steering message behind that was queued when it
\* last polled; only one queued later waits for the next run.
NothingLeftBehind == run.at = "ending" => run.left = <<>> /\ run.pending = <<>>

\* The model is asked about exactly what the transcript shows.
ContextIsTranscript == Requesting => context = messages

\* What hosts queue reaches the model, once, one a turn where they say so, and as the
\* transcript shows it (steer, followUp, getSteeringMessages, prepareNextTurn).
Delivery == TypeOK /\ Conserved /\ OneAtATime /\ NothingLeftBehind /\ ContextIsTranscript

LastAssistant(ms) == CHOOSE i \in DOMAIN ms :
    ms[i].role = "assistant" /\ \A k \in i + 1 .. Len(ms) : ms[k].role # "assistant"
\* Right after message i stand n results, of the first n calls, and then users' messages.
Answers(ms, i, n) ==
    /\ i + n <= Len(ms)
    /\ \A k \in i + 1 .. i + n : ms[k] = Result(k - i)
    /\ \A k \in i + n + 1 .. Len(ms) : ms[k].role = "user"
\* Results answer the calls of the last reply in their order, whatever order the tools end
\* in; only an aborted run asks again with calls unanswered.
AnsweredInOrder ==
    Requesting /\ run.turned =>
        LET i == LastAssistant(context)
        IN \E n \in 0 .. context[i].calls :
              Answers(context, i, n) /\ (~run.aborted => n = context[i].calls)

\* Once the run is aborted a parallel batch starts no call, however far it was prepared,
\* and a serial one at most the call that was past its check when the abort came: it is
\* the last, and nothing after it is prepared (agent-loop.ts:549-558, 577, 620, 757).
AbortHoldsBack ==
    \A i \in batch.late :
        /\ batch.serial /\ batch.late = {i}
        /\ \A k \in DOMAIN batch.state : k > i => batch.state[k] = "new"
=============================================================================
