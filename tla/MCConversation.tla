--------------------------- MODULE MCConversation ---------------------------
(***************************************************************************)
(* The stories Conversation and its view are checked over: drafts, queue    *)
(* modes, tool rounds, replies and limits.                                  *)
(***************************************************************************)
EXTENDS Conversation, TLC

CONSTANTS a, b, c, d

Input(busy) == [type |-> "input", busy |-> busy, entry |-> Blank]
Write(kind) == [type |-> "write", busy |-> "followUp", entry |-> [Blank EXCEPT !.kind = kind]]

AllModes == {[steer |-> q, followUp |-> q] : q \in {"all", "one-at-a-time"}}
OneMode  == {[steer |-> "one-at-a-time", followUp |-> "all"]}

ToolCall(id, offered) == [id |-> id, offered |-> offered]
TwoCalls ==
    {[sequential |-> TRUE, calls |-> <<ToolCall(1, TRUE), ToolCall(2, TRUE)>>],
     [sequential |-> FALSE, calls |-> <<ToolCall(1, FALSE), ToolCall(2, TRUE)>>]}
OneCall == {[sequential |-> FALSE, calls |-> <<ToolCall(1, TRUE)>>]}

Story == [draft |-> <<>>, modes |-> OneMode, rounds |-> OneCall, replies |-> {}, retries |-> 0,
          limit |-> <<>>, observed |-> FALSE]

(* Admission: an input that steers, one that follows up, a reset and a          *)
(* display-only write.                                                        *)
QueueStory ==
    [Story EXCEPT !.draft = a :> Input("steer") @@ b :> Input("followUp") @@ c :> Write("reset") @@ d :> Write("display"),
                  !.replies = {"error"},
                  !.limit = "crashes" :> 1 @@ "aborts" :> 1 @@ "continuations" :> 1]

(* Tool rounds: a steering input and a follow-up join, a reset cuts.           *)
RoundStory ==
    [Story EXCEPT !.draft = a :> Input("steer") @@ b :> Input("followUp") @@ c :> Write("reset"),
                  !.modes = AllModes, !.rounds = TwoCalls, !.replies = {"terminate", "handoff", "safe"},
                  !.limit = "rounds" :> 1 @@ "crashes" :> 1 @@ "aborts" :> 1 @@ "faults" :> 1]

(* Compactions: an input starts the first run, another, which must not find    *)
(* the conversation busy, the next; the context is cut between selection and   *)
(* placement by a tool's handoff, or by a reset a host writes; a run that      *)
(* compacted overflows again.                                                 *)
CompactStory ==
    [Story EXCEPT !.draft = a :> Input("steer") @@ b :> Input("reject"),
                  !.replies = {"overflow", "hook", "handoff"},
                  !.limit = "rounds" :> 1 @@ "compactions" :> 1]
AgainStory ==
    [CompactStory EXCEPT !.draft = a :> Input("steer"),
                         !.limit = "rounds" :> 1 @@ "compactions" :> 2]
ResetStory ==
    [CompactStory EXCEPT !.draft = @ @@ c :> Write("reset"), !.limit = "compactions" :> 2 @@ "crashes" :> 1]

(* Heads: a host cuts at an entry of its choice while a compaction runs, and    *)
(* an observer mounts the transcript.                                         *)
HeadStory ==
    [Story EXCEPT !.draft = a :> Input("steer") @@ b :> Write("note") @@ d :> Write("cut"),
                  !.replies = {"handoff", "hook"}, !.observed = TRUE,
                  !.limit = "compactions" :> 1 @@ "rounds" :> 1]

(* Requests: partials, deferred replies, retries, system entries.              *)
ReplyStory ==
    [Story EXCEPT !.draft = a :> Input("steer") @@ b :> Input("followUp"),
                  !.replies = {"error", "deferred", "no_model"}, !.retries = 1,
                  !.limit = "defers" :> 1 @@ "crashes" :> 1 @@ "aborts" :> 1 @@ "faults" :> 1
                              @@ "partials" :> 1 @@ "systems" :> 1]

SafetyStories == {QueueStory, RoundStory, CompactStory, AgainStory, ResetStory, HeadStory, ReplyStory}

(* Liveness: every way a run may end, with one of each interruption; an        *)
(* overflow that is compacted; and, for one input, a retry before it.         *)
EndStory ==
    [Story EXCEPT !.draft = a :> Input("steer") @@ b :> Input("followUp"),
                  !.replies = {"error", "deferred", "safe"},
                  !.limit = "rounds" :> 1 @@ "crashes" :> 1 @@ "aborts" :> 1 @@ "defers" :> 1 @@ "faults" :> 1]
RestStory ==
    [EndStory EXCEPT !.replies = {"overflow", "error"},
                     !.limit = "compactions" :> 1 @@ "crashes" :> 1]
RetryStory == [RestStory EXCEPT !.draft = a :> Input("steer"), !.retries = 1]
LiveStories == {EndStory, RestStory, RetryStory}
=============================================================================
