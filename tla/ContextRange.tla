---------------------------- MODULE ContextRange ----------------------------
(***************************************************************************)
(* The context of a conversation (harness/context.ts): which entries are     *)
(* active under the newest head, what each contributes after the newest      *)
(* edit of it, and the order a request sends the messages in.  A read keeps   *)
(* the range it derived, and a later read with the same head marker extends   *)
(* or trims that range instead of scanning again (the scheduler keeps one     *)
(* per conversation).  Reads run off the Session line, overlap appends and    *)
(* each other, and may ask for the context as it was at an older entry.       *)
(*                                                                         *)
(* An entry contributes at most one message, named by the entry it is from.   *)
(***************************************************************************)
EXTENDS Integers, Sequences, FiniteSets, SequencesExt

CONSTANTS Kinds,       \* kinds of entry the transcript may get
          MaxEntries,  \* bound on the transcript
          MaxReads     \* bound on reads under way

ASSUME BoundsAssumption == MaxEntries \in Nat /\ MaxReads \in Nat

VARIABLES
    entries,   \* the transcript, oldest first; IDs are positions
    kept,      \* the range the scheduler keeps, or NoRange
    reads      \* reads under way, and those that returned

vars == <<entries, kept, reads>>

-----------------------------------------------------------------------------
(* Messages.                                                                *)

(* The message of an entry.  An assistant message lists its calls; a result   *)
(* answers one.                                                              *)
Message(id, role, calls, call) == [id |-> id, role |-> role, calls |-> calls, call |-> call]
MessageOf(id) ==
    LET e == entries[id] IN
    CASE e.kind = "user" -> <<Message(id, "user", <<>>, 0)>>
      [] e.kind = "system" -> <<Message(id, "system", <<>>, 0)>>
      [] e.kind = "assistant" -> <<Message(id, "assistant", <<>>, 0)>>
      [] e.kind = "calling" -> <<Message(id, "assistant", <<1, 2>>, 0)>>
      [] e.kind = "result1" -> <<Message(id, "result", <<>>, 1)>>
      [] e.kind = "result2" -> <<Message(id, "result", <<>>, 2)>>
      [] e.kind = "head" -> <<Message(id, "user", <<>>, 0)>>
      [] OTHER -> <<>>          \* a failed answer, an edit, a display-only entry

Newest(S) == IF S = {} THEN 0 ELSE CHOOSE i \in S : \A j \in S : j <= i
Oldest(S) == IF S = {} THEN 0 ELSE CHOOSE i \in S : \A j \in S : i <= j

(* Those of the entries `ids` that are in S, in their order.                   *)
Keep(ids, S) == FlattenSeq([k \in DOMAIN ids |-> IF ids[k] \in S THEN <<ids[k]>> ELSE <<>>])

IsEdit(id) == entries[id].target > 0

(* The newest edit of `id` among the entries `ids`, 0 if there is none.        *)
EditOf(id, ids) == Newest({x \in Range(ids) : IsEdit(x) /\ entries[x].target = id})

(* What an active entry contributes under the edit `x`.                       *)
Contribute(id, x) ==
    CASE x = 0 -> MessageOf(id)
      [] x # 0 /\ entries[x].kind = "replace" -> <<Message(x, "user", <<>>, 0)>>
      [] OTHER -> <<>>

(* What the active entries contribute under the newest edits among `ids`.      *)
Contributions(active, ids) ==
    FlattenSeq([k \in DOMAIN active |-> Contribute(active[k], EditOf(active[k], ids))])

MissingResult(message, call) == Message(message.id, "missing", <<>>, call)

(* Where the results of `call` are, among the messages from the assistant      *)
(* message at `i` to the next.                                               *)
Answers(messages, i, call) ==
    {j \in DOMAIN messages : /\ j > i
                             /\ messages[j].role = "result" /\ messages[j].call = call
                             /\ \A k \in (i + 1)..j : messages[k].role # "assistant"}
ResultOf(messages, i, call) ==
    LET at == Oldest(Answers(messages, i, call))
    IN IF at = 0 THEN MissingResult(messages[i], call) ELSE messages[at]

(* Each assistant's results directly after it, in call order; missing ones are *)
(* made up, others dropped.                                                  *)
BlockOf(messages, i) ==
    IF messages[i].role = "result" THEN <<>>
    ELSE <<messages[i]>> \o [k \in DOMAIN messages[i].calls |->
                               ResultOf(messages, i, messages[i].calls[k])]
OrderToolResults(messages) == FlattenSeq([i \in DOMAIN messages |-> BlockOf(messages, i)])

(* A system message that only user messages precede goes first.                *)
LeadWithSystem(messages) ==
    LET at == Oldest({i \in DOMAIN messages : messages[i].role # "user"})
    IN IF at <= 1 \/ messages[at].role # "system" THEN messages
       ELSE <<messages[at]>> \o SubSeq(messages, 1, at - 1) \o SubSeq(messages, at + 1, Len(messages))

(* Mutant: messages settle in the order they were appended.                    *)
Settle_Unordered(settled, open) ==
    LET last == Newest({i \in DOMAIN open : open[i].role = "assistant"})
    IN IF last <= 1 THEN [settled |-> settled, open |-> open]
       ELSE [settled |-> settled \o SubSeq(open, 1, last - 1), open |-> SubSeq(open, last, Len(open))]

(* Later entries cannot change the messages before the last assistant.         *)
Settle(settled, open) ==
    LET last == Newest({i \in DOMAIN open : open[i].role = "assistant"})
    IN IF last <= 1 THEN [settled |-> settled, open |-> open]
       ELSE [settled |-> settled \o OrderToolResults(SubSeq(open, 1, last - 1)),
             open |-> SubSeq(open, last, Len(open))]

-----------------------------------------------------------------------------
(* Ranges.                                                                  *)

(* Head marker and newest entry that fix a context.                           *)
Bounds(tail) == [head |-> Newest({i \in 1..tail : entries[i].head > 0}), tail |-> tail]
From(bounds) == IF bounds.head = 0 THEN 1 ELSE entries[bounds.head].head

Scan(from, to) == [k \in 1..(to + 1 - from) |-> from + k - 1]

SelectActive(head, ids) ==
    IF head = 0 THEN ids ELSE <<head>> \o Keep(ids, {i \in DOMAIN entries : entries[i].head = 0})

(* The range and view of the entries scanned within `bounds`.                 *)
DeriveRange(bounds, ids) ==
    LET active == SelectActive(bounds.head, ids)
        split == Settle(<<>>, Contributions(active, ids))
    IN [bounds |-> bounds, ids |-> ids, active |-> active,
        edited |-> {entries[x].target : x \in {x \in Range(ids) : IsEdit(x)}},
        settled |-> split.settled, open |-> split.open,
        messages |-> LeadWithSystem(split.settled \o OrderToolResults(split.open))]

(* Mutant: an added edit does not derive the range again.                     *)
MustDerive_IgnoresEdits(previous, added) == \E i \in Range(added) : entries[i].head > 0

(* An added entry that may change what an earlier one contributes, or that an  *)
(* earlier edit names.                                                       *)
MustDerive(previous, added) ==
    \E i \in Range(added) : IsEdit(i) \/ entries[i].head > 0 \/ i \in previous.edited

ExtendRange(previous, bounds, added) ==
    LET split == Settle(previous.settled,
                        previous.open \o FlattenSeq([k \in DOMAIN added |-> MessageOf(added[k])]))
    IN IF MustDerive(previous, added) THEN DeriveRange(bounds, previous.ids \o added)
       ELSE [bounds |-> bounds, ids |-> previous.ids \o added, active |-> previous.active \o added,
             edited |-> previous.edited, settled |-> split.settled, open |-> split.open,
             messages |-> LeadWithSystem(split.settled \o OrderToolResults(split.open))]

NoRange == <<>>

(* The range of a read that captured `bounds`, from the range kept before.     *)
RangeFrom(previous, bounds) ==
    IF previous = NoRange THEN DeriveRange(bounds, Scan(From(bounds), bounds.tail))
    ELSE IF previous.bounds.head # bounds.head THEN DeriveRange(bounds, Scan(From(bounds), bounds.tail))
    ELSE IF bounds.tail = previous.bounds.tail THEN previous
    ELSE IF bounds.tail < previous.bounds.tail
         THEN DeriveRange(bounds, Keep(previous.ids, 1..bounds.tail))
    ELSE ExtendRange(previous, bounds, Scan(previous.bounds.tail + 1, bounds.tail))

-----------------------------------------------------------------------------
Init == entries = <<>> /\ kept = NoRange /\ reads = {}

(* An edit names its target, even one that is yet to come, a head marker where *)
(* the context starts, at most itself; an "undo" is both.                     *)
Append1(kind, target, head) ==
    entries' = Append(entries, [kind |-> kind, target |-> target, head |-> head])

Write(kind) ==
    /\ Len(entries) < MaxEntries
    /\ \/ kind \notin {"omit", "replace", "head", "undo"} /\ Append1(kind, 0, 0)
       \/ kind \in {"omit", "replace"} /\ \E i \in 1..(Len(entries) + 2) : Append1(kind, i, 0)
       \/ kind = "head" /\ \E i \in 1..(Len(entries) + 1) : Append1(kind, 0, i)
       \/ kind = "undo" /\ \E i, j \in DOMAIN entries : Append1(kind, i, j)
    /\ UNCHANGED <<kept, reads>>

(* A read takes the kept range, and then its bounds on the Session line.       *)
Begin(at) ==
    /\ Cardinality(reads) < MaxReads
    /\ reads' = reads \cup {[previous |-> kept, bounds |-> Bounds(at)]}
    /\ UNCHANGED <<entries, kept>>

(* It scans and derives off the line; its range is kept unless a newer one is. *)
Finish(read) ==
    LET range == RangeFrom(read.previous, read.bounds)
    IN /\ kept' = IF kept = NoRange THEN range
                  ELSE IF kept.bounds.tail <= range.bounds.tail THEN range ELSE kept
       /\ reads' = reads \ {read}
       /\ UNCHANGED entries

(* The conversation was idle for the retention period.                        *)
Drop == kept # NoRange /\ kept' = NoRange /\ UNCHANGED <<entries, reads>>

Next ==
    \/ \E kind \in Kinds : Write(kind)
    \/ \E at \in DOMAIN entries : Begin(at)
    \/ \E read \in reads : Finish(read)
    \/ Drop

Spec == Init /\ [][Next]_vars

(* What a read returns, and what is kept for the next, is what deriving the     *)
(* context from scratch gives: same entries, same messages, same order.        *)
Reference(bounds) ==
    LET ids == Scan(From(bounds), bounds.tail)
        active == SelectActive(bounds.head, ids)
    IN [active |-> active,
        messages |-> LeadWithSystem(OrderToolResults(Contributions(active, ids)))]
IsReference(range) ==
    range.active = Reference(range.bounds).active /\ range.messages = Reference(range.bounds).messages

ReadsAreExact == \A read \in reads : IsReference(RangeFrom(read.previous, read.bounds))

(* Each call is followed at once by one result per call, and no result stands  *)
(* without its call.                                                         *)
IsWellFormed(m) ==
    LET results == {"result", "missing"}
    IN \A i \in DOMAIN m :
         /\ \A k \in DOMAIN m[i].calls :
              i + k \in DOMAIN m /\ m[i + k].role \in results /\ m[i + k].call = m[i].calls[k]
         /\ m[i].role \in results =>
              \E j \in 1..(i - 1) : i - j \in DOMAIN m[j].calls /\ m[j].calls[i - j] = m[i].call

(* Every request is well formed for a provider.                               *)
ResultsFollowCalls == kept # NoRange => IsWellFormed(kept.messages)
=============================================================================
