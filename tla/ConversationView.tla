-------------------------- MODULE ConversationView --------------------------
(***************************************************************************)
(* The mount of a conversation's active transcript (harness/view.ts).  The  *)
(* first observer builds it on the Session line; after that it never reads  *)
(* the transcript again and derives each revision from what a commit        *)
(* publishes: an entry without a head goes at the end, a head marker goes   *)
(* in front of the entries it keeps.  The mount is dropped with its last    *)
(* observer and with the process.                                           *)
(***************************************************************************)
EXTENDS Conversation

VARIABLE mount   \* the mounted entries, or Unmounted

viewVars == <<vars, mount>>

Unmounted == <<0>>
Mounted == mount # Unmounted

(* Mutant: every entry from the new head on is kept, an older head marker too. *)
AddMarker_KeepsMarkers(mounted, entries, id) ==
    LET keeps(i) == i >= entries[id].head
        kept == SelectInSeq(mounted, keeps)
    IN <<id>> \o IF kept = 0 THEN <<>> ELSE SubSeq(mounted, kept, Len(mounted))

(* A head marker keeps the non-head entries from its head, a suffix of what is *)
(* mounted, and goes in front.                                               *)
AddMarker(mounted, entries, id) ==
    LET keeps(i) == entries[i].head = 0 /\ i >= entries[id].head
        kept == SelectInSeq(mounted, keeps)
    IN <<id>> \o IF kept = 0 THEN <<>> ELSE SubSeq(mounted, kept, Len(mounted))

(* The revision after a commit that published the entries after the first     *)
(* `shown`, in ID order.                                                      *)
Advance(mounted, entries, shown) ==
    LET after[id \in shown..Len(entries)] ==
            IF id = shown THEN mounted
            ELSE IF entries[id].head = 0 THEN Append(after[id - 1], id)
            ELSE AddMarker(after[id - 1], entries, id)
    IN after[Len(entries)]

Publish == mount' = IF Mounted THEN Advance(mount, db'.entries, Len(db.entries)) ELSE mount

(* The first observer: what is committed now, read on the Session line.        *)
Attach == env.observed /\ ~Mounted /\ mount' = ActiveEntries(db) /\ UNCHANGED vars

(* The last observer leaves.                                                  *)
Detach == Mounted /\ mount' = Unmounted /\ UNCHANGED vars

ViewInit == Init /\ mount = Unmounted

ViewNext ==
    \/ HostStep /\ Publish
    \/ \E t \in Tasks : (TaskStep(t) \/ StreamPartial(t) \/ Fault(t)) /\ Publish
    \/ Cascade /\ Publish
    \/ Crash /\ mount' = Unmounted
    \/ Attach
    \/ Detach

ViewSpec == ViewInit /\ [][ViewNext]_viewVars

(* A mount shows exactly the active transcript, whatever was submitted, cut,   *)
(* reset and compacted since it was built: the entries every head keeps are    *)
(* already mounted.                                                          *)
MountIsActive == Mounted => mount = ActiveEntries(db)
=============================================================================
