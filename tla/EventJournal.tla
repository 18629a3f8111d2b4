---------------------------- MODULE EventJournal ----------------------------
(***************************************************************************)
(* How messages come into the archive of one private conversation: live    *)
(* events, the bot's own messages and pages of NapCat's history are        *)
(* written to event_journal first and projected onto messages and          *)
(* message_segments in a second commit; a boot replays the rows whose      *)
(* projection is missing.                                                  *)
(*                                                                         *)
(* A message is its position in the conversation.  recording holds what    *)
(* the running coroutine still has to record before its next await: until  *)
(* it is done no other coroutine runs, but the process may crash.          *)
(***************************************************************************)
EXTENDS Integers, FiniteSets, SequencesExt

CONSTANTS
  MaxMessages,  \* bound: messages of the conversation
  Bare,         \* messages NapCat's history returns without a segment array
  PageSize,     \* config history.page_size
  MaxPages,     \* config history.max_pages_per_sync
  Enough,       \* how many messages a query asks for
  MaxBoots,     \* bound: starts of the process
  NULL

ASSUME BoundsAssumption ==
  /\ {MaxMessages, PageSize, MaxPages, Enough, MaxBoots} \subseteq Nat \ {0}
  /\ Bare \subseteq 1..MaxMessages

VARIABLES
  said,       \* authors of the messages of the conversation, as NapCat has it
  phase,      \* "down", "replay", "offline", "connect", "loop"
  boots,
  inbox,      \* events the connected client has still to yield
  journal,    \* event_journal: state of the row of a source and a message
  messages,   \* messages: the row of a message
  segments,   \* message_segments: what the segments of a message come from
  gaps,       \* sync_gaps: reasons unresolved
  cursor,     \* conversation_sync_state.cursor_json
  complete,   \* conversation_sync_state.backfill_complete
  sync,       \* sync_conversation: locals of the sync at connect and of a query's
  recording,
  handled     \* messages handed to the message bus

vars == <<said, phase, boots, inbox, journal, messages, segments, gaps, cursor,
          complete, sync, recording, handled>>
archive == <<journal, messages, segments>>
status == <<gaps, cursor, complete>>

Positions == 1..MaxMessages
Sources == {"live", "backfill"}
Syncs == {"connect", "query"}
Anchors == {NULL} \cup 0..MaxMessages
Rows == Sources \X Positions
Message == [from: Sources, array: {"empty", "live", "history"}, filed: {"peer", "self"}]
Progress == [anchor: Anchors, start: 0..MaxMessages, pages: 0..MaxPages, limit: {1, MaxPages},
             local: SUBSET Positions]

ASSUME NullAssumption == NULL \notin Int \cup Message \cup Progress

TypeOK ==
  /\ said \in UNION {[1..n -> {"peer", "bot"}] : n \in 0..MaxMessages}
  /\ phase \in {"down", "replay", "offline", "connect", "loop"}
  /\ boots \in 0..MaxBoots
  /\ inbox \in Seq(Positions)
  /\ journal \in [Rows -> {"none", "pending", "projected"}]
  /\ messages \in [Positions -> {NULL} \cup Message]
  /\ segments \in [Positions -> {"none", "empty", "live", "history"}]
  /\ gaps \subseteq {"pagination_limit", "napcat_error", "provider_history_boundary"}
  /\ cursor \in Anchors /\ complete \in BOOLEAN
  /\ sync \in [Syncs -> {NULL} \cup Progress]
  /\ recording = NULL \/
       /\ recording.by \in {"live", "sent", "replay"} \cup Syncs
       /\ recording.rest \in Seq(Rows)
       /\ recording.half \in BOOLEAN /\ recording.overlap \in BOOLEAN
       /\ recording.page \subseteq Positions
  /\ handled \subseteq Positions

Init ==
  /\ said = <<>> /\ phase = "down" /\ boots = 0 /\ inbox = <<>>
  /\ journal = [r \in Rows |-> "none"]
  /\ messages = [m \in Positions |-> NULL] /\ segments = [m \in Positions |-> "none"]
  /\ gaps = {} /\ cursor = NULL /\ complete = FALSE
  /\ sync = [t \in Syncs |-> NULL] /\ recording = NULL
  /\ handled = {}

Connected == phase \in {"connect", "loop"}
Awaiting == recording = NULL   \* the running coroutine is at an await

Record(by, rows, page) ==
  recording' = [by |-> by, rest |-> rows, half |-> FALSE, overlap |-> FALSE, page |-> page]

-----------------------------------------------------------------------------
\* record()

Row == Head(recording.rest)

\* INSERT OR IGNORE: a row that is there stays as it is.
Journal ==
  /\ recording # NULL /\ recording.rest # <<>> /\ ~recording.half
  /\ journal' = [journal EXCEPT ![Row] = IF @ = "none" THEN "pending" ELSE @]
  /\ recording' = [recording EXCEPT !.half = TRUE]
  /\ UNCHANGED <<said, phase, boots, inbox, messages, segments, status, sync, handled>>

\* _normalize_history_message() fills in what a history message lacks, but has
\* no segments to give to a bare one.
Normalized(m) == IF m \in Bare THEN "empty" ELSE "history"

\* The array the event carries.
Carried(r) == IF r[1] = "live" THEN "live" ELSE Normalized(r[2])

\* A replayed private event is parsed afresh: its author is taken for the peer.
Filed(r) == IF recording.by = "replay" /\ said[r[2]] = "bot" THEN "self" ELSE "peer"

\* Mutant: what arrives last replaces what is stored.
MergedLast(old, r) ==
  [from |-> r[1], array |-> Carried(r), filed |-> IF old = NULL THEN Filed(r) ELSE old.filed]

\* The upsert: what is stored stays where it is not empty, and live stays live.
Merged(old, r) ==
  IF old = NULL THEN [from |-> r[1], array |-> Carried(r), filed |-> Filed(r)]
  ELSE [from |-> IF old.from = "live" THEN "live" ELSE r[1],
        array |-> IF old.array = "empty" THEN Carried(r) ELSE old.array,
        filed |-> old.filed]

\* Mutant: the segments of the event, not those of the merged row.
SegmentsOfEvent(row, r) == Carried(r)
SegmentsOf(row, r) == row.array

\* _mark_projected()
Marked(r) == journal' = [journal EXCEPT ![r] = "projected"]

\* The second commit: message, segments and journal row together.
Project ==
  /\ recording # NULL /\ recording.half
  /\ LET row == Merged(messages[Row[2]], Row)
     IN /\ messages' = [messages EXCEPT ![Row[2]] = row]
        /\ segments' = [segments EXCEPT ![Row[2]] = SegmentsOf(row, Row)]
  /\ Marked(Row)
  /\ IF recording.by \in Syncs
     THEN LET old == sync[recording.by].local
          IN /\ sync' = [sync EXCEPT ![recording.by].local = @ \cup {Row[2]}]
             /\ recording' = [recording EXCEPT !.rest = Tail(@), !.half = FALSE,
                                               !.overlap = @ \/ Row[2] \in old]
     ELSE /\ recording' = [recording EXCEPT !.rest = Tail(@), !.half = FALSE]
          /\ UNCHANGED sync
  /\ UNCHANGED <<said, phase, boots, inbox, status, handled>>

\* record_sync_gap(): a gap unresolved is not recorded again.
Gap(found, reason) == found \cup {reason}

\* resolve_sync_gaps() resolves all, whatever their reason.
Resolved(found) == {}

\* update_sync_status(): an argument not given is {} and keeps the column.
UpdateStatus(next, exhausted) ==
  /\ cursor' \in IF next = {} THEN {cursor} ELSE next
  /\ complete' \in IF exhausted = {} THEN {complete} ELSE exhausted

\* _record_error() of a sync.
SyncFailed(t) ==
  /\ gaps' = Gap(gaps, "napcat_error")
  /\ sync' = [sync EXCEPT ![t] = NULL]
  /\ UpdateStatus({}, {})

\* Mutant: a message whose projection failed is dispatched all the same.
RaisedDispatched ==
  IF recording.by = "live" THEN recording' = [recording EXCEPT !.rest = <<>>, !.half = FALSE]
  ELSE recording' = NULL

\* The exception ends the dispatch of a live event and the sync of a page;
\* that of the bot's own message is swallowed.
Raised == recording' = NULL

\* The projection is rolled back and raises; replay goes on with the next row.
ProjectFails ==
  /\ recording # NULL /\ recording.half
  /\ IF recording.by = "replay"
     THEN recording' = [recording EXCEPT !.rest = Tail(@), !.half = FALSE]
     ELSE Raised
  /\ IF recording.by \in Syncs THEN SyncFailed(recording.by) ELSE UNCHANGED <<sync, status>>
  /\ UNCHANGED <<said, phase, boots, inbox, archive, handled>>

-----------------------------------------------------------------------------
\* Boot, connection, live events, the bot's own messages.

Crash ==
  /\ phase # "down"
  /\ phase' = "down" /\ inbox' = <<>>
  /\ sync' = [t \in Syncs |-> NULL] /\ recording' = NULL
  /\ UNCHANGED <<said, boots, archive, status, handled>>

\* unprojected_events()
Unprojected == {r \in Rows : journal[r] = "pending"}

\* recover_unprojected(): at boot, before anything else; its limit of 1000 rows
\* is not reached.
Boot ==
  /\ phase = "down" /\ boots < MaxBoots
  /\ boots' = boots + 1 /\ phase' = "replay"
  /\ \E rows \in SetToSeqs(Unprojected) :
       Record("replay", rows, {})
  /\ UNCHANGED <<said, inbox, archive, status, sync, handled>>

\* Mutant: recovery hands on what it finds projected.
ReplayedDispatched ==
  /\ phase = "replay" /\ recording.rest = <<>>
  /\ phase' = "offline" /\ recording' = NULL
  /\ handled' = handled \cup {m \in Positions : journal[<<"live", m>>] = "projected"}
  /\ UNCHANGED <<said, boots, inbox, archive, status, sync>>

Replayed ==
  /\ phase = "replay" /\ recording.rest = <<>>
  /\ phase' = "offline" /\ recording' = NULL
  /\ UNCHANGED <<said, boots, inbox, archive, status, sync, handled>>

Local == {m \in Positions : messages[m] # NULL /\ messages[m].filed = "peer"}

NewSync(anchor, limit) ==
  [anchor |-> anchor, start |-> IF anchor = NULL THEN Len(said) ELSE anchor,
   pages |-> 0, limit |-> limit, local |-> Local]

\* recent_contacts(): NapCat lists the conversation, or does not.
Contacts == {{}, {"connect"}}

\* The client connects; sync_recent() fetches one page from the top.
Connect ==
  /\ phase = "offline" /\ Awaiting
  /\ phase' = "connect"
  /\ \E listed \in Contacts :
       sync' = [t \in Syncs |-> IF t \in listed THEN NewSync(NULL, 1) ELSE sync[t]]
  /\ UNCHANGED <<said, boots, inbox, archive, status, recording, handled>>

\* Only after the sync has ended, or failed, are live events taken.
Listen ==
  /\ phase = "connect" /\ sync["connect"] = NULL /\ Awaiting
  /\ phase' = "loop"
  /\ UNCHANGED <<said, boots, inbox, archive, status, sync, recording, handled>>

\* The connection is lost, with the events not yet taken.
Disconnect ==
  /\ phase = "loop" /\ Awaiting
  /\ phase' = "offline" /\ inbox' = <<>>
  /\ UNCHANGED <<said, boots, archive, status, sync, recording, handled>>

\* A message of the peer, or one the owner sends from a phone.
Say ==
  /\ Len(said) < MaxMessages /\ Awaiting
  /\ \E author \in {"peer", "bot"} : said' = Append(said, author)
  /\ inbox' = IF Connected THEN Append(inbox, Len(said')) ELSE inbox
  /\ UNCHANGED <<phase, boots, archive, status, sync, recording, handled>>

\* The bot sends a message: record_bot_message().
Send ==
  /\ Len(said) < MaxMessages /\ Connected /\ Awaiting
  /\ said' = Append(said, "bot")
  /\ Record("sent", <<<<"live", Len(said')>>>>, {})
  /\ UNCHANGED <<phase, boots, inbox, archive, status, sync, handled>>

Sent ==
  /\ recording # NULL /\ recording.by = "sent" /\ recording.rest = <<>>
  /\ recording' = NULL
  /\ UNCHANGED <<said, phase, boots, inbox, archive, status, sync, handled>>

\* EventBus.dispatch() of a message event.
Receive ==
  /\ phase = "loop" /\ Awaiting /\ inbox # <<>> /\ said[Head(inbox)] = "peer"
  /\ Record("live", <<<<"live", Head(inbox)>>>>, {Head(inbox)})
  /\ inbox' = Tail(inbox)
  /\ UNCHANGED <<said, phase, boots, archive, status, sync, handled>>

\* The message is stored: plugins get it.
Dispatch ==
  /\ recording # NULL /\ recording.by = "live" /\ recording.rest = <<>>
  /\ handled' = handled \cup recording.page
  /\ recording' = NULL
  /\ UNCHANGED <<said, phase, boots, inbox, archive, status, sync>>

\* parse() knows no event for the bot's own messages: record_raw_event() writes
\* a row that counts as projected and that nothing reads (left out of journal).
Discard ==
  /\ phase = "loop" /\ Awaiting /\ inbox # <<>> /\ said[Head(inbox)] = "bot"
  /\ inbox' = Tail(inbox)
  /\ UNCHANGED <<said, phase, boots, archive, status, sync, recording, handled>>

-----------------------------------------------------------------------------
\* History: sync_conversation()

\* The rows a query of the archive returns, its criteria left out.
Found == Min({Enough, Cardinality(Local)})

\* The coverage of the archive is not known to be complete.
Insufficient == gaps # {} \/ (Found < Enough /\ ~complete)

\* A query that the archive does not answer continues from the cursor.
Query ==
  /\ phase \in {"offline", "connect", "loop"} /\ Awaiting /\ sync["query"] = NULL
  /\ Insufficient
  /\ sync' = [sync EXCEPT !["query"] = NewSync(cursor, MaxPages)]
  /\ UNCHANGED <<said, phase, boots, inbox, archive, status, recording, handled>>

Top(t) == IF sync[t].anchor = NULL THEN Len(said) ELSE sync[t].anchor
PageOf(t) == (Top(t) - PageSize + 1)..Top(t) \cap 1..Len(said)

\* The page arrives; its messages are recorded, oldest first.
Page(t) ==
  /\ Connected /\ Awaiting /\ sync[t] # NULL
  /\ Record(t, [i \in 1..Cardinality(PageOf(t)) |-> <<"backfill", Min(PageOf(t)) + i - 1>>],
            PageOf(t))
  /\ UNCHANGED <<said, phase, boots, inbox, archive, status, sync, handled>>

\* NapCat answers that the call failed.
PageFails(t) ==
  /\ Connected /\ Awaiting /\ sync[t] # NULL
  /\ SyncFailed(t)
  /\ UNCHANGED <<said, phase, boots, inbox, archive, recording, handled>>

\* There is no client, or the call raises: the bus swallows the exception, the
\* caller gets {}, and that reads as an empty page.
CallRaises(t) ==
  /\ Awaiting /\ sync[t] # NULL
  /\ Record(t, <<>>, {})
  /\ UNCHANGED <<said, phase, boots, inbox, archive, status, sync, handled>>

\* Mutant: the next page leaves a message out.
NextAnchorSkipping(page) == IF page = {} THEN NULL ELSE Max({0, Min(page) - 2})
NextAnchor(page) == IF page = {} THEN NULL ELSE Min(page) - 1
Exhausted(page) == Cardinality(page) < PageSize

\* What follows a page (its commits are taken together).
EndPage(t) ==
  /\ recording # NULL /\ recording.by = t /\ recording.rest = <<>>
  /\ LET page == recording.page
         next == NextAnchor(page)
         last == sync[t].pages + 1 = sync[t].limit
         ends == Exhausted(page) \/ recording.overlap \/ last
     IN /\ gaps' = IF Exhausted(page) THEN Gap(Resolved(gaps), "provider_history_boundary")
                   ELSE IF last /\ ~recording.overlap THEN Gap(gaps, "pagination_limit")
                   ELSE gaps
        /\ IF ends THEN UpdateStatus({next}, {Exhausted(page)}) ELSE UpdateStatus({}, {})
        /\ sync' = IF ends THEN [sync EXCEPT ![t] = NULL]
                   ELSE [sync EXCEPT ![t].anchor = next, ![t].pages = @ + 1]
  /\ recording' = NULL
  /\ UNCHANGED <<said, phase, boots, inbox, archive, handled>>

Next ==
  \/ Journal \/ Project \/ ProjectFails
  \/ Crash \/ Boot \/ Replayed \/ Connect \/ Listen \/ Disconnect
  \/ Say \/ Send \/ Sent \/ Receive \/ Dispatch \/ Discard \/ Query
  \/ \E t \in Syncs : Page(t) \/ PageFails(t) \/ CallRaises(t) \/ EndPage(t)

Spec == Init /\ [][Next]_vars

-----------------------------------------------------------------------------
\* Properties.

\* A journal row marked projected has its message in the archive, as live if
\* the row is, with the segments of the stored row: whatever the order in which
\* a message came live, in history pages and by replay, and wherever a crash or
\* a failure struck between the two commits.
ProjectedIsStored ==
  \A s \in Sources, m \in Positions :
    journal[<<s, m>>] = "projected" =>
      /\ messages[m] # NULL
      /\ s = "live" => messages[m].from = "live"
      /\ segments[m] = messages[m].array

\* What plugins were given is in the archive as a live message, whatever history
\* and replay record of it later.
HandledIsStored ==
  \A m \in handled : messages[m] # NULL /\ messages[m].from = "live"

\* A sync that goes down page by page leaves nothing out, although messages are
\* said, sent and received between its pages: all it has passed is journaled.
PagesLeaveNothingOut ==
  \A t \in Syncs :
    sync[t] # NULL /\ sync[t].pages > 0 =>
      \A m \in (sync[t].anchor + 1)..sync[t].start : journal[<<"backfill", m>>] # "none"

\* backfill_complete is set when NapCat's visible history is used up: its first
\* message has been recorded.
CompleteReachesTheStart ==
  [][~complete /\ complete' /\ said # <<>> => journal[<<"backfill", 1>>] # "none"]_vars

\* A message as a query of the archive shows it: its row, and the segments that
\* are joined to it from their own table.
Shown(m) == IF messages[m] = NULL THEN NULL ELSE [messages[m] EXCEPT !.array = segments[m]]

Archive ==
  INSTANCE MessageArchive WITH
    Messages <- Positions,
    Contents <- Message,
    accepted <- {r \in Rows : journal[r] # "none"},
    projected <- {r \in Rows : journal[r] = "projected"},
    stored <- [m \in Positions |-> Shown(m)],
    delivered <- handled

\* Commits, crashes, failures, replays, pages and lost connections implement an
\* archive that only completes what it has, and hands a message on at most once,
\* in order, and after its commit.
ImplementsArchive == Archive!Spec

=============================================================================
