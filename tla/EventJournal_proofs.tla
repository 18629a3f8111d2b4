------------------------- MODULE EventJournal_proofs -------------------------
(***************************************************************************)
(* Proofs about the message store: about EventJournal, for a conversation  *)
(* of any length, any page size and any number of crashes, boots, syncs    *)
(* and failures; at the end, through an instance, about Artifacts.         *)
(***************************************************************************)
EXTENDS EventJournal, ArtifactTable, FiniteSetTheorems, SequenceTheorems, TLAPS

Kinds == {"live", "sent", "replay"} \cup Syncs

\* What is to be recorded is a list of rows; the positions of a page are those
\* NapCat's answer has, whatever they are.
Recording(T) ==
  [by: Kinds, rest: Seq(Sources \X T), half: BOOLEAN, overlap: BOOLEAN, page: SUBSET Int]

Types ==
  /\ said \in Seq({"peer", "bot"})
  /\ inbox \in Seq(Positions)
  /\ journal \in [Rows -> {"none", "pending", "projected"}]
  /\ messages \in [Positions -> {NULL} \cup Message]
  /\ segments \in [Positions -> {"none", "empty", "live", "history"}]
  /\ recording # NULL => \E T : recording \in Recording(T)

\* A message that is stored as live.
StoredLive(m) == messages[m] # NULL /\ messages[m].from = "live"

\* A live event is one row, which is stored when nothing is left of it.
LiveInv ==
  recording # NULL =>
    /\ recording.half => recording.rest # <<>>
    /\ recording.by = "live" =>
         \E m \in Positions :
           /\ recording.page = {m}
           /\ \/ recording.rest = <<<<"live", m>>>>
              \/ recording.rest = <<>> /\ StoredLive(m)

IInv == Types /\ ProjectedIsStored /\ LiveInv /\ HandledIsStored /\ handled \subseteq Positions

\* What the archive has of a message stays: its row, and that it came live.
Kept ==
  \A m \in Positions :
    /\ messages[m] # NULL => messages'[m] # NULL
    /\ StoredLive(m) => StoredLive(m)'

-----------------------------------------------------------------------------
\* Projection: whatever the row says, it is merged into what is stored.

LEMMA MergedFacts ==
  ASSUME NEW old \in {NULL} \cup Message, NEW r \in Rows
  PROVE  /\ Merged(old, r) \in Message
         /\ r[1] = "live" \/ (old # NULL /\ old.from = "live") => Merged(old, r).from = "live"
<1>1. Carried(r) \in {"empty", "live", "history"} /\ Filed(r) \in {"peer", "self"}
  BY DEF Carried, Normalized, Filed
<1>2. r[1] \in Sources
  BY DEF Rows
<1>3. CASE old = NULL
  BY <1>1, <1>2, <1>3 DEF Merged, Message
<1>4. CASE old # NULL
  <2>1. old \in Message
    BY <1>4
  <2> QED
    BY <1>1, <1>2, <1>4, <2>1 DEF Merged, Message, Sources
<1> QED
  BY <1>3, <1>4

LEMMA ProjectArchive ==
  ASSUME IInv, Project
  PROVE  /\ journal' \in [Rows -> {"none", "pending", "projected"}]
         /\ messages' \in [Positions -> {NULL} \cup Message]
         /\ segments' \in [Positions -> {"none", "empty", "live", "history"}]
         /\ ProjectedIsStored' /\ Kept
         /\ \A m \in Positions : Row = <<"live", m>> => StoredLive(m)'
<1>1. PICK T : recording \in Recording(T)
  BY DEF IInv, Types, Project
<1>2. Row \in Sources \X T
  BY <1>1 DEF IInv, LiveInv, Project, Row, Recording
<1>3. CASE Row[2] \notin Positions
  <2>1. Row \notin Rows
    BY <1>3 DEF Rows
  <2>2. journal' = journal /\ messages' = messages /\ segments' = segments
    BY <1>3, <2>1 DEF IInv, Types, Project, Marked
  <2> QED
    BY <2>1, <2>2 DEF IInv, Types, ProjectedIsStored, Kept, StoredLive, Rows, Sources
<1>4. CASE Row[2] \in Positions
  <2> DEFINE m == Row[2]
             merged == Merged(messages[m], Row)
  <2>1. Row \in Rows /\ Row = <<Row[1], m>> /\ Row[1] \in Sources
    BY <1>2, <1>4 DEF Rows
  <2>2. messages[m] \in {NULL} \cup Message
    BY <1>4 DEF IInv, Types
  <2>3. /\ merged \in Message /\ merged # NULL
        /\ Row[1] = "live" \/ StoredLive(m) => merged.from = "live"
    BY <2>1, <2>2, MergedFacts, NullAssumption DEF StoredLive
  <2>4. merged.array \in {"empty", "live", "history"}
    BY <2>3 DEF Message
  <2>5. /\ journal' = [journal EXCEPT ![Row] = "projected"]
        /\ messages' = [messages EXCEPT ![m] = merged]
        /\ segments' = [segments EXCEPT ![m] = merged.array]
    BY DEF Project, Marked, SegmentsOf
  <2> HIDE DEF merged
  <2>6. Kept
    BY <2>3, <2>5, <1>4 DEF Kept, StoredLive, IInv, Types
  <2>7. ProjectedIsStored'
    <3> SUFFICES ASSUME NEW s \in Sources, NEW n \in Positions, journal'[<<s, n>>] = "projected"
                 PROVE  /\ messages'[n] # NULL
                        /\ s = "live" => messages'[n].from = "live"
                        /\ segments'[n] = messages'[n].array
      BY DEF ProjectedIsStored
    <3>1. <<s, n>> \in Rows
      BY DEF Rows
    <3>2. CASE n = m
      <4>1. messages'[n] = merged /\ segments'[n] = merged.array
        BY <1>4, <2>5, <3>2 DEF IInv, Types
      <4>2. s = "live" => merged.from = "live"
        <5>1. CASE s = Row[1]
          BY <2>3, <5>1
        <5>2. CASE s # Row[1]
          <6>1. <<s, n>> # Row
            BY <2>1, <5>2
          <6>2. journal[<<s, n>>] = "projected"
            BY <2>5, <3>1, <6>1 DEF IInv, Types
          <6>3. s = "live" => StoredLive(m)
            BY <3>2, <6>2 DEF IInv, ProjectedIsStored, StoredLive
          <6> QED
            BY <2>3, <6>3
        <5> QED
          BY <5>1, <5>2
      <4> QED
        BY <2>3, <4>1, <4>2
    <3>3. CASE n # m
      <4>1. <<s, n>> # Row
        BY <2>1, <3>3
      <4>2. journal[<<s, n>>] = "projected"
        BY <2>5, <3>1, <4>1 DEF IInv, Types
      <4>3. messages'[n] = messages[n] /\ segments'[n] = segments[n]
        BY <2>5, <3>3 DEF IInv, Types
      <4> QED
        BY <4>2, <4>3 DEF IInv, ProjectedIsStored
    <3> QED
      BY <3>2, <3>3
  <2>8. ASSUME NEW n \in Positions, Row = <<"live", n>> PROVE StoredLive(n)'
    <3>1. m = n /\ Row[1] = "live"
      BY <2>8
    <3> QED
      BY <1>4, <2>3, <2>5, <3>1 DEF StoredLive, IInv, Types
  <2>9. /\ journal' \in [Rows -> {"none", "pending", "projected"}]
        /\ messages' \in [Positions -> {NULL} \cup Message]
        /\ segments' \in [Positions -> {"none", "empty", "live", "history"}]
    BY <2>3, <2>4, <2>5 DEF IInv, Types
  <2> QED
    BY <2>6, <2>7, <2>8, <2>9
<1> QED
  BY <1>3, <1>4

\* The list without its first row.
LEMMA ShorterFacts ==
  ASSUME NEW T, recording \in Recording(T), recording.rest # <<>>,
         NEW o \in BOOLEAN,
         recording' = [recording EXCEPT !.rest = Tail(@), !.half = FALSE, !.overlap = o]
  PROVE  /\ recording' \in Recording(T)
         /\ recording'.rest = Tail(recording.rest) /\ recording'.by = recording.by
         /\ recording'.page = recording.page /\ recording'.half = FALSE
<1>1. Tail(recording.rest) \in Seq(Sources \X T)
  BY DEF Recording
<1> QED
  BY <1>1 DEF Recording

LEMMA ProjectInv == ASSUME IInv, Project PROVE IInv'
<1>1. PICK T : recording \in Recording(T)
  BY DEF IInv, Types, Project
<1>2. recording # NULL /\ recording.rest # <<>>
  BY DEF IInv, LiveInv, Project
<1>3. PICK o \in BOOLEAN :
        recording' = [recording EXCEPT !.rest = Tail(@), !.half = FALSE, !.overlap = o]
  <2>1. recording.overlap \in BOOLEAN
    BY <1>1 DEF Recording
  <2>2. CASE recording.by \in Syncs
    <3> DEFINE o == recording.overlap \/ Row[2] \in sync[recording.by].local
    <3>1. recording' = [recording EXCEPT !.rest = Tail(@), !.half = FALSE, !.overlap = o]
      BY <2>2 DEF Project
    <3> QED
      BY <3>1
  <2>3. CASE recording.by \notin Syncs
    <3>1. recording' = [recording EXCEPT !.rest = Tail(@), !.half = FALSE]
      BY <2>3 DEF Project
    <3>2. recording' = [recording EXCEPT !.rest = Tail(@), !.half = FALSE,
                                         !.overlap = recording.overlap]
      BY <1>1, <3>1 DEF Recording
    <3> QED
      BY <2>1, <3>2
  <2> QED
    BY <2>2, <2>3
<1>4. /\ recording' \in Recording(T)
      /\ recording'.rest = Tail(recording.rest) /\ recording'.by = recording.by
      /\ recording'.page = recording.page /\ recording'.half = FALSE
  BY <1>1, <1>2, <1>3, ShorterFacts
<1>5. Types'
  BY <1>4, ProjectArchive DEF IInv, Types, Project
<1>6. LiveInv'
  <2> SUFFICES ASSUME recording.by = "live"
               PROVE  \E m \in Positions :
                        /\ recording.page = {m}
                        /\ \/ Tail(recording.rest) = <<<<"live", m>>>>
                           \/ Tail(recording.rest) = <<>> /\ StoredLive(m)'
    BY <1>4 DEF LiveInv, StoredLive
  <2>1. PICK m \in Positions : recording.page = {m} /\ recording.rest = <<<<"live", m>>>>
    BY <1>2 DEF IInv, LiveInv
  <2>2. Tail(recording.rest) = <<>> /\ Row = <<"live", m>>
    BY <2>1 DEF Row
  <2>3. StoredLive(m)'
    BY <2>2, ProjectArchive DEF Rows, Sources
  <2> QED
    BY <2>1, <2>2, <2>3
<1>7. HandledIsStored' /\ handled' \subseteq Positions
  BY ProjectArchive DEF IInv, HandledIsStored, Kept, StoredLive, Project
<1> QED
  BY <1>5, <1>6, <1>7, ProjectArchive DEF IInv

-----------------------------------------------------------------------------
\* What leaves the archive alone only has to say what it records.

LEMMA ArchiveUnchanged ==
  ASSUME IInv, UNCHANGED archive, UNCHANGED handled
  PROVE  ProjectedIsStored' /\ HandledIsStored' /\ handled' \subseteq Positions
  BY DEF IInv, archive, ProjectedIsStored, HandledIsStored

\* Nothing is left to record.
LEMMA NothingInv ==
  ASSUME IInv, UNCHANGED archive, UNCHANGED handled,
         said' \in Seq({"peer", "bot"}), inbox' \in Seq(Positions), recording' = NULL
  PROVE  IInv'
  BY ArchiveUnchanged DEF IInv, Types, LiveInv, archive

\* Recording goes on as it was.
LEMMA SameInv ==
  ASSUME IInv, UNCHANGED archive, UNCHANGED handled,
         said' \in Seq({"peer", "bot"}), inbox' \in Seq(Positions), recording' = recording
  PROVE  IInv'
<1>1. LiveInv'
  BY DEF IInv, LiveInv, archive, StoredLive
<1> QED
  BY <1>1, ArchiveUnchanged DEF IInv, Types, archive

\* A list of rows begins to be recorded.
LEMMA RecordInv ==
  ASSUME IInv, UNCHANGED archive, UNCHANGED handled,
         said' \in Seq({"peer", "bot"}), inbox' \in Seq(Positions),
         NEW by \in Kinds, NEW T, NEW rows \in Seq(Sources \X T), NEW page \in SUBSET Int,
         Record(by, rows, page),
         by = "live" => \E m \in Positions : page = {m} /\ rows = <<<<"live", m>>>>
  PROVE  IInv'
<1>1. recording' \in Recording(T)
  BY DEF Record, Recording
<1>2. recording'.by = by /\ recording'.rest = rows /\ recording'.page = page
      /\ recording'.half = FALSE
  BY DEF Record
<1>3. LiveInv'
  BY <1>2 DEF LiveInv
<1>4. Types'
  BY <1>1 DEF IInv, Types, archive
<1> QED
  BY <1>3, <1>4, ArchiveUnchanged DEF IInv

\* The first commit: a row that is projected stays so.
LEMMA JournalInv == ASSUME IInv, Journal PROVE IInv'
<1>1. PICK T : recording \in Recording(T)
  BY DEF IInv, Types, Journal
<1>2. /\ journal' \in [Rows -> {"none", "pending", "projected"}]
      /\ \A r \in Rows : journal'[r] = "projected" => journal[r] = "projected"
  BY DEF IInv, Types, Journal
<1>3. /\ recording' \in Recording(T) /\ recording'.rest = recording.rest
      /\ recording'.by = recording.by /\ recording'.page = recording.page
  BY <1>1 DEF Journal, Recording
<1>4. Types'
  BY <1>2, <1>3 DEF IInv, Types, Journal
<1>5. ProjectedIsStored'
  BY <1>2 DEF IInv, ProjectedIsStored, Journal, Rows
<1>6. LiveInv'
  BY <1>3 DEF IInv, LiveInv, Journal, StoredLive
<1>7. HandledIsStored' /\ handled' \subseteq Positions
  BY DEF IInv, HandledIsStored, Journal
<1> QED
  BY <1>4, <1>5, <1>6, <1>7 DEF IInv

LEMMA ProjectFailsInv == ASSUME IInv, ProjectFails PROVE IInv'
<1>1. UNCHANGED archive /\ UNCHANGED handled /\ UNCHANGED said /\ UNCHANGED inbox
  BY DEF ProjectFails
<1>2. said' \in Seq({"peer", "bot"}) /\ inbox' \in Seq(Positions)
  BY <1>1 DEF IInv, Types
<1>3. CASE recording.by # "replay"
  BY <1>1, <1>2, <1>3, NothingInv DEF ProjectFails, Raised
<1>4. CASE recording.by = "replay"
  <2>1. PICK T : recording \in Recording(T)
    BY DEF IInv, Types, ProjectFails
  <2>2. recording # NULL /\ recording.rest # <<>>
    BY DEF IInv, LiveInv, ProjectFails
  <2>3. recording' = [recording EXCEPT !.rest = Tail(@), !.half = FALSE]
    BY <1>4 DEF ProjectFails
  <2>4. recording.overlap \in BOOLEAN /\
        recording' = [recording EXCEPT !.rest = Tail(@), !.half = FALSE,
                                       !.overlap = recording.overlap]
    BY <2>1, <2>3 DEF Recording
  <2>5. recording' \in Recording(T) /\ recording'.by = recording.by /\ recording'.half = FALSE
    BY <2>1, <2>2, <2>4, ShorterFacts
  <2>6. LiveInv'
    BY <1>4, <2>5 DEF LiveInv
  <2>7. Types'
    BY <1>1, <1>2, <2>5 DEF IInv, Types, archive
  <2> QED
    BY <1>1, <2>6, <2>7, ArchiveUnchanged DEF IInv
<1> QED
  BY <1>3, <1>4

LEMMA EmptyListFacts == <<>> \in Seq(Sources \X {}) /\ {} \in SUBSET Int
  OBVIOUS

\* The rows a boot replays, in any order.
LEMMA UnprojectedFinite == Cardinality(Unprojected) \in Nat /\ Unprojected \subseteq Rows
<1>1. IsFiniteSet(Positions)
  BY FS_Interval, BoundsAssumption DEF Positions
<1>2. IsFiniteSet(Sources)
  <2>1. Sources = {"live"} \cup {"backfill"}
    BY DEF Sources
  <2> QED
    BY <2>1, FS_Singleton, FS_Union
<1>3. IsFiniteSet(Rows)
  BY <1>1, <1>2, FS_Product DEF Rows
<1>4. Unprojected \subseteq Rows
  BY DEF Unprojected
<1> QED
  BY <1>3, <1>4, FS_Subset, FS_CardinalityType

LEMMA BootInv == ASSUME IInv, Boot PROVE IInv'
<1>1. Unprojected \subseteq Rows
  BY UnprojectedFinite
<1>2. Cardinality(Unprojected) \in Nat
  BY UnprojectedFinite
<1>3. PICK rows \in SetToSeqs(Unprojected) : Record("replay", rows, {})
  BY DEF Boot
<1>4. rows \in [1..Cardinality(Unprojected) -> Unprojected]
  BY <1>3 DEF SetToSeqs
<1>5. rows \in Seq(Sources \X Positions)
  <2>1. Unprojected \subseteq Sources \X Positions
    BY <1>1 DEF Rows
  <2> QED
    BY <1>2, <1>4, <2>1
<1>6. UNCHANGED archive /\ UNCHANGED handled /\ UNCHANGED said /\ UNCHANGED inbox
  BY DEF Boot
<1>7. said' \in Seq({"peer", "bot"}) /\ inbox' \in Seq(Positions)
  BY <1>6 DEF IInv, Types
<1>8. "replay" \in Kinds /\ {} \in SUBSET Int
  BY DEF Kinds
<1> QED
  BY <1>3, <1>5, <1>6, <1>7, <1>8, RecordInv

\* A message is said: the next position.
LEMMA SaidFacts ==
  ASSUME IInv, Len(said) < MaxMessages, NEW author \in {"peer", "bot"},
         said' = Append(said, author)
  PROVE  /\ said' \in Seq({"peer", "bot"}) /\ Len(said') \in Positions
         /\ Append(inbox, Len(said')) \in Seq(Positions)
<1>1. said' \in Seq({"peer", "bot"}) /\ Len(said') = Len(said) + 1 /\ Len(said) \in Nat
  BY DEF IInv, Types
<1>2. Len(said') \in Positions
  BY <1>1, BoundsAssumption DEF Positions
<1> QED
  BY <1>1, <1>2 DEF IInv, Types

LEMMA SayInv == ASSUME IInv, Say PROVE IInv'
<1>1. PICK author \in {"peer", "bot"} : said' = Append(said, author)
  BY DEF Say
<1>2. said' \in Seq({"peer", "bot"}) /\ inbox' \in Seq(Positions)
  BY <1>1, SaidFacts DEF Say, IInv, Types
<1> QED
  BY <1>2, SameInv DEF Say

LEMMA SendInv == ASSUME IInv, Send PROVE IInv'
<1>1. said' \in Seq({"peer", "bot"}) /\ Len(said') \in Positions
  BY SaidFacts DEF Send
<1>2. <<<<"live", Len(said')>>>> \in Seq(Sources \X Positions)
  BY <1>1 DEF Sources
<1>3. UNCHANGED archive /\ UNCHANGED handled /\ inbox' \in Seq(Positions)
  BY DEF Send, IInv, Types
<1>4. Record("sent", <<<<"live", Len(said')>>>>, {}) /\ "sent" \in Kinds /\ {} \in SUBSET Int
  BY DEF Send, Kinds
<1> QED
  BY <1>1, <1>2, <1>3, <1>4, RecordInv

LEMMA ReceiveInv == ASSUME IInv, Receive PROVE IInv'
<1> DEFINE m == Head(inbox)
<1>1. m \in Positions /\ Tail(inbox) \in Seq(Positions)
  BY DEF Receive, IInv, Types
<1>2. <<<<"live", m>>>> \in Seq(Sources \X Positions) /\ {m} \in SUBSET Int
  BY <1>1 DEF Sources, Positions
<1>3. UNCHANGED archive /\ UNCHANGED handled /\ inbox' = Tail(inbox) /\ said' = said
  BY DEF Receive
<1>4. Record("live", <<<<"live", m>>>>, {m}) /\ "live" \in Kinds
  BY DEF Receive, Kinds
<1>5. said' \in Seq({"peer", "bot"}) /\ inbox' \in Seq(Positions)
  BY <1>1, <1>3 DEF IInv, Types
<1> HIDE DEF m
<1> QED
  BY <1>1, <1>2, <1>3, <1>4, <1>5, RecordInv

\* What plugins are given has been stored.
LEMMA DispatchInv == ASSUME IInv, Dispatch PROVE IInv'
<1>1. PICK m \in Positions : recording.page = {m} /\ StoredLive(m)
  BY DEF IInv, LiveInv, Dispatch
<1>2. handled' = handled \cup {m} /\ recording' = NULL
      /\ UNCHANGED <<said, inbox, journal, messages, segments>>
  BY <1>1 DEF Dispatch, archive
<1>3. Types' /\ LiveInv' /\ ProjectedIsStored'
  BY <1>2 DEF IInv, Types, LiveInv, ProjectedIsStored
<1>4. HandledIsStored' /\ handled' \subseteq Positions
  BY <1>1, <1>2 DEF IInv, HandledIsStored, StoredLive
<1> QED
  BY <1>3, <1>4 DEF IInv

\* A page, whatever is on it.
LEMMA PageInv == ASSUME IInv, NEW t \in Syncs, Page(t) PROVE IInv'
<1> DEFINE n == Cardinality(PageOf(t))
           T == {Min(PageOf(t)) + i - 1 : i \in 1..n}
           rows == [i \in 1..n |-> <<"backfill", Min(PageOf(t)) + i - 1>>]
<1>1. PageOf(t) \subseteq 1..Len(said) /\ Len(said) \in Nat
  BY DEF PageOf, IInv, Types
<1>2. IsFiniteSet(PageOf(t)) /\ PageOf(t) \in SUBSET Int
  <2>1. IsFiniteSet(1..Len(said))
    BY <1>1, FS_Interval
  <2>2. IsFiniteSet(PageOf(t))
    BY <1>1, <2>1, FS_Subset
  <2>3. PageOf(t) \in SUBSET Int
    BY <1>1
  <2> QED
    BY <2>2, <2>3
<1>3. n \in Nat
  BY <1>2, FS_CardinalityType
<1>4. rows \in Seq(Sources \X T)
  <2>1. \A i \in 1..n : rows[i] \in Sources \X T
    BY DEF Sources
  <2>2. rows \in [1..n -> Sources \X T]
    BY <2>1
  <2> HIDE DEF rows, T, n
  <2> QED
    BY <1>3, <2>2
<1>5. Record(t, rows, PageOf(t)) /\ t \in Kinds
  BY DEF Page, Kinds
<1>6. UNCHANGED archive /\ UNCHANGED handled /\ UNCHANGED said /\ UNCHANGED inbox
  BY DEF Page
<1>7. said' \in Seq({"peer", "bot"}) /\ inbox' \in Seq(Positions)
  BY <1>6 DEF IInv, Types
<1>8. t # "live"
  BY DEF Syncs
<1> HIDE DEF rows, T, n
<1> QED
  BY <1>2, <1>4, <1>5, <1>6, <1>7, <1>8, RecordInv

LEMMA CallRaisesInv == ASSUME IInv, NEW t \in Syncs, CallRaises(t) PROVE IInv'
<1>1. UNCHANGED archive /\ UNCHANGED handled /\ Record(t, <<>>, {}) /\ t \in Kinds /\ t # "live"
  BY DEF CallRaises, Kinds, Syncs
<1>2. said' \in Seq({"peer", "bot"}) /\ inbox' \in Seq(Positions)
  BY DEF CallRaises, IInv, Types
<1> QED
  BY <1>1, <1>2, EmptyListFacts, RecordInv

-----------------------------------------------------------------------------
\* The theorems.

LEMMA InitInv == Init => IInv
  BY DEF Init, IInv, Types, ProjectedIsStored, LiveInv, HandledIsStored, Rows

LEMMA NextInv == IInv /\ [Next]_vars => IInv'
<1> SUFFICES ASSUME IInv, [Next]_vars PROVE IInv'
  OBVIOUS
<1>1. said \in Seq({"peer", "bot"}) /\ inbox \in Seq(Positions) /\ <<>> \in Seq(Positions)
  BY DEF IInv, Types
<1>2. CASE Journal \/ Project \/ ProjectFails
  BY <1>2, JournalInv, ProjectInv, ProjectFailsInv
<1>3. CASE Crash \/ Replayed \/ Sent
  BY <1>1, <1>3, NothingInv DEF Crash, Replayed, Sent
<1>4. CASE Boot \/ Say \/ Send \/ Receive \/ Dispatch
  BY <1>4, BootInv, SayInv, SendInv, ReceiveInv, DispatchInv
<1>5. CASE Connect \/ Listen \/ Disconnect \/ Query
  BY <1>1, <1>5, SameInv DEF Connect, Listen, Disconnect, Query
<1>6. CASE Discard
  <2>1. inbox' \in Seq(Positions) /\ UNCHANGED <<said, archive, handled, recording>>
    BY <1>1, <1>6 DEF Discard
  <2> QED
    BY <1>1, <2>1, SameInv
<1>7. ASSUME NEW t \in Syncs, Page(t) \/ PageFails(t) \/ CallRaises(t) \/ EndPage(t) PROVE IInv'
  <2>1. CASE PageFails(t)
    BY <1>1, <2>1, SameInv DEF PageFails
  <2>2. CASE EndPage(t)
    BY <1>1, <2>2, NothingInv DEF EndPage
  <2> QED
    BY <1>7, <2>1, <2>2, PageInv, CallRaisesInv
<1>8. CASE UNCHANGED vars
  <2>1. UNCHANGED <<said, inbox, recording>> /\ UNCHANGED archive /\ UNCHANGED handled
    BY <1>8 DEF vars, archive
  <2> QED
    BY <1>1, <2>1, SameInv
<1> QED
  BY <1>2, <1>3, <1>4, <1>5, <1>6, <1>7, <1>8 DEF Next

\* MessageStore: a journal row marked projected has its message in the archive,
\* with the segments of the stored row, in whatever order a message comes live,
\* from the bot, in pages and by replay, and wherever crashes strike.
THEOREM ProjectionsAreStored == Spec => []ProjectedIsStored
<1>1. IInv => ProjectedIsStored
  BY DEF IInv
<1> QED
  BY <1>1, InitInv, NextInv, PTL DEF Spec

\* EventBus: a message is handed to plugins only once it is in the archive as a
\* live message, and stays there as one whatever history brings later.
THEOREM HandledMessagesAreStored == Spec => []HandledIsStored
<1>1. IInv => HandledIsStored
  BY DEF IInv
<1> QED
  BY <1>1, InitInv, NextInv, PTL DEF Spec

-----------------------------------------------------------------------------
\* Syncs: a second invariant, with the exact types.

Reading == [by: Kinds, rest: Seq(Rows), half: BOOLEAN, overlap: BOOLEAN, page: SUBSET Positions]

Plain ==
  /\ Len(said) <= MaxMessages
  /\ phase \in {"down", "replay", "offline", "connect", "loop"}
  /\ boots \in 0..MaxBoots
  /\ gaps \subseteq {"pagination_limit", "napcat_error", "provider_history_boundary"}
  /\ cursor \in Anchors /\ complete \in BOOLEAN
  /\ sync \in [Syncs -> {NULL} \cup Progress]
  /\ recording # NULL => recording \in Reading

\* A row that history brought is journaled.
Fetched(m) == journal[<<"backfill", m>>] # "none"

\* What a sync has passed: from where its next page ends up to where it began.
\* Before the first page that is nothing, and messages may still be said.
SyncInv(t) == sync[t] # NULL =>
  /\ sync[t].pages < sync[t].limit
  /\ sync[t].anchor = NULL => sync[t].pages = 0 /\ sync[t].start <= Len(said)
  /\ sync[t].anchor # NULL => \A m \in (sync[t].anchor + 1)..sync[t].start : Fetched(m)

\* While a page is recorded, each of its messages is journaled or still to come.
ToCome(m) == \E i \in DOMAIN recording.rest : recording.rest[i] = <<"backfill", m>>
FetchInv(t) == recording # NULL /\ recording.by = t =>
  /\ sync[t] # NULL
  /\ recording.page \in {{}, PageOf(t)}
  /\ recording.half => journal[Row] # "none"
  /\ \A m \in recording.page : Fetched(m) \/ ToCome(m)

JInv == IInv /\ Plain /\ \A t \in Syncs : SyncInv(t) /\ FetchInv(t)

\* A page is an interval.
LEMMA IntervalFacts ==
  ASSUME NEW a \in Int, NEW b \in Int
  PROVE  /\ Cardinality(a..b) = (IF a > b THEN 0 ELSE b - a + 1)
         /\ a <= b => Min(a..b) = a
<1>1. ASSUME a <= b PROVE Min(a..b) = a
  <2>1. a \in a..b /\ \A y \in a..b : a <= y
    BY <1>1
  <2>2. Min(a..b) \in a..b /\ \A y \in a..b : Min(a..b) <= y
    BY <2>1 DEF Min
  <2> QED BY <2>1, <2>2
<1> QED BY <1>1, FS_Interval

\* The page NapCat answers with: it ends at the anchor, or at what was said
\* last, and a full one has PageSize messages.
LEMMA PageFacts ==
  ASSUME JInv, NEW t \in Syncs, sync[t] # NULL
  PROVE  \E lo, hi \in Int :
           /\ PageOf(t) = lo..hi /\ 1 <= lo /\ hi <= Len(said) /\ hi <= Top(t)
           /\ Top(t) \in 0..MaxMessages
           /\ PageSize <= hi - lo + 1 => lo = Top(t) - PageSize + 1 /\ hi = Top(t)
<1>1. PICK n \in Nat : n = Len(said) /\ n <= MaxMessages
  BY DEF JInv, IInv, Types, Plain
<1>2. PICK s \in Progress : s = sync[t]
  BY DEF JInv, Plain
<1>3. PICK top \in 0..MaxMessages : top = Top(t)
  <2>1. s.anchor \in Anchors
    BY <1>2 DEF Progress
  <2>2. Top(t) = IF s.anchor = NULL THEN n ELSE s.anchor
    BY <1>1, <1>2 DEF Top
  <2> QED BY <1>1, <2>1, <2>2, BoundsAssumption DEF Anchors
<1>4. PICK k \in Nat : k = PageSize /\ k # 0 /\ MaxMessages \in Nat
  BY BoundsAssumption
<1> DEFINE lo == IF top - k >= 0 THEN top - k + 1 ELSE 1
           hi == IF top <= n THEN top ELSE n
<1>5. PageOf(t) = ((top - k + 1)..top) \cap (1..n)
  BY <1>1, <1>3, <1>4 DEF PageOf
<1>6. lo \in Int /\ hi \in Int /\ 1 <= lo /\ hi <= n /\ hi <= top
  BY <1>4
<1>7. \A x \in Int : top - k + 1 <= x /\ x <= top /\ 1 <= x /\ x <= n <=> lo <= x /\ x <= hi
  BY <1>4
<1>8. k <= hi - lo + 1 => lo = top - k + 1 /\ hi = top
  BY <1>4
<1> HIDE DEF lo, hi
<1>9. PageOf(t) = lo..hi
  BY <1>4, <1>5, <1>6, <1>7
<1> QED BY <1>1, <1>3, <1>4, <1>6, <1>8, <1>9

\* Journal rows do not go away, and nobody goes back on what was said.
LEMMA StillFetched ==
  ASSUME JInv, NEW t \in Syncs, sync'[t] = sync[t], Len(said') \in Nat, Len(said) <= Len(said'),
         \A m \in Positions : Fetched(m) => Fetched(m)'
  PROVE  SyncInv(t)'
<1>1. CASE sync[t] = NULL
  BY <1>1 DEF SyncInv
<1>2. CASE sync[t] # NULL
  <2>1. PICK s \in Progress : s = sync[t] /\ s = sync'[t]
    BY <1>2 DEF JInv, Plain
  <2>2. s.start \in 0..MaxMessages /\ s.anchor \in Anchors
    BY <2>1 DEF Progress
  <2>3. s.anchor # NULL => (s.anchor + 1)..s.start \subseteq Positions
    BY <2>2, BoundsAssumption DEF Anchors, Positions
  <2>4. Len(said) \in Nat
    BY DEF JInv, IInv, Types
  <2>5. SyncInv(t)
    BY DEF JInv
  <2> QED BY <1>2, <2>1, <2>2, <2>3, <2>4, <2>5, BoundsAssumption DEF SyncInv
<1> QED BY <1>1, <1>2

\* Steps that are no sync's: nobody's page is being recorded when they are done.
LEMMA OtherSteps ==
  ASSUME JInv, IInv', Plain', \A t \in Syncs : sync'[t] \in {NULL, sync[t]},
         Len(said) <= Len(said'), \A m \in Positions : Fetched(m) => Fetched(m)',
         recording' # NULL => recording'.by \notin Syncs
  PROVE  JInv'
<1>1. ASSUME NEW t \in Syncs PROVE SyncInv(t)'
  <2>1. CASE sync'[t] = NULL
    BY <2>1 DEF SyncInv
  <2>2. CASE sync'[t] = sync[t]
    <3>1. Len(said') \in Nat
      BY DEF IInv, Types
    <3> QED BY <2>2, <3>1, StillFetched
  <2> QED BY <2>1, <2>2
<1>2. ASSUME NEW t \in Syncs PROVE FetchInv(t)'
  BY <1>2 DEF FetchInv
<1> QED BY <1>1, <1>2 DEF JInv

\* INSERT OR IGNORE keeps the row or adds it; the recording is half done.
LEMMA JournalJ == ASSUME JInv, Journal PROVE JInv'
<1>1. recording # NULL /\ recording \in Reading /\ recording.rest # <<>> /\ recording.rest \in Seq(Rows)
  BY DEF JInv, Plain, Journal, Reading
<1>2. Row \in Rows /\ journal \in [Rows -> {"none", "pending", "projected"}]
  BY <1>1 DEF Row, JInv, IInv, Types
<1>3. /\ journal'[Row] # "none" /\ \A r \in Rows : journal[r] # "none" => journal'[r] # "none"
  BY <1>2 DEF Journal
<1>4. \A m \in Positions : Fetched(m) => Fetched(m)'
  BY <1>3 DEF Fetched, Rows, Sources
<1>5. /\ recording' \in Reading /\ recording'.by = recording.by /\ recording'.rest = recording.rest
      /\ recording'.page = recording.page
  BY <1>1 DEF Journal, Reading
<1>6. UNCHANGED <<said, phase, boots, inbox, status, sync, handled>> /\ IInv /\ Plain
  BY DEF Journal, JInv
<1>7. Plain'
  BY <1>5, <1>6 DEF Plain, status
<1>8. IInv'
  BY JournalInv DEF JInv
<1>9. ASSUME NEW t \in Syncs PROVE SyncInv(t)' /\ FetchInv(t)'
  <2>1. SyncInv(t)'
    <3>1. sync'[t] = sync[t] /\ Len(said') \in Nat /\ Len(said) <= Len(said')
      BY <1>6 DEF IInv, Types
    <3> QED BY <1>4, <3>1, StillFetched
  <2>2. FetchInv(t)'
    <3> SUFFICES ASSUME recording.by = t PROVE FetchInv(t)'
      BY <1>5 DEF FetchInv
    <3>1. FetchInv(t)
      BY DEF JInv
    <3>2. /\ sync[t] # NULL /\ recording.page \in {{}, PageOf(t)}
          /\ \A m \in recording.page : Fetched(m) \/ ToCome(m)
      BY <1>1, <3>1 DEF FetchInv
    <3>3. recording.page \subseteq Positions
      BY <1>1 DEF Reading
    <3>4. PageOf(t)' = PageOf(t)
      BY <1>6 DEF PageOf, Top
    <3>5. \A m \in recording'.page : Fetched(m)' \/ ToCome(m)'
      BY <1>4, <1>5, <3>2, <3>3 DEF ToCome
    <3>6. Row' = Row
      BY <1>5 DEF Row
    <3> QED BY <1>3, <1>5, <1>6, <3>2, <3>4, <3>5, <3>6 DEF FetchInv
  <2> QED BY <2>1, <2>2
<1> QED BY <1>7, <1>8, <1>9 DEF JInv

\* The list without its first row, which is journaled.
LEMMA TailFacts ==
  ASSUME NEW rows \in Seq(Rows), rows # <<>>
  PROVE  /\ Tail(rows) \in Seq(Rows) /\ Head(rows) \in Rows
         /\ \A r : (\E i \in DOMAIN rows : rows[i] = r) =>
                     r = Head(rows) \/ \E i \in DOMAIN Tail(rows) : Tail(rows)[i] = r
<1>1. PICK n \in Nat : n = Len(rows) /\ n # 0 /\ DOMAIN rows = 1..n
  BY EmptySeq
<1>2. /\ Tail(rows) \in Seq(Rows) /\ DOMAIN Tail(rows) = 1..(n - 1) /\ Head(rows) = rows[1]
      /\ \A i \in 1..(n - 1) : Tail(rows)[i] = rows[i + 1]
  BY <1>1
<1>3. ASSUME NEW i \in 1..n, i # 1
      PROVE  \E j \in DOMAIN Tail(rows) : Tail(rows)[j] = rows[i]
  <2>1. i - 1 \in 1..(n - 1) /\ Tail(rows)[i - 1] = rows[(i - 1) + 1] /\ (i - 1) + 1 = i
    BY <1>2, <1>3
  <2> QED BY <1>2, <2>1
<1> QED BY <1>1, <1>2, <1>3

\* The second commit, of a page's message or of another.
LEMMA ProjectJ == ASSUME JInv, Project PROVE JInv'
<1>1. recording # NULL /\ recording \in Reading /\ recording.rest # <<>> /\ recording.rest \in Seq(Rows)
  BY DEF JInv, IInv, LiveInv, Plain, Project, Reading
<1>2. Row \in Rows /\ journal \in [Rows -> {"none", "pending", "projected"}] /\ Row = Head(recording.rest)
  BY <1>1, TailFacts DEF Row, JInv, IInv, Types
<1>3. /\ journal'[Row] = "projected"
      /\ \A r \in Rows : journal[r] # "none" => journal'[r] # "none"
  BY <1>2 DEF Project, Marked
<1>4. \A m \in Positions : Fetched(m) => Fetched(m)'
  BY <1>3 DEF Fetched, Rows, Sources
<1>5. UNCHANGED <<said, phase, boots, inbox, status, handled>> /\ IInv /\ Plain
  BY DEF Project, JInv
<1>6. IInv'
  BY ProjectInv DEF JInv
<1>7. Tail(recording.rest) \in Seq(Rows)
  BY <1>1, TailFacts
<1>8. Len(said') \in Nat /\ Len(said) <= Len(said')
  BY <1>5 DEF IInv, Types
<1>9. CASE recording.by \notin Syncs
  <2>1. /\ recording' = [recording EXCEPT !.rest = Tail(@), !.half = FALSE] /\ sync' = sync
    BY <1>9 DEF Project
  <2>2. recording' \in Reading /\ recording'.by = recording.by
    BY <1>1, <1>7, <2>1 DEF Reading
  <2>3. Plain'
    BY <1>5, <2>1, <2>2 DEF Plain, status
  <2>4. \A t \in Syncs : sync'[t] \in {NULL, sync[t]}
    BY <2>1
  <2> QED BY <1>4, <1>6, <1>8, <1>9, <2>2, <2>3, <2>4, OtherSteps
<1>10. CASE recording.by \in Syncs
  <2>1. PICK t \in Syncs : t = recording.by
    BY <1>10
  <2>2. FetchInv(t) /\ SyncInv(t)
    BY DEF JInv
  <2>3. /\ sync[t] # NULL /\ recording.page \in {{}, PageOf(t)}
        /\ \A m \in recording.page : Fetched(m) \/ ToCome(m)
    BY <1>1, <2>1, <2>2 DEF FetchInv
  <2>4. PICK s \in Progress : s = sync[t]
    BY <2>3 DEF JInv, Plain
  <2>5. PICK o \in BOOLEAN :
          recording' = [recording EXCEPT !.rest = Tail(@), !.half = FALSE, !.overlap = o]
    <3> DEFINE o == recording.overlap \/ Row[2] \in sync[recording.by].local
    <3>1. recording.overlap \in BOOLEAN
      BY <1>1 DEF Reading
    <3>2. recording' = [recording EXCEPT !.rest = Tail(@), !.half = FALSE, !.overlap = o]
      BY <1>10 DEF Project
    <3> QED BY <3>1, <3>2
  <2>6. /\ recording' \in Reading /\ recording'.by = t /\ recording'.rest = Tail(recording.rest)
        /\ recording'.page = recording.page /\ recording'.half = FALSE
    BY <1>1, <1>7, <2>1, <2>5 DEF Reading
  <2>7. PICK q \in Progress :
          /\ sync' = [sync EXCEPT ![t] = q]
          /\ q.anchor = s.anchor /\ q.start = s.start /\ q.pages = s.pages /\ q.limit = s.limit
    <3> DEFINE q == [s EXCEPT !.local = @ \cup {Row[2]}]
    <3>1. Row[2] \in Positions
      BY <1>2 DEF Rows
    <3>2. /\ q \in Progress /\ q.anchor = s.anchor /\ q.start = s.start
          /\ q.pages = s.pages /\ q.limit = s.limit
      BY <3>1 DEF Progress
    <3>3. sync' = [sync EXCEPT ![t] = q]
      BY <1>10, <2>1, <2>4 DEF Project
    <3> QED BY <3>2, <3>3
  <2>8. sync \in [Syncs -> {NULL} \cup Progress]
    BY DEF JInv, Plain
  <2>9. /\ sync' \in [Syncs -> {NULL} \cup Progress] /\ sync'[t] = q /\ q # NULL
        /\ \A u \in Syncs : u # t => sync'[u] = sync[u]
    BY <2>7, <2>8, NullAssumption
  <2>10. Plain'
    BY <1>5, <2>6, <2>9 DEF Plain, status
  <2>11. ASSUME NEW u \in Syncs PROVE SyncInv(u)'
    <3>1. CASE u # t
      BY <1>4, <1>8, <2>9, <3>1, StillFetched
    <3>2. CASE u = t
      <4>1. s.start \in 0..MaxMessages /\ s.anchor \in Anchors
        BY DEF Progress
      <4>2. s.anchor # NULL => (s.anchor + 1)..s.start \subseteq Positions
        BY <4>1, BoundsAssumption DEF Anchors, Positions
      <4> QED BY <1>4, <1>5, <2>2, <2>3, <2>4, <2>7, <2>9, <3>2, <4>2 DEF SyncInv
    <3> QED BY <3>1, <3>2
  <2>12. FetchInv(t)'
    <3>1. PageOf(t)' = PageOf(t)
      <4>1. Top(t)' = Top(t)
        BY <1>5, <2>4, <2>7, <2>9 DEF Top
      <4> QED BY <1>5, <4>1 DEF PageOf
    <3>2. ASSUME NEW m \in recording.page PROVE Fetched(m)' \/ ToCome(m)'
      <4>1. m \in Positions
        BY <1>1 DEF Reading
      <4>2. CASE Fetched(m)
        BY <1>4, <4>1, <4>2
      <4>3. CASE ToCome(m)
        <5>1. \/ <<"backfill", m>> = Row
              \/ \E i \in DOMAIN Tail(recording.rest) : Tail(recording.rest)[i] = <<"backfill", m>>
          BY <1>1, <1>2, <4>3, TailFacts DEF ToCome
        <5>2. CASE <<"backfill", m>> = Row
          BY <1>3, <5>2 DEF Fetched
        <5> QED BY <2>6, <5>1, <5>2 DEF ToCome
      <4> QED BY <2>3, <4>2, <4>3
    <3> QED BY <2>3, <2>6, <2>9, <3>1, <3>2 DEF FetchInv
  <2>13. ASSUME NEW u \in Syncs PROVE FetchInv(u)'
    BY <2>6, <2>12 DEF FetchInv
  <2> QED BY <1>6, <2>10, <2>11, <2>13 DEF JInv
<1> QED BY <1>9, <1>10

\* A failed sync is over; its gap is recorded.
LEMMA SyncFailedFacts ==
  ASSUME JInv, NEW t \in Syncs, SyncFailed(t)
  PROVE  /\ sync' \in [Syncs -> {NULL} \cup Progress]
         /\ \A u \in Syncs : sync'[u] \in {NULL, sync[u]}
         /\ gaps' \subseteq {"pagination_limit", "napcat_error", "provider_history_boundary"}
         /\ cursor' = cursor /\ complete' = complete
<1>1. sync \in [Syncs -> {NULL} \cup Progress]
  BY DEF JInv, Plain
<1>2. sync' = [sync EXCEPT ![t] = NULL] /\ cursor' = cursor /\ complete' = complete
  BY DEF SyncFailed, UpdateStatus
<1>3. gaps' \subseteq {"pagination_limit", "napcat_error", "provider_history_boundary"}
  BY DEF SyncFailed, Gap, JInv, Plain
<1> QED BY <1>1, <1>2, <1>3

LEMMA ProjectFailsJ == ASSUME JInv, ProjectFails PROVE JInv'
<1>1. recording # NULL /\ recording \in Reading /\ recording.rest # <<>> /\ recording.rest \in Seq(Rows)
  BY DEF JInv, IInv, LiveInv, Plain, ProjectFails, Reading
<1>2. UNCHANGED <<said, phase, boots, inbox, archive, handled>> /\ IInv /\ Plain
  BY DEF ProjectFails, JInv
<1>3. IInv' /\ Len(said) <= Len(said') /\ \A m \in Positions : Fetched(m) => Fetched(m)'
  BY <1>2, ProjectFailsInv DEF JInv, IInv, Types, Fetched, archive
<1>4. /\ recording' # NULL => recording' \in Reading /\ recording'.by \notin Syncs
      /\ recording.by = "replay" => recording.by \notin Syncs
  <2>1. CASE recording.by = "replay"
    <3>1. Tail(recording.rest) \in Seq(Rows)
      BY <1>1, TailFacts
    <3>2. recording' = [recording EXCEPT !.rest = Tail(@), !.half = FALSE]
      BY <2>1 DEF ProjectFails
    <3> QED BY <1>1, <2>1, <3>1, <3>2 DEF Reading, Syncs
  <2>2. CASE recording.by # "replay"
    BY <2>2 DEF ProjectFails, Raised
  <2> QED BY <2>1, <2>2
<1>5. /\ Plain' /\ \A u \in Syncs : sync'[u] \in {NULL, sync[u]}
  <2>1. CASE recording.by \in Syncs
    <3>1. SyncFailed(recording.by)
      BY <2>1 DEF ProjectFails
    <3> QED BY <1>2, <1>4, <2>1, <3>1, SyncFailedFacts DEF Plain
  <2>2. CASE recording.by \notin Syncs
    <3>1. UNCHANGED <<sync, status>>
      BY <2>2 DEF ProjectFails
    <3> QED BY <1>2, <1>4, <3>1 DEF Plain, status
  <2> QED BY <2>1, <2>2
<1> QED BY <1>3, <1>4, <1>5, OtherSteps

\* Steps of the process and of live messages.
LEMMA RecordReading ==
  ASSUME NEW by \in Kinds, NEW rows \in Seq(Rows), NEW page \in SUBSET Positions, Record(by, rows, page)
  PROVE  /\ recording' \in Reading /\ recording'.by = by /\ recording'.rest = rows
         /\ recording'.page = page /\ recording'.half = FALSE
  BY DEF Record, Reading

LEMMA BootJ == ASSUME JInv, Boot PROVE JInv'
<1>1. PICK rows \in SetToSeqs(Unprojected) : Record("replay", rows, {})
  BY DEF Boot
<1>2. IInv /\ IInv'
  BY BootInv DEF JInv
<1>3. Cardinality(Unprojected) \in Nat /\ Unprojected \subseteq Rows
  BY <1>2, UnprojectedFinite
<1>4. rows \in Seq(Rows)
  <2>1. rows \in [1..Cardinality(Unprojected) -> Unprojected]
    BY <1>1 DEF SetToSeqs
  <2> QED BY <1>3, <2>1
<1>5. "replay" \in Kinds /\ "replay" \notin Syncs /\ {} \in SUBSET Positions
  BY DEF Kinds, Syncs
<1>6. recording' \in Reading /\ recording'.by \notin Syncs
  BY <1>1, <1>4, <1>5, RecordReading
<1>7. Plain' /\ sync' = sync
  BY <1>6, BoundsAssumption DEF Boot, JInv, Plain, status
<1>8. Len(said) <= Len(said') /\ \A m \in Positions : Fetched(m) => Fetched(m)'
  BY <1>2 DEF Boot, archive, Fetched, IInv, Types
<1> QED BY <1>2, <1>6, <1>7, <1>8, OtherSteps

LEMMA SaidMore ==
  ASSUME JInv, Len(said) < MaxMessages, NEW author \in {"peer", "bot"}, said' = Append(said, author)
  PROVE  Len(said) <= Len(said') /\ Len(said') <= MaxMessages /\ Len(said') \in Positions
<1>1. said \in Seq({"peer", "bot"}) /\ Len(said') = Len(said) + 1 /\ Len(said) \in Nat
  BY DEF JInv, IInv, Types
<1> QED BY <1>1, BoundsAssumption DEF Positions

LEMMA SendJ == ASSUME JInv, Send PROVE JInv'
<1>1. /\ Len(said) <= Len(said') /\ Len(said') <= MaxMessages /\ Len(said') \in Positions
  BY SaidMore DEF Send
<1>2. <<<<"live", Len(said')>>>> \in Seq(Rows)
  BY <1>1 DEF Rows, Sources
<1>3. /\ Record("sent", <<<<"live", Len(said')>>>>, {}) /\ "sent" \in Kinds /\ "sent" \notin Syncs
      /\ {} \in SUBSET Positions
  BY DEF Send, Kinds, Syncs
<1>4. recording' \in Reading /\ recording'.by \notin Syncs
  BY <1>2, <1>3, RecordReading
<1>5. Plain' /\ sync' = sync
  BY <1>1, <1>4 DEF Send, JInv, Plain, status
<1>6. IInv' /\ \A m \in Positions : Fetched(m) => Fetched(m)'
  BY SendInv DEF Send, archive, Fetched, JInv
<1> QED BY <1>1, <1>4, <1>5, <1>6, OtherSteps

LEMMA ReceiveJ == ASSUME JInv, Receive PROVE JInv'
<1>1. PICK m \in Positions : m = Head(inbox)
  BY DEF Receive, JInv, IInv, Types
<1>2. <<<<"live", m>>>> \in Seq(Rows) /\ {m} \in SUBSET Positions
  BY DEF Rows, Sources
<1>3. Record("live", <<<<"live", m>>>>, {m}) /\ "live" \in Kinds /\ "live" \notin Syncs
  BY <1>1 DEF Receive, Kinds, Syncs
<1>4. recording' \in Reading /\ recording'.by \notin Syncs
  BY <1>2, <1>3, RecordReading
<1>5. Plain' /\ sync' = sync
  BY <1>4 DEF Receive, JInv, Plain, status
<1>6. IInv' /\ Len(said) <= Len(said') /\ \A n \in Positions : Fetched(n) => Fetched(n)'
  BY ReceiveInv DEF Receive, archive, Fetched, JInv, IInv, Types
<1> QED BY <1>4, <1>5, <1>6, OtherSteps

LEMMA SayJ == ASSUME JInv, Say PROVE JInv'
<1>1. /\ Len(said) <= Len(said') /\ Len(said') <= MaxMessages
  BY SaidMore DEF Say
<1>2. Plain' /\ sync' = sync /\ recording' = NULL
  BY <1>1 DEF Say, JInv, Plain, status, Awaiting
<1>3. IInv' /\ \A m \in Positions : Fetched(m) => Fetched(m)'
  BY SayInv DEF Say, archive, Fetched, JInv
<1> QED BY <1>1, <1>2, <1>3, OtherSteps

\* Nothing is being recorded afterwards, and no page has come.
LEMMA QuietJ ==
  ASSUME JInv, IInv',
         Crash \/ Replayed \/ Sent \/ Listen \/ Disconnect \/ Discard \/ Dispatch
           \/ \E t \in Syncs : PageFails(t)
  PROVE  JInv'
<1>1. /\ UNCHANGED <<said, boots, journal>> /\ recording' = NULL
      /\ phase' \in {phase, "down", "offline", "loop"}
  BY DEF Crash, Replayed, Sent, Listen, Disconnect, Discard, Dispatch, PageFails, Awaiting, archive
<1>2. /\ sync' \in [Syncs -> {NULL} \cup Progress]
      /\ \A u \in Syncs : sync'[u] \in {NULL, sync[u]}
      /\ gaps' \subseteq {"pagination_limit", "napcat_error", "provider_history_boundary"}
      /\ cursor' = cursor /\ complete' = complete
  <2>1. CASE Crash
    BY <2>1 DEF Crash, status, JInv, Plain
  <2>2. CASE Replayed \/ Sent \/ Listen \/ Disconnect \/ Discard \/ Dispatch
    BY <2>2 DEF Replayed, Sent, Listen, Disconnect, Discard, Dispatch, status, JInv, Plain
  <2>3. ASSUME NEW t \in Syncs, PageFails(t)
        PROVE  SyncFailed(t)
    BY <2>3 DEF PageFails
  <2> QED BY <2>1, <2>2, <2>3, SyncFailedFacts
<1>3. Plain'
  BY <1>1, <1>2 DEF JInv, Plain
<1>4. Len(said) <= Len(said') /\ \A n \in Positions : Fetched(n) => Fetched(n)'
  BY <1>1 DEF Fetched, JInv, IInv, Types
<1> QED BY <1>1, <1>2, <1>3, <1>4, OtherSteps

\* A sync that begins has passed nothing.
LEMMA NewSyncFacts ==
  ASSUME JInv, NEW anchor \in Anchors, NEW limit \in {1, MaxPages}
  PROVE  /\ NewSync(anchor, limit) \in Progress
         /\ NewSync(anchor, limit).pages = 0 /\ NewSync(anchor, limit).limit = limit
         /\ NewSync(anchor, limit).anchor = anchor
         /\ NewSync(anchor, limit).start = IF anchor = NULL THEN Len(said) ELSE anchor
<1>1. Len(said) \in Nat /\ Len(said) <= MaxMessages
  BY DEF JInv, IInv, Types, Plain
<1>2. (IF anchor = NULL THEN Len(said) ELSE anchor) \in 0..MaxMessages
  BY <1>1, BoundsAssumption DEF Anchors
<1>3. Local \subseteq Positions
  BY DEF Local
<1> QED BY <1>2, <1>3, BoundsAssumption DEF NewSync, Progress

LEMMA BeginsJ == ASSUME JInv, Connect \/ Query PROVE JInv'
<1>1. /\ UNCHANGED <<said, boots, inbox, archive, status, recording, handled>> /\ recording = NULL
      /\ phase' \in {phase, "connect"}
  BY DEF Connect, Query, Awaiting
<1>2. IInv'
  <2>1. said' \in Seq({"peer", "bot"}) /\ inbox' \in Seq(Positions) /\ IInv
    BY <1>1 DEF JInv, IInv, Types
  <2> QED BY <1>1, <2>1, SameInv
<1>3. sync \in [Syncs -> {NULL} \cup Progress] /\ cursor \in Anchors /\ NULL \in Anchors
  BY DEF JInv, Plain, Anchors
<1>4. /\ sync' \in [Syncs -> {NULL} \cup Progress]
      /\ \A t \in Syncs : \/ sync'[t] = sync[t]
                          \/ \E anchor \in Anchors, limit \in {1, MaxPages} :
                               sync'[t] = NewSync(anchor, limit)
  <2>1. CASE Connect
    <3>1. PICK listed \in Contacts :
            sync' = [t \in Syncs |-> IF t \in listed THEN NewSync(NULL, 1) ELSE sync[t]]
      BY <2>1 DEF Connect
    <3>2. NewSync(NULL, 1) \in Progress
      BY <1>3, NewSyncFacts
    <3> QED BY <1>3, <3>1, <3>2
  <2>2. CASE Query
    <3>1. sync' = [sync EXCEPT !["query"] = NewSync(cursor, MaxPages)]
      BY <2>2 DEF Query
    <3>2. NewSync(cursor, MaxPages) \in Progress
      BY <1>3, NewSyncFacts
    <3> QED BY <1>3, <3>1, <3>2
  <2> QED BY <2>1, <2>2
<1>5. Plain'
  BY <1>1, <1>4 DEF JInv, Plain, status
<1>6. ASSUME NEW t \in Syncs PROVE SyncInv(t)' /\ FetchInv(t)'
  <2>1. FetchInv(t)'
    BY <1>1 DEF FetchInv
  <2>2. CASE sync'[t] = sync[t]
    <3>1. Len(said') \in Nat /\ Len(said) <= Len(said') /\ \A m \in Positions : Fetched(m) => Fetched(m)'
      BY <1>1 DEF JInv, IInv, Types, Fetched, archive
    <3> QED BY <2>1, <2>2, <3>1, StillFetched
  <2>3. ASSUME NEW anchor \in Anchors, NEW limit \in {1, MaxPages}, sync'[t] = NewSync(anchor, limit)
        PROVE  SyncInv(t)'
    <3>1. PICK s \in Progress :
            /\ s = sync'[t] /\ s.pages = 0 /\ s.limit = limit /\ s.anchor = anchor
            /\ s.start = IF anchor = NULL THEN Len(said) ELSE anchor
      BY <2>3, NewSyncFacts
    <3>2. 0 < s.limit
      BY <3>1, BoundsAssumption
    <3>3. Len(said') = Len(said) /\ Len(said) \in Nat
      BY <1>1 DEF JInv, IInv, Types
    <3>4. s.anchor # NULL => (s.anchor + 1)..s.start = {}
      BY <3>1 DEF Anchors
    <3> QED BY <3>1, <3>2, <3>3, <3>4 DEF SyncInv
  <2> QED BY <1>4, <2>1, <2>2, <2>3
<1> QED BY <1>2, <1>5, <1>6 DEF JInv

\* A page arrives: every message on it is to come.
LEMMA PageJ == ASSUME JInv, NEW t \in Syncs, Page(t) \/ CallRaises(t) PROVE JInv'
<1>1. /\ UNCHANGED <<said, phase, boots, inbox, archive, status, sync, handled>> /\ sync[t] # NULL
  BY DEF Page, CallRaises
<1>2. IInv' /\ t \in Kinds
  BY PageInv, CallRaisesInv DEF JInv, Kinds
<1>3. PICK rows \in Seq(Rows), page \in SUBSET Positions :
        /\ Record(t, rows, page) /\ page \in {{}, PageOf(t)}
        /\ \A m \in page : \E i \in DOMAIN rows : rows[i] = <<"backfill", m>>
  <2>1. CASE CallRaises(t)
    <3>1. Record(t, <<>>, {}) /\ <<>> \in Seq(Rows) /\ {} \in SUBSET Positions
      BY <2>1 DEF CallRaises
    <3> QED BY <3>1
  <2>2. CASE Page(t)
    <3>1. PICK lo \in Int, hi \in Int : /\ PageOf(t) = lo..hi /\ 1 <= lo /\ hi <= Len(said)
      BY <1>1, PageFacts
    <3>2. Len(said) \in Nat /\ Len(said) <= MaxMessages /\ MaxMessages \in Nat
      BY BoundsAssumption DEF JInv, IInv, Types, Plain
    <3>3. lo..hi \subseteq Positions
      BY <3>1, <3>2 DEF Positions
    <3>4. CASE lo > hi
      <4>1. PageOf(t) = {} /\ Cardinality(PageOf(t)) = 0
        BY <3>1, <3>4, IntervalFacts
      <4>2. Record(t, <<>>, {}) /\ <<>> \in Seq(Rows) /\ {} \in SUBSET Positions
        BY <2>2, <4>1 DEF Page
      <4> QED BY <4>2
    <3>5. CASE lo <= hi
      <4>1. PICK n \in Nat : n = hi - lo + 1 /\ Cardinality(PageOf(t)) = n
        BY <3>1, <3>5, IntervalFacts
      <4>2. Min(PageOf(t)) = lo
        BY <3>1, <3>5, IntervalFacts
      <4> DEFINE rows == [i \in 1..n |-> <<"backfill", lo + i - 1>>]
      <4>3. Record(t, rows, PageOf(t))
        BY <2>2, <4>1, <4>2 DEF Page
      <4>4. \A i \in 1..n : lo + i - 1 \in Positions
        BY <3>1, <3>2, <4>1 DEF Positions
      <4>5. rows \in Seq(Rows)
        BY <4>4 DEF Rows, Sources
      <4>6. \A m \in lo..hi : m - lo + 1 \in 1..n /\ lo + (m - lo + 1) - 1 = m
        BY <4>1
      <4>7. \A m \in lo..hi : \E i \in DOMAIN rows : rows[i] = <<"backfill", m>>
        BY <4>6
      <4> HIDE DEF rows
      <4> QED BY <3>1, <3>3, <4>3, <4>5, <4>7
    <3> QED BY <3>1, <3>4, <3>5
  <2> QED BY <2>1, <2>2
<1>4. /\ recording' \in Reading /\ recording'.by = t /\ recording'.rest = rows
      /\ recording'.page = page /\ recording'.half = FALSE
  BY <1>2, <1>3, RecordReading
<1>5. Plain'
  BY <1>1, <1>4 DEF JInv, Plain, status
<1>6. ASSUME NEW u \in Syncs PROVE SyncInv(u)' /\ FetchInv(u)'
  <2>1. SyncInv(u)'
    <3>1. Len(said') \in Nat /\ Len(said) <= Len(said') /\ \A m \in Positions : Fetched(m) => Fetched(m)'
      BY <1>1 DEF JInv, IInv, Types, Fetched, archive
    <3> QED BY <1>1, <3>1, StillFetched
  <2>2. PageOf(t)' = PageOf(t)
    BY <1>1 DEF PageOf, Top
  <2>3. FetchInv(u)'
    BY <1>1, <1>3, <1>4, <2>2 DEF FetchInv, ToCome
  <2> QED BY <2>1, <2>3
<1> QED BY <1>2, <1>5, <1>6 DEF JInv

\* After a page the sync has passed it, and goes on below it.
LEMMA EndPageJ == ASSUME JInv, NEW t \in Syncs, EndPage(t) PROVE JInv'
<1>1. recording # NULL /\ recording \in Reading /\ recording.by = t /\ recording.rest = <<>>
  BY DEF EndPage, JInv, Plain
<1>2. PICK page \in SUBSET Positions : page = recording.page
  BY <1>1 DEF Reading
<1>3. FetchInv(t) /\ SyncInv(t)
  BY DEF JInv
<1>4. /\ sync[t] # NULL /\ page \in {{}, PageOf(t)} /\ \A m \in page : Fetched(m)
  <2>1. ~ \E i \in DOMAIN recording.rest : TRUE
    BY <1>1
  <2> QED BY <1>1, <1>2, <1>3, <2>1 DEF FetchInv, ToCome
<1>5. PICK s \in Progress : s = sync[t]
  BY <1>4 DEF JInv, Plain
<1>6. UNCHANGED <<said, phase, boots, inbox, archive, handled>> /\ recording' = NULL /\ IInv
  BY DEF EndPage, JInv
<1>7. IInv'
  <2>1. said' \in Seq({"peer", "bot"}) /\ inbox' \in Seq(Positions)
    BY <1>6 DEF IInv, Types
  <2> QED BY <1>6, <2>1, NothingInv
<1>8. PICK next, ends :
        /\ next = NextAnchor(page) /\ ends \in BOOLEAN
        /\ ends = (Exhausted(page) \/ recording.overlap \/ s.pages + 1 = s.limit)
  OBVIOUS
<1>9. /\ gaps' \subseteq {"pagination_limit", "napcat_error", "provider_history_boundary"}
      /\ IF ends THEN cursor' = next /\ complete' \in BOOLEAN ELSE cursor' = cursor /\ complete' = complete
      /\ sync' = IF ends THEN [sync EXCEPT ![t] = NULL]
                 ELSE [sync EXCEPT ![t] = [s EXCEPT !.anchor = next, !.pages = s.pages + 1]]
  <2>1. gaps' \subseteq {"pagination_limit", "napcat_error", "provider_history_boundary"}
    BY DEF EndPage, Gap, Resolved, JInv, Plain
  <2>2. Exhausted(page) \in BOOLEAN
    BY DEF Exhausted
  <2>3. IF ends THEN UpdateStatus({next}, {Exhausted(page)}) ELSE UpdateStatus({}, {})
    <3>1. ends = (Exhausted(recording.page) \/ recording.overlap \/ sync[t].pages + 1 = sync[t].limit)
      BY <1>2, <1>5, <1>8
    <3>2. IF Exhausted(recording.page) \/ recording.overlap \/ sync[t].pages + 1 = sync[t].limit
          THEN UpdateStatus({NextAnchor(recording.page)}, {Exhausted(recording.page)})
          ELSE UpdateStatus({}, {})
      BY DEF EndPage
    <3> QED BY <1>2, <1>8, <3>1, <3>2
  <2>4. sync' = IF ends THEN [sync EXCEPT ![t] = NULL]
                 ELSE [sync EXCEPT ![t] = [s EXCEPT !.anchor = next, !.pages = s.pages + 1]]
    <3>1. ends = (Exhausted(recording.page) \/ recording.overlap \/ sync[t].pages + 1 = sync[t].limit)
      BY <1>2, <1>5, <1>8
    <3>2. sync' =
            IF Exhausted(recording.page) \/ recording.overlap \/ sync[t].pages + 1 = sync[t].limit
            THEN [sync EXCEPT ![t] = NULL]
            ELSE [sync EXCEPT ![t].anchor = NextAnchor(recording.page), ![t].pages = @ + 1]
      BY DEF EndPage
    <3> QED BY <1>2, <1>5, <1>8, <3>1, <3>2
  <2> QED BY <2>1, <2>2, <2>3, <2>4 DEF UpdateStatus
<1>10. PICK lo \in Int, hi \in Int :
         /\ PageOf(t) = lo..hi /\ 1 <= lo /\ hi <= Len(said) /\ hi <= Top(t) /\ Top(t) \in 0..MaxMessages
         /\ PageSize <= hi - lo + 1 => lo = Top(t) - PageSize + 1 /\ hi = Top(t)
  BY <1>4, PageFacts
<1>11. Len(said) \in Nat /\ Len(said) <= MaxMessages /\ MaxMessages \in Nat /\ PageSize \in Nat /\ 0 < PageSize
  BY BoundsAssumption DEF JInv, IInv, Types, Plain
<1>12. /\ next \in Anchors
       /\ ~ ends => /\ page = lo..hi /\ next = lo - 1 /\ lo = Top(t) - PageSize + 1 /\ hi = Top(t)
                    /\ s.pages + 1 # s.limit /\ next \in Int
  <2>1. CASE page = {}
    <3>1. Cardinality(page) = 0 /\ next = NULL
      BY <1>8, <2>1, FS_EmptySet DEF NextAnchor
    <3>2. ends
      BY <1>8, <1>11, <3>1 DEF Exhausted
    <3> QED BY <3>1, <3>2 DEF Anchors
  <2>2. CASE page # {}
    <3>1. page = lo..hi /\ lo <= hi
      BY <1>4, <1>10, <2>2
    <3>2. Min(page) = lo /\ Cardinality(page) = hi - lo + 1
      BY <3>1, IntervalFacts
    <3>3. next = lo - 1 /\ next \in 0..MaxMessages
      <4>1. next = Min(page) - 1
        BY <1>8, <2>2 DEF NextAnchor
      <4>2. next = lo - 1
        BY <3>2, <4>1
      <4> QED BY <1>10, <1>11, <3>1, <4>2
    <3>4. ~ ends => PageSize <= hi - lo + 1 /\ s.pages + 1 # s.limit
      <4>1. ~ ends => ~ (Cardinality(page) < PageSize) /\ s.pages + 1 # s.limit
        BY <1>8 DEF Exhausted
      <4> QED BY <1>11, <3>2, <4>1
    <3> QED BY <1>10, <3>1, <3>3, <3>4 DEF Anchors
  <2> QED BY <2>1, <2>2
<1>13. s.start \in 0..MaxMessages /\ s.anchor \in Anchors /\ s.pages \in 0..MaxPages /\ s.limit \in {1, MaxPages}
  BY DEF Progress
<1>14. /\ s.pages < s.limit
       /\ s.anchor = NULL => s.pages = 0 /\ s.start <= Len(said)
       /\ s.anchor # NULL => \A m \in (s.anchor + 1)..s.start : Fetched(m)
  BY <1>3, <1>4, <1>5 DEF SyncInv
<1>15. sync \in [Syncs -> {NULL} \cup Progress]
  BY DEF JInv, Plain
<1>16. MaxPages \in Nat /\ MaxPages # 0
  BY BoundsAssumption
<1>17. CASE ends
  <2>1. cursor' \in Anchors /\ complete' \in BOOLEAN
    BY <1>9, <1>12, <1>17
  <2>2. /\ sync' \in [Syncs -> {NULL} \cup Progress] /\ \A u \in Syncs : sync'[u] \in {NULL, sync[u]}
    BY <1>9, <1>15, <1>17
  <2>3. Plain'
    BY <1>6, <1>9, <2>1, <2>2 DEF JInv, Plain
  <2>4. Len(said) <= Len(said') /\ \A n \in Positions : Fetched(n) => Fetched(n)'
    BY <1>6, <1>11 DEF Fetched, archive
  <2> QED BY <1>6, <1>7, <2>2, <2>3, <2>4, OtherSteps
<1>18. CASE ~ ends
  <2>1. PICK q \in Progress : /\ q = [s EXCEPT !.anchor = next, !.pages = s.pages + 1]
                              /\ q.anchor = next /\ q.start = s.start /\ q.limit = s.limit
                              /\ q.pages = s.pages + 1
    <3> DEFINE q == [s EXCEPT !.anchor = next, !.pages = s.pages + 1]
    <3>1. s.pages + 1 \in 0..MaxPages
      BY <1>12, <1>13, <1>14, <1>18, <1>16
    <3>2. /\ q \in Progress /\ q.anchor = next /\ q.start = s.start /\ q.limit = s.limit
          /\ q.pages = s.pages + 1
      BY <1>12, <3>1 DEF Progress
    <3> QED BY <3>2
  <2>2. /\ sync' \in [Syncs -> {NULL} \cup Progress] /\ sync'[t] = q
        /\ \A u \in Syncs : u # t => sync'[u] = sync[u]
    BY <1>9, <1>15, <1>18, <2>1
  <2>3. Plain'
    BY <1>6, <1>9, <1>18, <2>2 DEF JInv, Plain
  <2>4. \A n \in Positions : Fetched(n) => Fetched(n)'
    BY <1>6 DEF Fetched, archive
  <2>5. SyncInv(t)'
    <3>1. q.pages < q.limit
      BY <1>12, <1>13, <1>14, <1>18, <1>16, <2>1
    <3>2. q.anchor # NULL
      BY <1>12, <1>18, <2>1, NullAssumption
    <3>3. ASSUME NEW m \in (q.anchor + 1)..q.start PROVE Fetched(m)
      <4>1. lo <= m /\ m <= s.start /\ m \in Int /\ 1 <= m
        BY <1>10, <1>12, <1>13, <1>18, <2>1
      <4>2. CASE m <= hi
        BY <1>4, <1>12, <1>18, <4>1, <4>2
      <4>3. CASE hi < m
        <5>1. s.anchor # NULL
          <6>1. SUFFICES ASSUME s.anchor = NULL PROVE FALSE
            OBVIOUS
          <6>2. Top(t) = Len(said)
            BY <1>5, <6>1 DEF Top
          <6> QED BY <1>11, <1>12, <1>13, <1>14, <1>18, <4>1, <4>3, <6>1, <6>2
        <5>2. Top(t) = s.anchor
          BY <1>5, <5>1 DEF Top
        <5>3. m \in (s.anchor + 1)..s.start
          BY <1>10, <1>12, <1>13, <1>18, <4>1, <4>3, <5>2
        <5> QED BY <1>14, <5>1, <5>3
      <4> QED BY <4>1, <4>2, <4>3
    <3>4. (q.anchor + 1)..q.start \subseteq Positions
      BY <1>10, <1>11, <1>12, <1>13, <1>18, <2>1 DEF Positions
    <3> QED BY <2>2, <2>4, <3>1, <3>2, <3>3, <3>4 DEF SyncInv
  <2>6. ASSUME NEW u \in Syncs PROVE SyncInv(u)' /\ FetchInv(u)'
    <3>1. FetchInv(u)'
      BY <1>6 DEF FetchInv
    <3>2. CASE u = t
      BY <2>5, <3>1, <3>2
    <3>3. CASE u # t
      <4>1. Len(said') \in Nat /\ Len(said) <= Len(said')
        BY <1>6, <1>11
      <4> QED BY <2>2, <2>4, <3>1, <3>3, <4>1, StillFetched
    <3> QED BY <3>2, <3>3
  <2> QED BY <1>7, <2>3, <2>6 DEF JInv
<1> QED BY <1>8, <1>17, <1>18

LEMMA InitJ == ASSUME Init PROVE JInv
<1>1. IInv
  BY InitInv
<1>2. Plain
  <2>1. MaxMessages \in Nat /\ MaxBoots \in Nat /\ Len(said) = 0
    BY BoundsAssumption DEF Init
  <2>2. sync \in [Syncs -> {NULL} \cup Progress]
    BY DEF Init
  <2>3. cursor \in Anchors /\ complete \in BOOLEAN
    BY DEF Init, Anchors
  <2>4. boots \in 0..MaxBoots /\ phase = "down" /\ gaps = {} /\ recording = NULL
    BY <2>1 DEF Init
  <2> QED BY <2>1, <2>2, <2>3, <2>4 DEF Plain
<1>3. \A t \in Syncs : SyncInv(t) /\ FetchInv(t)
  BY DEF Init, SyncInv, FetchInv
<1> QED BY <1>1, <1>2, <1>3 DEF JInv

LEMMA NextJ == ASSUME JInv, [Next]_vars PROVE JInv'
<1>1. IInv'
  BY NextInv DEF JInv
<1>2. CASE Journal \/ Project \/ ProjectFails
  BY <1>2, JournalJ, ProjectJ, ProjectFailsJ
<1>3. CASE Crash \/ Replayed \/ Sent \/ Listen \/ Disconnect \/ Discard \/ Dispatch
  BY <1>1, <1>3, QuietJ
<1>4. CASE Boot \/ Connect \/ Say \/ Send \/ Receive \/ Query
  BY <1>4, BootJ, BeginsJ, SayJ, SendJ, ReceiveJ
<1>5. ASSUME NEW t \in Syncs, Page(t) \/ PageFails(t) \/ CallRaises(t) \/ EndPage(t) PROVE JInv'
  BY <1>1, <1>5, PageJ, QuietJ, EndPageJ
<1>6. CASE UNCHANGED vars
  <2>1. Plain' /\ \A t \in Syncs : SyncInv(t)' /\ FetchInv(t)'
    BY <1>6 DEF vars, JInv, Plain, SyncInv, FetchInv, Fetched, ToCome, PageOf, Top, Row
  <2> QED BY <1>1, <2>1 DEF JInv
<1> QED BY <1>2, <1>3, <1>4, <1>5, <1>6 DEF Next

LEMMA SpecJ == Spec => []JInv
<1>1. Init => JInv
  BY InitJ
<1>2. JInv /\ [Next]_vars => JInv'
  BY NextJ
<1> QED BY <1>1, <1>2, PTL DEF Spec

\* MessageStore, HistoryService and Bot: tables, locals and what is left to
\* record keep their types.
THEOREM JournalTypeCorrect == Spec => []TypeOK
<1>1. JInv => TypeOK
  <2> SUFFICES ASSUME JInv PROVE TypeOK
    OBVIOUS
  <2>1. IInv /\ Types /\ Plain
    BY DEF JInv, IInv
  <2>2. said \in UNION {[1..n -> {"peer", "bot"}] : n \in 0..MaxMessages}
    <3>1. PICK n \in 0..MaxMessages : n = Len(said)
      BY <2>1, BoundsAssumption DEF Types, Plain
    <3>2. said \in [1..n -> {"peer", "bot"}]
      BY <2>1, <3>1 DEF Types
    <3> QED BY <3>2
  <2>3. recording = NULL \/ recording \in Reading
    BY <2>1 DEF Plain
  <2> QED BY <2>1, <2>2, <2>3 DEF TypeOK, Types, Plain, Reading, Kinds, JInv, IInv
<1> QED BY <1>1, SpecJ, PTL

\* HistoryService.sync_conversation: whatever is said, sent, received and
\* replayed between its pages, all that a sync has passed is journaled.
THEOREM PagesAreGapless == Spec => []PagesLeaveNothingOut
<1>1. JInv => PagesLeaveNothingOut
  <2> SUFFICES ASSUME JInv, NEW t \in Syncs, sync[t] # NULL, sync[t].pages > 0,
                      NEW m \in (sync[t].anchor + 1)..sync[t].start
               PROVE  journal[<<"backfill", m>>] # "none"
    BY DEF PagesLeaveNothingOut
  <2>1. SyncInv(t)
    BY DEF JInv
  <2>2. sync[t].anchor # NULL
    BY <2>1 DEF SyncInv
  <2> QED BY <2>1, <2>2 DEF SyncInv, Fetched
<1> QED BY <1>1, SpecJ, PTL

-----------------------------------------------------------------------------
\* The promise of the archive: a third invariant, and each step as one of
\* MessageArchive.

\* Events come in the order of the conversation; what plugins have is before
\* what is still to come, also over crashes and lost connections.
OrderInv ==
  /\ \A i, j \in DOMAIN inbox : i < j => inbox[i] < inbox[j]
  /\ \A i \in DOMAIN inbox : inbox[i] <= Len(said)
  /\ \A h \in handled : h <= Len(said) /\ \A i \in DOMAIN inbox : h < inbox[i]

\* The event under way is between the two, and its row is projected when
\* nothing of it is left.
EventInv ==
  recording # NULL /\ recording.by = "live" =>
    \A m \in recording.page :
      /\ m <= Len(said)
      /\ \A h \in handled : h < m
      /\ \A i \in DOMAIN inbox : m < inbox[i]
      /\ recording.rest = <<>> => journal[<<"live", m>>] = "projected"

\* The two tables say the same, and the second commit comes after the first.
JoinInv == \A m \in Positions : messages[m] # NULL => segments[m] = messages[m].array
HalfInv == recording # NULL /\ recording.half => journal[Row] # "none"

AInv == OrderInv /\ EventInv /\ JoinInv /\ HalfInv

\* Events that are lost or taken leave the others in their order.
LEMMA TailOrder ==
  ASSUME IInv, OrderInv, inbox # <<>>
  PROVE  /\ Head(inbox) \in Positions /\ Head(inbox) = inbox[1] /\ 1 \in DOMAIN inbox
         /\ \A i \in DOMAIN Tail(inbox) :
              /\ i + 1 \in DOMAIN inbox /\ Tail(inbox)[i] = inbox[i + 1]
              /\ Head(inbox) < Tail(inbox)[i]
<1>1. inbox \in Seq(Positions)
  BY DEF IInv, Types
<1>2. PICK n \in Nat : n = Len(inbox) /\ n # 0 /\ DOMAIN inbox = 1..n
  BY <1>1, EmptySeq
<1>3. /\ Head(inbox) = inbox[1] /\ inbox[1] \in Positions /\ 1 \in DOMAIN inbox
      /\ DOMAIN Tail(inbox) = 1..(n - 1) /\ \A i \in 1..(n - 1) : Tail(inbox)[i] = inbox[i + 1]
  BY <1>1, <1>2
<1>4. ASSUME NEW i \in 1..(n - 1) PROVE i + 1 \in DOMAIN inbox /\ 1 < i + 1
  BY <1>2
<1> QED BY <1>3, <1>4 DEF OrderInv

\* Some events may be gone.
LEMMA FewerEvents ==
  ASSUME IInv, OrderInv, UNCHANGED <<said, handled>>,
         inbox' \in {inbox, <<>>} \/ (inbox # <<>> /\ inbox' = Tail(inbox))
  PROVE  /\ OrderInv'
         /\ \A i \in DOMAIN inbox' : \E j \in DOMAIN inbox : inbox'[i] = inbox[j]
<1>1. CASE inbox' = inbox
  BY <1>1 DEF OrderInv
<1>2. CASE inbox' = <<>>
  <2>1. DOMAIN inbox' = {}
    BY <1>2
  <2> QED BY <2>1 DEF OrderInv
<1>3. CASE inbox # <<>> /\ inbox' = Tail(inbox)
  <2>1. \A i \in DOMAIN inbox' : i + 1 \in DOMAIN inbox /\ inbox'[i] = inbox[i + 1]
    BY <1>3, TailOrder
  <2>2. DOMAIN inbox' \subseteq Int
    <3>1. inbox' \in Seq(Positions)
      BY <1>3 DEF IInv, Types
    <3> QED BY <3>1
  <2>3. \A i, j \in DOMAIN inbox' : i < j => i + 1 < j + 1
    BY <2>2
  <2> QED BY <2>1, <2>3 DEF OrderInv
<1> QED BY <1>1, <1>2, <1>3

\* The archive and what plugins have stay as they are; nothing is recorded any
\* more, or as before, or something begins that no event is about.
LEMMA OtherA ==
  ASSUME JInv, AInv, UNCHANGED <<archive, said, handled>>,
         inbox' \in {inbox, <<>>} \/ (inbox # <<>> /\ inbox' = Tail(inbox)),
         \/ recording' \in {NULL, recording}
         \/ (recording'.half = FALSE /\ recording'.by # "live")
  PROVE  AInv'
<1>1. /\ OrderInv'
      /\ \A i \in DOMAIN inbox' : \E j \in DOMAIN inbox : inbox'[i] = inbox[j]
  BY FewerEvents DEF JInv, AInv
<1>2. JoinInv'
  BY DEF AInv, JoinInv, archive
<1>3. HalfInv'
  BY DEF AInv, HalfInv, archive, Row
<1>4. EventInv'
  BY <1>1 DEF AInv, EventInv, archive
<1> QED BY <1>1, <1>2, <1>3, <1>4 DEF AInv

\* A message is said; the client may yield it later.
LEMMA SaidA ==
  ASSUME JInv, AInv, UNCHANGED <<archive, handled>>,
         Len(said) < MaxMessages, NEW author \in {"peer", "bot"}, said' = Append(said, author),
         inbox' = inbox \/ inbox' = Append(inbox, Len(said')),
         recording' # NULL => recording'.half = FALSE /\ recording'.by # "live"
  PROVE  AInv'
<1>1. /\ Len(said) \in Nat /\ Len(said') = Len(said) + 1 /\ inbox \in Seq(Positions)
      /\ handled \subseteq Positions
  BY DEF JInv, IInv, Types
<1>2. PICK n \in Nat : n = Len(inbox) /\ DOMAIN inbox = 1..n
  BY <1>1
<1>3. DOMAIN inbox \subseteq DOMAIN inbox' /\ \A i \in DOMAIN inbox : inbox'[i] = inbox[i]
  BY <1>1, <1>2
<1>4. \A i \in DOMAIN inbox' \ DOMAIN inbox : i = n + 1 /\ inbox'[i] = Len(said')
  BY <1>1, <1>2
<1>5. \A i \in DOMAIN inbox : inbox[i] \in Int /\ inbox[i] <= Len(said)
  <2>1. \A i \in DOMAIN inbox : inbox[i] \in Positions
    BY <1>1, <1>2
  <2> QED BY <2>1 DEF AInv, OrderInv, Positions
<1>6. \A h \in handled : h \in Int /\ h <= Len(said)
  BY <1>1 DEF AInv, OrderInv, Positions
<1>7. OrderInv'
  <2>1. ASSUME NEW i \in DOMAIN inbox', NEW j \in DOMAIN inbox', i < j
        PROVE  inbox'[i] < inbox'[j]
    <3>1. CASE i \in DOMAIN inbox /\ j \in DOMAIN inbox
      BY <1>3, <2>1, <3>1 DEF AInv, OrderInv
    <3>2. CASE i \in DOMAIN inbox /\ j \notin DOMAIN inbox
      BY <1>1, <1>3, <1>4, <1>5, <3>2
    <3>3. CASE i \notin DOMAIN inbox
      BY <1>2, <1>4, <2>1, <3>3
    <3> QED BY <3>1, <3>2, <3>3
  <2>2. ASSUME NEW i \in DOMAIN inbox'
        PROVE  inbox'[i] <= Len(said') /\ \A h \in handled : h < inbox'[i]
    <3>1. CASE i \in DOMAIN inbox
      BY <1>1, <1>3, <1>5, <3>1 DEF AInv, OrderInv
    <3>2. CASE i \notin DOMAIN inbox
      BY <1>1, <1>4, <1>6, <3>2
    <3> QED BY <3>1, <3>2
  <2>3. \A h \in handled : h <= Len(said')
    BY <1>1, <1>6
  <2> QED BY <2>1, <2>2, <2>3 DEF OrderInv
<1>8. JoinInv' /\ HalfInv' /\ EventInv'
  BY DEF AInv, JoinInv, HalfInv, EventInv, archive
<1> QED BY <1>7, <1>8 DEF AInv

\* The event is after what plugins have and before what is still to come.
LEMMA ReceiveA == ASSUME JInv, AInv, Receive PROVE AInv'
<1> DEFINE m == Head(inbox)
<1>1. UNCHANGED <<said, archive, handled>> /\ inbox # <<>> /\ inbox' = Tail(inbox)
      /\ Record("live", <<<<"live", m>>>>, {m})
  BY DEF Receive
<1>2. OrderInv'
  BY <1>1, FewerEvents DEF JInv, AInv
<1>3. /\ m = inbox[1] /\ 1 \in DOMAIN inbox
      /\ \A i \in DOMAIN inbox' : m < inbox'[i]
  BY <1>1, TailOrder DEF JInv, AInv
<1>4. m <= Len(said) /\ \A h \in handled : h < m
  BY <1>3 DEF AInv, OrderInv
<1> HIDE DEF m
<1>5. /\ recording'.page = {m} /\ recording'.rest = <<<<"live", m>>>> /\ recording'.half = FALSE
  BY <1>1 DEF Record
<1>6. EventInv' /\ HalfInv'
  BY <1>1, <1>3, <1>4, <1>5 DEF EventInv, HalfInv
<1>7. JoinInv'
  BY <1>1 DEF AInv, JoinInv, archive
<1> QED BY <1>2, <1>6, <1>7 DEF AInv

\* What the archive is for a step that leaves its tables alone.
LEMMA SameArchive ==
  ASSUME UNCHANGED <<archive, handled>>
  PROVE  UNCHANGED Archive!vars
  BY DEF archive, Archive!vars, Shown

\* Plugins get the message: it is projected and comes after all they have.
LEMMA DispatchA ==
  ASSUME JInv, AInv, Dispatch
  PROVE  AInv' /\ Archive!Next
<1>1. PICK m \in Positions : recording.page = {m} /\ StoredLive(m)
  BY DEF JInv, IInv, LiveInv, Dispatch
<1>2. /\ handled' = handled \cup {m} /\ recording' = NULL
      /\ UNCHANGED <<said, inbox, journal, messages, segments>>
  BY <1>1 DEF Dispatch, archive
<1>3. /\ m <= Len(said) /\ journal[<<"live", m>>] = "projected"
      /\ \A h \in handled : h < m
      /\ \A i \in DOMAIN inbox : m < inbox[i]
  BY <1>1 DEF AInv, EventInv, Dispatch
<1>4. OrderInv'
  BY <1>2, <1>3 DEF AInv, OrderInv
<1>5. EventInv' /\ JoinInv' /\ HalfInv'
  BY <1>2 DEF AInv, EventInv, JoinInv, HalfInv
<1>6. Archive!Deliver(m)
  <2>1. <<"live", m>> \in Rows
    BY DEF Rows, Sources
  <2> QED BY <1>2, <1>3, <2>1 DEF Archive!Deliver, Shown
<1>7. Archive!Next
  BY <1>6 DEF Archive!Next
<1> QED BY <1>4, <1>5, <1>7 DEF AInv

\* The first commit: the row is accepted.
LEMMA JournalA ==
  ASSUME JInv, AInv, Journal
  PROVE  AInv' /\ Archive!Next
<1>1. recording \in Reading /\ recording.rest # <<>> /\ recording.rest \in Seq(Rows)
  BY DEF JInv, Plain, Journal, Reading
<1>2. Row \in Rows /\ journal \in [Rows -> {"none", "pending", "projected"}]
  BY <1>1 DEF Row, JInv, IInv, Types
<1>3. PICK s \in Sources, m \in Positions : Row = <<s, m>>
  BY <1>2 DEF Rows
<1>4. /\ journal' \in [Rows -> {"none", "pending", "projected"}] /\ journal'[<<s, m>>] # "none"
      /\ \A r \in Rows : journal'[r] # "none" <=> journal[r] # "none" \/ r = <<s, m>>
      /\ \A r \in Rows : journal'[r] = "projected" <=> journal[r] = "projected"
  BY <1>2, <1>3 DEF Journal
<1>5. /\ UNCHANGED <<said, inbox, messages, segments, handled>>
      /\ recording'.by = recording.by /\ recording'.rest = recording.rest
      /\ recording'.page = recording.page
  BY <1>1 DEF Journal, Reading
<1>6. OrderInv' /\ JoinInv'
  BY <1>5 DEF AInv, OrderInv, JoinInv
<1>7. EventInv'
  BY <1>1, <1>5 DEF AInv, EventInv, Journal
<1>8. HalfInv'
  BY <1>3, <1>4, <1>5 DEF HalfInv, Row
<1>9. Archive!Accept(s, m)
  <2>1. {r \in Rows : journal'[r] # "none"} = {r \in Rows : journal[r] # "none"} \cup {<<s, m>>}
    BY <1>2, <1>3, <1>4
  <2>2. {r \in Rows : journal'[r] = "projected"} = {r \in Rows : journal[r] = "projected"}
    BY <1>4
  <2> QED BY <1>5, <2>1, <2>2 DEF Archive!Accept, Shown
<1>10. Archive!Next
  BY <1>9 DEF Archive!Next, Sources
<1> QED BY <1>6, <1>7, <1>8, <1>10 DEF AInv

\* The upsert only completes what is stored.
LEMMA MergedCompletes ==
  ASSUME NEW old \in {NULL} \cup Message, NEW r \in Rows
  PROVE  /\ Archive!Completes(old, Merged(old, r))
         /\ Archive!Holds(Merged(old, r), r[1])
<1>1. Carried(r) \in {"empty", "live", "history"} /\ (r[1] = "live" => Carried(r) = "live")
  BY DEF Carried, Normalized
<1>2. CASE old = NULL
  BY <1>1, <1>2 DEF Merged, Archive!Completes, Archive!Holds
<1>3. CASE old # NULL
  <2>1. old \in Message
    BY <1>3
  <2> QED BY <1>1, <1>3, <2>1 DEF Merged, Message, Archive!Completes, Archive!Holds
<1> QED BY <1>2, <1>3

\* The second commit: what is stored is completed in both tables at once.
LEMMA ProjectA ==
  ASSUME JInv, AInv, Project
  PROVE  AInv' /\ Archive!Next
<1>1. recording \in Reading /\ recording.rest # <<>> /\ recording.rest \in Seq(Rows)
  BY DEF JInv, IInv, LiveInv, Plain, Project, Reading
<1>2. Row \in Rows /\ journal \in [Rows -> {"none", "pending", "projected"}]
  BY <1>1 DEF Row, JInv, IInv, Types
<1>3. PICK s \in Sources, m \in Positions : Row = <<s, m>>
  BY <1>2 DEF Rows
<1> DEFINE new == Merged(messages[m], Row)
<1>4. /\ messages \in [Positions -> {NULL} \cup Message] /\ messages[m] \in {NULL} \cup Message
      /\ segments \in [Positions -> {"none", "empty", "live", "history"}]
  BY DEF JInv, IInv, Types
<1>5. new \in Message /\ Archive!Completes(messages[m], new) /\ Archive!Holds(new, s)
  BY <1>2, <1>3, <1>4, MergedFacts, MergedCompletes
<1>6. /\ messages' = [messages EXCEPT ![m] = new]
      /\ segments' = [segments EXCEPT ![m] = new.array]
      /\ journal' = [journal EXCEPT ![<<s, m>>] = "projected"]
  BY <1>3 DEF Project, Marked, SegmentsOf
<1> HIDE DEF new
<1>7. /\ messages'[m] = new /\ segments'[m] = new.array
      /\ \A n \in Positions \ {m} : messages'[n] = messages[n] /\ segments'[n] = segments[n]
  BY <1>4, <1>6
<1>8. journal[<<s, m>>] # "none"
  BY <1>3 DEF AInv, HalfInv, Project
<1>9. \A r \in Rows : /\ journal'[r] # "none" <=> journal[r] # "none"
                      /\ journal'[r] = "projected" <=> journal[r] = "projected" \/ r = <<s, m>>
  BY <1>2, <1>3, <1>6, <1>8
<1>10. /\ UNCHANGED <<said, inbox, handled>>
       /\ recording'.by = recording.by /\ recording'.page = recording.page
       /\ recording'.half = FALSE /\ recording'.rest = Tail(recording.rest)
  <2>1. CASE recording.by \in Syncs
    <3> DEFINE o == recording.overlap \/ Row[2] \in sync[recording.by].local
    <3>1. recording' = [recording EXCEPT !.rest = Tail(@), !.half = FALSE, !.overlap = o]
      BY <2>1 DEF Project
    <3> HIDE DEF o
    <3> QED BY <1>1, <3>1 DEF Project, Reading
  <2>2. CASE recording.by \notin Syncs
    BY <1>1, <2>2 DEF Project, Reading
  <2> QED BY <2>1, <2>2
<1>11. OrderInv' /\ HalfInv'
  BY <1>10 DEF AInv, OrderInv, HalfInv
<1>12. JoinInv'
  BY <1>7 DEF AInv, JoinInv
<1>13. EventInv'
  <2> SUFFICES ASSUME recording.by = "live", NEW n \in recording.page
               PROVE  /\ n <= Len(said)
                      /\ \A h \in handled : h < n
                      /\ \A i \in DOMAIN inbox : n < inbox[i]
                      /\ journal'[<<"live", n>>] = "projected"
    BY <1>10 DEF EventInv
  <2>1. n \in Positions /\ recording.rest = <<<<"live", n>>>>
    BY <1>1 DEF JInv, IInv, LiveInv, Project
  <2>2. Row = <<"live", n>> /\ Row \in Rows
    BY <1>2, <2>1 DEF Row
  <2>3. journal'[<<"live", n>>] = "projected"
    BY <1>3, <1>9, <2>2
  <2> QED BY <2>3 DEF AInv, EventInv, Project
<1>14. [n \in Positions |-> Shown(n)'] = [[n \in Positions |-> Shown(n)] EXCEPT ![m] = new]
  <2>1. ASSUME NEW n \in Positions, n # m PROVE Shown(n)' = Shown(n)
    BY <1>7, <2>1 DEF Shown
  <2>2. Shown(m)' = new
    <3>1. new # NULL /\ [new EXCEPT !.array = new.array] = new
      BY <1>5, NullAssumption DEF Message
    <3> QED BY <1>7, <3>1 DEF Shown
  <2> QED BY <2>1, <2>2
<1>15. Shown(m) = messages[m]
  <2>1. CASE messages[m] = NULL
    BY <2>1 DEF Shown
  <2>2. CASE messages[m] # NULL
    <3>1. messages[m] \in Message /\ segments[m] = messages[m].array
      BY <1>4, <2>2 DEF AInv, JoinInv
    <3>2. [messages[m] EXCEPT !.array = messages[m].array] = messages[m]
      BY <3>1 DEF Message
    <3> QED BY <2>2, <3>1, <3>2 DEF Shown
  <2> QED BY <2>1, <2>2
<1>16. Archive!Store(s, m)
  <2>1. <<s, m>> \in {r \in Rows : journal[r] # "none"}
    BY <1>2, <1>3, <1>8
  <2>2. {r \in Rows : journal'[r] # "none"} = {r \in Rows : journal[r] # "none"}
    BY <1>9
  <2>3. {r \in Rows : journal'[r] = "projected"}
          = {r \in Rows : journal[r] = "projected"} \cup {<<s, m>>}
    BY <1>2, <1>3, <1>9
  <2>4. [n \in Positions |-> Shown(n)][m] = messages[m]
    BY <1>15
  <2> QED BY <1>5, <1>10, <1>14, <2>1, <2>2, <2>3, <2>4 DEF Archive!Store
<1>17. Archive!Next
  BY <1>16 DEF Archive!Next, Sources
<1> QED BY <1>11, <1>12, <1>13, <1>17 DEF AInv

\* Every step keeps the invariant and is one of the archive or none.
LEMMA NextA ==
  ASSUME JInv, AInv, [Next]_vars
  PROVE  AInv' /\ [Archive!Next]_(Archive!vars)
<1>1. CASE Journal \/ Project \/ Dispatch
  BY <1>1, JournalA, ProjectA, DispatchA
<1>2. CASE Say \/ Send
  <2>1. UNCHANGED <<archive, handled>> /\ Len(said) < MaxMessages
    BY <1>2 DEF Say, Send
  <2>2. PICK author \in {"peer", "bot"} : said' = Append(said, author)
    BY <1>2 DEF Say, Send
  <2>3. inbox' = inbox \/ inbox' = Append(inbox, Len(said'))
    BY <1>2 DEF Say, Send
  <2>4. recording' # NULL => recording'.half = FALSE /\ recording'.by # "live"
    BY <1>2 DEF Say, Send, Awaiting, Record
  <2> QED BY <2>1, <2>2, <2>3, <2>4, SaidA, SameArchive
<1>3. CASE Receive
  BY <1>3, ReceiveA, SameArchive DEF Receive
<1>4. CASE ProjectFails
  <2>1. recording \in Reading
    BY <1>4 DEF JInv, Plain, ProjectFails
  <2>2. recording' = NULL \/ (recording'.half = FALSE /\ recording'.by # "live")
    BY <1>4, <2>1 DEF ProjectFails, Raised, Reading
  <2> QED BY <1>4, <2>2, OtherA, SameArchive DEF ProjectFails
<1>5. CASE Crash \/ Replayed \/ Connect \/ Listen \/ Disconnect \/ Sent \/ Discard \/ Query
  <2>1. /\ UNCHANGED <<archive, said, handled>> /\ recording' \in {NULL, recording}
        /\ inbox' \in {inbox, <<>>} \/ (inbox # <<>> /\ inbox' = Tail(inbox))
    BY <1>5 DEF Crash, Replayed, Connect, Listen, Disconnect, Sent, Discard, Query
  <2> QED BY <2>1, OtherA, SameArchive
<1>6. CASE Boot
  <2>1. /\ UNCHANGED <<archive, said, handled>> /\ inbox' = inbox
        /\ recording'.half = FALSE /\ recording'.by # "live"
    BY <1>6 DEF Boot, Record
  <2> QED BY <2>1, OtherA, SameArchive
<1>7. ASSUME NEW t \in Syncs, Page(t) \/ PageFails(t) \/ CallRaises(t) \/ EndPage(t)
      PROVE  AInv' /\ [Archive!Next]_(Archive!vars)
  <2>1. /\ UNCHANGED <<archive, said, handled>> /\ inbox' = inbox
    BY <1>7 DEF Page, PageFails, CallRaises, EndPage
  <2>2. \/ recording' \in {NULL, recording}
        \/ (recording'.half = FALSE /\ recording'.by # "live")
    BY <1>7 DEF Page, PageFails, CallRaises, EndPage, Record, Syncs
  <2> QED BY <2>1, <2>2, OtherA, SameArchive
<1>8. CASE UNCHANGED vars
  BY <1>8, OtherA, SameArchive DEF vars, archive
<1> QED BY <1>1, <1>2, <1>3, <1>4, <1>5, <1>6, <1>7, <1>8 DEF Next

LEMMA InitA == Init => AInv /\ Archive!Init
<1> SUFFICES ASSUME Init PROVE AInv /\ Archive!Init
  OBVIOUS
<1>1. AInv
  <2>1. DOMAIN inbox = {} /\ handled = {} /\ recording = NULL
    BY DEF Init
  <2>2. JoinInv
    BY DEF Init, JoinInv
  <2> QED BY <2>1, <2>2 DEF AInv, OrderInv, EventInv, HalfInv
<1>2. Archive!Init
  <2>1. \A r \in Rows : journal[r] = "none"
    BY DEF Init
  <2>2. [m \in Positions |-> Shown(m)] = [m \in Positions |-> NULL]
    BY DEF Init, Shown
  <2> QED BY <2>1, <2>2 DEF Archive!Init, Init
<1> QED BY <1>1, <1>2

\* MessageStore, EventBus and Bot: with their commits, replays, pages, failures
\* and crashes they implement an archive that only completes what it has, and
\* hands each message on at most once, in order, and after its commit.
THEOREM JournalImplementsArchive == Spec => ImplementsArchive
<1>1. JInv /\ AInv /\ [Next]_vars => AInv' /\ [Archive!Next]_(Archive!vars)
  BY NextA
<1> QED BY <1>1, InitA, SpecJ, PTL DEF Spec, ImplementsArchive, Archive!Spec

-----------------------------------------------------------------------------
(***************************************************************************)
(* The resources of the messages: proofs about Artifacts, for any sets of  *)
(* artifacts, contents and coroutines and any number of crashes.           *)
(***************************************************************************)
CONSTANTS Tasks, MaxCrashes
VARIABLES segment, task, crashes

Fetches == INSTANCE Artifacts

FetchLocals == [of: Artifacts, at: {"resolve", "download", "import", "upload"}, sends: BOOLEAN,
                path: Blobs \cup {Absent}]

\* What a coroutine is about to rely on is on disk: before the row is updated
\* the file has its name, and a path handed to send() names a file for good.
FetchingInv ==
  \A t \in Tasks : task[t] # Absent =>
    /\ row[task[t].of] \in ArtifactRows
    /\ task[t].at = "import" => Content[task[t].of] \in disk
    /\ task[t].at = "upload" => task[t].path \in disk

FetchTypes ==
  /\ row \in [Artifacts -> {Absent} \cup ArtifactRows]
  /\ task \in [Tasks -> {Absent} \cup FetchLocals]

FetchesInv == FetchTypes /\ PathsAreOnDisk /\ FetchingInv

LEMMA FetchesInit == Fetches!Init => FetchesInv
  BY DEF Fetches!Init, FetchesInv, FetchTypes, PathsAreOnDisk, FetchingInv

LEMMA ContentIsBlob == \A a \in Artifacts : Content[a] \in Blobs
  BY DEF Blobs

\* A message is recorded: a new row has no path.
LEMMA DiscoverR ==
  ASSUME FetchesInv, NEW a \in Artifacts, Fetches!Discover(a), UNCHANGED <<disk, uploads>>,
         task' = task \/ task' = [t \in Tasks |-> Absent]
  PROVE  FetchesInv'
<1>1. row' \in [Artifacts -> {Absent} \cup ArtifactRows]
  BY DEF FetchesInv, FetchTypes, Fetches!Discover, ArtifactRows, Statuses
<1>2. \A b \in Artifacts : row'[b] = row[b] \/ row'[b] = [status |-> "discovered", path |-> Absent]
  BY DEF FetchesInv, FetchTypes, Fetches!Discover
<1>3. \A b \in Artifacts : row[b] \in ArtifactRows => row'[b] \in ArtifactRows
  BY <1>2 DEF ArtifactRows, Statuses
<1>4. FetchTypes'
  BY <1>1 DEF FetchesInv, FetchTypes
<1>5. PathsAreOnDisk'
  BY <1>2 DEF FetchesInv, PathsAreOnDisk
<1>6. FetchingInv'
  BY <1>3, <1>4 DEF FetchesInv, FetchTypes, FetchingInv, FetchLocals
<1> QED
  BY <1>4, <1>5, <1>6 DEF FetchesInv

\* A status changes and the path stays.
LEMMA StatusR ==
  ASSUME FetchesInv, NEW a \in Artifacts, NEW s \in Statuses,
         row[a] \in ArtifactRows, Fetches!Status(a, s)
  PROVE  /\ row' \in [Artifacts -> {Absent} \cup ArtifactRows]
         /\ \A b \in Artifacts : row[b] \in ArtifactRows => row'[b] \in ArtifactRows
         /\ \A b \in Artifacts : row'[b] # Absent => row[b] # Absent /\ row'[b].path = row[b].path
<1>1. row' = [row EXCEPT ![a] = [row[a] EXCEPT !.status = s]]
  BY DEF Fetches!Status
<1>2. /\ [row[a] EXCEPT !.status = s] \in ArtifactRows
      /\ [row[a] EXCEPT !.status = s].path = row[a].path
  BY DEF ArtifactRows
<1>3. row[a] # Absent
  BY AbsentAssumption
<1> HIDE DEF ArtifactRows
<1> QED
  BY <1>1, <1>2, <1>3 DEF FetchesInv, FetchTypes

LEMMA MaterializeR ==
  ASSUME FetchesInv, NEW t \in Tasks, NEW a \in Artifacts, NEW sends \in BOOLEAN,
         Fetches!Materialize(t, a, sends)
  PROVE  FetchesInv'
<1>1. row[a] \in ArtifactRows
  BY DEF FetchesInv, FetchTypes, Fetches!Materialize
<1>2. CASE Fetches!Available(t, a, sends)
  <2>1. row[a].path \in disk /\ row[a].path \in Blobs \cup {Absent}
    BY <1>1, <1>2 DEF FetchesInv, PathsAreOnDisk, Fetches!Available, ArtifactRows,
                      Fetches!Materialize
  <2>2. [of |-> a, at |-> "upload", sends |-> TRUE, path |-> row[a].path] \in FetchLocals
    BY <2>1 DEF FetchLocals
  <2>3. FetchTypes'
    BY <1>2, <2>2 DEF FetchesInv, FetchTypes, Fetches!Available, Fetches!Set
  <2>4. PathsAreOnDisk'
    BY <1>2 DEF FetchesInv, PathsAreOnDisk, Fetches!Available, Fetches!Materialize
  <2>5. FetchingInv'
    BY <1>1, <1>2, <2>1 DEF FetchesInv, FetchTypes, FetchingInv, Fetches!Available, Fetches!Set,
                            Fetches!Materialize
  <2> QED
    BY <2>3, <2>4, <2>5 DEF FetchesInv
<1>3. CASE Fetches!Fetch(t, a, sends)
  <2> "materializing" \in Statuses
    BY DEF Statuses
  <2>1. /\ row' \in [Artifacts -> {Absent} \cup ArtifactRows]
        /\ \A b \in Artifacts : row[b] \in ArtifactRows => row'[b] \in ArtifactRows
        /\ \A b \in Artifacts : row'[b] # Absent => row[b] # Absent /\ row'[b].path = row[b].path
    BY <1>1, <1>3, StatusR DEF Fetches!Fetch
  <2>2. FetchTypes'
    BY <1>3, <2>1 DEF FetchesInv, FetchTypes, Fetches!Fetch, Fetches!Set, FetchLocals
  <2>3. PathsAreOnDisk'
    BY <2>1 DEF FetchesInv, PathsAreOnDisk, Fetches!Materialize
  <2>4. FetchingInv'
    BY <1>1, <1>3, <2>1 DEF FetchesInv, FetchTypes, FetchingInv, Fetches!Fetch, Fetches!Set,
                            Fetches!Materialize, FetchLocals
  <2> QED
    BY <2>2, <2>3, <2>4 DEF FetchesInv
<1> QED
  BY <1>2, <1>3 DEF Fetches!Materialize

LEMMA ResolveR == ASSUME FetchesInv, NEW t \in Tasks, Fetches!Resolve(t) PROVE FetchesInv'
  BY DEF FetchesInv, FetchTypes, PathsAreOnDisk, FetchingInv, Fetches!Resolve,
         Fetches!Step, Fetches!Set, FetchLocals

\* The file gets its name; what has one keeps it.
LEMMA ImportR == ASSUME FetchesInv, NEW t \in Tasks, Fetches!Import(t) PROVE FetchesInv'
<1>1. FetchTypes'
  BY DEF FetchesInv, FetchTypes, Fetches!Import, Fetches!Place, Fetches!Step, Fetches!Set,
         FetchLocals
<1>2. PathsAreOnDisk'
  BY DEF FetchesInv, PathsAreOnDisk, Fetches!Import, Fetches!Place
<1>3. FetchingInv'
  BY DEF FetchesInv, FetchTypes, FetchingInv, Fetches!Import, Fetches!Place, Fetches!Step,
         Fetches!Set, FetchLocals
<1> QED
  BY <1>1, <1>2, <1>3 DEF FetchesInv

\* The row names the file that import_stream() has put there.
LEMMA CommitR == ASSUME FetchesInv, NEW t \in Tasks, Fetches!Commit(t) PROVE FetchesInv'
<1> DEFINE a == task[t].of
<1>1. a \in Artifacts /\ Content[a] \in disk /\ Content[a] \in Blobs
  BY ContentIsBlob DEF FetchesInv, FetchTypes, FetchingInv, Fetches!Commit, FetchLocals
<1>2. /\ row' \in [Artifacts -> {Absent} \cup ArtifactRows]
      /\ row'[a] = [status |-> "available", path |-> Content[a]] /\ row'[a] \in ArtifactRows
      /\ \A b \in Artifacts \ {a} : row'[b] = row[b]
  BY <1>1 DEF FetchesInv, FetchTypes, Fetches!Commit, Fetches!Updated, ArtifactRows,
              Statuses
<1>3. /\ task[t] \in FetchLocals
      /\ [task[t] EXCEPT !.at = "upload", !.path = Content[a]] \in FetchLocals
      /\ [task[t] EXCEPT !.at = "upload", !.path = Content[a]].of = a
      /\ [task[t] EXCEPT !.at = "upload", !.path = Content[a]].path = Content[a]
      /\ [task[t] EXCEPT !.at = "upload", !.path = Content[a]].at = "upload"
  <2>1. task[t] \in FetchLocals
    BY DEF FetchesInv, FetchTypes, Fetches!Commit
  <2> QED
    BY <1>1, <2>1 DEF FetchLocals
<1>4. /\ task' \in [Tasks -> {Absent} \cup FetchLocals]
      /\ \A u \in Tasks \ {t} : task'[u] = task[u]
      /\ task'[t] # Absent =>
           task'[t].of = a /\ task'[t].at = "upload" /\ task'[t].path = Content[a]
  BY <1>3 DEF FetchesInv, FetchTypes, Fetches!Commit, Fetches!Set
<1>5. FetchTypes'
  BY <1>2, <1>4 DEF FetchTypes
<1>6. PathsAreOnDisk'
  BY <1>1, <1>2 DEF FetchesInv, PathsAreOnDisk, Fetches!Commit
<1>7. \A b \in Artifacts : row[b] \in ArtifactRows => row'[b] \in ArtifactRows
  BY <1>2
<1>8. FetchingInv'
  <2> SUFFICES ASSUME NEW u \in Tasks, task'[u] # Absent
               PROVE  /\ row'[task'[u].of] \in ArtifactRows
                      /\ task'[u].at = "import" => Content[task'[u].of] \in disk'
                      /\ task'[u].at = "upload" => task'[u].path \in disk'
    BY DEF FetchingInv
  <2>1. disk' = disk
    BY DEF Fetches!Commit
  <2>2. CASE u = t
    BY <1>1, <1>2, <1>4, <2>1, <2>2
  <2>3. CASE u # t
    <3>1. task[u] \in FetchLocals /\ task'[u] = task[u]
      BY <1>4, <2>3 DEF FetchesInv, FetchTypes
    <3>2. task[u].of \in Artifacts
      BY <3>1 DEF FetchLocals
    <3> QED
      BY <1>7, <2>1, <3>1, <3>2 DEF FetchesInv, FetchingInv
  <2> QED
    BY <2>2, <2>3
<1> QED
  BY <1>5, <1>6, <1>8 DEF FetchesInv

LEMMA FailR == ASSUME FetchesInv, NEW t \in Tasks,
         Fetches!Fail(t) PROVE FetchesInv'
<1> DEFINE a == task[t].of
<1>1. a \in Artifacts /\ row[a] \in ArtifactRows /\ "failed" \in Statuses
  BY DEF FetchesInv, FetchTypes, FetchingInv, Fetches!Fail, FetchLocals, Statuses
<1>2. /\ row' \in [Artifacts -> {Absent} \cup ArtifactRows]
      /\ \A b \in Artifacts : row[b] \in ArtifactRows => row'[b] \in ArtifactRows
      /\ \A b \in Artifacts : row'[b] # Absent => row[b] # Absent /\ row'[b].path = row[b].path
  BY <1>1, StatusR DEF Fetches!Fail, Fetches!Failed
<1>3. FetchTypes'
  BY <1>2 DEF FetchesInv, FetchTypes, Fetches!Fail, Fetches!Set
<1>4. PathsAreOnDisk'
  BY <1>2 DEF FetchesInv, PathsAreOnDisk, Fetches!Fail
<1>5. FetchingInv'
  BY <1>2 DEF FetchesInv, FetchTypes, FetchingInv, Fetches!Fail, Fetches!Set, FetchLocals
<1> QED
  BY <1>3, <1>4, <1>5 DEF FetchesInv

\* What is uploaded was handed to send() as a path on disk.
LEMMA UploadR == ASSUME FetchesInv, NEW t \in Tasks, Fetches!Upload(t) PROVE FetchesInv'
  BY DEF FetchesInv, FetchTypes, PathsAreOnDisk, FetchingInv, Fetches!Upload, Fetches!Set

LEMMA CancelR == ASSUME FetchesInv, NEW t \in Tasks, Fetches!Cancel(t) PROVE FetchesInv'
  BY DEF FetchesInv, FetchTypes, PathsAreOnDisk, FetchingInv, Fetches!Cancel, Fetches!Set

LEMMA ArtifactCrashR == ASSUME FetchesInv, Fetches!Crash PROVE FetchesInv'
  BY DEF FetchesInv, FetchTypes, PathsAreOnDisk, FetchingInv, Fetches!Crash

LEMMA NextR ==
  ASSUME FetchesInv, [Fetches!Next]_(Fetches!vars)
  PROVE  FetchesInv'
<1>1. CASE Fetches!Crash
  BY <1>1, ArtifactCrashR
<1>2. ASSUME NEW a \in Artifacts, Fetches!Record(a) \/ Fetches!RecordCrash(a) PROVE FetchesInv'
  <2>1. CASE Fetches!Record(a)
    BY <2>1, DiscoverR DEF Fetches!Record
  <2>2. CASE Fetches!RecordCrash(a)
    BY <2>2 DEF Fetches!RecordCrash, FetchesInv, FetchTypes, PathsAreOnDisk, FetchingInv
  <2> QED
    BY <1>2, <2>1, <2>2
<1>3. ASSUME NEW t \in Tasks,
             Fetches!Resolve(t) \/ Fetches!Import(t) \/ Fetches!Commit(t) \/ Fetches!Fail(t)
                 \/ Fetches!Upload(t) \/ Fetches!Cancel(t)
      PROVE  FetchesInv'
  BY <1>3, ResolveR, ImportR, CommitR, FailR, UploadR, CancelR
<1>4. ASSUME NEW t \in Tasks, NEW a \in Artifacts, NEW sends \in BOOLEAN,
             Fetches!Materialize(t, a, sends)
      PROVE  FetchesInv'
  BY <1>4, MaterializeR
<1>5. CASE UNCHANGED Fetches!vars
  BY <1>5 DEF Fetches!vars, FetchesInv, FetchTypes, PathsAreOnDisk, FetchingInv
<1> QED
  BY <1>1, <1>2, <1>3, <1>4, <1>5 DEF Fetches!Next

\* ArtifactStore and ArtifactService: whatever fetches run side by side, are
\* cancelled, fail or are cut short by crashes, a path in a row or given to
\* NapCat names a complete file.
THEOREM StoredPathsAreOnDisk == Fetches!Spec => []PathsAreOnDisk
<1>1. FetchesInv /\ [Fetches!Next]_(Fetches!vars) => FetchesInv'
  BY NextR
<1>2. FetchesInv => PathsAreOnDisk
  BY DEF FetchesInv
<1> QED
  BY <1>1, <1>2, FetchesInit, PTL DEF Fetches!Spec
=============================================================================
