----------------------------- MODULE Broadcast -----------------------------
(***************************************************************************)
(* How a page follows one thread of the host.                              *)
(*                                                                         *)
(* Tasks of the host change the store and broadcast: each draws a number,  *)
(* reads the store, publishes the number and sends a frame, in four steps  *)
(* that another broadcast may overlap.  A frame is full, or a patch that   *)
(* carries the cards that differ from a table of what was sent before.     *)
(* The page subscribes with one task and, without waiting for it, fetches  *)
(* a snapshot and the cards with another; then it applies the frames,      *)
(* drops those with an old number, and fetches all cards again when the    *)
(* thread becomes visible and after a turn.                                *)
(*                                                                         *)
(* A card is the number of its last visible change, 0 when there is none:  *)
(* usage, which no fingerprint sees, is left out, and so are rendering,    *)
(* truncation, sub-threads and a list of more than one page.  The bus and  *)
(* the connection are one queue: the forwarder only moves frames.          *)
(***************************************************************************)
EXTENDS Integers, Sequences, FiniteSets

CONSTANTS
    Handlers,  \* tasks that change the store and broadcast at once
    Timer,     \* the task that coalesces changes into a frame
    Cards,     \* ids of the thread's cards
    MaxOps     \* bound: changes of the store and broadcasts without one

ASSUME SendersAssumption == Timer \notin Handlers
ASSUME OpsAssumption == MaxOps \in Nat \ {0}

Senders == Handlers \cup {Timer}
NoCard == 0
Same == -1                     \* a patch does not mention the card
NoCards == [i \in Cards |-> NoCard]
Hidden == [run |-> FALSE, open |-> FALSE]  \* no metadata yet
Projects(flags) == flags.run \/ flags.open

VARIABLES
    cards,     \* store: the items of the thread
    flags,     \* store: is it running, is it active or in a tab
    dirty,     \* broadcaster.dirty
    patch,     \* broadcaster.patch_enabled
    seq,       \* broadcaster.seq
    lastSent,  \* broadcaster.last_sent_seq
    versions,  \* broadcaster.versions
    at,        \* each sender: idle, due, drawn, read, sends
    num,       \* the number it drew, 0 when it broadcasts nothing
    frame,     \* the frame it has computed
    link,      \* the page's subscription: none, registered, seeded, up
    queue,     \* frames on their way to the page
    page,      \* the page's task: starts, numbered, snapped, follows
    view,      \* its copy of the cards
    shown,     \* its copy of the flags
    viewSeq,   \* number of the newest state it applied
    owes,      \* fetches it has to make: now, later
    ops,       \* changes and broadcasts so far
    crossed,   \* history: a broadcast overtook one with a smaller number
    untold,    \* history: a change nobody will broadcast
    unlisted,  \* history: cards gone before any patch carried them
    unfetched  \* history: the cards of a thread that came into view were not fetched

\* The cards the host includes in what it sends.
Projected == IF Projects(flags) THEN cards ELSE NoCards

store == <<cards, flags>>
broadcaster == <<dirty, patch, seq, lastSent, versions>>
senders == <<at, num, frame>>
pages == <<page, view, shown, viewSeq, owes>>
broadcastVars == <<store, broadcaster, senders, link, queue, pages, ops, crossed, untold,
                   unlisted, unfetched>>

NoFrame == [n |-> 0, full |-> FALSE, flags |-> Hidden, cards |-> NoCards]

\* A host that has broadcast its state, in patches if somebody had asked for them.
BroadcastInit ==
    /\ \E i \in Cards : cards = [NoCards EXCEPT ![i] = 1]
    /\ flags \in [run : BOOLEAN, open : BOOLEAN]
    /\ dirty = FALSE /\ patch \in BOOLEAN /\ seq = 1 /\ lastSent = 1
    /\ versions = IF patch THEN Projected ELSE NoCards
    /\ at = [s \in Senders |-> "idle"] /\ num = [s \in Senders |-> 0]
    /\ frame = [s \in Senders |-> NoFrame]
    /\ link = "none" /\ queue = <<>>
    /\ page = "starts" /\ view = NoCards /\ shown = Hidden /\ viewSeq = 0 /\ owes = {}
    /\ ops = 1 /\ crossed = FALSE /\ untold = FALSE /\ unlisted = {} /\ unfetched = FALSE

-----------------------------------------------------------------------------
(* Changes of the store, each under its write lock                          *)

Change(i) == cards' = [cards EXCEPT ![i] = ops + 1]
Counted == ops < MaxOps /\ ops' = ops + 1

\* A delta of the running turn: the timer will send it.
Stream ==
    /\ Counted /\ flags.run
    /\ \E i \in Cards : Change(i)
    /\ dirty' = TRUE
    /\ UNCHANGED <<flags, patch, seq, lastSent, versions, senders, link, queue,
                   pages, crossed, untold, unlisted, unfetched>>

\* The cards a handler takes away, and whether a patch has carried them.
RemoveCard(i) ==
    /\ cards[i] # NoCard
    /\ cards' = [cards EXCEPT ![i] = NoCard]
    /\ unlisted' = IF versions[i] = NoCard THEN unlisted \cup {i} ELSE unlisted

Start == flags' = [flags EXCEPT !.run = TRUE]
Finish == flags.run /\ flags' = [flags EXCEPT !.run = FALSE]
OpenTab == flags' = [flags EXCEPT !.open = TRUE]
CloseTab == flags.open /\ flags' = [flags EXCEPT !.open = FALSE]

\* A handler changes the store, or has served a request, and broadcasts.
Handle(h) ==
    /\ at[h] = "idle" /\ Counted
    /\ \/ \E i \in Cards : Change(i) /\ UNCHANGED <<flags, unlisted>>
       \/ \E i \in Cards : RemoveCard(i) /\ UNCHANGED flags
       \/ (Start \/ Finish \/ OpenTab \/ CloseTab) /\ UNCHANGED <<cards, unlisted>>
       \/ UNCHANGED <<store, unlisted>>
    /\ at' = [at EXCEPT ![h] = "due"]
    /\ UNCHANGED <<broadcaster, num, frame, link, queue, pages, crossed, untold,
                   unfetched>>

\* session.snapshot over HTTP merges what another process wrote, and tells nobody.
MergeQuietly ==
    /\ Counted /\ ~flags.run
    /\ \E i \in Cards : Change(i)
    /\ untold' = TRUE
    /\ UNCHANGED <<flags, broadcaster, senders, link, queue, pages, crossed,
                   unlisted, unfetched>>

-----------------------------------------------------------------------------
(* Broadcasts                                                               *)

Goes(s, to) == at' = [at EXCEPT ![s] = to]

\* The handlers draw when they have to, the timer when there is something to send.
Draw(s) ==
    /\ IF s = Timer THEN at[s] = "idle" /\ dirty ELSE at[s] = "due"
    /\ dirty' = FALSE
    /\ seq' = seq + 1 /\ num' = [num EXCEPT ![s] = seq + 1]
    /\ Goes(s, "drawn")
    /\ UNCHANGED <<store, patch, lastSent, versions, frame, link, queue, pages, ops,
                   crossed, untold, unlisted, unfetched>>

\* Mutant: a card that has vanished is not reported.
DiffOfPresent(table) ==
    [i \in Cards |-> IF Projected[i] = table[i] \/ Projected[i] = NoCard
                     THEN Same ELSE Projected[i]]
Diff(table) == [i \in Cards |-> IF Projected[i] = table[i] THEN Same ELSE Projected[i]]

\* A broadcast takes a step that one with a smaller number has not taken yet.
Overtakes(s, behind) == \E t \in Senders : at[t] \in behind /\ num[t] < num[s]

\* Under the store's read lock: content and, for a patch, the table of versions.
ReadStore(s) ==
    /\ at[s] = "drawn"
    /\ frame' = [frame EXCEPT ![s] =
                   [n |-> num[s], full |-> ~patch, flags |-> flags,
                    cards |-> IF patch THEN Diff(versions) ELSE Projected]]
    /\ versions' = IF patch THEN Projected ELSE versions
    /\ Goes(s, "read")
    /\ crossed' = (crossed \/ Overtakes(s, {"drawn"}))
    /\ untold' = FALSE
    /\ UNCHANGED <<store, dirty, patch, seq, lastSent, num, link, queue, pages, ops,
                   unlisted, unfetched>>

Publish(s) ==
    /\ at[s] = "read"
    /\ lastSent' = num[s] /\ Goes(s, "sends")
    /\ crossed' = (crossed \/ Overtakes(s, {"drawn", "read"}))
    /\ UNCHANGED <<store, dirty, patch, seq, versions, num, frame, link, queue,
                   pages, ops, untold, unlisted, unfetched>>

Send(s) ==
    /\ at[s] = "sends"
    /\ queue' = IF link = "none" THEN queue ELSE Append(queue, frame[s])
    /\ frame' = [frame EXCEPT ![s] = NoFrame] /\ num' = [num EXCEPT ![s] = 0]
    /\ Goes(s, "idle")
    /\ crossed' = (crossed \/ Overtakes(s, {"drawn", "read", "sends"}))
    /\ UNCHANGED <<store, broadcaster, link, pages, ops, untold, unlisted,
                   unfetched>>

Broadcasting(s) == Draw(s) \/ ReadStore(s) \/ Publish(s) \/ Send(s)

-----------------------------------------------------------------------------
(* The page's connection, on the host's side                                *)

\* Mutant: the number drawn last, whose frame may not have been computed.
DrawnSeq == seq
LastSentSeq == lastSent

\* Mutant: the number of the frame to come.
FullOfNext(n) == [n |-> n + 1, full |-> TRUE, flags |-> flags, cards |-> Projected]
\* A full state under a number that was published before.
Full(n) == [n |-> n, full |-> TRUE, flags |-> flags, cards |-> Projected]

Register ==
    /\ link = "none" /\ link' = "registered"
    /\ UNCHANGED <<store, broadcaster, senders, queue, pages, ops, crossed, untold,
                   unlisted, unfetched>>

Seed ==
    /\ link = "registered" /\ link' = "seeded"
    /\ queue' = Append(queue, Full(LastSentSeq))
    /\ UNCHANGED <<store, broadcaster, senders, pages, ops, crossed, untold,
                   unlisted, unfetched>>

\* session.initialize asks for patches, and every request is followed by a frame.
Initialize(h) ==
    /\ link = "seeded" /\ at[h] = "idle"
    /\ link' = "up" /\ patch' = TRUE /\ Goes(h, "due")
    /\ UNCHANGED <<store, dirty, seq, lastSent, versions, num, frame, queue, pages,
                   ops, crossed, untold, unlisted, unfetched>>

Connect == Register \/ Seed \/ \E h \in Handlers : Initialize(h)

-----------------------------------------------------------------------------
(* The page                                                                 *)

IsOld(f) == IF f.full THEN f.n < viewSeq ELSE f.n <= viewSeq

ApplySnapshot(f) ==
    /\ viewSeq' = f.n /\ shown' = f.flags
    /\ view' = IF Projects(f.flags) THEN f.cards ELSE view
    /\ UNCHANGED owes

\* session.snapshot over HTTP: the number first, then the store.
SnapshotNumber ==
    /\ page = "starts"
    /\ page' = "numbered" /\ viewSeq' = LastSentSeq
    /\ UNCHANGED <<store, broadcaster, senders, link, queue, view, shown, owes, ops,
                   crossed, untold, unlisted, unfetched>>

\* The answer is applied, or never came.
Snapshot ==
    /\ page = "numbered" /\ page' = "snapped"
    /\ \/ ApplySnapshot(Full(viewSeq))
       \/ viewSeq' = 0 /\ UNCHANGED <<view, shown, owes>>
    /\ UNCHANGED <<store, broadcaster, senders, link, queue, ops, crossed, untold,
                   unlisted, unfetched>>

\* thread_items, or the attempt that fails.
FetchCards == view' = cards \/ UNCHANGED view

FirstFetch ==
    /\ page = "snapped" /\ page' = "follows"
    /\ FetchCards
    /\ UNCHANGED <<store, broadcaster, senders, link, queue, shown, viewSeq, owes,
                   ops, crossed, untold, unlisted, unfetched>>

ApplyPatch(f) ==
    /\ viewSeq' = f.n /\ shown' = f.flags
    /\ owes' = owes \cup (IF Projects(f.flags) /\ ~Projects(shown) THEN {"now"} ELSE {})
                    \cup (IF shown.run /\ ~f.flags.run THEN {"later"} ELSE {})
    /\ view' = IF Projects(f.flags)
               THEN [i \in Cards |-> IF f.cards[i] = Same THEN view[i] ELSE f.cards[i]]
               ELSE view

Apply(f) ==
    IF IsOld(f) THEN UNCHANGED <<view, shown, viewSeq, owes>>
    ELSE IF f.full THEN ApplySnapshot(f) ELSE ApplyPatch(f)

TakeFrame ==
    /\ page = "follows" /\ "now" \notin owes /\ queue # <<>>
    /\ Apply(Head(queue)) /\ queue' = Tail(queue)
    /\ UNCHANGED <<store, broadcaster, senders, link, page, ops, crossed, untold,
                   unlisted, unfetched>>

\* At once, or FINISH_RESYNC_DELAY after the turn.  A failed attempt is not repeated:
\* a thread that came into view keeps the cards of when it was last in view.
Resync ==
    /\ page = "follows" /\ owes # {} /\ owes' = {}
    /\ \/ view' = cards /\ unfetched' = FALSE
       \/ UNCHANGED view /\ unfetched' = (unfetched \/ "now" \in owes)
    /\ UNCHANGED <<store, broadcaster, senders, link, queue, page, shown, viewSeq, ops,
                   crossed, untold, unlisted>>

Page == SnapshotNumber \/ Snapshot \/ FirstFetch \/ TakeFrame \/ Resync

-----------------------------------------------------------------------------

Changes == Stream \/ MergeQuietly \/ \E h \in Handlers : Handle(h)
Tasks == Connect \/ Page \/ \E s \in Senders : Broadcasting(s)

BroadcastNext == Changes \/ Tasks

BroadcastSpec == BroadcastInit /\ [][BroadcastNext]_broadcastVars

\* The runtime runs some task that can go on (between two changes each has few
\* steps); nothing makes a turn produce, a user click or a process write.
FairBroadcast == BroadcastSpec /\ WF_broadcastVars(Tasks)

-----------------------------------------------------------------------------
(* Properties                                                               *)

CardStates == [Cards -> NoCard..MaxOps]
FlagStates == [run : BOOLEAN, open : BOOLEAN]
Frames == [n : Nat, full : BOOLEAN, flags : FlagStates, cards : [Cards -> Same..MaxOps]]

\* Types of all variables (emitter.rs:16-36, stream.rs:315-328).
BroadcastTypeOK ==
    /\ cards \in CardStates /\ flags \in FlagStates
    /\ dirty \in BOOLEAN /\ patch \in BOOLEAN /\ seq \in Nat /\ lastSent \in 0..seq
    /\ versions \in CardStates
    /\ at \in [Senders -> {"idle", "due", "drawn", "read", "sends"}]
    /\ num \in [Senders -> 0..seq] /\ frame \in [Senders -> Frames]
    /\ link \in {"none", "registered", "seeded", "up"} /\ queue \in Seq(Frames)
    /\ page \in {"starts", "numbered", "snapped", "follows"}
    /\ view \in CardStates /\ shown \in FlagStates /\ viewSeq \in 0..seq
    /\ owes \subseteq {"now", "later"}
    /\ ops \in 0..MaxOps /\ crossed \in BOOLEAN /\ untold \in BOOLEAN
    /\ unlisted \subseteq Cards /\ unfetched \in BOOLEAN

Quiet ==
    /\ ~dirty /\ \A s \in Senders : at[s] = "idle"
    /\ link = "up" /\ queue = <<>> /\ page = "follows" /\ owes = {}

\* A card that is gone may stay when no patch ever carried it.
ShowsStore ==
    /\ shown = flags
    /\ Projects(flags) =>
        \A i \in Cards : view[i] = cards[i] \/ (cards[i] = NoCard /\ i \in unlisted)

\* When nothing is on its way any more the page shows the store, however its
\* subscription, its snapshot and the frames were interleaved and whatever fetches
\* failed but that of a thread that came into view, as long as broadcasts kept to
\* the order of their numbers (stream.rs:92-93, 390-396; emitter.rs:107-116).
QuietShowsStore == Quiet /\ ~crossed /\ ~untold /\ ~unfetched => ShowsStore

\* After the last change every page gets to that state and stays in it.
PageCatchesUp == <>[](crossed \/ untold \/ unfetched \/ (Quiet /\ ShowsStore))
=============================================================================
