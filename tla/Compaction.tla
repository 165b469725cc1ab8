----------------------------- MODULE Compaction -----------------------------
(***************************************************************************)
(* compact_thread_with_summary: the cards of a session are read, the model *)
(* summarises some of them without any lock held, then a summary card      *)
(* takes the place of the old cards and a compact entry is appended to the *)
(* session file, where it folds away everything before it.  Meanwhile the  *)
(* engine, a second compaction and the sync from disk go on.               *)
(*                                                                         *)
(* A card and a line of the file are both a record of what they tell: an   *)
(* item its own number, a summary the items the model was shown.           *)
(***************************************************************************)
EXTENDS Integers, Sequences, SequencesExt

CONSTANTS
    Manual,    \* requests thread.compact, each on a connection of its own
    MaxItems,  \* bound: items the session gets
    MaxLines   \* bound: lines of the file from which no compaction begins

ASSUME BoundsAssumption == MaxItems \in Nat \ {0} /\ MaxLines \in Nat
ASSUME ManualAssumption == "auto" \notin Manual

Compactions == Manual \cup {"auto"}
Items == 1..MaxItems
Record == [summary : BOOLEAN, tells : SUBSET Items]
Item(i) == [summary |-> FALSE, tells |-> {i}]

NoAnswer == [summary |-> TRUE, tells |-> {}]

VARIABLES
    cards,      \* thread.items
    file,       \* the lines of the session file
    next,       \* the next item
    pending,    \* the items shown whose message is not appended to the file yet
    running,    \* the session is in running_thread_ids
    engine,     \* of the loop's round: "off", "prompt", "works", "resumes", "failed"
    compacted,  \* auto_compact_rounds of the loop
    pc,         \* of each compaction: "idle", "asks", "swapped", "panicked"
    asked,      \* the items the model is asked to summarise
    answer,     \* the summary to be recorded
    scan        \* cards a sync has read and not merged: a sequence of at most one

session == <<cards, file>>
turn == <<next, pending, running, engine, compacted>>
jobs == <<pc, asked, answer>>
vars == <<session, turn, jobs, scan>>

Tells(s) == UNION {s[i].tells : i \in DOMAIN s}

Init ==
    /\ cards = <<>> /\ file = <<>>
    /\ next = 1 /\ pending = <<>> /\ running = FALSE /\ engine = "off" /\ compacted = FALSE
    /\ pc = [c \in Compactions |-> "idle"]
    /\ asked = [c \in Compactions |-> {}]
    /\ answer = [c \in Compactions |-> NoAnswer]
    /\ scan = <<>>

-----------------------------------------------------------------------------
(* The turn: a card first, its line later                                   *)

\* The next item gets a card.
Show == next <= MaxItems /\ next' = next + 1 /\ cards' = Append(cards, Item(next))

\* The next item gets a line.
Line == next <= MaxItems /\ next' = next + 1 /\ file' = Append(file, Item(next))

Rests == ~running /\ engine = "off"
AtWork == engine \in {"prompt", "works"}

\* thread.send: the user's card.
Send ==
    /\ Rests /\ Show /\ pending' = <<next>> /\ engine' = "prompt"
    /\ running' = TRUE /\ compacted' = FALSE
    /\ UNCHANGED <<file, jobs, scan>>

\* thread.editAndResend: a prompt without a card.
EditAndResend ==
    /\ Rests /\ engine' = "prompt" /\ running' = TRUE /\ compacted' = FALSE
    /\ UNCHANGED <<session, next, pending, jobs, scan>>

\* The loop takes a message from the queue, or goes on after its compaction with
\* a prompt that has no card.
NextRound ==
    /\ running /\ pc["auto"] = "idle" /\ engine' = "prompt"
    /\ \/ engine = "off" /\ Show /\ pending' = <<next>>
       \/ engine = "resumes" /\ UNCHANGED <<cards, next, pending>>
    /\ UNCHANGED <<file, running, compacted, jobs, scan>>

\* Thinking, text or a tool's card; thinking and text are of one message.
Produce ==
    /\ running /\ engine = "works" /\ Show /\ pending' = Append(pending, next)
    /\ UNCHANGED <<file, running, engine, compacted, jobs, scan>>

\* The engine appends the message that the cards in production show.
Persist ==
    /\ AtWork /\ pending # <<>> /\ pending' = <<>> /\ engine' = "works"
    /\ file' = file \o [i \in DOMAIN pending |-> Item(pending[i])]
    /\ UNCHANGED <<cards, next, running, compacted, jobs, scan>>

\* It appends what has no card: such a prompt, or, once the session was aborted,
\* whatever it still does before it heeds the cancel.
PersistUnseen ==
    /\ pending = <<>> /\ (engine = "prompt" \/ (engine = "works" /\ ~running))
    /\ Line /\ engine' = "works"
    /\ UNCHANGED <<cards, pending, running, compacted, jobs, scan>>

\* The engine's turn is over; what a cancel or a hook cut short is not appended.
EngineEnds ==
    /\ AtWork /\ engine' = "off" /\ pending' = <<>>
    /\ UNCHANGED <<session, next, running, compacted, jobs, scan>>

\* It failed: a notice goes to the file and to the cards, with the lock held.
Fail ==
    /\ running /\ AtWork /\ engine' = "failed" /\ pending' = <<>>
    /\ Show /\ Line
    /\ UNCHANGED <<running, compacted, jobs, scan>>

\* A second overflow in one loop: a card says so, no line does.
GiveUp ==
    /\ running /\ engine = "off" /\ compacted /\ pc["auto"] = "idle"
    /\ Show /\ engine' = "failed"
    /\ UNCHANGED <<file, pending, running, compacted, jobs, scan>>

\* The end of the loop.
FinishTurn ==
    /\ running /\ engine \in {"off", "failed"} /\ pc["auto"] = "idle"
    /\ running' = FALSE /\ engine' = "off"
    /\ UNCHANGED <<session, next, pending, compacted, jobs, scan>>

\* thread.abort: the loop's task is killed where it waits, the turn is finished;
\* an engine at work has been told to stop and winds down.
Abort ==
    /\ running /\ running' = FALSE
    /\ engine' = IF AtWork THEN engine ELSE "off"
    /\ pc' = [pc EXCEPT !["auto"] = IF @ = "swapped" THEN @ ELSE "idle"]
    /\ asked' = [asked EXCEPT !["auto"] = {}]
    /\ UNCHANGED <<session, next, pending, compacted, answer, scan>>

-----------------------------------------------------------------------------
(* The compaction                                                           *)

MaxOf(a, b) == IF a > b THEN a ELSE b

PreserveAny(n) == MaxOf(n - 4, 0)  \* mutant: a short history is kept whole

\* total.saturating_sub(4).max(1)
Preserve(n) == MaxOf(n - 4, 1)

\* The store is read; nothing keeps a turn or another compaction from starting.
Begin(c) ==
    LET n == Len(cards)
        drop == n - Preserve(n) IN
    /\ pc[c] = "idle" /\ n >= 3 /\ drop # 0 /\ Len(file) < MaxLines
    /\ c = "auto" => running /\ engine = "off" /\ ~compacted
    /\ pc' = [pc EXCEPT ![c] = "asks"] /\ compacted' = (compacted \/ c = "auto")
    /\ engine' = IF c = "auto" THEN "resumes" ELSE engine
    /\ asked' = [asked EXCEPT ![c] = Tells(SubSeq(cards, 1, drop))]
    /\ UNCHANGED <<session, next, pending, running, answer, scan>>

KeepHead(n) == SubSeq(cards, 1, MaxOf(n, 0))  \* mutant: truncate for split_off

\* The model answered, or failed and a stock sentence takes its place.  What is
\* kept is computed again, from the cards of now.
Kept(n) == SubSeq(cards, n + 1, Len(cards))

Swap(c) ==
    LET n == Preserve(Len(cards)) IN
    /\ pc[c] = "asks" /\ n <= Len(cards) /\ pc' = [pc EXCEPT ![c] = "swapped"]
    /\ \E ok \in BOOLEAN :
         answer' = [answer EXCEPT ![c] =
                      [summary |-> TRUE, tells |-> IF ok THEN asked[c] ELSE {}]]
    /\ cards' = <<answer'[c]>> \o Kept(n)
    /\ asked' = [asked EXCEPT ![c] = {}]
    /\ UNCHANGED <<file, turn, scan>>

\* split_off beyond the end: the cards were emptied during the model's call, and
\* the task is gone; if it was the loop's, only an abort clears the running flag.
Panic(c) ==
    /\ pc[c] = "asks" /\ Preserve(Len(cards)) > Len(cards)
    /\ pc' = [pc EXCEPT ![c] = "panicked"]
    /\ UNCHANGED <<session, turn, asked, answer, scan>>

\* append_compact_entry, after the lock is released.
RecordIt(c) ==
    /\ pc[c] = "swapped" /\ pc' = [pc EXCEPT ![c] = "idle"]
    /\ file' = Append(file, answer[c])
    /\ answer' = [answer EXCEPT ![c] = NoAnswer]
    /\ UNCHANGED <<cards, turn, asked, scan>>

-----------------------------------------------------------------------------
(* The file read back                                                       *)

\* fold_messages and restore_all_threads: a compact entry clears what precedes it.
Fold(lines) ==
    LET last == SelectLastInSubSeq(lines, 1, Len(lines), LAMBDA e : e.summary) IN
    SubSeq(lines, MaxOf(last, 1), Len(lines))

ScanAgain ==  \* mutant: a second sync does not wait for the merge of the first
    /\ scan' = Append(scan, Fold(file))
    /\ UNCHANGED <<session, turn, jobs>>

Scan ==
    /\ scan = <<>> /\ scan' = <<Fold(file)>>
    /\ UNCHANGED <<session, turn, jobs>>

\* merge_disk_threads leaves a running thread alone.
Merge ==
    /\ scan # <<>> /\ scan' = <<>>
    /\ cards' = IF running THEN cards ELSE scan[1]
    /\ UNCHANGED <<file, turn, jobs>>

Next ==
    \/ Send \/ EditAndResend \/ NextRound \/ Produce \/ Persist \/ PersistUnseen
    \/ EngineEnds \/ Fail \/ GiveUp \/ FinishTurn \/ Abort
    \/ \E c \in Compactions : Begin(c) \/ Swap(c) \/ Panic(c) \/ RecordIt(c)
    \/ Scan \/ Merge

Spec == Init /\ [][Next]_vars

-----------------------------------------------------------------------------
(* Properties                                                               *)

\* Every variable has its type.
TypeOK ==
    /\ cards \in Seq(Record) /\ file \in Seq(Record)
    /\ next \in 1..MaxItems + 1 /\ pending \in Seq(Items)
    /\ running \in BOOLEAN /\ compacted \in BOOLEAN
    /\ engine \in {"off", "prompt", "works", "resumes", "failed"}
    /\ pc \in [Compactions -> {"idle", "asks", "swapped", "panicked"}]
    /\ asked \in [Compactions -> SUBSET Items]
    /\ answer \in [Compactions -> Record]
    /\ scan \in Seq(Seq(Record)) /\ Len(scan) <= 1

\* The session shows one summary, and first, whatever compactions and syncs
\* overlap: the next compaction takes the old summary away with the old cards.
OneSummaryFirst == \A i \in DOMAIN cards : cards[i].summary => i = 1

Shown == {cards[i] : i \in DOMAIN cards}

Newest == Item(Last(pending))

\* While the session runs, the newest card whose message is not in the file yet
\* stays, whatever compactions and syncs overlap: a swap keeps the latest four
\* cards, and one at least is old.  Only where it is the one card does a swap
\* take it.  An abort or a failure gives it up to the next sync.
PendingStays ==
    [][pending # <<>> /\ pending' = pending /\ running /\ running'
         /\ Newest \in Shown /\ Len(cards) > 1
         => Newest \in Shown']_vars

\* helpers.rs: what is rendered for the summariser is "the history that is to be
\* dropped": a summary that the model wrote tells what its swap takes away.
SummaryTellsDropped ==
    [][\A c \in Compactions :
         pc[c] = "asks" /\ pc'[c] = "swapped" /\ answer'[c].tells # {}
           => Tells(SubSeq(cards, 1, Preserve(Len(cards)))) \subseteq answer'[c].tells]_vars

=============================================================================
