----------------------------- MODULE ThreadLoop -----------------------------
(***************************************************************************)
(* One conversation thread of the RPC host: the requests that start, queue,*)
(* promote, abort and delete (server/dispatch/mod.rs) and the drain loop   *)
(* that runs its turns (server/dispatch/thread_loop.rs).                   *)
(*                                                                         *)
(* Every connection handles its requests one by one; several connections,  *)
(* the drain tasks and the engine tasks they spawn run concurrently.  What *)
(* they share is the store (running flag and queue, under one lock) and    *)
(* two maps, each under a lock of its own: abort_senders and running_tasks.*)
(* Both maps hold one entry per thread, so here each is a loop number or 0.*)
(*                                                                         *)
(* An engine task is a separate tokio task: aborting the drain task drops  *)
(* its JoinHandle and leaves the engine running.  A turn is abstracted to  *)
(* the outcome the drain loop tells apart; TurnEngine models its inside.   *)
(***************************************************************************)
EXTENDS Integers, Sequences, FiniteSets, SequencesExt

CONSTANTS
    Clients,      \* connections that may have a request in progress
    MaxLoops,     \* bound: drain loops started
    MaxMessages,  \* bound: messages accepted
    MaxStops,     \* bound: aborts and deletions
    MaxPromotes   \* bound: promotions

ASSUME BoundsAssumption ==
    /\ MaxLoops \in Nat /\ MaxMessages \in Nat
    /\ MaxStops \in Nat /\ MaxPromotes \in Nat

Loops == 1..MaxLoops
NoLoop == 0
NoMessage == 0

VARIABLES
    \* the store
    exists,     \* the thread is in store.threads
    running,    \* it is in running_thread_ids
    queue,      \* its messages in store.queue
    cards,      \* the user cards added to it, in order
    \* the two maps
    sender,     \* the loop whose abort_tx is in abort_senders
    handle,     \* the loop whose JoinHandle is in running_tasks
    \* the drain tasks
    drain,      \* where each is
    doomed,     \* JoinHandle::abort() was called on it
    hold,       \* the message it popped and has not yet made a card of
    rounds,     \* auto_compact_rounds
    \* the engine task of each loop's current turn
    engine,
    outcome,    \* how that turn ended, as the drain loop saw it
    cancelled,  \* its abort_rx carries true
    \* the requests in progress
    conn,       \* what each connection's handler has left to do
    mine,       \* the loop a starting handler starts
    \* history variables
    sent,       \* messages accepted so far; they are numbered in that order
    discarded,  \* messages the user removed, or that went with an abort
    lost,       \* messages a dying drain task still held
    stops,      \* aborts and deletions that reached the store
    promotes,
    stray       \* turns begun while not running, since the last start

storeVars == <<exists, running, queue, cards>>
drainVars == <<drain, doomed, hold, rounds>>
engineVars == <<engine, outcome, cancelled>>
connVars == <<conn, mine>>
ghosts == <<sent, discarded, lost, stops, promotes, stray>>
vars == <<storeVars, sender, handle, drainVars, engineVars, connVars, ghosts>>

Outcomes == {"none", "Completed", "Failed", "Exceeded"}
\* "pending": the running flag is set, the task is not spawned yet.
DrainPoints == {"none", "pending", "tx", "recv", "compact", "pop", "card",
                "dropTx", "dropTask", "finish", "done"}
ConnPoints == {"idle", "spawn", "register", "kill", "clear", "signal"}

InQueue == Range(queue)
OnCards == Range(cards)
InHand == {hold[l] : l \in Loops} \ {NoMessage}

\* Loops that still occupy the thread: a drain task alive or about to be, or
\* an engine that nobody drains any more.
Active == {l \in Loops : drain[l] \notin {"none", "done"} \/ engine[l] = "run"}

Init ==
    /\ exists = TRUE /\ running = FALSE /\ queue = <<>> /\ cards = <<>>
    /\ sender = NoLoop /\ handle = NoLoop
    /\ drain = [l \in Loops |-> "none"] /\ doomed = [l \in Loops |-> FALSE]
    /\ hold = [l \in Loops |-> NoMessage] /\ rounds = [l \in Loops |-> 0]
    /\ engine = [l \in Loops |-> "off"] /\ outcome = [l \in Loops |-> "none"]
    /\ cancelled = [l \in Loops |-> FALSE]
    /\ conn = [c \in Clients |-> "idle"] /\ mine = [c \in Clients |-> NoLoop]
    /\ sent = 0 /\ discarded = {} /\ lost = {} /\ stops = 0 /\ promotes = 0
    /\ stray = [l \in Loops |-> 0]

-----------------------------------------------------------------------------
(* Requests.  A handler that takes the store lock once and returns is one   *)
(* action; the others leave in conn what they do after the lock is dropped. *)

Handler(c, from, to) == conn[c] = from /\ conn' = [conn EXCEPT ![c] = to]

AlwaysStarts == TRUE  \* mutant: the running check is missing

\* store.is_thread_running: a running thread queues or refuses.
MayStart == ~running

\* set_thread_running(true); the loop will be spawned by spawn_thread_loop.
BeginLoop(c) ==
    /\ MayStart /\ running' = TRUE
    /\ \E l \in Loops :
         /\ drain[l] = "none" /\ \A k \in Loops : k < l => drain[k] # "none"
         /\ drain' = [drain EXCEPT ![l] = "pending"]
         /\ mine' = [mine EXCEPT ![c] = l]
    /\ Handler(c, "idle", "spawn")
    /\ stray' = [l \in Loops |-> 0]
    /\ UNCHANGED <<exists, queue, sender, handle, doomed, hold, rounds,
                   engineVars, discarded, lost, stops, promotes>>

Accept == sent < MaxMessages /\ sent' = sent + 1

\* thread.send while not running: the card and the flag under one lock.
SendStarts(c) ==
    /\ exists /\ Accept
    /\ cards' = Append(cards, sent') /\ BeginLoop(c)

\* thread.send while running: the message waits.
SendQueues(c) ==
    /\ conn[c] = "idle" /\ exists /\ running /\ Accept
    /\ queue' = Append(queue, sent')
    /\ UNCHANGED <<exists, running, cards, sender, handle, drainVars, engineVars,
                   connVars, discarded, lost, stops, promotes, stray>>

\* thread.retry and thread.editAndResend: refused while running, no card.
\* Only retry looks the thread up.
Retry(c) == exists /\ BeginLoop(c) /\ UNCHANGED <<cards, sent>>
EditAndResend(c) == BeginLoop(c) /\ UNCHANGED <<cards, sent>>

\* spawn_thread_loop: the task is spawned, then its handle is stored.
Spawn(c) ==
    /\ Handler(c, "spawn", "register")
    /\ drain' = [drain EXCEPT ![mine[c]] = "tx"]
    /\ UNCHANGED <<storeVars, sender, handle, doomed, hold, rounds, engineVars, mine, ghosts>>

Register(c) ==
    /\ Handler(c, "register", "idle")
    /\ handle' = mine[c] /\ mine' = [mine EXCEPT ![c] = NoLoop]
    /\ UNCHANGED <<storeVars, sender, drainVars, engineVars, ghosts>>

\* tx.send(true): seen by the turn that holds the receiver, if it still runs.
SendSignal ==
    cancelled' = [l \in Loops |-> cancelled[l] \/ (l = sender /\ engine[l] = "run")]

\* thread.abort, one lock after the other: the watch channel, ...
Stopping == {c \in Clients : conn[c] \in {"kill", "clear"}}
AbortSignal(c) ==
    /\ stops + Cardinality(Stopping) < MaxStops
    /\ Handler(c, "idle", "kill")
    /\ SendSignal /\ sender' = NoLoop
    /\ UNCHANGED <<storeVars, handle, drainVars, engine, outcome, mine, ghosts>>

\* ... the drain task, ...
AbortKill(c) ==
    /\ Handler(c, "kill", "clear")
    /\ doomed' = [l \in Loops |-> doomed[l] \/ (l = handle /\ drain[l] \notin {"none", "done"})]
    /\ handle' = NoLoop
    /\ UNCHANGED <<storeVars, sender, drain, hold, rounds, engineVars, mine, ghosts>>

\* ... and the store.
AbortClear(c) ==
    /\ Handler(c, "clear", "idle")
    /\ discarded' = discarded \cup InQueue /\ queue' = <<>>
    /\ running' = FALSE /\ stops' = stops + 1
    /\ UNCHANGED <<exists, cards, sender, handle, drainVars, engineVars, mine,
                   sent, lost, promotes, stray>>

\* thread.delete: the store forgets the thread; nobody tells the loop.
Delete(c) ==
    /\ conn[c] = "idle" /\ exists /\ stops + Cardinality(Stopping) < MaxStops
    /\ exists' = FALSE /\ running' = FALSE /\ stops' = stops + 1
    /\ discarded' = discarded \cup InQueue /\ queue' = <<>>
    /\ UNCHANGED <<cards, sender, handle, drainVars, engineVars, connVars,
                   sent, lost, promotes, stray>>

\* workspace.remove is refused while a thread of the workspace runs; it drops
\* the abort sender without sending.
RemoveWorkspace(c) ==
    /\ conn[c] = "idle" /\ exists /\ ~running
    /\ exists' = FALSE /\ sender' = NoLoop
    /\ discarded' = discarded \cup InQueue /\ queue' = <<>>
    /\ UNCHANGED <<running, cards, handle, drainVars, engineVars, connVars,
                   sent, lost, stops, promotes, stray>>

\* queue.remove takes an index of the queue, queue.clear all that wait.
QueueRemove(c) ==
    /\ conn[c] = "idle"
    /\ \E i \in DOMAIN queue :
         queue' = RemoveAt(queue, i) /\ discarded' = discarded \cup {queue[i]}
    /\ UNCHANGED <<exists, running, cards, sender, handle, drainVars, engineVars,
                   connVars, sent, lost, stops, promotes, stray>>
QueueClear(c) ==
    /\ conn[c] = "idle" /\ queue # <<>>
    /\ queue' = <<>> /\ discarded' = discarded \cup InQueue
    /\ UNCHANGED <<exists, running, cards, sender, handle, drainVars, engineVars,
                   connVars, sent, lost, stops, promotes, stray>>

\* queue.promote: to the front under the store lock, then the signal that is
\* to end the current turn.  Without a valid index only the signal is sent.
Promote(c) ==
    /\ promotes < MaxPromotes /\ promotes' = promotes + 1
    /\ \/ \E i \in DOMAIN queue : queue' = <<queue[i]>> \o RemoveAt(queue, i)
       \/ queue' = queue
    /\ Handler(c, "idle", "signal")
    /\ UNCHANGED <<exists, running, cards, sender, handle, drainVars, engineVars,
                   mine, sent, discarded, lost, stops, stray>>
PromoteSignal(c) ==
    /\ Handler(c, "signal", "idle") /\ SendSignal
    /\ UNCHANGED <<storeVars, sender, handle, drainVars, engine, outcome, mine, ghosts>>

-----------------------------------------------------------------------------
(* The drain loop and its engine                                            *)

Goto(l, from, to) == drain[l] = from /\ drain' = [drain EXCEPT ![l] = to]

\* The locals of a task that is gone.
Gone(l) == doomed' = [doomed EXCEPT ![l] = FALSE] /\ rounds' = [rounds EXCEPT ![l] = 0]

\* A fresh watch channel replaces whatever the thread had in abort_senders,
\* and the engine task is spawned with its receiver.
StartTurn(l) ==
    /\ Goto(l, "tx", "recv")
    /\ sender' = l /\ cancelled' = [cancelled EXCEPT ![l] = FALSE]
    /\ engine' = [engine EXCEPT ![l] = "run"] /\ outcome' = [outcome EXCEPT ![l] = "none"]
    /\ stray' = [stray EXCEPT ![l] = @ + (IF running THEN 0 ELSE 1)]
    /\ UNCHANGED <<storeVars, handle, doomed, hold, rounds, connVars,
                   sent, discarded, lost, stops, promotes>>

\* The engine task returns; its final event, if any, is in the channel.
\* A turn that could not start sends none, and the loop goes on as if completed.
EngineEnds(l) ==
    /\ engine[l] = "run" /\ engine' = [engine EXCEPT ![l] = "off"]
    /\ IF drain[l] = "recv"
       THEN \E o \in Outcomes \ {"none"} : outcome' = [outcome EXCEPT ![l] = o]
       ELSE UNCHANGED outcome
    /\ cancelled' = [cancelled EXCEPT ![l] = FALSE]
    /\ UNCHANGED <<storeVars, sender, handle, drainVars, connVars, ghosts>>

GoesOnStopped(l) == outcome[l] = "Completed"  \* mutant: no running check
GoesOnAfterFailure(l) == running /\ outcome[l] # "Exceeded"  \* mutant

\* The checks between a turn and the next: not stopped in the meantime, not
\* failed for good, window not exceeded ...
GoesOn(l) == running /\ outcome[l] = "Completed"

\* ... or exceeded for the first time in this loop.
Compacts(l) == running /\ outcome[l] = "Exceeded" /\ rounds[l] < 1

ForgetRound(l) == rounds' = rounds  \* mutant

\* auto_compact_rounds += 1: never reset while the loop lives.
CountRound(l) == rounds' = [rounds EXCEPT ![l] = @ + 1]

\* The event loop broke on the final event or on the closed channel, the
\* engine task was awaited and the cards closed.
AfterTurn(l) ==
    /\ drain[l] = "recv" /\ engine[l] = "off"
    /\ drain' = [drain EXCEPT ![l] = IF Compacts(l) THEN "compact"
                                     ELSE IF GoesOn(l) THEN "pop" ELSE "dropTx"]
    /\ IF Compacts(l) THEN CountRound(l) ELSE UNCHANGED rounds
    /\ UNCHANGED <<storeVars, sender, handle, doomed, hold, engineVars, connVars, ghosts>>

\* compact_thread_now came back from the model, then the same turn again.
Compact(l) ==
    /\ Goto(l, "compact", "tx")
    /\ UNCHANGED <<storeVars, sender, handle, doomed, hold, rounds, engineVars, connVars, ghosts>>

TakePeeks(l) == hold' = [hold EXCEPT ![l] = Head(queue)] /\ queue' = queue  \* mutant
TakeForgets(l) == hold' = hold /\ queue' = Tail(queue)  \* mutant

Take(l) == hold' = [hold EXCEPT ![l] = Head(queue)] /\ queue' = Tail(queue)

PopNextQueued(l) ==
    /\ \/ queue # <<>> /\ Goto(l, "pop", "card") /\ Take(l)
       \/ queue = <<>> /\ Goto(l, "pop", "dropTx") /\ UNCHANGED <<hold, queue>>
    /\ UNCHANGED <<exists, running, cards, sender, handle, doomed, rounds, engineVars,
                   connVars, ghosts>>

\* The popped message becomes a card under a lock of its own; on a deleted
\* thread add_user_message does nothing.
AddUserMessage(l) ==
    /\ Goto(l, "card", "tx")
    /\ IF exists THEN cards' = Append(cards, hold[l]) /\ UNCHANGED discarded
                 ELSE discarded' = discarded \cup {hold[l]} /\ UNCHANGED cards
    /\ hold' = [hold EXCEPT ![l] = NoMessage]
    /\ UNCHANGED <<exists, running, queue, sender, handle, doomed, rounds, engineVars,
                   connVars, sent, lost, stops, promotes, stray>>

\* The loop is over: both map entries of the thread go, then finish_turn.
DropTx(l) ==
    /\ Goto(l, "dropTx", "dropTask") /\ sender' = NoLoop
    /\ UNCHANGED <<storeVars, handle, doomed, hold, rounds, engineVars, connVars, ghosts>>
DropTask(l) ==
    /\ Goto(l, "dropTask", "finish") /\ handle' = NoLoop
    /\ UNCHANGED <<storeVars, sender, doomed, hold, rounds, engineVars, connVars, ghosts>>

KeepRunning == running' = running  \* mutant: finish_turn leaves the flag

\* store.finish_turn: the thread is no longer running, whoever set the flag.
ClearRunning == running' = FALSE

FinishTurn(l) ==
    /\ Goto(l, "finish", "done") /\ Gone(l) /\ ClearRunning
    /\ outcome' = [outcome EXCEPT ![l] = "none"]
    /\ UNCHANGED <<exists, queue, cards, sender, handle, hold, engine, cancelled,
                   connVars, ghosts>>

\* An aborted task is dropped at its next await that has to wait; what it
\* popped goes with it, its engine does not.
Die(l) ==
    /\ doomed[l] /\ drain' = [drain EXCEPT ![l] = "done"] /\ Gone(l)
    /\ lost' = lost \cup ({hold[l]} \ {NoMessage})
    /\ hold' = [hold EXCEPT ![l] = NoMessage] /\ outcome' = [outcome EXCEPT ![l] = "none"]
    /\ UNCHANGED <<storeVars, sender, handle, engine, cancelled, connVars,
                   sent, discarded, stops, promotes, stray>>

-----------------------------------------------------------------------------
Request(c) ==
    \/ SendStarts(c) \/ SendQueues(c) \/ Retry(c) \/ EditAndResend(c)
    \/ AbortSignal(c) \/ Delete(c) \/ RemoveWorkspace(c)
    \/ QueueRemove(c) \/ QueueClear(c) \/ Promote(c)
Continue(c) ==
    Spawn(c) \/ Register(c) \/ AbortKill(c) \/ AbortClear(c) \/ PromoteSignal(c)
Drain(l) ==
    \/ StartTurn(l) \/ AfterTurn(l) \/ Compact(l) \/ PopNextQueued(l) \/ AddUserMessage(l)
    \/ DropTx(l) \/ DropTask(l) \/ FinishTurn(l) \/ Die(l)

Next ==
    \/ \E c \in Clients : Request(c) \/ Continue(c)
    \/ \E l \in Loops : Drain(l) \/ EngineEnds(l)

Spec == Init /\ [][Next]_vars

\* Handlers and drain tasks are scheduled, and an aborted task dies wherever it
\* waits.  Nothing is assumed of the engine, whose turn may wait for a silent
\* provider even after a cancel, nor of the model call inside compact_thread_now,
\* which is given no cancel token and whose headers nobody limits.
FairSpec ==
    /\ Spec
    /\ \A c \in Clients : WF_vars(Continue(c))
    /\ \A l \in Loops : WF_vars(drain[l] # "compact" /\ Drain(l)) /\ WF_vars(Die(l))

-----------------------------------------------------------------------------
(* Properties                                                               *)

StoreType ==
    /\ exists \in BOOLEAN /\ running \in BOOLEAN
    /\ queue \in Seq(1..MaxMessages) /\ cards \in Seq(1..MaxMessages)
    /\ sender \in Loops \cup {NoLoop} /\ handle \in Loops \cup {NoLoop}

TaskType ==
    /\ drain \in [Loops -> DrainPoints] /\ doomed \in [Loops -> BOOLEAN]
    /\ hold \in [Loops -> 0..MaxMessages] /\ rounds \in [Loops -> Nat]
    /\ engine \in [Loops -> {"off", "run"}] /\ outcome \in [Loops -> Outcomes]
    /\ cancelled \in [Loops -> BOOLEAN]

RequestType ==
    /\ conn \in [Clients -> ConnPoints] /\ mine \in [Clients -> Loops \cup {NoLoop}]

HistoryType ==
    /\ sent \in 0..MaxMessages
    /\ discarded \subseteq 1..MaxMessages /\ lost \subseteq 1..MaxMessages
    /\ stops \in Nat /\ promotes \in Nat /\ stray \in [Loops -> Nat]

\* Every variable has its type (the thread's part of store and Dispatcher).
TypeOK == StoreType /\ TaskType /\ RequestType /\ HistoryType

\* Every accepted message is in exactly one place: waiting, in a drain task's
\* hands, a card (once), discarded by the user, or lost with an aborted task.
\* thread.send answers "accepted" and pops and adds under separate locks.
MessagesConserved ==
    LET places == <<InQueue, InHand, OnCards, discarded, lost>> IN
    /\ UNION {places[i] : i \in DOMAIN places} = 1..sent
    /\ \A i, j \in DOMAIN places : i # j => places[i] \cap places[j] = {}
    /\ Cardinality(InQueue) = Len(queue) /\ Cardinality(OnCards) = Len(cards)

\* A second loop or engine on the thread is only there because an abort or a
\* deletion reset the running flag under a loop that was still at work: there
\* are never more of them than that, and without any the thread is exclusive.
OverlapPaidByStops ==
    Cardinality(Active) <= stops + (IF running THEN 1 ELSE 0)

\* While the thread shows as running, a drain task that nobody aborted will
\* reach finish_turn, or an abort is about to reset the flag: no order of
\* requests leaves a thread that shows as running for ever.
RunningIsOwned ==
    running => \/ \E l \in Loops : drain[l] \notin {"none", "done"} /\ ~doomed[l]
               \/ \E c \in Clients : conn[c] = "clear"

\* Until somebody starts the thread again, a loop that survived an abort or a
\* deletion begins at most one more turn.
AbortSettles == \A l \in Loops : stray[l] <= 1

FailedForGood == stops = 0 /\ \E l \in Loops : outcome[l] = "Failed" /\ drain[l] # "tx"

\* After a turn failed for good the messages that wait stay in the queue: only
\* the user takes them out ("the queued instructions are kept").
FailureKeepsQueue == [][FailedForGood => InQueue \subseteq InQueue' \cup discarded']_vars

\* A drain loop comes to its end, whatever the outcomes of its turns are,
\* provided that none of its turns and none of its compactions hangs:
\* compaction and retry never go round for ever.
LoopExits ==
    \A l \in Loops :
        []<>(engine[l] = "off") /\ []<>(drain[l] # "compact")
            => (drain[l] = "tx" ~> drain[l] = "done")

\* thread_loop.rs: the loop exits because "the queue is empty" and finishes
\* "the whole chain, queued messages included".  A message queued between the
\* last pop and finish_turn stays behind.
QueueDrained ==
    \A l \in Loops :
        (stops = 0 /\ drain[l] = "finish" /\ outcome[l] = "Completed") => queue = <<>>

=============================================================================
