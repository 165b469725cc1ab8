--------------------------- MODULE SessionMirror ---------------------------
(***************************************************************************)
(* The cards the interface shows and the session files they come from.     *)
(* AgentStore keeps every session's cards in memory; the engine appends    *)
(* the same conversation to a file; load_changed_threads and               *)
(* merge_disk_threads bring the files back into memory in two phases:      *)
(* stat and parse without the store lock, merge with it.  Between the      *)
(* phases turns start and end, sessions are deleted, other syncs overtake. *)
(*                                                                         *)
(* An entry stands for one message, on disk a line, in memory a card.  A   *)
(* file is its modification stamp, its entries and whether its first line  *)
(* is a header.  SessionFile models how the lines are written, ThreadLoop  *)
(* who runs a turn; here a thread has one turn and one engine at a time.   *)
(***************************************************************************)
EXTENDS Integers, FiniteSets

CONSTANTS
    Threads,     \* session ids; ids are never used again
    Children,    \* those of subagents: the file is their only source
    ParentOf,    \* the session that delegated to a child
    Syncers,     \* tasks that synchronise: timer, requests, monitors, drain loops
    Mortal,      \* those an abort kills between the two phases
    MaxEntries,  \* bound: entries made
    MaxWrites    \* bound: writes to files

ASSUME FamilyAssumption ==
    /\ Children \subseteq Threads
    /\ ParentOf \in [Children -> Threads \ Children]
ASSUME BoundsAssumption == MaxEntries \in Nat /\ MaxWrites \in Nat \ {0} /\ Mortal \subseteq Syncers

Entries == 1..MaxEntries
Family(t) == {t} \cup {c \in Children : ParentOf[c] = t}

VARIABLES
    file,      \* the session files
    clock,     \* stamp of the latest write
    stamps,    \* SYNC_STAMPS: the stamps of the latest recorded scan
    known,     \* ids in store.threads
    cards,     \* their items
    running,   \* running_thread_ids
    draining,  \* sessions with a drain loop at work
    engine,    \* sessions with an engine task at work
    pending,   \* what the engine produced and has not appended yet
    notices,   \* the entries that are failure notices
    next,      \* the next entry
    monitored, \* children a monitor task waits for, to show them as running
    deleting,  \* thread.delete removed the file, not yet the thread
    phase,     \* of each sync
    todo,      \* files of the listing it has not read
    seen,      \* what it read of the others
    deleted,   \* history: sessions whose deletion is complete
    resent     \* history: unknown ids that thread.editAndResend set running

disk == <<file, clock>>
memory == <<known, cards, running>>
ghosts == <<deleted, resent>>
turns == <<draining, engine, pending, notices, next>>
scans == <<stamps, phase, todo, seen>>
vars == <<disk, memory, turns, monitored, deleting, scans, ghosts>>

Absent == [at |-> 0, items |-> {}, headed |-> FALSE]
NoStamps == [t \in Threads |-> -1]
NotRead == [headed |-> FALSE, items |-> {}]

Current == [t \in Threads |-> file[t].at]
OnDisk == {t \in Threads : file[t].at > 0}

\* At start the store is built from the files.
Init ==
    /\ file = [t \in Threads |-> IF t \in Children THEN Absent
                                 ELSE [at |-> 1, items |-> {}, headed |-> TRUE]]
    /\ clock = 1 /\ stamps = NoStamps
    /\ known = Threads \ Children /\ cards = [t \in Threads |-> {}] /\ running = {}
    /\ draining = {} /\ engine = {} /\ pending = [t \in Threads |-> {}] /\ notices = {} /\ next = 1
    /\ monitored = {} /\ deleting = {}
    /\ phase = [s \in Syncers |-> "idle"] /\ todo = [s \in Syncers |-> {}]
    /\ seen = [s \in Syncers |-> [t \in Threads |-> NotRead]]
    /\ deleted = {} /\ resent = {}

-----------------------------------------------------------------------------
(* Turns                                                                    *)

\* A write of t's file: its stamp is new.
Write(t, items, headed) ==
    /\ clock < MaxWrites /\ clock' = clock + 1
    /\ file' = [file EXCEPT ![t] = [at |-> clock', items |-> items, headed |-> headed]]

Fresh == next <= MaxEntries /\ next' = next + 1

\* A drain loop and an engine begin to work for t.
Starts(t) == draining' = draining \cup {t} /\ engine' = engine \cup {t}

\* thread.send: the user's card and the running flag.
Send(t) ==
    /\ t \in known \ (Children \cup running \cup engine) /\ Fresh
    /\ cards' = [cards EXCEPT ![t] = @ \cup {next}] /\ running' = running \cup {t}
    /\ Starts(t) /\ pending' = [pending EXCEPT ![t] = @ \cup {next}]
    /\ UNCHANGED <<disk, known, notices, monitored, deleting, scans, ghosts>>

\* thread.editAndResend sets the running flag and starts the turn without
\* looking the thread up; it adds no card, the engine persists the prompt.
EditAndResend(t) ==
    /\ t \in Threads \ (Children \cup running \cup draining \cup engine) /\ Fresh
    /\ running' = running \cup {t} /\ resent' = resent \cup ({t} \ known)
    /\ Starts(t) /\ pending' = [pending EXCEPT ![t] = @ \cup {next}]
    /\ UNCHANGED <<disk, known, cards, notices, monitored, deleting, scans, deleted>>

\* A card is added to a thread the store holds; elsewhere it is dropped.
AddCard(t, e) == cards' = [cards EXCEPT ![t] = @ \cup (IF t \in known THEN {e} ELSE {})]

\* The engine produced text or a tool result; the drain loop shows it before
\* it is persisted.  An aborted thread has no drain loop.
Produce(t) ==
    /\ t \in engine \ Children /\ Fresh
    /\ pending' = [pending EXCEPT ![t] = @ \cup {next}]
    /\ IF t \in draining THEN AddCard(t, next) ELSE UNCHANGED cards
    /\ UNCHANGED <<disk, known, running, draining, engine, notices, monitored, deleting, scans, ghosts>>

\* SessionStore::append_message; a deleted file comes back without a header.
Persist(t) ==
    /\ t \in engine
    /\ \E e \in pending[t] :
         /\ Write(t, file[t].items \cup {e}, file[t].headed)
         /\ pending' = [pending EXCEPT ![t] = @ \ {e}]
    /\ UNCHANGED <<memory, draining, engine, notices, next, monitored, deleting, scans, ghosts>>

\* The engine's task is over; what a cancelled stream had shown is dropped.
EngineEnds(t) ==
    /\ t \in engine \ Children
    /\ engine' = engine \ {t} /\ pending' = [pending EXCEPT ![t] = {}]
    /\ UNCHANGED <<disk, memory, draining, notices, next, monitored, deleting, scans, ghosts>>

\* The engine's task ended with Failed, which the drain loop handles: the notice
\* goes to the file, then to the cards, with the store lock held.
Fail(t) ==
    /\ t \in draining \cap engine
    /\ engine' = engine \ {t} /\ pending' = [pending EXCEPT ![t] = {}]
    /\ Fresh /\ notices' = notices \cup {next}
    /\ IF t \in OnDisk THEN Write(t, file[t].items \cup {next}, file[t].headed)
                       ELSE UNCHANGED disk
    /\ AddCard(t, next)
    /\ UNCHANGED <<known, running, draining, monitored, deleting, scans, ghosts>>

\* store.finish_turn, at the end of the loop: the children are not running either.
FinishTurn(t) ==
    /\ t \in draining \ engine
    /\ draining' = draining \ {t} /\ running' = running \ Family(t)
    /\ UNCHANGED <<disk, known, cards, engine, pending, notices, next, monitored, deleting, scans, ghosts>>

\* thread.abort: the drain loop is gone, the engine winds down.
Abort(t) ==
    /\ t \in draining
    /\ draining' = draining \ {t} /\ running' = running \ Family(t)
    /\ UNCHANGED <<disk, known, cards, engine, pending, notices, next, monitored, deleting, scans, ghosts>>

\* thread.retry clears the notices of the file, then of the cards.
Retry(t) ==
    /\ t \in known \ (Children \cup running \cup engine)
    /\ IF file[t].items \cap notices # {}
       THEN Write(t, file[t].items \ notices, file[t].headed) ELSE UNCHANGED disk
    /\ cards' = [cards EXCEPT ![t] = @ \ notices]
    /\ running' = running \cup {t} /\ Starts(t)
    /\ UNCHANGED <<known, pending, notices, next, monitored, deleting, scans, ghosts>>

-----------------------------------------------------------------------------
(* Subagents: the parent's engine creates the child's session and writes it *)

CreateChild(c) ==
    /\ ParentOf[c] \in engine /\ c \notin OnDisk \cup deleted /\ c \notin engine
    /\ Write(c, {}, TRUE) /\ engine' = engine \cup {c}
    /\ UNCHANGED <<memory, draining, pending, notices, next, monitored, deleting, scans, ghosts>>

ChildProduces(c) ==
    /\ c \in engine /\ Fresh
    /\ Write(c, file[c].items \cup {next}, file[c].headed)
    /\ UNCHANGED <<memory, draining, engine, pending, notices, monitored, deleting, scans, ghosts>>

ChildEnds(c) ==
    /\ c \in engine /\ engine' = engine \ {c}
    /\ UNCHANGED <<disk, memory, draining, pending, notices, next, monitored, deleting, scans, ghosts>>

\* The drain loop, which outlives the deletion of its thread, handles the
\* ToolCallStarted of a delegation: a monitor task is spawned, which looks for a
\* child the store does not hold yet.
StartMonitor(c) ==
    /\ ParentOf[c] \in draining /\ c \notin known \cup monitored
    /\ monitored' = monitored \cup {c}
    /\ UNCHANGED <<disk, memory, turns, deleting, scans, ghosts>>

\* The monitor found the child and marks it, whatever became of the turn that
\* delegated: nobody tells the monitor, and it does not look.
MarkChild(c) ==
    /\ c \in monitored \cap known
    /\ running' = running \cup {c} /\ monitored' = monitored \ {c}
    /\ UNCHANGED <<disk, known, cards, turns, deleting, scans, ghosts>>

\* It looks sixty times, then it is done.
MonitorGivesUp(c) ==
    /\ c \in monitored /\ monitored' = monitored \ {c}
    /\ UNCHANGED <<disk, memory, turns, deleting, scans, ghosts>>

\* ToolCallFinished of the delegation, after the child is done.
UnmarkChild(c) ==
    /\ c \in running \ engine /\ ParentOf[c] \in draining
    /\ running' = running \ {c}
    /\ UNCHANGED <<disk, known, cards, turns, monitored, deleting, scans, ghosts>>

-----------------------------------------------------------------------------
(* Deletion                                                                 *)

EraseKeepsHeader(S) ==  \* mutant: the cached header outlives the file
    file' = [t \in Threads |-> IF t \in S THEN [Absent EXCEPT !.headed = TRUE] ELSE file[t]]

Erase(S) == file' = [t \in Threads |-> IF t \in S THEN Absent ELSE file[t]]

ForgetTarget(S) ==  \* mutant: only the thread goes, its bookkeeping stays
    /\ known' = known \ S /\ running' = running
    /\ cards' = [t \in Threads |-> IF t \in S THEN {} ELSE cards[t]]

Forget(S) ==
    /\ known' = known \ S /\ running' = running \ S
    /\ cards' = [t \in Threads |-> IF t \in S THEN {} ELSE cards[t]]

\* thread.delete: the files first ...
DeleteFile(t) ==
    /\ t \in known \ (Children \cup deleting)
    /\ Erase(Family(t)) /\ deleting' = deleting \cup {t}
    /\ UNCHANGED <<clock, memory, turns, monitored, scans, ghosts>>

\* ... then the threads in memory.
DeleteThread(t) ==
    /\ t \in deleting /\ deleting' = deleting \ {t}
    /\ Forget(Family(t)) /\ deleted' = deleted \cup (Family(t) \cap known)
    /\ UNCHANGED <<disk, turns, monitored, scans, resent>>

\* workspace.remove, refused while a session runs, does both under the lock.
RemoveWorkspace(t) ==
    /\ t \in known \ (Children \cup deleting) /\ Family(t) \cap running = {}
    /\ Erase(Family(t)) /\ Forget(Family(t)) /\ deleted' = deleted \cup (Family(t) \cap known)
    /\ UNCHANGED <<clock, turns, monitored, deleting, scans, resent>>

-----------------------------------------------------------------------------
(* The two-phase sync                                                       *)

\* needs_full_disk_scan: a child runs, its progress is only in its file.
NeedsFullDiskScan == running \cap Children # {}

\* The stamps are recorded before anything is parsed; equal stamps: no scan.
StartScan(s) ==
    /\ phase[s] = "idle" /\ (NeedsFullDiskScan \/ stamps # Current)
    /\ stamps' = IF NeedsFullDiskScan THEN stamps ELSE Current
    /\ phase' = [phase EXCEPT ![s] = "read"] /\ todo' = [todo EXCEPT ![s] = OnDisk]
    /\ seen' = [seen EXCEPT ![s] = [t \in Threads |-> NotRead]]
    /\ UNCHANGED <<disk, memory, turns, monitored, deleting, ghosts>>

\* restore_all_threads reads the files one after the other and leaves out
\* those whose first line is no header.
ReadFile(s, t) ==
    /\ phase[s] = "read" /\ t \in todo[s]
    /\ todo' = [todo EXCEPT ![s] = @ \ {t}]
    /\ seen' = [seen EXCEPT ![s][t] = [headed |-> file[t].headed, items |-> file[t].items]]
    /\ UNCHANGED <<disk, memory, turns, monitored, deleting, stamps, phase, ghosts>>

NeverStreamed(t) == FALSE  \* mutant: a running thread is merged like any other

\* Cards this process streams itself are not replaced.
LocallyStreamed(t) == t \notin Children /\ t \in running

\* A merge takes the cards from the file: of a thread the store does not hold
\* yet, and of one it holds unless this process streams it.
Replaced(t) == t \notin known \/ ~LocallyStreamed(t)

MergeRecords(s) ==  \* mutant: the stamps are refreshed when the scan is done
    LET found == {t \in Threads : seen[s][t].headed} IN
    /\ phase[s] = "read" /\ todo[s] = {} /\ phase' = [phase EXCEPT ![s] = "idle"]
    /\ known' = known \cup found
    /\ cards' = [t \in Threads |->
                   IF t \in found /\ Replaced(t) THEN seen[s][t].items ELSE cards[t]]
    /\ seen' = [seen EXCEPT ![s] = [t \in Threads |-> NotRead]]
    /\ stamps' = Current
    /\ UNCHANGED <<disk, running, turns, monitored, deleting, todo, ghosts>>

\* merge_disk_threads: replace what differs, add what is not known.
Merge(s) ==
    LET found == {t \in Threads : seen[s][t].headed} IN
    /\ phase[s] = "read" /\ todo[s] = {} /\ phase' = [phase EXCEPT ![s] = "idle"]
    /\ known' = known \cup found
    /\ cards' = [t \in Threads |->
                   IF t \in found /\ Replaced(t) THEN seen[s][t].items ELSE cards[t]]
    /\ seen' = [seen EXCEPT ![s] = [t \in Threads |-> NotRead]]
    /\ UNCHANGED <<disk, running, turns, monitored, deleting, stamps, todo, ghosts>>

\* The drain loop that was syncing is aborted while it waits for the lock.
DropScan(s) ==
    /\ s \in Mortal /\ phase[s] = "read" /\ todo[s] = {}
    /\ phase' = [phase EXCEPT ![s] = "idle"]
    /\ seen' = [seen EXCEPT ![s] = [t \in Threads |-> NotRead]]
    /\ UNCHANGED <<disk, memory, turns, monitored, deleting, stamps, todo, ghosts>>

-----------------------------------------------------------------------------
Turn(t) ==
    \/ Send(t) \/ EditAndResend(t) \/ Produce(t) \/ Persist(t) \/ EngineEnds(t)
    \/ Fail(t) \/ FinishTurn(t) \/ Abort(t) \/ Retry(t)
Child(c) ==
    \/ CreateChild(c) \/ ChildProduces(c) \/ ChildEnds(c)
    \/ StartMonitor(c) \/ MarkChild(c) \/ MonitorGivesUp(c) \/ UnmarkChild(c)
Deletion(t) == DeleteFile(t) \/ DeleteThread(t) \/ RemoveWorkspace(t)
Sync(s) ==
    \/ StartScan(s) \/ Merge(s) \/ DropScan(s)
    \/ \E t \in Threads : ReadFile(s, t)

Next ==
    \/ \E t \in Threads : Turn(t) \/ Deletion(t)
    \/ \E c \in Children : Child(c)
    \/ \E s \in Syncers : Sync(s)

Spec == Init /\ [][Next]_vars

\* The timer syncs again and again.
FairSpec == Spec /\ \A s \in Syncers \ Mortal : WF_vars(Sync(s))

-----------------------------------------------------------------------------
(* Properties                                                               *)

FileType ==
    /\ file \in [Threads -> [at : 0..MaxWrites, items : SUBSET Entries, headed : BOOLEAN]]
    /\ \A t \in Threads : file[t].at = 0 => file[t] = Absent
    /\ clock \in 1..MaxWrites
MemoryType ==
    /\ known \subseteq Threads /\ running \subseteq Threads
    /\ cards \in [Threads -> SUBSET Entries]
    /\ monitored \subseteq Children /\ deleting \subseteq Threads
    /\ deleted \subseteq Threads /\ resent \subseteq Threads
TurnType ==
    /\ draining \subseteq Threads /\ engine \subseteq Threads
    /\ pending \in [Threads -> SUBSET Entries]
    /\ notices \subseteq Entries /\ next \in 1..MaxEntries + 1
ScanType ==
    /\ stamps \in [Threads -> -1..MaxWrites]
    /\ phase \in [Syncers -> {"idle", "read"}] /\ todo \in [Syncers -> SUBSET Threads]
    /\ seen \in [Syncers -> [Threads -> [headed : BOOLEAN, items : SUBSET Entries]]]

\* Every variable has its type; a file that is not there has no content.
TypeOK == FileType /\ MemoryType /\ TurnType /\ ScanType

\* From the send to the end of the turn the cards of a thread only grow, except
\* that its deletion removes them: a scan that read the file before the turn
\* began and merges afterwards does not wipe out what the user just sent.
StreamingUntouched ==
    [][\A t \in (running \cap running') \ Children : cards[t] \subseteq cards'[t]]_vars

\* store.rs: delete_thread clears the running ids with the thread, so that no
\* entry shows that is "deleted and still running".  thread.editAndResend sets
\* the flag of an id that is gone.
NoGhostRuns == running \subseteq known

\* No session shows as running that the store does not hold, whatever is
\* deleted while its turn, its child's turn or the monitor of its delegation
\* goes on, except an id that thread.editAndResend started although unknown.
OnlyResendMakesGhosts == running \subseteq known \cup resent

\* store.rs, finish_turn: once a parent's turn is over, none of its children "can
\* still be running", whatever was missed.  The monitor marks one afterwards.
ChildRunsInsideTurn ==
    \A c \in Children \cap running : ParentOf[c] \in known => ParentOf[c] \in running

\* What a child wrote is shown in the end, unless the child is deleted, whatever
\* turns do meanwhile, as long as no task that can be killed synchronises: one
\* that is killed between the stamps and the merge takes the content with it.
ChildShown ==
    [](\A s \in Mortal : phase[s] = "idle") =>
      \A c \in Children, e \in Entries :
        (e \in file[c].items /\ file[c].headed)
            ~> (e \in cards[c] \/ c \in deleted \/ ~file[c].headed)

\* dispatch/mod.rs: the file is deleted first so that no later sync "reads it
\* back from disk", the session that is "deleted and appears again a while later".
DeletedStaysDeleted == deleted \cap known = {}

=============================================================================
