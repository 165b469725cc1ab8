------------------------ MODULE SessionMirrorProofs ------------------------
(***************************************************************************)
(* Proofs about SessionMirror, for any family of sessions and any number   *)
(* of tasks that synchronise: the types, which sessions can show as        *)
(* running, and that no step takes a card of a turn that goes on.          *)
(***************************************************************************)
EXTENDS SessionMirror, TLAPS

-----------------------------------------------------------------------------
(* Files                                                                    *)

\* A session and its children are sessions.
LEMMA FamilyType == ASSUME NEW t \in Threads PROVE Family(t) \subseteq Threads /\ t \in Family(t)
BY FamilyAssumption DEF FamilyAssumption, Family

\* A write gives the file a stamp no scan has recorded.
LEMMA WriteType ==
  ASSUME FileType, NEW t \in Threads, NEW items \in SUBSET Entries, NEW headed \in BOOLEAN,
         Write(t, items, headed)
  PROVE  FileType'
<1>1. clock' \in 2 .. MaxWrites
  BY BoundsAssumption DEF FileType, Write, BoundsAssumption
<1>2. file' = [file EXCEPT ![t] = [at |-> clock', items |-> items, headed |-> headed]]
  BY DEF Write
<1>. QED BY <1>1, <1>2 DEF FileType

\* A deletion leaves no trace of the files.
LEMMA EraseType ==
  ASSUME FileType, NEW S, Erase(S), clock' = clock
  PROVE  FileType'
<1>1. Absent \in [at : 0..MaxWrites, items : SUBSET Entries, headed : BOOLEAN]
  BY BoundsAssumption DEF BoundsAssumption, Absent
<1>. QED BY <1>1 DEF FileType, Erase

-----------------------------------------------------------------------------
(* Types                                                                    *)

\* The next entry is one, and the one after it is a number again.
LEMMA FreshType == TurnType /\ Fresh => next \in Entries /\ next' \in 1..MaxEntries + 1
BY BoundsAssumption DEF BoundsAssumption, TurnType, Fresh, Entries

\* The steps of a turn keep the types.
LEMMA TurnSteps == ASSUME TypeOK, NEW t \in Threads, Turn(t) PROVE TypeOK'
<1>1. ScanType'
  BY DEF Turn, Send, EditAndResend, Produce, Persist, EngineEnds, Fail, FinishTurn, Abort, Retry,
         TypeOK, ScanType, scans
<1>2. CASE Send(t) \/ EditAndResend(t) \/ Produce(t)
  <2>1. next \in Entries /\ next' \in 1..MaxEntries + 1
    BY <1>2, FreshType DEF Send, EditAndResend, Produce, TypeOK
  <2>2. FileType'
    BY <1>2 DEF Send, EditAndResend, Produce, TypeOK, FileType, disk
  <2>3. MemoryType'
    BY <1>2, <2>1 DEF Send, EditAndResend, Produce, AddCard, TypeOK, MemoryType, ghosts
  <2>4. TurnType'
    <3>1. CASE Send(t) \/ EditAndResend(t)
      <4>1. Starts(t) /\ pending' = [pending EXCEPT ![t] = @ \cup {next}] /\ notices' = notices
        BY <3>1 DEF Send, EditAndResend
      <4>. QED BY <2>1, <4>1 DEF Starts, TypeOK, TurnType
    <3>2. CASE Produce(t)
      BY <2>1, <3>2 DEF Produce, TypeOK, TurnType
    <3>. QED BY <1>2, <3>1, <3>2
  <2>. QED BY <1>1, <2>2, <2>3, <2>4 DEF TypeOK
<1>3. CASE Persist(t)
  <2>1. PICK e \in pending[t] : /\ Write(t, file[t].items \cup {e}, file[t].headed)
                               /\ pending' = [pending EXCEPT ![t] = @ \ {e}]
    BY <1>3 DEF Persist
  <2>2. file[t].items \cup {e} \in SUBSET Entries /\ file[t].headed \in BOOLEAN
    BY DEF TypeOK, FileType, TurnType
  <2>3. FileType'
    BY <2>1, <2>2, WriteType DEF TypeOK
  <2>4. MemoryType'
    BY <1>3 DEF Persist, TypeOK, MemoryType, memory, ghosts
  <2>5. TurnType'
    BY <1>3, <2>1 DEF Persist, TypeOK, TurnType
  <2>. QED BY <1>1, <2>3, <2>4, <2>5 DEF TypeOK
<1>4. CASE EngineEnds(t) \/ FinishTurn(t) \/ Abort(t)
  <2>1. FileType'
    BY <1>4 DEF EngineEnds, FinishTurn, Abort, TypeOK, FileType, disk
  <2>2. MemoryType'
    BY <1>4 DEF EngineEnds, FinishTurn, Abort, TypeOK, MemoryType, memory, ghosts
  <2>3. TurnType'
    BY <1>4 DEF EngineEnds, FinishTurn, Abort, TypeOK, TurnType, turns
  <2>. QED BY <1>1, <2>1, <2>2, <2>3 DEF TypeOK
<1>5. CASE Fail(t)
  <2>1. next \in Entries /\ next' \in 1..MaxEntries + 1
    BY <1>5, FreshType DEF Fail, TypeOK
  <2>2. FileType'
    <3>1. file[t].items \cup {next} \in SUBSET Entries /\ file[t].headed \in BOOLEAN
      BY <2>1 DEF TypeOK, FileType
    <3>2. CASE UNCHANGED disk
      BY <3>2 DEF TypeOK, FileType, disk
    <3>. QED BY <1>5, <3>1, <3>2, WriteType DEF Fail, TypeOK
  <2>3. MemoryType'
    BY <1>5, <2>1 DEF Fail, AddCard, TypeOK, MemoryType, ghosts
  <2>4. TurnType'
    BY <1>5, <2>1 DEF Fail, TypeOK, TurnType
  <2>. QED BY <1>1, <2>2, <2>3, <2>4 DEF TypeOK
<1>6. CASE Retry(t)
  <2>1. FileType'
    <3>1. file[t].items \ notices \in SUBSET Entries /\ file[t].headed \in BOOLEAN
      BY DEF TypeOK, FileType
    <3>2. CASE UNCHANGED disk
      BY <3>2 DEF TypeOK, FileType, disk
    <3>. QED BY <1>6, <3>1, <3>2, WriteType DEF Retry, TypeOK
  <2>2. MemoryType'
    BY <1>6 DEF Retry, TypeOK, MemoryType, ghosts
  <2>3. TurnType'
    BY <1>6 DEF Retry, Starts, TypeOK, TurnType
  <2>. QED BY <1>1, <2>1, <2>2, <2>3 DEF TypeOK
<1>. QED BY <1>2, <1>3, <1>4, <1>5, <1>6 DEF Turn

\* The steps of a subagent keep the types.
LEMMA ChildSteps == ASSUME TypeOK, NEW c \in Children, Child(c) PROVE TypeOK'
<1>0. c \in Threads
  BY FamilyAssumption DEF FamilyAssumption
<1>1. ScanType'
  BY DEF Child, CreateChild, ChildProduces, ChildEnds, StartMonitor, MarkChild, MonitorGivesUp,
         UnmarkChild, TypeOK, ScanType, scans
<1>2. MemoryType'
  BY <1>0 DEF Child, CreateChild, ChildProduces, ChildEnds, StartMonitor, MarkChild,
              MonitorGivesUp, UnmarkChild, TypeOK, MemoryType, memory, ghosts
<1>3. CASE CreateChild(c)
  <2>1. FileType'
    BY <1>0, <1>3, WriteType DEF CreateChild, TypeOK
  <2>2. TurnType'
    BY <1>0, <1>3 DEF CreateChild, TypeOK, TurnType
  <2>. QED BY <1>1, <1>2, <2>1, <2>2 DEF TypeOK
<1>4. CASE ChildProduces(c)
  <2>1. next \in Entries /\ next' \in 1..MaxEntries + 1
    BY <1>4, FreshType DEF ChildProduces, TypeOK
  <2>2. file[c].items \cup {next} \in SUBSET Entries /\ file[c].headed \in BOOLEAN
    BY <1>0, <2>1 DEF TypeOK, FileType
  <2>3. FileType'
    BY <1>0, <1>4, <2>2, WriteType DEF ChildProduces, TypeOK
  <2>4. TurnType'
    BY <1>4, <2>1 DEF ChildProduces, TypeOK, TurnType
  <2>. QED BY <1>1, <1>2, <2>3, <2>4 DEF TypeOK
<1>5. CASE ChildEnds(c) \/ StartMonitor(c) \/ MarkChild(c) \/ MonitorGivesUp(c) \/ UnmarkChild(c)
  <2>1. FileType'
    BY <1>5 DEF ChildEnds, StartMonitor, MarkChild, MonitorGivesUp, UnmarkChild, TypeOK, FileType,
                disk
  <2>2. TurnType'
    BY <1>5 DEF ChildEnds, StartMonitor, MarkChild, MonitorGivesUp, UnmarkChild, TypeOK, TurnType,
                turns
  <2>. QED BY <1>1, <1>2, <2>1, <2>2 DEF TypeOK
<1>. QED BY <1>3, <1>4, <1>5 DEF Child

\* Deletions keep the types.
LEMMA DeletionSteps == ASSUME TypeOK, NEW t \in Threads, Deletion(t) PROVE TypeOK'
<1>1. ScanType' /\ TurnType'
  BY DEF Deletion, DeleteFile, DeleteThread, RemoveWorkspace, TypeOK, ScanType, TurnType, scans,
         turns
<1>2. FileType'
  <2>1. CASE Erase(Family(t)) /\ UNCHANGED clock
    BY <2>1, EraseType DEF TypeOK
  <2>2. CASE UNCHANGED disk
    BY <2>2 DEF TypeOK, FileType, disk
  <2>. QED BY <2>1, <2>2 DEF Deletion, DeleteFile, DeleteThread, RemoveWorkspace
<1>3. MemoryType'
  <2>1. CASE RemoveWorkspace(t)
    BY <2>1 DEF RemoveWorkspace, Forget, TypeOK, MemoryType
  <2>2. CASE DeleteFile(t)
    BY <2>2 DEF DeleteFile, TypeOK, MemoryType, memory, ghosts
  <2>3. CASE DeleteThread(t)
    BY <2>3 DEF DeleteThread, Forget, TypeOK, MemoryType
  <2>. QED BY <2>1, <2>2, <2>3 DEF Deletion
<1>. QED BY <1>1, <1>2, <1>3 DEF TypeOK

\* A sync keeps the types.
LEMMA SyncSteps == ASSUME TypeOK, NEW s \in Syncers, Sync(s) PROVE TypeOK'
<1>1. FileType' /\ TurnType'
  BY DEF Sync, StartScan, ReadFile, Merge, DropScan, TypeOK, FileType, TurnType, disk, turns
<1>2. CASE StartScan(s)
  <2>1. Current \in [Threads -> -1..MaxWrites]
    BY DEF Current, TypeOK, FileType
  <2>2. OnDisk \subseteq Threads /\ NotRead \in [headed : BOOLEAN, items : SUBSET Entries]
    BY DEF OnDisk, NotRead
  <2>3. ScanType'
    BY <1>2, <2>1, <2>2 DEF StartScan, TypeOK, ScanType
  <2>4. MemoryType'
    BY <1>2 DEF StartScan, TypeOK, MemoryType, memory, ghosts
  <2>. QED BY <1>1, <2>3, <2>4 DEF TypeOK
<1>3. ASSUME NEW t \in Threads, ReadFile(s, t) PROVE TypeOK'
  <2>1. [headed |-> file[t].headed, items |-> file[t].items]
           \in [headed : BOOLEAN, items : SUBSET Entries]
    BY DEF TypeOK, FileType
  <2>2. ScanType'
    BY <1>3, <2>1 DEF ReadFile, TypeOK, ScanType
  <2>3. MemoryType'
    BY <1>3 DEF ReadFile, TypeOK, MemoryType, memory, ghosts
  <2>. QED BY <1>1, <2>2, <2>3 DEF TypeOK
<1>4. CASE Merge(s) \/ DropScan(s)
  <2>1. NotRead \in [headed : BOOLEAN, items : SUBSET Entries]
    BY DEF NotRead
  <2>2. ScanType'
    <3>1. /\ UNCHANGED <<stamps, todo>> /\ phase' = [phase EXCEPT ![s] = "idle"]
          /\ seen' = [seen EXCEPT ![s] = [t \in Threads |-> NotRead]]
      BY <1>4 DEF Merge, DropScan
    <3>. QED BY <2>1, <3>1 DEF TypeOK, ScanType
  <2>3. MemoryType'
    BY <1>4 DEF Merge, DropScan, TypeOK, MemoryType, ScanType, memory, ghosts
  <2>. QED BY <1>1, <2>2, <2>3 DEF TypeOK
<1>. QED BY <1>2, <1>3, <1>4 DEF Sync

\* The variables keep their types (store.rs:537-582, manager.rs:684-790).
THEOREM TypeCorrect == Spec => []TypeOK
<1>1. Init => TypeOK
  <2>. SUFFICES ASSUME Init PROVE TypeOK
    OBVIOUS
  <2>1. FileType
    BY BoundsAssumption DEF BoundsAssumption, Init, FileType, Absent
  <2>2. MemoryType
    BY DEF Init, MemoryType
  <2>3. TurnType
    BY BoundsAssumption DEF BoundsAssumption, Init, TurnType
  <2>4. ScanType
    BY BoundsAssumption DEF BoundsAssumption, Init, ScanType, NoStamps, NotRead
  <2>. QED BY <2>1, <2>2, <2>3, <2>4 DEF TypeOK
<1>2. TypeOK /\ [Next]_vars => TypeOK'
  <2>1. ASSUME TypeOK, UNCHANGED vars PROVE TypeOK'
    BY <2>1 DEF TypeOK, FileType, MemoryType, TurnType, ScanType, vars, disk, memory, turns, scans,
                ghosts
  <2>. QED BY <2>1, TurnSteps, ChildSteps, DeletionSteps, SyncSteps DEF Next
<1>. QED BY <1>1, <1>2, PTL DEF Spec

-----------------------------------------------------------------------------
(* What the interface shows                                                 *)

\* No session shows as running that the store does not hold, but for an id that
\* thread.editAndResend started unknown: whatever takes a session out of the store
\* takes it out of the running ones (store.rs:615-665), and the monitor of a
\* delegation marks only what the store holds (thread_loop.rs:246-256).
THEOREM RunsAreKnown == Spec => []OnlyResendMakesGhosts
<1>. USE DEF OnlyResendMakesGhosts
<1>1. Init => OnlyResendMakesGhosts
  BY DEF Init
<1>2. OnlyResendMakesGhosts /\ [Next]_vars => OnlyResendMakesGhosts'
  <2>. SUFFICES ASSUME OnlyResendMakesGhosts, [Next]_vars PROVE OnlyResendMakesGhosts'
    OBVIOUS
  <2>1. ASSUME NEW t \in Threads, Turn(t) PROVE OnlyResendMakesGhosts'
    BY <2>1 DEF Turn, Send, EditAndResend, Produce, Persist, EngineEnds, Fail, FinishTurn, Abort,
                Retry, memory, ghosts
  <2>2. ASSUME NEW t \in Threads, Deletion(t) PROVE OnlyResendMakesGhosts'
    BY <2>2 DEF Deletion, DeleteFile, DeleteThread, RemoveWorkspace, Forget, memory, ghosts
  <2>3. ASSUME NEW c \in Children, Child(c) PROVE OnlyResendMakesGhosts'
    BY <2>3 DEF Child, CreateChild, ChildProduces, ChildEnds, StartMonitor, MarkChild,
                MonitorGivesUp, UnmarkChild, memory, ghosts
  <2>4. ASSUME NEW s \in Syncers, Sync(s) PROVE OnlyResendMakesGhosts'
    BY <2>4 DEF Sync, StartScan, ReadFile, Merge, DropScan, memory, ghosts
  <2>5. CASE UNCHANGED vars
    BY <2>5 DEF vars, memory, ghosts
  <2>. QED BY <2>1, <2>2, <2>3, <2>4, <2>5 DEF Next
<1>. QED BY <1>1, <1>2, PTL DEF Spec

\* A session the store does not hold shows no card: the first cards of a merge are
\* therefore an addition even where thread.editAndResend started an unknown id.
UnknownIsEmpty == \A t \in Threads \ known : cards[t] = {}

\* Cards come and go with the thread (store.rs:541-582, 610-625).
LEMMA UnknownEmpty == Spec => []UnknownIsEmpty
<1>. USE DEF UnknownIsEmpty, TypeOK, MemoryType
<1>1. Init => UnknownIsEmpty
  BY DEF Init
<1>2. TypeOK /\ UnknownIsEmpty /\ [Next]_vars => UnknownIsEmpty'
  <2>. SUFFICES ASSUME TypeOK, UnknownIsEmpty, [Next]_vars PROVE UnknownIsEmpty'
    OBVIOUS
  <2>1. ASSUME NEW t \in Threads, Turn(t) PROVE UnknownIsEmpty'
    BY <2>1 DEF Turn, Send, EditAndResend, Produce, Persist, EngineEnds, Fail, FinishTurn, Abort,
                Retry, AddCard, memory
  <2>2. ASSUME NEW t \in Threads, Deletion(t) PROVE UnknownIsEmpty'
    BY <2>2 DEF Deletion, DeleteFile, DeleteThread, RemoveWorkspace, Forget, memory
  <2>3. ASSUME NEW c \in Children, Child(c) PROVE UnknownIsEmpty'
    BY <2>3 DEF Child, CreateChild, ChildProduces, ChildEnds, StartMonitor, MarkChild,
                MonitorGivesUp, UnmarkChild, memory
  <2>4. ASSUME NEW s \in Syncers, Sync(s) PROVE UnknownIsEmpty'
    BY <2>4 DEF Sync, StartScan, ReadFile, Merge, DropScan, memory
  <2>5. CASE UNCHANGED vars
    BY <2>5 DEF vars, memory
  <2>. QED BY <2>1, <2>2, <2>3, <2>4, <2>5 DEF Next
<1>. QED BY <1>1, <1>2, TypeCorrect, PTL DEF Spec

\* A step takes no card from a thread whose turn goes on: only a retry and a merge
\* take cards, a retry of a thread that rests and a merge of what is not streamed.
LEMMA StreamingStep ==
  ASSUME TypeOK, UnknownIsEmpty, [Next]_vars, NEW t \in (running \cap running') \ Children
  PROVE  cards[t] \subseteq cards'[t]
<1>. USE DEF TypeOK, MemoryType
<1>1. ASSUME NEW u \in Threads, Turn(u) PROVE cards[t] \subseteq cards'[t]
  BY <1>1 DEF Turn, Send, EditAndResend, Produce, Persist, EngineEnds, Fail, FinishTurn, Abort,
              Retry, AddCard, memory
<1>2. ASSUME NEW u \in Threads, Deletion(u) PROVE cards[t] \subseteq cards'[t]
  BY <1>2 DEF Deletion, DeleteFile, DeleteThread, RemoveWorkspace, Forget, memory
<1>3. ASSUME NEW c \in Children, Child(c) PROVE cards[t] \subseteq cards'[t]
  BY <1>3 DEF Child, CreateChild, ChildProduces, ChildEnds, StartMonitor, MarkChild,
              MonitorGivesUp, UnmarkChild, memory
<1>4. ASSUME NEW s \in Syncers, Sync(s) PROVE cards[t] \subseteq cards'[t]
  <2>1. CASE Merge(s)
    <3>1. cards'[t] = cards[t] \/ t \notin known
      BY <2>1 DEF Merge, Replaced, LocallyStreamed
    <3>. QED BY <3>1 DEF UnknownIsEmpty
  <2>. QED BY <1>4, <2>1 DEF Sync, StartScan, ReadFile, DropScan, memory
<1>5. CASE UNCHANGED vars
  BY <1>5 DEF vars, memory
<1>. QED BY <1>1, <1>2, <1>3, <1>4, <1>5 DEF Next

\* The cards of a thread only grow while its turn goes on, whatever was read from
\* its file before (store.rs:541-582).
THEOREM StreamingIsUntouched == Spec => StreamingUntouched
<1>1. TypeOK /\ UnknownIsEmpty /\ [Next]_vars =>
        [\A t \in (running \cap running') \ Children : cards[t] \subseteq cards'[t]]_vars
  BY StreamingStep
<1>. QED BY <1>1, TypeCorrect, UnknownEmpty, PTL DEF Spec, StreamingUntouched

=============================================================================
