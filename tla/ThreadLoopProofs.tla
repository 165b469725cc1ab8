-------------------------- MODULE ThreadLoopProofs --------------------------
(***************************************************************************)
(* Proofs about ThreadLoop, for any number of connections, loops, messages *)
(* and stops.  Ind is the inductive invariant: besides the two properties  *)
(* on overlap and ownership it says which drain points go with an engine   *)
(* at work, an abort already delivered, a registered handle and a handler  *)
(* about to spawn.  On it rest the types, the places of the messages, how  *)
(* a stopped loop settles and what a failed turn leaves in the queue.      *)
(***************************************************************************)
EXTENDS ThreadLoop, FiniteSetTheorems, SequenceTheorems, TLAPS

ControlType ==
    /\ exists \in BOOLEAN /\ running \in BOOLEAN /\ stops \in Nat
    /\ handle \in Loops \cup {NoLoop}
    /\ drain \in [Loops -> DrainPoints] /\ doomed \in [Loops -> BOOLEAN]
    /\ engine \in [Loops -> {"off", "run"}]
    /\ conn \in [Clients -> ConnPoints] /\ mine \in [Clients -> Loops \cup {NoLoop}]

NotSpawned == {"none", "pending"}

\* Only the turn being drained, or one whose drain task is gone, has an engine.
EngineDrained == \A l \in Loops : engine[l] = "run" => drain[l] \in {"recv", "done"}

DoomedAlive == \A l \in Loops : doomed[l] => drain[l] \notin NotSpawned \cup {"done"}

HandleSpawned == handle # NoLoop => drain[handle] \notin NotSpawned

StarterOwns ==
    \A c \in Clients :
        /\ conn[c] = "spawn" => mine[c] \in Loops /\ drain[mine[c]] = "pending"
        /\ conn[c] = "register" => mine[c] \in Loops /\ drain[mine[c]] \notin NotSpawned

StartersDiffer ==
    \A c, d \in Clients :
        conn[c] = "spawn" /\ conn[d] = "spawn" /\ c # d => mine[c] # mine[d]

Structure ==
    /\ ControlType /\ EngineDrained /\ DoomedAlive
    /\ HandleSpawned /\ StarterOwns /\ StartersDiffer

Ind == Structure /\ OverlapPaidByStops /\ RunningIsOwned

-----------------------------------------------------------------------------
\* The thread's loops are finitely many, and so are the active ones.
LEMMA ActiveFinite == IsFiniteSet(Loops) /\ IsFiniteSet(Active)
<1>1. IsFiniteSet(Loops)
  BY BoundsAssumption, FS_Interval DEF BoundsAssumption, Loops
<1>2. Active \subseteq Loops
  BY DEF Active
<1>. QED BY <1>1, <1>2, FS_Subset

\* Initially nothing runs: the invariant holds.
LEMMA InitInd == Init => Ind
<1>. SUFFICES ASSUME Init PROVE Ind
  OBVIOUS
<1>1. Structure
  BY DEF Init, Structure, ControlType, EngineDrained, DoomedAlive, HandleSpawned,
         StarterOwns, StartersDiffer, DrainPoints, ConnPoints, NotSpawned, NoLoop
<1>2. Active = {}
  BY DEF Init, Active
<1>3. OverlapPaidByStops
  BY <1>2, FS_EmptySet DEF OverlapPaidByStops, Init
<1>. QED BY <1>1, <1>3 DEF Ind, RunningIsOwned, Init

-----------------------------------------------------------------------------
(* What each kind of step does to the set of active loops                   *)

\* Nobody starts or stops.
Quiet == Active' \subseteq Active /\ running' = running /\ stops' = stops
\* A request takes the running flag for a new loop.
Starts ==
    /\ ~running /\ running' = TRUE /\ stops' = stops
    /\ \E l \in Loops : Active' \subseteq Active \cup {l}
\* An abort or a deletion resets the flag.
Stops == Active' \subseteq Active /\ running' = FALSE /\ stops' = stops + 1
\* A loop ends and resets the flag.
Ends ==
    /\ running' = FALSE /\ stops' = stops
    /\ \E l \in Active : Active' \subseteq Active \ {l}

\* A request that takes one loop from "none" to "pending" starts.
LEMMA BeginStep ==
  ASSUME Structure, NEW c \in Clients, BeginLoop(c)
  PROVE  Starts /\ Structure'
<1>1. PICK l \in Loops : drain[l] = "none" /\ drain' = [drain EXCEPT ![l] = "pending"]
                         /\ mine' = [mine EXCEPT ![c] = l]
  BY DEF BeginLoop
<1>2. /\ conn[c] = "idle" /\ conn' = [conn EXCEPT ![c] = "spawn"]
      /\ ~running /\ running' = TRUE
      /\ UNCHANGED <<exists, handle, doomed, engine, stops>>
  BY DEF BeginLoop, Handler, MayStart, engineVars
<1>3. Active' \subseteq Active \cup {l}
  BY <1>1, <1>2 DEF Active, Structure, ControlType
<1>4. Starts
  BY <1>2, <1>3 DEF Starts
<1>5. ControlType'
  BY <1>1, <1>2 DEF Structure, ControlType, DrainPoints, ConnPoints
<1>6. EngineDrained' /\ DoomedAlive' /\ HandleSpawned'
  BY <1>1, <1>2 DEF Structure, ControlType, EngineDrained, DoomedAlive, HandleSpawned, NotSpawned
<1>7. StarterOwns'
  BY <1>1, <1>2 DEF Structure, ControlType, StarterOwns, NotSpawned
<1>8. StartersDiffer'
  BY <1>1, <1>2 DEF Structure, ControlType, StarterOwns, StartersDiffer
<1>. QED BY <1>4, <1>5, <1>6, <1>7, <1>8 DEF Structure

\* Requests other than starts leave the tasks alone.
LEMMA RequestStep ==
  ASSUME Structure, NEW c \in Clients, Request(c)
  PROVE  (Quiet \/ Starts \/ Stops) /\ Structure'
<1>1. CASE SendStarts(c) \/ Retry(c) \/ EditAndResend(c)
  BY <1>1, BeginStep DEF SendStarts, Retry, EditAndResend
<1>2. CASE SendQueues(c) \/ QueueRemove(c) \/ QueueClear(c) \/ RemoveWorkspace(c)
  <2>1. /\ exists' \in BOOLEAN
        /\ UNCHANGED <<running, stops, handle, drain, doomed, engine, conn, mine>>
    BY <1>2 DEF SendQueues, QueueRemove, QueueClear, RemoveWorkspace, drainVars, engineVars,
                connVars, Structure, ControlType
  <2>. QED BY <2>1 DEF Quiet, Active, Structure, ControlType, EngineDrained, DoomedAlive,
                       HandleSpawned, StarterOwns, StartersDiffer
<1>3. CASE Delete(c)
  <2>1. /\ exists' = FALSE /\ running' = FALSE /\ stops' = stops + 1
        /\ UNCHANGED <<handle, drain, doomed, engine, conn, mine>>
    BY <1>3 DEF Delete, drainVars, engineVars, connVars
  <2>2. Stops
    BY <2>1 DEF Stops, Active
  <2>3. ControlType'
    <3>1. stops' \in Nat
      BY <2>1 DEF Structure, ControlType
    <3>. QED BY <2>1, <3>1 DEF Structure, ControlType
  <2>. QED BY <2>1, <2>2, <2>3 DEF Structure, EngineDrained, DoomedAlive, HandleSpawned,
                                   StarterOwns, StartersDiffer
<1>4. CASE AbortSignal(c) \/ Promote(c)
  <2>1. /\ conn[c] = "idle" /\ \E to \in {"kill", "signal"} : conn' = [conn EXCEPT ![c] = to]
        /\ UNCHANGED <<exists, running, stops, handle, drain, doomed, engine, mine>>
    BY <1>4 DEF AbortSignal, Promote, Handler, storeVars, drainVars, engineVars, ghosts
  <2>. QED BY <2>1 DEF Quiet, Active, Structure, ControlType, ConnPoints, EngineDrained,
                       DoomedAlive, HandleSpawned, StarterOwns, StartersDiffer
<1>. QED BY <1>1, <1>2, <1>3, <1>4 DEF Request

\* What a handler does after it dropped the store lock.
LEMMA ContinueStep ==
  ASSUME Structure, NEW c \in Clients, Continue(c)
  PROVE  (Quiet \/ Stops) /\ Structure'
<1>1. CASE Spawn(c)
  <2>1. /\ conn[c] = "spawn" /\ conn' = [conn EXCEPT ![c] = "register"]
        /\ drain' = [drain EXCEPT ![mine[c]] = "tx"]
        /\ UNCHANGED <<exists, running, stops, handle, doomed, engine, mine>>
    BY <1>1 DEF Spawn, Handler, storeVars, engineVars, ghosts
  <2>2. mine[c] \in Loops /\ drain[mine[c]] = "pending"
    BY <2>1 DEF Structure, StarterOwns
  <2>3. Quiet
    BY <2>1, <2>2 DEF Quiet, Active, Structure, ControlType
  <2>4. ControlType' /\ EngineDrained' /\ DoomedAlive' /\ HandleSpawned'
    BY <2>1, <2>2 DEF Structure, ControlType, DrainPoints, ConnPoints, EngineDrained, DoomedAlive,
                      HandleSpawned, NotSpawned
  <2>5. StarterOwns' /\ StartersDiffer'
    BY <2>1, <2>2 DEF Structure, ControlType, StarterOwns, StartersDiffer, NotSpawned
  <2>. QED BY <2>3, <2>4, <2>5 DEF Structure
<1>2. CASE Register(c)
  <2>1. /\ conn[c] = "register" /\ conn' = [conn EXCEPT ![c] = "idle"]
        /\ handle' = mine[c] /\ mine' = [mine EXCEPT ![c] = NoLoop]
        /\ UNCHANGED <<exists, running, stops, drain, doomed, engine>>
    BY <1>2 DEF Register, Handler, storeVars, drainVars, engineVars, ghosts
  <2>. QED BY <2>1 DEF Quiet, Active, Structure, ControlType, ConnPoints, EngineDrained,
                       DoomedAlive, HandleSpawned, StarterOwns, StartersDiffer
<1>3. CASE AbortKill(c)
  <2>1. /\ conn[c] = "kill" /\ conn' = [conn EXCEPT ![c] = "clear"]
        /\ doomed' = [l \in Loops |->
                        doomed[l] \/ (l = handle /\ drain[l] \notin {"none", "done"})]
        /\ handle' = NoLoop
        /\ UNCHANGED <<exists, running, stops, drain, engine, mine>>
    BY <1>3 DEF AbortKill, Handler, storeVars, engineVars, ghosts
  <2>2. DoomedAlive'
    BY <2>1 DEF Structure, ControlType, DoomedAlive, HandleSpawned, NotSpawned, Loops, NoLoop
  <2>. QED BY <2>1, <2>2 DEF Quiet, Active, Structure, ControlType, ConnPoints, EngineDrained,
                       HandleSpawned, StarterOwns, StartersDiffer
<1>4. CASE AbortClear(c)
  <2>1. /\ conn[c] = "clear" /\ conn' = [conn EXCEPT ![c] = "idle"]
        /\ running' = FALSE /\ stops' = stops + 1
        /\ UNCHANGED <<exists, handle, drain, doomed, engine, mine>>
    BY <1>4 DEF AbortClear, Handler, drainVars, engineVars
  <2>2. Stops
    BY <2>1 DEF Stops, Active
  <2>4. ControlType'
    <3>1. stops' \in Nat
      BY <2>1 DEF Structure, ControlType
    <3>. QED BY <2>1, <3>1 DEF Structure, ControlType, ConnPoints
  <2>3. StarterOwns' /\ StartersDiffer'
    BY <2>1 DEF Structure, ControlType, StarterOwns, StartersDiffer
  <2>. QED BY <2>1, <2>2, <2>3, <2>4 DEF Structure, EngineDrained, DoomedAlive, HandleSpawned
<1>5. CASE PromoteSignal(c)
  <2>1. /\ conn[c] = "signal" /\ conn' = [conn EXCEPT ![c] = "idle"]
        /\ UNCHANGED <<exists, running, stops, handle, drain, doomed, engine, mine>>
    BY <1>5 DEF PromoteSignal, Handler, storeVars, drainVars, engineVars, ghosts
  <2>. QED BY <2>1 DEF Quiet, Active, Structure, ControlType, ConnPoints, EngineDrained,
                       DoomedAlive, HandleSpawned, StarterOwns, StartersDiffer
<1>. QED BY <1>1, <1>2, <1>3, <1>4, <1>5 DEF Continue

\* A drain step that moves one loop from a live point to another one, with its
\* engine off afterwards or at work under "recv", keeps the structure.
LEMMA MoveStep ==
  ASSUME Structure, NEW l \in Loops, NEW to \in DrainPoints \ {"none", "pending", "done"},
         drain[l] \notin {"none", "pending", "done"},
         engine[l] = "off" \/ to = "recv",
         drain' = [drain EXCEPT ![l] = to],
         handle' \in {handle, NoLoop},
         engine' = engine \/ (to = "recv" /\ engine' = [engine EXCEPT ![l] = "run"]),
         UNCHANGED <<exists, running, stops, doomed, conn, mine>>
  PROVE  Quiet /\ Structure'
<1>1. ControlType'
  BY DEF Structure, ControlType
<1>2. EngineDrained'
  BY DEF Structure, ControlType, EngineDrained
<1>3. DoomedAlive' /\ HandleSpawned'
  BY DEF Structure, ControlType, DoomedAlive, HandleSpawned, NotSpawned
<1>4. StarterOwns' /\ StartersDiffer'
  BY DEF Structure, ControlType, StarterOwns, StartersDiffer, NotSpawned
<1>5. Quiet
  BY DEF Quiet, Active, Structure, ControlType
<1>. QED BY <1>1, <1>2, <1>3, <1>4, <1>5 DEF Structure

\* A drain task that is over, by its own end or by an abort.
LEMMA OverStep ==
  ASSUME Structure, NEW l \in Loops, drain[l] \notin {"none", "pending", "done"},
         drain' = [drain EXCEPT ![l] = "done"],
         doomed' = [doomed EXCEPT ![l] = FALSE],
         running' \in BOOLEAN,
         UNCHANGED <<exists, stops, handle, engine, conn, mine>>
  PROVE  Structure' /\ Active' \subseteq Active
<1>1. ControlType'
  BY DEF Structure, ControlType, DrainPoints
<1>2. EngineDrained' /\ DoomedAlive' /\ HandleSpawned'
  BY DEF Structure, ControlType, EngineDrained, DoomedAlive, HandleSpawned, NotSpawned
<1>3. StarterOwns' /\ StartersDiffer'
  BY DEF Structure, ControlType, StarterOwns, StartersDiffer, NotSpawned
<1>4. Active' \subseteq Active
  BY DEF Active, Structure, ControlType
<1>. QED BY <1>1, <1>2, <1>3, <1>4 DEF Structure

\* The steps of a drain task.
LEMMA DrainStep ==
  ASSUME Structure, NEW l \in Loops, Drain(l)
  PROVE  (Quiet \/ Ends) /\ Structure'
<1>1. CASE StartTurn(l)
  <2>1. /\ drain[l] = "tx" /\ drain' = [drain EXCEPT ![l] = "recv"]
        /\ engine' = [engine EXCEPT ![l] = "run"]
        /\ UNCHANGED <<exists, running, stops, handle, doomed, conn, mine>>
    BY <1>1 DEF StartTurn, Goto, storeVars, connVars
  <2>. QED BY <2>1, MoveStep DEF DrainPoints
<1>2. CASE AfterTurn(l)
  <2>1. PICK to \in {"compact", "pop", "dropTx"} : drain' = [drain EXCEPT ![l] = to]
    BY <1>2 DEF AfterTurn
  <2>2. /\ drain[l] = "recv" /\ engine[l] = "off"
        /\ UNCHANGED <<exists, running, stops, handle, doomed, engine, conn, mine>>
    BY <1>2 DEF AfterTurn, storeVars, engineVars, connVars, ghosts
  <2>. QED BY <2>1, <2>2, MoveStep DEF DrainPoints
<1>3. CASE Compact(l) \/ PopNextQueued(l) \/ AddUserMessage(l) \/ DropTx(l) \/ DropTask(l)
  <2>1. /\ drain[l] \in {"compact", "pop", "card", "dropTx", "dropTask"}
        /\ \E to \in {"tx", "card", "dropTx", "dropTask", "finish"} :
              drain' = [drain EXCEPT ![l] = to]
        /\ handle' \in {handle, NoLoop}
        /\ UNCHANGED <<exists, running, stops, doomed, engine, conn, mine>>
    <3>1. CASE Compact(l)
      BY <3>1 DEF Compact, Goto, storeVars, engineVars, connVars, ghosts
    <3>2. CASE PopNextQueued(l)
      BY <3>2 DEF PopNextQueued, Goto, storeVars, engineVars, connVars, ghosts
    <3>3. CASE AddUserMessage(l)
      BY <3>3 DEF AddUserMessage, Goto, engineVars, connVars
    <3>4. CASE DropTx(l)
      BY <3>4 DEF DropTx, Goto, storeVars, engineVars, connVars, ghosts
    <3>5. CASE DropTask(l)
      BY <3>5 DEF DropTask, Goto, storeVars, engineVars, connVars, ghosts
    <3>. QED BY <1>3, <3>1, <3>2, <3>3, <3>4, <3>5
  <2>2. engine[l] = "off"
    BY <2>1 DEF Structure, ControlType, EngineDrained
  <2>. QED BY <2>1, <2>2, MoveStep DEF DrainPoints
<1>4. CASE FinishTurn(l)
  <2>1. /\ drain[l] = "finish" /\ drain' = [drain EXCEPT ![l] = "done"] /\ running' = FALSE
        /\ doomed' = [doomed EXCEPT ![l] = FALSE]
        /\ UNCHANGED <<exists, stops, handle, engine, conn, mine>>
    BY <1>4 DEF FinishTurn, Gone, Goto, ClearRunning, connVars, ghosts
  <2>2. engine[l] = "off" /\ l \in Active /\ l \notin Active'
    BY <2>1 DEF Structure, ControlType, EngineDrained, Active
  <2>3. Structure' /\ Active' \subseteq Active
    BY <2>1, OverStep
  <2>. QED BY <2>1, <2>2, <2>3 DEF Ends
<1>5. CASE Die(l)
  <2>1. /\ doomed[l] /\ drain' = [drain EXCEPT ![l] = "done"]
        /\ doomed' = [doomed EXCEPT ![l] = FALSE]
        /\ UNCHANGED <<exists, running, stops, handle, engine, conn, mine>>
    BY <1>5 DEF Die, Gone, storeVars, connVars
  <2>2. drain[l] \notin {"none", "pending", "done"}
    BY <2>1 DEF Structure, DoomedAlive, NotSpawned
  <2>3. Structure' /\ Active' \subseteq Active
    BY <2>1, <2>2, OverStep DEF Structure, ControlType
  <2>. QED BY <2>1, <2>3 DEF Quiet
<1>. QED BY <1>1, <1>2, <1>3, <1>4, <1>5 DEF Drain

\* An engine task ends.
LEMMA EngineStep ==
  ASSUME Structure, NEW l \in Loops, EngineEnds(l)
  PROVE  Quiet /\ Structure'
<1>1. /\ engine' = [engine EXCEPT ![l] = "off"]
      /\ UNCHANGED <<exists, running, stops, handle, drain, doomed, conn, mine>>
  BY DEF EngineEnds, storeVars, drainVars, connVars, ghosts
<1>. QED BY <1>1 DEF Quiet, Active, Structure, ControlType, EngineDrained, DoomedAlive,
                     HandleSpawned, StarterOwns, StartersDiffer

\* Every step is of one of the four kinds and keeps the structure.
LEMMA StructureStep == Structure /\ [Next]_vars => (Quiet \/ Starts \/ Stops \/ Ends) /\ Structure'
<1>. SUFFICES ASSUME Structure, [Next]_vars
              PROVE  (Quiet \/ Starts \/ Stops \/ Ends) /\ Structure'
  OBVIOUS
<1>1. CASE UNCHANGED vars
  BY <1>1 DEF vars, storeVars, drainVars, engineVars, connVars, ghosts, Quiet, Active, Structure,
              ControlType, EngineDrained, DoomedAlive, HandleSpawned, StarterOwns, StartersDiffer
<1>2. CASE Next
  BY <1>2, RequestStep, ContinueStep, DrainStep, EngineStep DEF Next
<1>. QED BY <1>1, <1>2

-----------------------------------------------------------------------------
\* The count of active loops never exceeds what the stops and the flag allow.
LEMMA OverlapStep ==
  ASSUME Structure, OverlapPaidByStops, Quiet \/ Starts \/ Stops \/ Ends, stops' \in Nat
  PROVE  OverlapPaidByStops'
<1>. DEFINE n == Cardinality(Active)
            m == Cardinality(Active')
<1>0. stops \in Nat /\ running \in BOOLEAN /\ n \in Nat /\ IsFiniteSet(Active)
  BY ActiveFinite, FS_CardinalityType DEF Structure, ControlType
<1>1. n <= stops + (IF running THEN 1 ELSE 0)
  BY DEF OverlapPaidByStops
<1>2. CASE Quiet
  <2>1. m <= n /\ m \in Nat
    BY <1>0, <1>2, FS_Subset, FS_CardinalityType DEF Quiet
  <2>2. running' = running /\ stops' = stops
    BY <1>2 DEF Quiet
  <2>. QED BY <1>0, <1>1, <2>1, <2>2 DEF OverlapPaidByStops
<1>3. CASE Starts
  <2>1. PICK l \in Loops : Active' \subseteq Active \cup {l}
    BY <1>3 DEF Starts
  <2>2. IsFiniteSet(Active \cup {l}) /\ Cardinality(Active \cup {l}) <= n + 1
    <3>1. CASE l \in Active
      <4>1. Active \cup {l} = Active
        BY <3>1
      <4>. QED BY <1>0, <4>1
    <3>2. CASE l \notin Active
      <4>1. IsFiniteSet(Active \cup {l}) /\ Cardinality(Active \cup {l}) = Cardinality(Active) + 1
        BY <1>0, <3>2, FS_AddElement
      <4>. QED BY <1>0, <4>1
    <3>. QED BY <3>1, <3>2
  <2>3. m <= n + 1
    BY <1>0, <2>1, <2>2, FS_Subset, FS_CardinalityType
  <2>4. ~running /\ running' = TRUE /\ stops' = stops
    BY <1>3 DEF Starts
  <2>5. m \in Nat
    BY <2>1, <2>2, FS_Subset, FS_CardinalityType
  <2>. QED BY <1>0, <1>1, <2>3, <2>4, <2>5 DEF OverlapPaidByStops
<1>4. CASE Stops
  <2>1. m <= n /\ m \in Nat
    BY <1>0, <1>4, FS_Subset, FS_CardinalityType DEF Stops
  <2>2. running' = FALSE /\ stops' = stops + 1
    BY <1>4 DEF Stops
  <2>. QED BY <1>0, <1>1, <2>1, <2>2 DEF OverlapPaidByStops
<1>5. CASE Ends
  <2>1. PICK l \in Active : Active' \subseteq Active \ {l}
    BY <1>5 DEF Ends
  <2>2. IsFiniteSet(Active \ {l}) /\ Cardinality(Active \ {l}) = n - 1
    BY <1>0, FS_RemoveElement
  <2>3. m <= n - 1 /\ m \in Nat
    BY <1>0, <2>1, <2>2, FS_Subset, FS_CardinalityType
  <2>4. running' = FALSE /\ stops' = stops
    BY <1>5 DEF Ends
  <2>. QED BY <1>0, <1>1, <2>3, <2>4 DEF OverlapPaidByStops
<1>. QED BY <1>2, <1>3, <1>4, <1>5

\* The flag keeps an owner: a task nobody aborted, or an abort on its way.
LEMMA OwnedStep ==
  ASSUME Structure, RunningIsOwned, [Next]_vars, Structure'
  PROVE  RunningIsOwned'
<1>. DEFINE Owner(l) == drain[l] \notin {"none", "done"} /\ ~doomed[l]
            Clearing(c) == conn[c] = "clear"
<1>. SUFFICES ASSUME running' = TRUE
              PROVE  (\E l \in Loops : Owner(l)') \/ (\E c \in Clients : Clearing(c)')
  BY DEF RunningIsOwned, Structure, ControlType
<1>1. CASE \E c \in Clients : BeginLoop(c)
  <2>1. PICK c \in Clients : BeginLoop(c)
    BY <1>1
  <2>2. PICK l \in Loops : drain[l] = "none" /\ drain' = [drain EXCEPT ![l] = "pending"]
    BY <2>1 DEF BeginLoop
  <2>3. drain'[l] = "pending" /\ doomed' = doomed /\ ~doomed[l]
    BY <2>1, <2>2 DEF BeginLoop, Structure, ControlType, DoomedAlive, NotSpawned
  <2>. QED BY <2>3
<1>2. CASE \E c \in Clients : AbortKill(c)
  <2>1. PICK c \in Clients : AbortKill(c)
    BY <1>2
  <2>. QED BY <2>1 DEF AbortKill, Handler, Structure, ControlType
<1>3. CASE \/ \E c \in Clients : AbortClear(c) \/ Delete(c)
           \/ \E l \in Loops : FinishTurn(l)
  BY <1>3 DEF AbortClear, Delete, FinishTurn, ClearRunning
<1>4. CASE \/ UNCHANGED vars
           \/ \E c \in Clients : \/ SendQueues(c) \/ AbortSignal(c) \/ RemoveWorkspace(c)
                                 \/ QueueRemove(c) \/ QueueClear(c) \/ Promote(c)
                                 \/ Spawn(c) \/ Register(c) \/ PromoteSignal(c)
           \/ \E l \in Loops : \/ StartTurn(l) \/ AfterTurn(l) \/ Compact(l) \/ PopNextQueued(l)
                               \/ AddUserMessage(l) \/ DropTx(l) \/ DropTask(l) \/ Die(l)
                               \/ EngineEnds(l)
  <2>1. running' = running
    <3>1. CASE UNCHANGED vars
      BY <3>1 DEF vars, storeVars
    <3>2. CASE \E c \in Clients : \/ SendQueues(c) \/ AbortSignal(c) \/ RemoveWorkspace(c)
                                  \/ QueueRemove(c) \/ QueueClear(c) \/ Promote(c)
                                  \/ Spawn(c) \/ Register(c) \/ PromoteSignal(c)
      BY <3>2 DEF storeVars, SendQueues, AbortSignal, RemoveWorkspace, QueueRemove, QueueClear,
                  Promote, Spawn, Register, PromoteSignal
    <3>3. CASE \E l \in Loops : \/ StartTurn(l) \/ AfterTurn(l) \/ Compact(l) \/ PopNextQueued(l)
                                \/ AddUserMessage(l) \/ DropTx(l) \/ DropTask(l) \/ Die(l)
                                \/ EngineEnds(l)
      BY <3>3 DEF storeVars, StartTurn, AfterTurn, Compact, PopNextQueued, AddUserMessage, DropTx,
                  DropTask, Die, EngineEnds
    <3>. QED BY <1>4, <3>1, <3>2, <3>3
  <2>2. \A l \in Loops : Owner(l) => Owner(l)'
    <3>1. CASE UNCHANGED vars
      BY <3>1 DEF vars, drainVars
    <3>2. CASE \E c \in Clients : \/ SendQueues(c) \/ AbortSignal(c) \/ RemoveWorkspace(c)
                                  \/ QueueRemove(c) \/ QueueClear(c) \/ Promote(c)
                                  \/ Register(c) \/ PromoteSignal(c)
      BY <3>2 DEF drainVars, SendQueues, AbortSignal, RemoveWorkspace, QueueRemove, QueueClear,
                  Promote, Register, PromoteSignal
    <3>3. CASE \E c \in Clients : Spawn(c)
      BY <3>3 DEF Spawn, Structure, ControlType
    <3>4. CASE \E l \in Loops : EngineEnds(l)
      BY <3>4 DEF EngineEnds, drainVars
    <3>5. CASE \E l \in Loops : Die(l)
      BY <3>5 DEF Die, Gone, Structure, ControlType
    <3>6. CASE \E l \in Loops : StartTurn(l) \/ Compact(l) \/ PopNextQueued(l)
                                \/ AddUserMessage(l) \/ DropTx(l) \/ DropTask(l)
      <4>1. /\ doomed' = doomed
            /\ \E l \in Loops : \E to \in DrainPoints \ {"none", "done"} :
                  drain' = [drain EXCEPT ![l] = to]
        <5>1. CASE \E l \in Loops : StartTurn(l) \/ Compact(l) \/ AddUserMessage(l)
          BY <5>1 DEF StartTurn, Compact, AddUserMessage, Goto, DrainPoints
        <5>2. CASE \E l \in Loops : PopNextQueued(l)
          BY <5>2 DEF PopNextQueued, Goto, DrainPoints
        <5>3. CASE \E l \in Loops : DropTx(l) \/ DropTask(l)
          BY <5>3 DEF DropTx, DropTask, Goto, DrainPoints
        <5>. QED BY <3>6, <5>1, <5>2, <5>3
      <4>. QED BY <4>1 DEF Structure, ControlType
    <3>7. CASE \E l \in Loops : AfterTurn(l)
      <4>1. /\ doomed' = doomed
            /\ \E l \in Loops : \E to \in {"compact", "pop", "dropTx"} :
                  drain' = [drain EXCEPT ![l] = to]
        BY <3>7 DEF AfterTurn
      <4>. QED BY <4>1 DEF Structure, ControlType
    <3>. QED BY <1>4, <3>1, <3>2, <3>3, <3>4, <3>5, <3>6, <3>7
  <2>3. \A c \in Clients : Clearing(c) => Clearing(c)'
    <3>1. CASE \/ UNCHANGED vars
               \/ \E l \in Loops : \/ StartTurn(l) \/ AfterTurn(l) \/ Compact(l)
                                   \/ PopNextQueued(l) \/ AddUserMessage(l) \/ DropTx(l)
                                   \/ DropTask(l) \/ Die(l) \/ EngineEnds(l)
      BY <3>1 DEF vars, connVars, StartTurn, AfterTurn, Compact, PopNextQueued, AddUserMessage,
                  DropTx, DropTask, Die, EngineEnds
    <3>2. CASE \E c \in Clients : SendQueues(c) \/ RemoveWorkspace(c) \/ QueueRemove(c)
                                  \/ QueueClear(c)
      BY <3>2 DEF connVars, SendQueues, RemoveWorkspace, QueueRemove, QueueClear
    <3>3. CASE \E c \in Clients : AbortSignal(c) \/ Promote(c) \/ Spawn(c) \/ Register(c)
                                  \/ PromoteSignal(c)
      <4>1. \E c \in Clients : \E to \in ConnPoints :
                conn[c] # "clear" /\ conn' = [conn EXCEPT ![c] = to]
        BY <3>3 DEF AbortSignal, Promote, Spawn, Register, PromoteSignal, Handler, ConnPoints
      <4>. QED BY <4>1 DEF Structure, ControlType
    <3>. QED BY <1>4, <3>1, <3>2, <3>3
  <2>. QED BY <2>1, <2>2, <2>3 DEF RunningIsOwned
<1>. QED BY <1>1, <1>2, <1>3, <1>4 DEF Next, Request, Continue, Drain, SendStarts, Retry,
            EditAndResend

-----------------------------------------------------------------------------
\* Drain tasks, engines, registered handles and the running flag of a thread belong
\* together at every point of every handler (thread_loop.rs:27-605).
THEOREM Invariance == Spec => []Ind
<1>1. Init => Ind
  BY InitInd
<1>2. Ind /\ [Next]_vars => Ind'
  <2>. SUFFICES ASSUME Ind, [Next]_vars PROVE Ind'
    OBVIOUS
  <2>1. Structure' /\ (Quiet \/ Starts \/ Stops \/ Ends)
    BY StructureStep DEF Ind
  <2>2. OverlapPaidByStops'
    BY <2>1, OverlapStep DEF Ind, Structure, ControlType
  <2>3. RunningIsOwned'
    BY <2>1, OwnedStep DEF Ind
  <2>. QED BY <2>1, <2>2, <2>3 DEF Ind
<1>. QED BY <1>1, <1>2, PTL DEF Spec

\* However requests and tasks interleave, the loops and engines that are on a
\* thread at once number at most one more than its aborts and deletions.
THEOREM OverlapIsPaidFor == Spec => []OverlapPaidByStops
<1>1. Ind => OverlapPaidByStops
  BY DEF Ind
<1>. QED BY <1>1, Invariance, PTL

\* A thread that shows as running has somebody who will reset the flag.
THEOREM RunningHasAnOwner == Spec => []RunningIsOwned
<1>1. Ind => RunningIsOwned
  BY DEF Ind
<1>. QED BY <1>1, Invariance, PTL

\* Nobody has paid for an overlap: the active loop is the only one.
LEMMA AloneWithoutStops ==
  ASSUME Ind, stops = 0
  PROVE  \A k, l \in Active : k = l
<1>1. /\ IsFiniteSet(Active) /\ Cardinality(Active) \in Nat
      /\ Cardinality(Active) <= (IF running THEN 1 ELSE 0) /\ running \in BOOLEAN
  BY ActiveFinite, FS_CardinalityType DEF Ind, OverlapPaidByStops, Structure, ControlType
<1>. SUFFICES ASSUME NEW k \in Active, NEW l \in Active, k # l PROVE FALSE
  OBVIOUS
<1>2. IsFiniteSet(Active \ {k}) /\ Cardinality(Active \ {k}) = Cardinality(Active) - 1
  BY <1>1, FS_RemoveElement
<1>3. Active \ {k} = {}
  BY <1>1, <1>2, FS_EmptySet
<1>. QED BY <1>3

\* Without aborts and deletions a thread is exclusive: two different loops are
\* never both at work on it, and while one is the thread shows as running.
THEOREM ExclusiveWithoutStops ==
  Spec => [](stops = 0 => /\ \A k, l \in Active : k = l
                          /\ Active # {} => running)
<1>1. Ind => (stops = 0 => (\A k, l \in Active : k = l) /\ (Active # {} => running))
  <2>. SUFFICES ASSUME Ind, stops = 0
                PROVE  (\A k, l \in Active : k = l) /\ (Active # {} => running)
    OBVIOUS
  <2>1. Active # {} => running
    <3>1. /\ IsFiniteSet(Active) /\ Cardinality(Active) \in Nat
          /\ Cardinality(Active) <= (IF running THEN 1 ELSE 0) /\ running \in BOOLEAN
      BY ActiveFinite, FS_CardinalityType DEF Ind, OverlapPaidByStops, Structure, ControlType
    <3>. QED BY <3>1, FS_EmptySet
  <2>. QED BY <2>1, AloneWithoutStops
<1>. QED BY <1>1, Invariance, PTL

(***************************************************************************)
(* Types                                                                   *)
(***************************************************************************)

\* A drain task holds a message exactly between popping it and making a card of it.
HoldAtCard == \A l \in Loops : hold[l] # NoMessage <=> drain[l] = "card"

Typed == Ind /\ TypeOK /\ HoldAtCard

\* RemoveAt takes out one place and closes the gap.
LEMMA Removed ==
  ASSUME NEW S, NEW s \in Seq(S), NEW i \in DOMAIN s
  PROVE  /\ RemoveAt(s, i) \in Seq(S) /\ Len(RemoveAt(s, i)) = Len(s) - 1
         /\ \A j \in 1..Len(s) - 1 : RemoveAt(s, i)[j] = IF j < i THEN s[j] ELSE s[j + 1]
<1>. DEFINE a == SubSeq(s, 1, i - 1)
            b == SubSeq(s, i + 1, Len(s))
<1>1. /\ a \in Seq(S) /\ Len(a) = i - 1 /\ \A j \in 1..i - 1 : a[j] = s[j]
      /\ b \in Seq(S) /\ Len(b) = Len(s) - i /\ \A j \in 1..Len(s) - i : b[j] = s[j + i]
  OBVIOUS
<1>2. RemoveAt(s, i) = a \o b
  BY DEF RemoveAt
<1>. HIDE DEF a, b
<1>3. a \o b \in Seq(S) /\ Len(a \o b) = Len(a) + Len(b)
  <2>1. a \in Seq(S) /\ b \in Seq(S)
    BY <1>1
  <2>. QED BY <2>1
<1>4. ASSUME NEW j \in 1..Len(s) - 1 PROVE (a \o b)[j] = IF j < i THEN s[j] ELSE s[j + 1]
  <2>1. CASE j < i
    BY <1>1, <2>1
  <2>2. CASE ~(j < i)
    <3>1. j - (i - 1) \in 1..Len(b) /\ (a \o b)[j] = b[j - (i - 1)]
      <4>1. a \in Seq(S) /\ b \in Seq(S) /\ Len(a) = i - 1 /\ Len(b) = Len(s) - i
        BY <1>1
      <4>2. i \in Nat /\ Len(s) \in Nat /\ j \in Nat /\ j >= i /\ j <= Len(s) - 1
        BY <2>2
      <4>3. j \in Len(a) + 1..Len(a) + Len(b)
        BY <4>1, <4>2
      <4>4. (a \o b)[j] = b[j - Len(a)]
        <5>1. (a \o b)[j] = IF j <= Len(a) THEN a[j] ELSE b[j - Len(a)]
          BY <4>1, <4>2, ConcatProperties
        <5>. QED BY <4>1, <4>2, <5>1
      <4>. QED BY <4>1, <4>2, <4>4
    <3>2. (j - (i - 1)) + i = j + 1
      OBVIOUS
    <3>3. b[j - (i - 1)] = s[(j - (i - 1)) + i]
      <4>1. j - (i - 1) \in 1..Len(s) - i
        BY <1>1, <3>1
      <4>. QED BY ONLY <1>1, <4>1
    <3>4. b[j - (i - 1)] = s[j + 1]
      BY ONLY <3>2, <3>3
    <3>. QED BY <2>2, <3>1, <3>4
  <2>. QED BY <2>1, <2>2
<1>. QED BY <1>1, <1>2, <1>3, <1>4

\* The store keeps its types.
LEMMA StoreTypeStep == Typed /\ [Next]_vars => StoreType'
<1>. SUFFICES ASSUME Typed, [Next]_vars PROVE StoreType'
  OBVIOUS
<1>. USE BoundsAssumption DEF Typed, TypeOK
<1>1. CASE \E c \in Clients : BeginLoop(c) /\ UNCHANGED cards
  BY <1>1 DEF BeginLoop, StoreType
<1>2. CASE \E c \in Clients : SendStarts(c)
  <2>1. sent' \in 1..MaxMessages
    BY <1>2 DEF SendStarts, Accept, HistoryType
  <2>. QED BY <1>2, <2>1 DEF SendStarts, BeginLoop, StoreType
<1>3. CASE \E c \in Clients : SendQueues(c)
  <2>1. sent' \in 1..MaxMessages
    BY <1>3 DEF SendQueues, Accept, HistoryType
  <2>. QED BY <1>3, <2>1 DEF SendQueues, StoreType
<1>4. CASE \E c \in Clients : AbortSignal(c) \/ AbortKill(c)
  BY <1>4 DEF AbortSignal, AbortKill, storeVars, StoreType
<1>5. CASE \E c \in Clients : AbortClear(c) \/ Delete(c) \/ RemoveWorkspace(c) \/ QueueClear(c)
  <2>1. /\ queue' = <<>> /\ cards' = cards /\ exists' \in BOOLEAN /\ running' \in BOOLEAN
        /\ sender' \in {sender, NoLoop} /\ handle' = handle
    BY <1>5 DEF AbortClear, Delete, RemoveWorkspace, QueueClear, StoreType
  <2>. QED BY <2>1 DEF StoreType
<1>6. CASE \E c \in Clients : QueueRemove(c)
  BY <1>6, Removed DEF QueueRemove, StoreType
<1>7. CASE \E c \in Clients : Promote(c)
  <2>1. PICK c \in Clients : Promote(c)
    BY <1>7
  <2>2. \A i \in DOMAIN queue : <<queue[i]>> \o RemoveAt(queue, i) \in Seq(1..MaxMessages)
    <3>. SUFFICES ASSUME NEW i \in DOMAIN queue
                  PROVE  <<queue[i]>> \o RemoveAt(queue, i) \in Seq(1..MaxMessages)
      OBVIOUS
    <3>1. queue[i] \in 1..MaxMessages /\ RemoveAt(queue, i) \in Seq(1..MaxMessages)
      BY Removed DEF StoreType
    <3>. QED BY <3>1
  <2>. QED BY <2>1, <2>2 DEF Promote, StoreType
<1>8. CASE \E c \in Clients : Register(c)
  BY <1>8 DEF Register, storeVars, StoreType, RequestType
<1>9. CASE \E l \in Loops : StartTurn(l) \/ DropTx(l) \/ DropTask(l) \/ FinishTurn(l)
  BY <1>9 DEF StartTurn, DropTx, DropTask, FinishTurn, ClearRunning, storeVars, StoreType
<1>10. CASE \E l \in Loops : PopNextQueued(l)
  <2>1. queue' \in Seq(1..MaxMessages)
    <3>1. CASE queue' = queue
      BY <3>1 DEF StoreType
    <3>2. CASE queue # <<>> /\ queue' = Tail(queue)
      BY <3>2 DEF StoreType
    <3>. QED BY <1>10, <3>1, <3>2 DEF PopNextQueued, Take
  <2>. QED BY <1>10, <2>1 DEF PopNextQueued, StoreType
<1>11. CASE \E l \in Loops : AddUserMessage(l)
  <2>1. PICK l \in Loops : AddUserMessage(l)
    BY <1>11
  <2>2. hold[l] \in 1..MaxMessages
    BY <2>1 DEF AddUserMessage, Goto, HoldAtCard, TaskType, NoMessage
  <2>3. cards' \in Seq(1..MaxMessages)
    <3>1. Append(cards, hold[l]) \in Seq(1..MaxMessages) /\ cards \in Seq(1..MaxMessages)
      BY <2>2 DEF StoreType
    <3>. QED BY <2>1, <3>1 DEF AddUserMessage
  <2>. QED BY <2>1, <2>3 DEF AddUserMessage, StoreType
<1>12. CASE UNCHANGED <<storeVars, sender, handle>>
  BY <1>12 DEF storeVars, StoreType
<1>. QED BY <1>1, <1>2, <1>3, <1>4, <1>5, <1>6, <1>7, <1>8, <1>9, <1>10, <1>11, <1>12
         DEF Next, Request, Continue, Drain, Retry, EditAndResend, Spawn, PromoteSignal,
             AfterTurn, Compact, Die, EngineEnds, vars

\* Handlers and drain tasks keep their types, and what they hold.
LEMMA TaskTypeStep == Typed /\ [Next]_vars => TaskType' /\ HoldAtCard'
<1>. SUFFICES ASSUME Typed, [Next]_vars PROVE TaskType' /\ HoldAtCard'
  OBVIOUS
<1>. USE BoundsAssumption DEF Typed, TypeOK
<1>1. CASE \E c \in Clients : BeginLoop(c)
  BY <1>1 DEF BeginLoop, TaskType, HoldAtCard, DrainPoints, engineVars
<1>2. CASE \E c \in Clients : Spawn(c)
  <2>1. PICK c \in Clients : Spawn(c)
    BY <1>2
  <2>2. mine[c] \in Loops /\ drain[mine[c]] = "pending"
    BY <2>1 DEF Spawn, Handler, Ind, Structure, StarterOwns
  <2>. QED BY <2>1, <2>2 DEF Spawn, TaskType, HoldAtCard, DrainPoints, engineVars
<1>3. CASE \E c \in Clients : AbortSignal(c) \/ PromoteSignal(c)
  BY <1>3 DEF AbortSignal, PromoteSignal, SendSignal, TaskType, HoldAtCard, drainVars
<1>4. CASE \E c \in Clients : AbortKill(c)
  BY <1>4 DEF AbortKill, TaskType, HoldAtCard, engineVars
<1>5. CASE \E l \in Loops : StartTurn(l)
  BY <1>5 DEF StartTurn, Goto, TaskType, HoldAtCard, DrainPoints, Outcomes
<1>6. CASE \E l \in Loops : AfterTurn(l)
  <2>1. PICK l \in Loops : AfterTurn(l)
    BY <1>6
  <2>2. rounds' \in [Loops -> Nat]
    BY <2>1 DEF AfterTurn, CountRound, TaskType
  <2>3. PICK to \in {"compact", "pop", "dropTx"} : drain' = [drain EXCEPT ![l] = to]
    BY <2>1 DEF AfterTurn
  <2>. QED BY <2>1, <2>2, <2>3 DEF AfterTurn, TaskType, HoldAtCard, DrainPoints, engineVars
<1>7. CASE \E l \in Loops : Compact(l) \/ DropTx(l) \/ DropTask(l)
  BY <1>7 DEF Compact, DropTx, DropTask, Goto, TaskType, HoldAtCard, DrainPoints, engineVars
<1>8. CASE \E l \in Loops : PopNextQueued(l)
  <2>1. PICK l \in Loops : PopNextQueued(l)
    BY <1>8
  <2>2. CASE queue # <<>> /\ Goto(l, "pop", "card") /\ Take(l)
    <3>1. Head(queue) \in 1..MaxMessages
      BY <2>2 DEF StoreType
    <3>. QED BY <2>1, <2>2, <3>1 DEF PopNextQueued, Goto, Take, TaskType, HoldAtCard,
                DrainPoints, engineVars, NoMessage
  <2>3. CASE queue = <<>> /\ Goto(l, "pop", "dropTx") /\ UNCHANGED <<hold, queue>>
    BY <2>1, <2>3 DEF PopNextQueued, Goto, TaskType, HoldAtCard, DrainPoints, engineVars
  <2>. QED BY <2>1, <2>2, <2>3 DEF PopNextQueued
<1>9. CASE \E l \in Loops : AddUserMessage(l)
  BY <1>9 DEF AddUserMessage, Goto, TaskType, HoldAtCard, DrainPoints, engineVars, NoMessage
<1>10. CASE \E l \in Loops : FinishTurn(l)
  BY <1>10 DEF FinishTurn, Goto, Gone, TaskType, HoldAtCard, DrainPoints, Outcomes
<1>11. CASE \E l \in Loops : Die(l)
  BY <1>11 DEF Die, Gone, TaskType, HoldAtCard, DrainPoints, Outcomes, NoMessage
<1>12. CASE \E l \in Loops : EngineEnds(l)
  BY <1>12 DEF EngineEnds, TaskType, HoldAtCard, drainVars, Outcomes
<1>13. CASE UNCHANGED <<drainVars, engineVars>>
  BY <1>13 DEF drainVars, engineVars, TaskType, HoldAtCard
<1>. QED BY <1>1, <1>2, <1>3, <1>4, <1>5, <1>6, <1>7, <1>8, <1>9, <1>10, <1>11, <1>12, <1>13
         DEF Next, Request, Continue, Drain, SendStarts, SendQueues, Retry, EditAndResend,
             Delete, RemoveWorkspace, QueueRemove, QueueClear, Promote, Register, AbortClear, vars

\* The histories keep their types.
LEMMA HistoryTypeStep == Typed /\ [Next]_vars => HistoryType'
<1>. SUFFICES ASSUME Typed, [Next]_vars PROVE HistoryType'
  OBVIOUS
<1>. USE BoundsAssumption DEF Typed, TypeOK
<1>0. InQueue \subseteq 1..MaxMessages /\ \A i \in DOMAIN queue : queue[i] \in 1..MaxMessages
  BY DEF InQueue, Range, StoreType
<1>1. CASE \E c \in Clients : BeginLoop(c) /\ (UNCHANGED sent \/ Accept)
  BY <1>1 DEF BeginLoop, Accept, HistoryType
<1>2. CASE \E c \in Clients : SendQueues(c)
  BY <1>2 DEF SendQueues, Accept, HistoryType
<1>3. CASE \E c \in Clients : AbortClear(c) \/ Delete(c)
  <2>1. /\ discarded' = discarded \cup InQueue /\ stops' = stops + 1
        /\ UNCHANGED <<sent, lost, promotes, stray>>
    BY <1>3 DEF AbortClear, Delete
  <2>. QED BY <1>0, <2>1 DEF HistoryType
<1>4. CASE \E c \in Clients : RemoveWorkspace(c) \/ QueueClear(c)
  BY <1>0, <1>4 DEF RemoveWorkspace, QueueClear, HistoryType
<1>5. CASE \E c \in Clients : QueueRemove(c)
  BY <1>0, <1>5 DEF QueueRemove, HistoryType
<1>6. CASE \E c \in Clients : Promote(c)
  BY <1>6 DEF Promote, HistoryType
<1>7. CASE \E l \in Loops : StartTurn(l)
  BY <1>7 DEF StartTurn, HistoryType
<1>8. CASE \E l \in Loops : AddUserMessage(l)
  <2>1. PICK l \in Loops : AddUserMessage(l)
    BY <1>8
  <2>2. hold[l] \in 1..MaxMessages
    BY <2>1 DEF AddUserMessage, Goto, HoldAtCard, TaskType, NoMessage
  <2>. QED BY <2>1, <2>2 DEF AddUserMessage, HistoryType
<1>9. CASE \E l \in Loops : Die(l)
  <2>1. PICK l \in Loops : Die(l)
    BY <1>9
  <2>2. {hold[l]} \ {NoMessage} \subseteq 1..MaxMessages
    BY DEF TaskType, NoMessage
  <2>. QED BY <2>1, <2>2 DEF Die, HistoryType
<1>10. CASE UNCHANGED ghosts
  BY <1>10 DEF ghosts, HistoryType
<1>. QED BY <1>1, <1>2, <1>3, <1>4, <1>5, <1>6, <1>7, <1>8, <1>9, <1>10
         DEF Next, Request, Continue, Drain, SendStarts, Retry, EditAndResend, AbortSignal,
             Spawn, Register, AbortKill, PromoteSignal, AfterTurn, Compact, PopNextQueued,
             DropTx, DropTask, FinishTurn, EngineEnds, vars

\* At first all variables have their types.
LEMMA InitTyped == Init => Typed
<1>. SUFFICES ASSUME Init PROVE Typed
  OBVIOUS
<1>1. StoreType /\ RequestType
  <2>1. queue \in Seq(1..MaxMessages) /\ cards \in Seq(1..MaxMessages)
    BY DEF Init
  <2>2. RequestType
    BY DEF Init, RequestType, ConnPoints
  <2>. QED BY <2>1, <2>2 DEF Init, StoreType
<1>2. TaskType /\ HoldAtCard
  BY BoundsAssumption DEF Init, TaskType, HoldAtCard, DrainPoints, Outcomes, NoMessage
<1>3. HistoryType
  BY BoundsAssumption DEF Init, HistoryType
<1>. QED BY <1>1, <1>2, <1>3, InitInd DEF Typed, TypeOK

\* Ind is inductive, as one formula.
LEMMA IndStep == Ind /\ [Next]_vars => Ind'
<1>. SUFFICES ASSUME Ind, [Next]_vars PROVE Ind'
  OBVIOUS
<1>1. Structure' /\ (Quiet \/ Starts \/ Stops \/ Ends)
  BY StructureStep DEF Ind
<1>2. OverlapPaidByStops'
  BY <1>1, OverlapStep DEF Ind, Structure, ControlType
<1>3. RunningIsOwned'
  BY <1>1, OwnedStep DEF Ind
<1>. QED BY <1>1, <1>2, <1>3 DEF Ind

\* Every step keeps the types, with the invariant they rest on.
LEMMA TypedStep == Typed /\ [Next]_vars => Typed'
<1>. SUFFICES ASSUME Typed, [Next]_vars PROVE Typed'
  OBVIOUS
<1>1. Ind'
  BY IndStep DEF Typed
<1>2. RequestType'
  BY <1>1 DEF Ind, Structure, ControlType, RequestType
<1>. QED BY <1>1, <1>2, StoreTypeStep, TaskTypeStep, HistoryTypeStep DEF Typed, TypeOK

\* Every variable has its type, whatever requests and tasks do (store.rs:733-760,
\* thread_loop.rs:27-605).
THEOREM TypeCorrect == Spec => []TypeOK
<1>1. Typed => TypeOK
  BY DEF Typed
<1>. QED BY <1>1, InitTyped, TypedStep, PTL DEF Spec

(***************************************************************************)
(* Messages                                                                *)
(***************************************************************************)

\* No two drain tasks hold the same message.
OneHand == \A k, l \in Loops : hold[k] = hold[l] /\ hold[k] # NoMessage => k = l

\* Every message sent is somewhere.
Covered == InQueue \cup InHand \cup OnCards \cup discarded \cup lost = 1..sent

\* No message is in two places.
Apart ==
    /\ InQueue \cap (InHand \cup OnCards \cup discarded \cup lost) = {}
    /\ InHand \cap (OnCards \cup discarded \cup lost) = {}
    /\ OnCards \cap (discarded \cup lost) = {}
    /\ discarded \cap lost = {}

\* No message is twice in one place.
Once == IsInjective(queue) /\ IsInjective(cards) /\ OneHand

Conserved == Covered /\ Apart /\ Once

\* A message that goes to the end of a sequence: what is in it, and how often.
LEMMA AppendRange ==
  ASSUME NEW S, NEW s \in Seq(S), NEW m \in S
  PROVE  /\ Range(Append(s, m)) = Range(s) \cup {m}
         /\ IsInjective(s) /\ m \notin Range(s) => IsInjective(Append(s, m))
<1>1. /\ Append(s, m) \in Seq(S) /\ Len(Append(s, m)) = Len(s) + 1
      /\ \A i \in 1..Len(s) : Append(s, m)[i] = s[i]
      /\ Append(s, m)[Len(s) + 1] = m
  OBVIOUS
<1>. DEFINE t == Append(s, m)
<1>. HIDE DEF t
<1>2. /\ t \in Seq(S) /\ Len(t) = Len(s) + 1 /\ t[Len(s) + 1] = m
      /\ \A i \in 1..Len(s) : t[i] = s[i]
  BY <1>1 DEF t
<1>3. Range(t) = Range(s) \cup {m}
  BY <1>2 DEF Range
<1>4. ASSUME IsInjective(s), m \notin Range(s) PROVE IsInjective(t)
  BY <1>2, <1>4 DEF Range, IsInjective
<1>. QED BY <1>3, <1>4 DEF t

\* The first message leaves: the others stay, once each.
LEMMA TailRange ==
  ASSUME NEW S, NEW s \in Seq(S), s # <<>>, IsInjective(s)
  PROVE  /\ Range(Tail(s)) = Range(s) \ {Head(s)} /\ IsInjective(Tail(s))
         /\ Head(s) \in Range(s) /\ Head(s) \in S
<1>1. /\ Tail(s) \in Seq(S) /\ Len(Tail(s)) = Len(s) - 1 /\ Head(s) = s[1]
      /\ \A i \in 1..Len(s) - 1 : Tail(s)[i] = s[i + 1]
  OBVIOUS
<1>. DEFINE t == Tail(s)
<1>. HIDE DEF t
<1>2. /\ t \in Seq(S) /\ Len(t) = Len(s) - 1
      /\ \A i \in 1..Len(s) - 1 : t[i] = s[i + 1]
      /\ Len(s) \in Nat \ {0}
  BY <1>1 DEF t
<1>3. ASSUME NEW x \in Range(s), x # s[1] PROVE x \in Range(t)
  <2>1. PICK i \in 1..Len(s) : x = s[i]
    BY DEF Range
  <2>2. i - 1 \in 1..Len(s) - 1 /\ t[i - 1] = s[(i - 1) + 1] /\ (i - 1) + 1 = i
    BY <1>2, <1>3, <2>1
  <2>. QED BY <1>2, <2>1, <2>2 DEF Range
<1>4. ASSUME NEW x \in Range(t) PROVE x \in Range(s) /\ x # s[1]
  <2>1. PICK i \in 1..Len(t) : x = t[i]
    BY <1>2 DEF Range
  <2>2. i + 1 \in 1..Len(s) /\ 1 \in 1..Len(s) /\ i + 1 # 1 /\ x = s[i + 1]
    BY <1>2, <2>1
  <2>. QED BY <2>2 DEF Range, IsInjective
<1>5. IsInjective(t)
  <2>. SUFFICES ASSUME NEW j \in 1..Len(s) - 1, NEW k \in 1..Len(s) - 1, t[j] = t[k]
                PROVE  j = k
    BY <1>2 DEF IsInjective
  <2>1. j + 1 \in 1..Len(s) /\ k + 1 \in 1..Len(s) /\ s[j + 1] = s[k + 1]
    BY <1>2
  <2>2. j + 1 = k + 1
    BY <2>1 DEF IsInjective
  <2>. QED BY <2>2
<1>6. s[1] \in Range(s) /\ s[1] \in S
  BY <1>2 DEF Range
<1>. QED BY <1>1, <1>3, <1>4, <1>5, <1>6 DEF t

\* One message leaves from the middle: the others stay, once each.
LEMMA RemoveRange ==
  ASSUME NEW S, NEW s \in Seq(S), NEW i \in DOMAIN s, IsInjective(s)
  PROVE  /\ Range(RemoveAt(s, i)) = Range(s) \ {s[i]} /\ IsInjective(RemoveAt(s, i))
         /\ RemoveAt(s, i) \in Seq(S)
<1>. DEFINE t == RemoveAt(s, i)
<1>. HIDE DEF t
<1>0. /\ t \in Seq(S) /\ Len(t) = Len(s) - 1
      /\ \A j \in 1..Len(s) - 1 : t[j] = IF j < i THEN s[j] ELSE s[j + 1]
  <2>1. /\ RemoveAt(s, i) \in Seq(S) /\ Len(RemoveAt(s, i)) = Len(s) - 1
        /\ \A j \in 1..Len(s) - 1 : RemoveAt(s, i)[j] = IF j < i THEN s[j] ELSE s[j + 1]
    BY Removed
  <2>. QED BY ONLY <2>1 DEF t
<1>1. /\ t \in Seq(S) /\ Len(t) = Len(s) - 1
      /\ \A j \in 1..Len(s) - 1 : t[j] = IF j < i THEN s[j] ELSE s[j + 1]
      /\ Len(s) \in Nat /\ i \in 1..Len(s)
  BY <1>0
<1>2. ASSUME NEW x \in Range(s), x # s[i] PROVE x \in Range(t)
  <2>1. PICK k \in 1..Len(s) : x = s[k]
    BY DEF Range
  <2>2. k < i \/ k > i
    BY <1>1, <1>2, <2>1
  <2>3. CASE k < i
    BY <1>1, <2>1, <2>3 DEF Range
  <2>4. CASE k > i
    <3>1. k - 1 \in 1..Len(s) - 1 /\ ~(k - 1 < i) /\ (k - 1) + 1 = k
      BY <1>1, <2>4
    <3>. QED BY <1>1, <2>1, <3>1 DEF Range
  <2>. QED BY <2>2, <2>3, <2>4
<1>3. ASSUME NEW x \in Range(t) PROVE x \in Range(s) /\ x # s[i]
  <2>1. PICK j \in 1..Len(t) : x = t[j]
    BY <1>1 DEF Range
  <2>2. PICK k \in 1..Len(s) : k # i /\ x = s[k]
    <3>1. CASE j < i
      <4>1. j \in 1..Len(s) /\ j # i /\ x = s[j]
        BY <1>1, <2>1, <3>1
      <4>. QED BY <4>1
    <3>2. CASE ~(j < i)
      <4>1. j + 1 \in 1..Len(s) /\ j + 1 # i
        BY <1>1, <3>2
      <4>2. x = s[j + 1]
        BY <1>1, <2>1, <3>2
      <4>. QED BY <4>1, <4>2
    <3>. QED BY <3>1, <3>2
  <2>3. x \in Range(s)
    BY <2>2 DEF Range
  <2>4. s[k] # s[i]
    <3>1. \A a, b \in 1..Len(s) : s[a] = s[b] => a = b
      BY DEF IsInjective
    <3>. QED BY <1>1, <2>2, <3>1
  <2>. QED BY ONLY <2>2, <2>3, <2>4
<1>4. IsInjective(t)
  <2>. SUFFICES ASSUME NEW j \in 1..Len(s) - 1, NEW k \in 1..Len(s) - 1, t[j] = t[k]
                PROVE  j = k
    BY <1>1 DEF IsInjective
  <2>. DEFINE at(n) == IF n < i THEN n ELSE n + 1
  <2>1. PICK p \in 1..Len(s), q \in 1..Len(s) :
          p = at(j) /\ q = at(k) /\ t[j] = s[p] /\ t[k] = s[q]
    BY <1>1
  <2>2. p = q
    <3>1. s[p] = s[q]
      BY <2>1
    <3>2. \A a, b \in 1..Len(s) : s[a] = s[b] => a = b
      BY DEF IsInjective
    <3>. QED BY ONLY <3>1, <3>2, p \in 1..Len(s), q \in 1..Len(s)
  <2>. QED BY <1>1, <2>1, <2>2
<1>. QED BY <1>1, <1>2, <1>3, <1>4 DEF t

\* A message goes to the front.
LEMMA FrontRange ==
  ASSUME NEW S, NEW s \in Seq(S), NEW m \in S, IsInjective(s), m \notin Range(s)
  PROVE  Range(<<m>> \o s) = Range(s) \cup {m} /\ IsInjective(<<m>> \o s)
<1>1. /\ <<m>> \o s \in Seq(S) /\ Len(<<m>> \o s) = Len(s) + 1 /\ (<<m>> \o s)[1] = m
      /\ \A i \in 2..Len(s) + 1 : (<<m>> \o s)[i] = s[i - 1]
  OBVIOUS
<1>. DEFINE t == <<m>> \o s
<1>. HIDE DEF t
<1>2. /\ t \in Seq(S) /\ Len(t) = Len(s) + 1 /\ t[1] = m /\ Len(s) \in Nat
      /\ \A i \in 2..Len(s) + 1 : t[i] = s[i - 1]
  BY <1>1 DEF t
<1>3. ASSUME NEW x \in Range(s) PROVE x \in Range(t)
  <2>1. PICK i \in 1..Len(s) : x = s[i]
    BY DEF Range
  <2>2. i + 1 \in 2..Len(s) + 1 /\ t[i + 1] = s[(i + 1) - 1] /\ (i + 1) - 1 = i
    BY <1>2
  <2>3. i + 1 \in DOMAIN t
    BY <1>2
  <2>. QED BY <2>1, <2>2, <2>3 DEF Range
<1>4. ASSUME NEW i \in 2..Len(s) + 1 PROVE t[i] \in Range(s)
  BY <1>2 DEF Range
<1>5. Range(t) = Range(s) \cup {m}
  <2>1. DOMAIN t = {1} \cup 2..Len(s) + 1
    BY <1>2
  <2>2. m \in Range(t)
    BY <1>2, <2>1 DEF Range
  <2>3. \A x \in Range(t) : x = m \/ x \in Range(s)
    BY <1>2, <1>4, <2>1 DEF Range
  <2>. QED BY <1>3, <2>2, <2>3
<1>6. IsInjective(t)
  <2>. SUFFICES ASSUME NEW i \in 1..Len(s) + 1, NEW j \in 1..Len(s) + 1, t[i] = t[j]
                PROVE  i = j
    BY <1>2 DEF IsInjective
  <2>1. CASE i = 1 \/ j = 1
    BY <1>2, <1>4, <2>1
  <2>2. CASE i # 1 /\ j # 1
    <3>1. i - 1 \in 1..Len(s) /\ j - 1 \in 1..Len(s) /\ s[i - 1] = s[j - 1]
      BY <1>2, <2>2
    <3>. QED BY <3>1 DEF IsInjective
  <2>. QED BY <2>1, <2>2
<1>. QED BY <1>5, <1>6 DEF t

\* A message moves to the front: the same messages, once each.
LEMMA PromotedRange ==
  ASSUME NEW S, NEW s \in Seq(S), NEW i \in DOMAIN s, IsInjective(s)
  PROVE  /\ Range(<<s[i]>> \o RemoveAt(s, i)) = Range(s)
         /\ IsInjective(<<s[i]>> \o RemoveAt(s, i))
<1>1. s[i] \in S /\ s[i] \in Range(s)
  BY DEF Range
<1>2. /\ Range(RemoveAt(s, i)) = Range(s) \ {s[i]}
      /\ IsInjective(RemoveAt(s, i)) /\ RemoveAt(s, i) \in Seq(S)
  BY RemoveRange
<1>3. s[i] \notin Range(RemoveAt(s, i))
  BY <1>2
<1>4. /\ Range(<<s[i]>> \o RemoveAt(s, i)) = Range(RemoveAt(s, i)) \cup {s[i]}
      /\ IsInjective(<<s[i]>> \o RemoveAt(s, i))
  BY <1>1, <1>2, <1>3, FrontRange
<1>. QED BY <1>1, <1>2, <1>4

\* A sequence in which nothing occurs twice is as long as it has elements.
LEMMA RangeSize ==
  ASSUME NEW S, NEW s \in Seq(S), IsInjective(s)
  PROVE  Cardinality(Range(s)) = Len(s)
<1>1. s \in Surjection(1..Len(s), Range(s)) /\ s \in Injection(1..Len(s), Range(s))
  BY DEF Surjection, Injection, IsInjective, Range
<1>2. IsFiniteSet(1..Len(s)) /\ Cardinality(1..Len(s)) = Len(s)
  <2>1. Len(s) \in Nat
    OBVIOUS
  <2>2. /\ IsFiniteSet(1..Len(s))
        /\ Cardinality(1..Len(s)) = IF 1 > Len(s) THEN 0 ELSE Len(s) - 1 + 1
    BY <2>1, FS_Interval
  <2>. QED BY <2>1, <2>2
<1>. QED BY <1>1, <1>2, FS_Surjection

\* A drain task takes a message into its hand, or lets go of what it holds.
LEMMA HandTakes ==
  ASSUME Typed, OneHand, NEW l \in Loops, NEW m \in 1..MaxMessages, hold[l] = NoMessage,
         hold' = [hold EXCEPT ![l] = m]
  PROVE  InHand' = InHand \cup {m} /\ (m \notin InHand => OneHand')
<1>1. hold \in [Loops -> 0..MaxMessages] /\ m # NoMessage
  BY DEF Typed, TypeOK, TaskType, NoMessage
<1>2. InHand' = InHand \cup {m}
  BY <1>1 DEF InHand
<1>3. m \notin InHand => OneHand'
  BY <1>1 DEF InHand, OneHand
<1>. QED BY <1>2, <1>3

\* What a drain task lets go of is in nobody's hand.
LEMMA HandLetsGo ==
  ASSUME Typed, OneHand, NEW l \in Loops, hold' = [hold EXCEPT ![l] = NoMessage]
  PROVE  InHand' = InHand \ {hold[l]} /\ OneHand' /\ (hold[l] # NoMessage => hold[l] \in InHand)
<1>1. hold \in [Loops -> 0..MaxMessages]
  BY DEF Typed, TypeOK, TaskType
<1>2. InHand' = InHand \ {hold[l]}
  BY <1>1 DEF InHand, OneHand
<1>3. OneHand'
  BY <1>1 DEF OneHand
<1>. QED BY <1>2, <1>3 DEF InHand

\* What the next message is not: anywhere.
LEMMA NextIsNew ==
  ASSUME Typed, Covered
  PROVE  sent + 1 \notin InQueue \cup InHand \cup OnCards \cup discarded \cup lost
<1>1. sent \in Nat
  BY BoundsAssumption DEF Typed, TypeOK, HistoryType
<1>. QED BY <1>1 DEF Covered

\* Every step that takes a message from one place puts it in one other.
LEMMA ConservedStep == Typed /\ Conserved /\ [Next]_vars => Conserved'
<1>. SUFFICES ASSUME Typed, Conserved, [Next]_vars PROVE Conserved'
  OBVIOUS
<1>0. /\ queue \in Seq(1..MaxMessages) /\ cards \in Seq(1..MaxMessages)
      /\ IsInjective(queue) /\ IsInjective(cards) /\ OneHand
      /\ sent \in 0..MaxMessages /\ MaxMessages \in Nat
  BY BoundsAssumption DEF Typed, TypeOK, StoreType, HistoryType, Conserved, Once
<1>1. ASSUME Accept, cards' = Append(cards, sent'), UNCHANGED <<queue, hold, discarded, lost>>
      PROVE  Conserved'
  <2>1. sent' = sent + 1 /\ sent' \in 1..MaxMessages /\ 1..sent' = 1..sent \cup {sent'}
    <3>1. sent' = sent + 1 /\ sent < MaxMessages
      BY <1>1 DEF Accept
    <3>2. sent' \in 1..MaxMessages
      BY ONLY <1>0, <3>1
    <3>3. sent \in Nat => 1..sent + 1 = 1..sent \cup {sent + 1}
      OBVIOUS
    <3>. QED BY ONLY <1>0, <3>1, <3>2, <3>3
  <2>2. sent' \notin InQueue \cup InHand \cup OnCards \cup discarded \cup lost
    BY <2>1, NextIsNew DEF Conserved
  <2>3. OnCards' = OnCards \cup {sent'} /\ IsInjective(cards')
    BY <1>0, <1>1, <2>1, <2>2, AppendRange DEF OnCards
  <2>4. InQueue' = InQueue /\ InHand' = InHand /\ IsInjective(queue') /\ OneHand'
    BY <1>0, <1>1 DEF InQueue, InHand, OneHand
  <2>5. Covered' /\ Apart'
    BY <1>1, <2>1, <2>2, <2>3, <2>4 DEF Conserved, Covered, Apart
  <2>. QED BY <2>3, <2>4, <2>5 DEF Conserved, Once
<1>2. CASE \E c \in Clients : SendQueues(c)
  <2>0. Accept /\ queue' = Append(queue, sent') /\ UNCHANGED <<cards, hold, discarded, lost>>
    BY <1>2 DEF SendQueues, drainVars
  <2>1. sent' = sent + 1 /\ sent' \in 1..MaxMessages /\ 1..sent' = 1..sent \cup {sent'}
    <3>1. sent \in 0..MaxMessages /\ MaxMessages \in Nat
      BY <1>0
    <3>2. sent < MaxMessages /\ sent' = sent + 1
      BY <2>0 DEF Accept
    <3>. QED BY ONLY <3>1, <3>2
  <2>2. sent' \notin InQueue \cup InHand \cup OnCards \cup discarded \cup lost
    BY <2>1, NextIsNew DEF Conserved
  <2>3. InQueue' = InQueue \cup {sent'} /\ IsInjective(queue')
    BY <1>0, <2>0, <2>1, <2>2, AppendRange DEF InQueue
  <2>4. OnCards' = OnCards /\ InHand' = InHand /\ IsInjective(cards') /\ OneHand'
    BY <1>0, <2>0 DEF OnCards, InHand, OneHand
  <2>5. Covered' /\ Apart'
    BY <2>0, <2>1, <2>2, <2>3, <2>4 DEF Conserved, Covered, Apart
  <2>. QED BY <2>3, <2>4, <2>5 DEF Conserved, Once
<1>3. CASE \E c \in Clients : AbortClear(c) \/ Delete(c) \/ RemoveWorkspace(c) \/ QueueClear(c)
  <2>1. /\ discarded' = discarded \cup InQueue /\ queue' = <<>>
        /\ UNCHANGED <<cards, hold, sent, lost>>
    BY <1>3 DEF AbortClear, Delete, RemoveWorkspace, QueueClear, drainVars
  <2>2. InQueue' = {} /\ IsInjective(queue')
    BY <2>1 DEF InQueue, Range, IsInjective
  <2>3. OnCards' = OnCards /\ InHand' = InHand /\ IsInjective(cards') /\ OneHand'
    BY <1>0, <2>1 DEF OnCards, InHand, OneHand
  <2>4. Covered' /\ Apart'
    BY <2>1, <2>2, <2>3 DEF Conserved, Covered, Apart
  <2>. QED BY <2>2, <2>3, <2>4 DEF Conserved, Once
<1>4. CASE \E c \in Clients : QueueRemove(c)
  <2>1. PICK i \in DOMAIN queue :
          queue' = RemoveAt(queue, i) /\ discarded' = discarded \cup {queue[i]}
    BY <1>4 DEF QueueRemove
  <2>2. UNCHANGED <<cards, hold, sent, lost>>
    BY <1>4 DEF QueueRemove, drainVars
  <2>3. InQueue' = InQueue \ {queue[i]} /\ IsInjective(queue') /\ queue[i] \in InQueue
    <3>1. Range(RemoveAt(queue, i)) = Range(queue) \ {queue[i]} /\ IsInjective(RemoveAt(queue, i))
      BY <1>0, RemoveRange
    <3>2. queue[i] \in Range(queue)
      BY DEF Range
    <3>. QED BY <2>1, <3>1, <3>2 DEF InQueue
  <2>4. OnCards' = OnCards /\ InHand' = InHand /\ IsInjective(cards') /\ OneHand'
    BY <1>0, <2>2 DEF OnCards, InHand, OneHand
  <2>5. Covered' /\ Apart'
    BY <2>1, <2>2, <2>3, <2>4 DEF Conserved, Covered, Apart
  <2>. QED BY <2>3, <2>4, <2>5 DEF Conserved, Once
<1>5. CASE \E c \in Clients : Promote(c)
  <2>1. UNCHANGED <<cards, hold, sent, discarded, lost>>
    BY <1>5 DEF Promote, drainVars
  <2>2. InQueue' = InQueue /\ IsInjective(queue')
    <3>1. ASSUME NEW i \in DOMAIN queue, queue' = <<queue[i]>> \o RemoveAt(queue, i)
          PROVE  InQueue' = InQueue /\ IsInjective(queue')
      <4>1. /\ Range(<<queue[i]>> \o RemoveAt(queue, i)) = Range(queue)
            /\ IsInjective(<<queue[i]>> \o RemoveAt(queue, i))
        BY <1>0, PromotedRange
      <4>. QED BY <3>1, <4>1 DEF InQueue
    <3>2. CASE queue' = queue
      BY <1>0, <3>2 DEF InQueue
    <3>. QED BY <1>5, <3>1, <3>2 DEF Promote
  <2>3. OnCards' = OnCards /\ InHand' = InHand /\ IsInjective(cards') /\ OneHand'
    BY <1>0, <2>1 DEF OnCards, InHand, OneHand
  <2>4. Covered' /\ Apart'
    BY <2>1, <2>2, <2>3 DEF Conserved, Covered, Apart
  <2>. QED BY <2>2, <2>3, <2>4 DEF Conserved, Once
<1>6. ASSUME NEW l \in Loops, queue # <<>>, Goto(l, "pop", "card"), Take(l),
             UNCHANGED <<cards, sent, discarded, lost>>
      PROVE  Conserved'
  <2>1. /\ InQueue' = InQueue \ {Head(queue)} /\ IsInjective(queue')
        /\ Head(queue) \in InQueue /\ Head(queue) \in 1..MaxMessages
    BY <1>0, <1>6, TailRange DEF Take, InQueue
  <2>2. PICK m \in 1..MaxMessages : m = Head(queue)
    BY <2>1
  <2>3. m \in InQueue /\ InQueue' = InQueue \ {m} /\ m \notin InHand
    BY <2>1, <2>2 DEF Conserved, Apart
  <2>4. hold[l] = NoMessage
    BY <1>6 DEF Goto, Typed, HoldAtCard
  <2>5. InHand' = InHand \cup {m} /\ OneHand'
    BY <1>0, <1>6, <2>2, <2>3, <2>4, HandTakes DEF Take
  <2>6. OnCards' = OnCards /\ IsInjective(cards')
    BY <1>0, <1>6 DEF OnCards
  <2>7. Covered' /\ Apart'
    BY <1>6, <2>3, <2>5, <2>6 DEF Conserved, Covered, Apart
  <2>. QED BY <2>1, <2>5, <2>6, <2>7 DEF Conserved, Once
<1>7. CASE \E l \in Loops : AddUserMessage(l)
  <2>1. PICK l \in Loops : AddUserMessage(l)
    BY <1>7
  <2>2. hold[l] # NoMessage /\ hold[l] \in 1..MaxMessages
    BY <2>1 DEF AddUserMessage, Goto, Typed, HoldAtCard, TypeOK, TaskType, NoMessage
  <2>3. InHand' = InHand \ {hold[l]} /\ OneHand' /\ hold[l] \in InHand
    BY <1>0, <2>1, <2>2, HandLetsGo DEF AddUserMessage
  <2>4. UNCHANGED <<queue, sent, lost>> /\ InQueue' = InQueue /\ IsInjective(queue')
    BY <1>0, <2>1 DEF AddUserMessage, InQueue
  <2>5. CASE exists
    <3>1. cards' = Append(cards, hold[l]) /\ discarded' = discarded
      BY <2>1, <2>5 DEF AddUserMessage
    <3>2. hold[l] \notin OnCards
      BY <2>3 DEF Conserved, Apart
    <3>3. OnCards' = OnCards \cup {hold[l]} /\ IsInjective(cards')
      BY <1>0, <2>2, <3>1, <3>2, AppendRange DEF OnCards
    <3>4. Covered' /\ Apart'
      BY <2>3, <2>4, <3>1, <3>3 DEF Conserved, Covered, Apart
    <3>. QED BY <2>3, <2>4, <3>3, <3>4 DEF Conserved, Once
  <2>6. CASE ~exists
    <3>1. cards' = cards /\ discarded' = discarded \cup {hold[l]}
      BY <2>1, <2>6 DEF AddUserMessage
    <3>2. OnCards' = OnCards /\ IsInjective(cards')
      BY <1>0, <3>1 DEF OnCards
    <3>3. Covered' /\ Apart'
      BY <2>3, <2>4, <3>1, <3>2 DEF Conserved, Covered, Apart
    <3>. QED BY <2>3, <2>4, <3>2, <3>3 DEF Conserved, Once
  <2>. QED BY <2>5, <2>6
<1>8. CASE \E l \in Loops : Die(l)
  <2>1. PICK l \in Loops : Die(l)
    BY <1>8
  <2>2. /\ InHand' = InHand \ {hold[l]} /\ OneHand'
        /\ hold[l] # NoMessage => hold[l] \in InHand
    BY <1>0, <2>1, HandLetsGo DEF Die
  <2>3. /\ UNCHANGED <<queue, cards, sent, discarded>> /\ NoMessage \notin InHand
        /\ lost' = lost \cup ({hold[l]} \ {NoMessage})
    BY <2>1 DEF Die, storeVars, InHand
  <2>4. InQueue' = InQueue /\ OnCards' = OnCards /\ IsInjective(queue') /\ IsInjective(cards')
    BY <1>0, <2>3 DEF InQueue, OnCards
  <2>5. Covered' /\ Apart'
    BY <2>2, <2>3, <2>4 DEF Conserved, Covered, Apart
  <2>. QED BY <2>2, <2>4, <2>5 DEF Conserved, Once
<1>9. CASE UNCHANGED <<queue, cards, hold, sent, discarded, lost>>
  <2>1. /\ InQueue' = InQueue /\ OnCards' = OnCards /\ InHand' = InHand
        /\ IsInjective(queue') /\ IsInjective(cards') /\ OneHand'
    BY <1>0, <1>9 DEF InQueue, OnCards, InHand, OneHand
  <2>2. Covered' /\ Apart'
    BY <1>9, <2>1 DEF Conserved, Covered, Apart
  <2>. QED BY <2>1, <2>2 DEF Conserved, Once
<1>10. CASE \E c \in Clients : Request(c)
  BY <1>1, <1>2, <1>3, <1>4, <1>5, <1>9, <1>10 DEF Request, SendStarts, Retry, EditAndResend,
     BeginLoop, AbortSignal, storeVars, drainVars, ghosts
<1>11. CASE \E c \in Clients : Continue(c)
  BY <1>3, <1>9, <1>11 DEF Continue, Spawn, Register, AbortKill, PromoteSignal, storeVars,
     drainVars, ghosts
<1>12. CASE \E l \in Loops : PopNextQueued(l)
  BY <1>6, <1>9, <1>12 DEF PopNextQueued, ghosts
<1>13. CASE \E l \in Loops : \/ StartTurn(l) \/ AfterTurn(l) \/ Compact(l) \/ DropTx(l)
                             \/ DropTask(l) \/ FinishTurn(l) \/ EngineEnds(l)
  BY <1>9, <1>13 DEF StartTurn, AfterTurn, Compact, DropTx, DropTask, FinishTurn, EngineEnds,
     storeVars, drainVars, ghosts
<1>14. CASE UNCHANGED vars
  BY <1>9, <1>14 DEF vars, storeVars, drainVars, ghosts
<1>. QED BY <1>7, <1>8, <1>10, <1>11, <1>12, <1>13, <1>14 DEF Next, Drain

\* At first there is no message.
LEMMA InitConserved == Init => Conserved
<1>. SUFFICES ASSUME Init PROVE Conserved
  OBVIOUS
<1>1. InQueue = {} /\ OnCards = {} /\ InHand = {} /\ discarded = {} /\ lost = {} /\ sent = 0
  BY DEF Init, InQueue, OnCards, InHand, Range
<1>2. Once
  BY DEF Init, Once, IsInjective, OneHand
<1>. QED BY <1>1, <1>2 DEF Conserved, Covered, Apart

\* Whatever requests, drain tasks and aborts do to one another, a message that was
\* accepted is in one place: waiting, in a drain task's hand, a card, discarded by the
\* user, or lost with an aborted task.
THEOREM NoMessageLostOrDoubled == Spec => []MessagesConserved
<1>1. Typed /\ Conserved => MessagesConserved
  <2>. SUFFICES ASSUME Typed, Conserved PROVE MessagesConserved
    OBVIOUS
  <2>. DEFINE places == <<InQueue, InHand, OnCards, discarded, lost>>
  <2>1. DOMAIN places = {1, 2, 3, 4, 5}
    OBVIOUS
  <2>2. UNION {places[i] : i \in DOMAIN places} = 1..sent
    <3>1. UNION {places[i] : i \in DOMAIN places}
            = InQueue \cup InHand \cup OnCards \cup discarded \cup lost
      BY <2>1
    <3>. QED BY <3>1 DEF Conserved, Covered
  <2>3. \A i, j \in DOMAIN places : i # j => places[i] \cap places[j] = {}
    BY <2>1 DEF Conserved, Apart
  <2>4. Cardinality(InQueue) = Len(queue) /\ Cardinality(OnCards) = Len(cards)
    BY RangeSize DEF Conserved, Once, Typed, TypeOK, StoreType, InQueue, OnCards
  <2>. QED BY <2>2, <2>3, <2>4 DEF MessagesConserved
<1>2. Init => Typed /\ Conserved
  BY InitTyped, InitConserved
<1>3. (Typed /\ Conserved) /\ [Next]_vars => (Typed /\ Conserved)'
  BY TypedStep, ConservedStep
<1>. QED BY <1>1, <1>2, <1>3, PTL DEF Spec

(***************************************************************************)
(* Aborts and failures                                                     *)
(***************************************************************************)

\* Who began a turn while the thread was not running is on its way out, and the
\* thread is still not running: the next start would have reset the count.
Settling ==
    \A l \in Loops : stray[l] # 0 =>
        /\ stray[l] = 1 /\ ~running
        /\ drain[l] \in {"recv", "dropTx", "dropTask", "finish", "done"}

\* A loop that was left behind finds the flag clear after its turn and leaves.
LEMMA SettlingStep == Typed /\ Settling /\ [Next]_vars => Settling'
<1>. SUFFICES ASSUME Typed, Settling, [Next]_vars PROVE Settling'
  OBVIOUS
<1>0. /\ running \in BOOLEAN /\ stray \in [Loops -> Nat] /\ drain \in [Loops -> DrainPoints]
  BY DEF Typed, TypeOK, StoreType, TaskType, HistoryType
<1>1. CASE \E c \in Clients : BeginLoop(c)
  BY <1>1 DEF BeginLoop, Settling
<1>2. CASE \E c \in Clients : Spawn(c)
  <2>1. PICK c \in Clients : Spawn(c)
    BY <1>2
  <2>2. mine[c] \in Loops /\ drain[mine[c]] = "pending"
    BY <2>1 DEF Spawn, Handler, Typed, Ind, Structure, StarterOwns
  <2>. QED BY <1>0, <2>1, <2>2 DEF Spawn, storeVars, ghosts, Settling
<1>3. CASE \E c \in Clients : AbortClear(c) \/ Delete(c)
  BY <1>3 DEF AbortClear, Delete, drainVars, Settling
<1>4. CASE \E l \in Loops : StartTurn(l)
  <2>1. PICK l \in Loops : StartTurn(l)
    BY <1>4
  <2>2. stray[l] = 0 /\ drain[l] = "tx"
    BY <1>0, <2>1 DEF StartTurn, Goto, Settling
  <2>3. stray'[l] = 0 \/ (stray'[l] = 1 /\ ~running)
    BY <1>0, <2>1, <2>2 DEF StartTurn
  <2>4. drain'[l] = "recv" /\ running' = running
    BY <1>0, <2>1 DEF StartTurn, Goto, storeVars
  <2>5. \A k \in Loops : k # l => stray'[k] = stray[k] /\ drain'[k] = drain[k]
    BY <1>0, <2>1 DEF StartTurn, Goto
  <2>. QED BY <2>3, <2>4, <2>5 DEF Settling
<1>5. CASE \E l \in Loops : AfterTurn(l)
  BY <1>0, <1>5 DEF AfterTurn, Compacts, GoesOn, storeVars, ghosts, Settling
<1>6. CASE \E l \in Loops : Compact(l) \/ DropTx(l) \/ DropTask(l)
  BY <1>0, <1>6 DEF Compact, DropTx, DropTask, Goto, storeVars, ghosts, Settling
<1>7. CASE \E l \in Loops : PopNextQueued(l)
  BY <1>0, <1>7 DEF PopNextQueued, Goto, ghosts, Settling
<1>8. CASE \E l \in Loops : AddUserMessage(l)
  BY <1>0, <1>8 DEF AddUserMessage, Goto, Settling
<1>9. CASE \E l \in Loops : FinishTurn(l)
  BY <1>0, <1>9 DEF FinishTurn, ClearRunning, Goto, ghosts, Settling
<1>10. CASE \E l \in Loops : Die(l)
  BY <1>0, <1>10 DEF Die, storeVars, Settling
<1>11. CASE UNCHANGED <<running, stray, drain>>
  BY <1>11 DEF Settling
<1>. QED BY <1>1, <1>2, <1>3, <1>4, <1>5, <1>6, <1>7, <1>8, <1>9, <1>10, <1>11
         DEF Next, Request, Continue, Drain, SendStarts, SendQueues, Retry, EditAndResend,
             AbortSignal, RemoveWorkspace, QueueRemove, QueueClear, Promote, Register, AbortKill,
             PromoteSignal, EngineEnds, storeVars, drainVars, ghosts, vars

\* A loop that an abort or a deletion left behind begins one more turn at most, until
\* somebody starts the thread again.
THEOREM StoppedLoopsSettle == Spec => []AbortSettles
<1>1. Init => Typed /\ Settling
  <2>1. Init => Settling
    BY DEF Init, Settling
  <2>. QED BY <2>1, InitTyped
<1>2. (Typed /\ Settling) /\ [Next]_vars => (Typed /\ Settling)'
  BY TypedStep, SettlingStep
<1>3. Typed /\ Settling => AbortSettles
  BY DEF Typed, TypeOK, HistoryType, Settling, AbortSettles
<1>. QED BY <1>1, <1>2, <1>3, PTL DEF Spec

\* An outcome is known of a living loop only, and who pops has completed its turn.
OutcomeKnown ==
    \A l \in Loops :
        /\ outcome[l] # "none" => drain[l] \notin {"none", "pending", "done"}
        /\ drain[l] = "pop" => outcome[l] = "Completed"

\* An outcome comes with the end of a turn and goes with the next.
LEMMA OutcomeStep == Typed /\ OutcomeKnown /\ [Next]_vars => OutcomeKnown'
<1>. SUFFICES ASSUME Typed, OutcomeKnown, [Next]_vars PROVE OutcomeKnown'
  OBVIOUS
<1>0. outcome \in [Loops -> Outcomes] /\ drain \in [Loops -> DrainPoints]
  BY DEF Typed, TypeOK, TaskType
<1>1. CASE \E c \in Clients : BeginLoop(c)
  BY <1>0, <1>1 DEF BeginLoop, engineVars, OutcomeKnown
<1>2. CASE \E c \in Clients : Spawn(c)
  BY <1>0, <1>2 DEF Spawn, engineVars, OutcomeKnown
<1>3. CASE \E l \in Loops : StartTurn(l)
  BY <1>0, <1>3 DEF StartTurn, Goto, OutcomeKnown
<1>4. CASE \E l \in Loops : AfterTurn(l)
  BY <1>0, <1>4 DEF AfterTurn, GoesOn, engineVars, OutcomeKnown
<1>5. CASE \E l \in Loops : Compact(l) \/ DropTx(l) \/ DropTask(l)
  BY <1>0, <1>5 DEF Compact, DropTx, DropTask, Goto, engineVars, OutcomeKnown
<1>6. CASE \E l \in Loops : PopNextQueued(l) \/ AddUserMessage(l)
  BY <1>0, <1>6 DEF PopNextQueued, AddUserMessage, Goto, engineVars, OutcomeKnown
<1>7. CASE \E l \in Loops : FinishTurn(l)
  BY <1>0, <1>7 DEF FinishTurn, Goto, OutcomeKnown
<1>8. CASE \E l \in Loops : Die(l)
  BY <1>0, <1>8 DEF Die, OutcomeKnown
<1>9. CASE \E l \in Loops : EngineEnds(l)
  BY <1>0, <1>9 DEF EngineEnds, drainVars, OutcomeKnown
<1>10. CASE UNCHANGED <<drain, outcome>>
  BY <1>10 DEF OutcomeKnown
<1>. QED BY <1>1, <1>2, <1>3, <1>4, <1>5, <1>6, <1>7, <1>8, <1>9, <1>10
         DEF Next, Request, Continue, Drain, SendStarts, SendQueues, Retry, EditAndResend,
             AbortSignal, Delete, RemoveWorkspace, QueueRemove, QueueClear, Promote, Register,
             AbortKill, AbortClear, PromoteSignal, drainVars, engineVars, vars

\* What a step takes out of the queue is discarded, unless a drain task pops it.
LEMMA OnlyPopsTake ==
  ASSUME Typed, Conserved, [Next]_vars, ~ \E l \in Loops : PopNextQueued(l)
  PROVE  InQueue \subseteq InQueue' \cup discarded'
<1>0. queue \in Seq(1..MaxMessages) /\ IsInjective(queue)
  BY DEF Typed, TypeOK, StoreType, Conserved, Once
<1>1. CASE queue' = queue
  BY <1>1 DEF InQueue
<1>2. CASE discarded' = discarded \cup InQueue
  BY <1>2
<1>3. CASE \E c \in Clients : SendQueues(c)
  <2>1. sent < MaxMessages /\ sent' = sent + 1 /\ queue' = Append(queue, sent')
    BY <1>3 DEF SendQueues, Accept
  <2>2. sent \in 0..MaxMessages /\ MaxMessages \in Nat
    BY BoundsAssumption DEF Typed, TypeOK, HistoryType
  <2>3. sent' \in 1..MaxMessages
    BY ONLY <2>1, <2>2
  <2>4. PICK m \in 1..MaxMessages : queue' = Append(queue, m)
    BY <2>1, <2>3
  <2>5. \A i \in DOMAIN queue : i \in DOMAIN queue' /\ queue'[i] = queue[i]
    BY <1>0, <2>4
  <2>. QED BY <2>5 DEF InQueue, Range
<1>4. CASE \E c \in Clients : QueueRemove(c)
  <2>1. PICK i \in DOMAIN queue :
          queue' = RemoveAt(queue, i) /\ discarded' = discarded \cup {queue[i]}
    BY <1>4 DEF QueueRemove
  <2>2. Range(RemoveAt(queue, i)) = Range(queue) \ {queue[i]}
    BY <1>0, RemoveRange
  <2>. QED BY <2>1, <2>2 DEF InQueue
<1>5. ASSUME NEW i \in DOMAIN queue, queue' = <<queue[i]>> \o RemoveAt(queue, i)
      PROVE  InQueue \subseteq InQueue'
  <2>1. Range(<<queue[i]>> \o RemoveAt(queue, i)) = Range(queue)
    BY <1>0, PromotedRange
  <2>. QED BY <1>5, <2>1 DEF InQueue
<1>6. CASE \E c \in Clients : Request(c)
  BY <1>1, <1>2, <1>3, <1>4, <1>5, <1>6 DEF Request, SendStarts, Retry, EditAndResend, BeginLoop,
     AbortSignal, Delete, RemoveWorkspace, QueueClear, Promote, storeVars
<1>7. CASE \E c \in Clients : Continue(c)
  BY <1>1, <1>2, <1>7 DEF Continue, Spawn, Register, AbortKill, AbortClear, PromoteSignal, storeVars
<1>8. CASE \E l \in Loops : Drain(l) \/ EngineEnds(l)
  BY <1>1, <1>8 DEF Drain, StartTurn, AfterTurn, Compact, AddUserMessage, DropTx, DropTask,
     FinishTurn, Die, EngineEnds, storeVars
<1>9. CASE UNCHANGED vars
  BY <1>1, <1>9 DEF vars, storeVars
<1>. QED BY <1>6, <1>7, <1>8, <1>9 DEF Next

\* After a turn that failed for good only the user takes messages out of the queue:
\* the loop that failed is the only one, and it does not come to its pop.
THEOREM FailureLeavesTheQueue == Spec => FailureKeepsQueue
<1>. DEFINE Good == Typed /\ Conserved /\ OutcomeKnown
<1>1. Init => Good
  <2>1. Init => OutcomeKnown
    BY DEF Init, OutcomeKnown
  <2>. QED BY <2>1, InitTyped, InitConserved
<1>2. Good /\ [Next]_vars => Good'
  BY TypedStep, ConservedStep, OutcomeStep
<1>3. Spec => []Good
  <2>. HIDE DEF Good
  <2>. QED BY <1>1, <1>2, PTL DEF Spec
<1>4. Good /\ [Next]_vars => [FailedForGood => InQueue \subseteq InQueue' \cup discarded']_vars
  <2>. SUFFICES ASSUME Typed, Conserved, OutcomeKnown, [Next]_vars,
                       FailedForGood
                PROVE  InQueue \subseteq InQueue' \cup discarded'
    OBVIOUS
  <2>1. PICK l \in Loops : stops = 0 /\ outcome[l] = "Failed"
    BY DEF FailedForGood
  <2>2. ASSUME NEW k \in Loops, PopNextQueued(k) PROVE FALSE
    <3>1. drain[k] = "pop" /\ drain[l] \notin {"none", "done"}
      BY <2>1, <2>2 DEF PopNextQueued, Goto, OutcomeKnown
    <3>2. k \in Active /\ l \in Active
      BY <3>1 DEF Active
    <3>3. k = l
      BY <2>1, <3>2, AloneWithoutStops DEF Typed
    <3>. QED BY <2>1, <3>1, <3>3 DEF OutcomeKnown
  <2>. QED BY <2>2, OnlyPopsTake
<1>. QED BY <1>3, <1>4, PTL DEF Spec, FailureKeepsQueue

=============================================================================
