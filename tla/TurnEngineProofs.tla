-------------------------- MODULE TurnEngineProofs --------------------------
(***************************************************************************)
(* Safety of the turn engine for every catalog, budget, window, number of  *)
(* turns and number of calls.  The inductive invariant IInv says at which  *)
(* await points the in-memory history equals the store, which calls are    *)
(* already answered there, where a request may still slip through after a  *)
(* cancel, how many requests the turn has paid for, which turns may leave  *)
(* a call unanswered, and what the tool loop remembers of an EndTurn tool. *)
(***************************************************************************)
EXTENDS TurnEngine, FiniteSetTheorems, TLAPS

AskPoints == {"turnHook", "requestHook", "openStream", "recv", "persistAssistant"}
ToolPoints == {"nextCall", "toolHook", "exec", "persistResult"}

\* `ended` records exactly the turns that are over.
EndedInv ==
    /\ Len(ended) = IF pc = "idle" THEN turn ELSE turn - 1
    /\ pc # "idle" => turn > 0

\* After LoadHistory the copy in memory is the store's content.
HistoryInv == pc \in LoopPoints => history = log

\* Which steps the messages in the store belong to.
StepsInv ==
    /\ pc \in BeforeLoop \cup {"idle"} => step = 0
    /\ pc \in AskPoints \cup ToolPoints => step >= 1
    /\ \A k \in DOMAIN log :
        /\ log[k].turn <= turn
        /\ log[k].kind \in {"assistant", "result"} /\ log[k].turn = turn /\ pc # "idle" =>
            /\ 1 <= log[k].step /\ log[k].step <= step
            /\ pc \in AskPoints => log[k].step < step

\* Every call that turn t asked for has exactly one result in s.
NoOrphan(s, t) ==
    \A k \in DOMAIN s : s[k].kind = "assistant" /\ s[k].turn = t =>
        \A i \in 1..s[k].n : AnsweredOnce(s, k, i)

\* Before the assistant message of a step is persisted all earlier calls are
\* answered; in the tool loop, those before `next`, and none from `next` on.
AnsweredInv ==
    /\ pc \in AskPoints \cup {"top"} => NoOrphan(log, turn)
    /\ pc \in ToolPoints =>
        /\ next >= 1
        /\ \A k \in DOMAIN log : log[k].kind = "assistant" /\ log[k].turn = turn =>
            /\ log[k].step = step => log[k].n = Len(calls)
            /\ \A i \in 1..log[k].n :
                 log[k].step < step \/ i < next => AnsweredOnce(log, k, i)
        /\ \A k \in DOMAIN log : log[k].kind = "result" /\ log[k].turn = turn
                                 /\ log[k].step = step => log[k].n < next
    /\ pc \in AskPoints => next = 1

\* Where the cancel may already have let one request or tool start through.
LateInv ==
    /\ late <= 1
    /\ ~cancelled => late = 0
    /\ pc \in BeforeLoop \cup {"turnHook", "requestHook", "openStream", "toolHook"} => late = 0

Recorded(c) ==
    \E j \in DOMAIN log :
        log[j] = [kind |-> "result", turn |-> turn, step |-> c[1], n |-> c[2]]

\* A started call is finished and recorded, unless it is the current one.
StartedInv ==
    (pc = "idle" /\ turn > 0 => ended[turn] # "Err") =>
        \A c \in started :
            /\ c \in finished \/ (pc = "exec" /\ c = Position)
            /\ Recorded(c) \/ (pc \in {"exec", "persistResult"} /\ c = Position)

\* A turn that was not cut left no orphan, and a turn that is about to end
\* otherwise than by an abort has none.
OrphansInv ==
    /\ \A k \in DOMAIN log : log[k].turn >= 1
    /\ \A t \in 1..Len(ended) : ended[t] \in {"Aborted", "Err"} \/ NoOrphan(log, t)
    /\ pc = "persistPartial" \/ (pc = "finish" /\ stop # "Aborted") => NoOrphan(log, turn)

Assistants(s, t) == {k \in DOMAIN s : s[k].kind = "assistant" /\ s[k].turn = t}

\* The store holds one assistant message per step: those of the steps that are
\* over while a request is pending, the current one's too in the tool loop.
BudgetInv ==
    /\ Budget # NoBudget => step <= Budget
    /\ pc \in {"top"} \cup ToolPoints => Cardinality(Assistants(log, turn)) = step
    /\ pc \in AskPoints => Cardinality(Assistants(log, turn)) = step - 1
    /\ BudgetExact

\* Of the calls of this step only those before `next`, and the one that runs,
\* were started; endTurn remembers that one of those before ends the turn.
EndTurnInv ==
    \A c \in started : pc # "idle" =>
        /\ c[1] <= step
        /\ pc \in AskPoints => c[1] < step
        /\ pc \in ToolPoints /\ c[1] = step =>
            /\ c[2] <= next
            /\ c[2] = next => pc \in {"exec", "persistResult"} /\ via = "executed"
            /\ c[2] < next /\ calls[c[2]] \in EndTurnTools => endTurn

IInv == /\ TypeOK /\ EndedInv /\ SilentOnlyOnStoreError /\ HistoryInv /\ StepsInv
        /\ AnsweredInv /\ LateInv /\ StartedInv
        /\ OrphansInv /\ BudgetInv /\ EndTurnInv

-----------------------------------------------------------------------------
(* Types                                                                    *)

\* The empty sequence has every sequence type.
LEMMA EmptySeqs == <<>> \in Seq(Tools) /\ <<>> \in Seq(Message)
OBVIOUS

\* A message built by run_turn keeps the store a sequence of messages.
LEMMA MsgType ==
    ASSUME TypeOK, NEW k \in {"user", "assistant", "partial", "result"}, NEW n \in Nat
    PROVE  /\ Append(log, Msg(k, n)) \in Seq(Message)
           /\ Append(history, Msg(k, n)) \in Seq(Message)
<1>1. turn \in Nat
  BY BoundsAssumption DEF BoundsAssumption, TypeOK, ControlType
<1>2. Msg(k, n) \in Message
  BY <1>1 DEF TypeOK, LocalsType, Msg, Message
<1>3. QED
  BY <1>2 DEF TypeOK, StoreType

\* Returning from run_turn resets the locals and appends the turn's end.
LEMMA ReturnType ==
    ASSUME TypeOK, NEW r \in StopReasons \cup {"Err"}, Return(r)
    PROVE  /\ LocalsType' /\ pc' \in Points
           /\ history' \in Seq(Message) /\ ended' \in Seq(StopReasons \cup {"Err"})
<1>1. LocalsType'
  BY EmptySeqs DEF Return, LocalsType, StopReasons
<1>2. pc' \in Points
  BY DEF Return, Points
<1>3. history' \in Seq(Message) /\ ended' \in Seq(StopReasons \cup {"Err"})
  BY EmptySeqs DEF Return, TypeOK, StoreType
<1>4. QED
  BY <1>1, <1>2, <1>3

\* Every step keeps the types.
LEMMA TypeStep == TypeOK /\ [Next]_vars => TypeOK'
<1> SUFFICES ASSUME TypeOK, [Next]_vars PROVE TypeOK'
  OBVIOUS
<1>1. CASE StartTurn
  <2>1. turn' \in 0..MaxTurns
    BY <1>1, BoundsAssumption DEF StartTurn, BoundsAssumption, TypeOK, ControlType
  <2>2. ControlType'
    BY <1>1, <2>1 DEF StartTurn, GoTo, vars, TypeOK, ControlType, Points, BeforeLoop, LoopPoints
  <2>3. LocalsType'
    BY <1>1, <2>1 DEF StartTurn, GoTo, vars, locals, TypeOK, LocalsType, StopReasons
  <2>4. SinkType'
    BY <1>1, <2>1 DEF StartTurn, GoTo, vars, sink, TypeOK, SinkType
  <2>5. StoreType'
    BY <1>1 DEF StartTurn, GoTo, vars, store, TypeOK, StoreType, LocalsType
  <2>6. QED
    BY <2>2, <2>3, <2>4, <2>5 DEF TypeOK
<1>2. CASE BeforeAgentStart
  <2>1. ControlType'
    BY <1>2 DEF BeforeAgentStart, HookDecides, GoTo, Break, EmitAborted, vars, TypeOK, ControlType, Points, BeforeLoop, LoopPoints
  <2>2. LocalsType'
    BY <1>2 DEF BeforeAgentStart, HookDecides, GoTo, Break, EmitAborted, vars, locals, TypeOK, LocalsType, StopReasons
  <2>3. SinkType'
    BY <1>2 DEF BeforeAgentStart, HookDecides, GoTo, Break, EmitAborted, vars, sink, TypeOK, SinkType
  <2>4. StoreType'
    BY <1>2 DEF BeforeAgentStart, HookDecides, GoTo, Break, EmitAborted, vars, store, TypeOK, StoreType, LocalsType
  <2>5. QED
    BY <2>1, <2>2, <2>3, <2>4 DEF TypeOK
<1>3. CASE CheckCancelBeforeStart
  <2>1. ControlType'
    BY <1>3 DEF CheckCancelBeforeStart, GoTo, Return, vars, TypeOK, ControlType, Points, BeforeLoop, LoopPoints
  <2>2. LocalsType'
    BY <1>3, ReturnType DEF CheckCancelBeforeStart, GoTo, vars, locals, TypeOK, LocalsType, StopReasons
  <2>3. SinkType'
    <3>1. CASE cancelled
      BY <1>3, <3>1 DEF CheckCancelBeforeStart, TypeOK, SinkType
    <3>2. CASE ~cancelled
      BY <1>3, <3>2 DEF CheckCancelBeforeStart, sink, TypeOK, SinkType
    <3>3. QED
      BY <3>1, <3>2
  <2>4. StoreType'
    <3>1. CASE cancelled
      <4>1. Return("Aborted") /\ log' = log
        BY <1>3, <3>1 DEF CheckCancelBeforeStart
      <4>2. QED
        BY <4>1, ReturnType DEF TypeOK, StoreType, StopReasons
    <3>2. CASE ~cancelled
      BY <1>3, <3>2 DEF CheckCancelBeforeStart, TypeOK, StoreType
    <3>3. QED
      BY <3>1, <3>2
  <2>5. QED
    BY <2>1, <2>2, <2>3, <2>4 DEF TypeOK
<1>4. CASE PersistUser
  <2>1. ControlType'
    BY <1>4 DEF PersistUser, GoTo, FailTurn, Return, vars, TypeOK, ControlType, Points, BeforeLoop, LoopPoints
  <2>2. LocalsType'
    BY <1>4, ReturnType DEF PersistUser, GoTo, FailTurn, vars, locals, TypeOK, LocalsType, StopReasons
  <2>3. SinkType'
    BY <1>4 DEF PersistUser, GoTo, FailTurn, vars, sink, TypeOK, SinkType
  <2>4. StoreType'
    BY <1>4, ReturnType, MsgType DEF PersistUser, GoTo, FailTurn, vars, store, TypeOK, StoreType, LocalsType
  <2>5. QED
    BY <2>1, <2>2, <2>3, <2>4 DEF TypeOK
<1>5. CASE LoadHistory
  <2>1. ControlType'
    BY <1>5 DEF LoadHistory, GoTo, FailTurn, Return, vars, TypeOK, ControlType, Points, BeforeLoop, LoopPoints
  <2>2. LocalsType'
    BY <1>5, ReturnType DEF LoadHistory, GoTo, FailTurn, vars, locals, TypeOK, LocalsType, StopReasons
  <2>3. SinkType'
    BY <1>5 DEF LoadHistory, GoTo, FailTurn, vars, sink, TypeOK, SinkType
  <2>4. StoreType'
    BY <1>5, ReturnType DEF LoadHistory, GoTo, FailTurn, vars, store, TypeOK, StoreType, LocalsType
  <2>5. QED
    BY <2>1, <2>2, <2>3, <2>4 DEF TypeOK
<1>6. CASE LoopTop
  <2>1. ControlType'
    BY <1>6 DEF LoopTop, Break, EmitAborted, vars, TypeOK, ControlType, Points, BeforeLoop, LoopPoints
  <2>2. LocalsType'
    <3>1. calls' \in Seq(Tools) /\ near' \in BOOLEAN /\ text' \in BOOLEAN /\ endTurn' \in BOOLEAN
      BY <1>6, EmptySeqs DEF LoopTop, Break, TypeOK, LocalsType
    <3>2. step' \in Nat /\ next' \in Nat /\ via' \in {"executed", "denied", "unresolved"}
      BY <1>6 DEF LoopTop, Break, TypeOK, LocalsType
    <3>3. stop' \in StopReasons
      BY <1>6 DEF LoopTop, Break, TypeOK, LocalsType, StopReasons
    <3>4. QED
      BY <3>1, <3>2, <3>3 DEF LocalsType
  <2>3. SinkType'
    BY <1>6 DEF LoopTop, Break, EmitAborted, vars, sink, TypeOK, SinkType
  <2>4. StoreType'
    BY <1>6 DEF LoopTop, Break, EmitAborted, vars, store, TypeOK, StoreType, LocalsType
  <2>5. QED
    BY <2>1, <2>2, <2>3, <2>4 DEF TypeOK
<1>7. CASE BeforeTurn
  <2>1. ControlType'
    BY <1>7 DEF BeforeTurn, HookDecides, GoTo, Break, EmitAborted, vars, TypeOK, ControlType, Points, BeforeLoop, LoopPoints
  <2>2. LocalsType'
    BY <1>7 DEF BeforeTurn, HookDecides, GoTo, Break, EmitAborted, vars, locals, TypeOK, LocalsType, StopReasons
  <2>3. SinkType'
    BY <1>7 DEF BeforeTurn, HookDecides, GoTo, Break, EmitAborted, vars, sink, TypeOK, SinkType
  <2>4. StoreType'
    BY <1>7 DEF BeforeTurn, HookDecides, GoTo, Break, EmitAborted, vars, store, TypeOK, StoreType, LocalsType
  <2>5. QED
    BY <2>1, <2>2, <2>3, <2>4 DEF TypeOK
<1>8. CASE BeforeRequest
  <2>1. ControlType'
    BY <1>8 DEF BeforeRequest, HookDecides, GoTo, Break, EmitAborted, vars, TypeOK, ControlType, Points, BeforeLoop, LoopPoints
  <2>2. LocalsType'
    BY <1>8 DEF BeforeRequest, HookDecides, GoTo, Break, EmitAborted, vars, locals, TypeOK, LocalsType, StopReasons
  <2>3. SinkType'
    BY <1>8 DEF BeforeRequest, HookDecides, GoTo, Break, EmitAborted, vars, sink, TypeOK, SinkType
  <2>4. StoreType'
    BY <1>8 DEF BeforeRequest, HookDecides, GoTo, Break, EmitAborted, vars, store, TypeOK, StoreType, LocalsType
  <2>5. QED
    BY <2>1, <2>2, <2>3, <2>4 DEF TypeOK
<1>9. CASE OpenStream
  <2>1. ControlType'
    BY <1>9 DEF OpenStream, GoTo, Break, CountLate, vars, TypeOK, ControlType, Points, BeforeLoop, LoopPoints
  <2>2. LocalsType'
    BY <1>9 DEF OpenStream, GoTo, Break, CountLate, vars, locals, TypeOK, LocalsType, StopReasons
  <2>3. SinkType'
    BY <1>9 DEF OpenStream, GoTo, Break, CountLate, vars, sink, TypeOK, SinkType
  <2>4. StoreType'
    BY <1>9 DEF OpenStream, GoTo, Break, CountLate, vars, store, TypeOK, StoreType, LocalsType
  <2>5. QED
    BY <2>1, <2>2, <2>3, <2>4 DEF TypeOK
<1>10. CASE Recv
  <2>1. calls' \in Seq(Tools)
    BY <1>10 DEF Recv, GoTo, Break, locals, TypeOK, LocalsType
  <2>2. ControlType'
    BY <1>10, <2>1 DEF Recv, GoTo, Break, vars, TypeOK, ControlType, Points, BeforeLoop, LoopPoints
  <2>3. LocalsType'
    BY <1>10, <2>1 DEF Recv, GoTo, Break, vars, locals, TypeOK, LocalsType, StopReasons
  <2>4. SinkType'
    BY <1>10, <2>1 DEF Recv, GoTo, Break, vars, sink, TypeOK, SinkType
  <2>5. StoreType'
    BY <1>10 DEF Recv, GoTo, Break, vars, store, TypeOK, StoreType, LocalsType
  <2>6. QED
    BY <2>2, <2>3, <2>4, <2>5 DEF TypeOK
<1>11. CASE StreamEnds
  <2>1. ControlType'
    BY <1>11 DEF StreamEnds, GoTo, Break, vars, TypeOK, ControlType, Points, BeforeLoop, LoopPoints
  <2>2. LocalsType'
    BY <1>11 DEF StreamEnds, GoTo, Break, vars, locals, TypeOK, LocalsType, StopReasons
  <2>3. SinkType'
    BY <1>11 DEF StreamEnds, GoTo, Break, vars, sink, TypeOK, SinkType
  <2>4. StoreType'
    BY <1>11 DEF StreamEnds, GoTo, Break, vars, store, TypeOK, StoreType, LocalsType
  <2>5. QED
    BY <2>1, <2>2, <2>3, <2>4 DEF TypeOK
<1>12. CASE PersistPartial
  <2>1. ControlType'
    BY <1>12 DEF PersistPartial, Break, vars, TypeOK, ControlType, Points, BeforeLoop, LoopPoints
  <2>2. LocalsType'
    BY <1>12 DEF PersistPartial, Break, vars, locals, TypeOK, LocalsType, StopReasons
  <2>3. SinkType'
    BY <1>12 DEF PersistPartial, Break, vars, sink, TypeOK, SinkType
  <2>4. StoreType'
    BY <1>12, MsgType DEF PersistPartial, Break, vars, store, TypeOK, StoreType, LocalsType
  <2>5. QED
    BY <2>1, <2>2, <2>3, <2>4 DEF TypeOK
<1>13. CASE PersistAssistant
  <2>1. ControlType'
    BY <1>13 DEF PersistAssistant, GoTo, Break, Persist, FailTurn, Return, vars, TypeOK, ControlType, Points, BeforeLoop, LoopPoints
  <2>2. LocalsType'
    BY <1>13, ReturnType DEF PersistAssistant, GoTo, Break, Persist, FailTurn, vars, locals, TypeOK, LocalsType, StopReasons
  <2>3. SinkType'
    BY <1>13 DEF PersistAssistant, GoTo, Break, Persist, FailTurn, vars, sink, TypeOK, SinkType
  <2>4. StoreType'
    <3>1. CASE FailTurn
      BY <3>1, ReturnType DEF FailTurn, TypeOK, StoreType
    <3>2. CASE Persist(Msg("assistant", Len(calls))) /\ ended' = ended
      <4>1. Len(calls) \in Nat
        BY DEF TypeOK, LocalsType
      <4>2. QED
        BY <3>2, <4>1, MsgType DEF Persist, TypeOK, StoreType
    <3>3. QED
      BY <1>13, <3>1, <3>2 DEF PersistAssistant
  <2>5. QED
    BY <2>1, <2>2, <2>3, <2>4 DEF TypeOK
<1>14. CASE NextCall
  <2>1. ControlType'
    BY <1>14 DEF NextCall, GoTo, Break, vars, TypeOK, ControlType, Points, BeforeLoop, LoopPoints
  <2>2. LocalsType'
    BY <1>14 DEF NextCall, GoTo, Break, CurrentTool, vars, locals, TypeOK, LocalsType, StopReasons
  <2>3. SinkType'
    BY <1>14 DEF NextCall, GoTo, Break, CurrentTool, vars, sink, TypeOK, SinkType
  <2>4. StoreType'
    BY <1>14 DEF NextCall, GoTo, Break, CurrentTool, vars, store, TypeOK, StoreType, LocalsType
  <2>5. QED
    BY <2>1, <2>2, <2>3, <2>4 DEF TypeOK
<1>15. CASE BeforeToolCall
  <2>1. Position \in CallId
    BY DEF Position, CallId, TypeOK, LocalsType
  <2>2. ControlType'
    BY <1>15, <2>1 DEF BeforeToolCall, Break, EmitAborted, CountLate, vars, TypeOK, ControlType, Points, BeforeLoop, LoopPoints
  <2>3. LocalsType'
    BY <1>15, <2>1 DEF BeforeToolCall, Break, EmitAborted, CountLate, vars, locals, TypeOK, LocalsType, StopReasons
  <2>4. SinkType'
    BY <1>15, <2>1 DEF BeforeToolCall, Break, EmitAborted, CountLate, vars, sink, TypeOK, SinkType
  <2>5. StoreType'
    BY <1>15 DEF BeforeToolCall, Break, EmitAborted, CountLate, vars, store, TypeOK, StoreType, LocalsType
  <2>6. QED
    BY <2>2, <2>3, <2>4, <2>5 DEF TypeOK
<1>16. CASE ToolReturns
  <2>1. Position \in CallId
    BY DEF Position, CallId, TypeOK, LocalsType
  <2>2. ControlType'
    BY <1>16, <2>1 DEF ToolReturns, ToolDone, GoTo, vars, TypeOK, ControlType, Points, BeforeLoop, LoopPoints
  <2>3. LocalsType'
    BY <1>16, <2>1 DEF ToolReturns, ToolDone, GoTo, vars, locals, TypeOK, LocalsType, StopReasons
  <2>4. SinkType'
    BY <1>16, <2>1 DEF ToolReturns, ToolDone, GoTo, vars, sink, TypeOK, SinkType
  <2>5. StoreType'
    BY <1>16 DEF ToolReturns, ToolDone, GoTo, vars, store, TypeOK, StoreType, LocalsType
  <2>6. QED
    BY <2>2, <2>3, <2>4, <2>5 DEF TypeOK
<1>17. CASE ToolTimesOut
  <2>1. Position \in CallId
    BY DEF Position, CallId, TypeOK, LocalsType
  <2>2. ControlType'
    BY <1>17, <2>1 DEF ToolTimesOut, ToolDone, GoTo, vars, TypeOK, ControlType, Points, BeforeLoop, LoopPoints
  <2>3. LocalsType'
    BY <1>17, <2>1 DEF ToolTimesOut, ToolDone, GoTo, vars, locals, TypeOK, LocalsType, StopReasons
  <2>4. SinkType'
    BY <1>17, <2>1 DEF ToolTimesOut, ToolDone, GoTo, vars, sink, TypeOK, SinkType
  <2>5. StoreType'
    BY <1>17 DEF ToolTimesOut, ToolDone, GoTo, vars, store, TypeOK, StoreType, LocalsType
  <2>6. QED
    BY <2>2, <2>3, <2>4, <2>5 DEF TypeOK
<1>18. CASE PersistResult
  <2>1. ControlType'
    BY <1>18 DEF PersistResult, Persist, FailTurn, Return, vars, TypeOK, ControlType, Points, BeforeLoop, LoopPoints
  <2>2. LocalsType'
    <3>1. CASE FailTurn
      BY <3>1, ReturnType DEF FailTurn
    <3>2. CASE ~FailTurn
      <4>1. endTurn' \in BOOLEAN
        BY <1>18, <3>2 DEF PersistResult, TypeOK, LocalsType
      <4>2. QED
        BY <1>18, <3>2, <4>1 DEF PersistResult, TypeOK, LocalsType
    <3>3. QED
      BY <3>1, <3>2
  <2>3. SinkType'
    BY <1>18 DEF PersistResult, Persist, CurrentTool, FailTurn, vars, sink, TypeOK, SinkType
  <2>4. StoreType'
    BY <1>18, ReturnType, MsgType DEF PersistResult, Persist, CurrentTool, FailTurn, vars, store, TypeOK, StoreType, LocalsType
  <2>5. QED
    BY <2>1, <2>2, <2>3, <2>4 DEF TypeOK
<1>19. CASE Finish
  <2>1. ControlType'
    BY <1>19 DEF Finish, Return, vars, TypeOK, ControlType, Points, BeforeLoop, LoopPoints
  <2>2. LocalsType'
    BY <1>19, ReturnType DEF Finish, vars, locals, TypeOK, LocalsType, StopReasons
  <2>3. SinkType'
    BY <1>19 DEF Finish, vars, sink, TypeOK, SinkType
  <2>4. StoreType'
    BY <1>19, ReturnType DEF Finish, vars, store, TypeOK, StoreType, LocalsType
  <2>5. QED
    BY <2>1, <2>2, <2>3, <2>4 DEF TypeOK
<1>20. CASE Cancel
  <2>1. ControlType'
    BY <1>20 DEF Cancel, vars, TypeOK, ControlType, Points, BeforeLoop, LoopPoints
  <2>2. LocalsType'
    BY <1>20 DEF Cancel, vars, locals, TypeOK, LocalsType, StopReasons
  <2>3. SinkType'
    BY <1>20 DEF Cancel, vars, sink, TypeOK, SinkType
  <2>4. StoreType'
    BY <1>20 DEF Cancel, vars, store, TypeOK, StoreType, LocalsType
  <2>5. QED
    BY <2>1, <2>2, <2>3, <2>4 DEF TypeOK
<1>21. CASE UNCHANGED vars
  <2>1. ControlType'
    BY <1>21 DEF vars, TypeOK, ControlType, Points, BeforeLoop, LoopPoints
  <2>2. LocalsType'
    BY <1>21 DEF vars, locals, TypeOK, LocalsType, StopReasons
  <2>3. SinkType'
    BY <1>21 DEF vars, sink, TypeOK, SinkType
  <2>4. StoreType'
    BY <1>21 DEF vars, store, TypeOK, StoreType, LocalsType
  <2>5. QED
    BY <2>1, <2>2, <2>3, <2>4 DEF TypeOK
<1>q. QED
  BY <1>1, <1>2, <1>3, <1>4, <1>5, <1>6, <1>7, <1>8, <1>9, <1>10, <1>11, <1>12, <1>13, <1>14, <1>15, <1>16, <1>17, <1>18, <1>19, <1>20, <1>21 DEF Next, EngineStep, Done

\* What appending a message changes in the store.
LEMMA AppendFacts ==
    ASSUME TypeOK, NEW m \in Message
    PROVE  /\ DOMAIN log = 1..Len(log) /\ Len(log) \in Nat
           /\ DOMAIN Append(log, m) = 1..(Len(log) + 1)
           /\ \A k \in DOMAIN log : Append(log, m)[k] = log[k] /\ log[k] \in Message
           /\ Append(log, m)[Len(log) + 1] = m
BY DEF TypeOK, StoreType

\* The fields of a stored message.
LEMMA LogFields ==
    ASSUME TypeOK, NEW k \in DOMAIN log
    PROVE  /\ log[k].turn \in Nat /\ log[k].step \in Nat /\ log[k].n \in Nat
           /\ log[k].kind \in {"user", "assistant", "partial", "result"}
<1>1. log[k] \in Message
  BY DEF TypeOK, StoreType
<1>2. QED
  BY <1>1 DEF Message

\* The messages run_turn builds carry the current turn and step.
LEMMA MsgFacts ==
    ASSUME TypeOK, NEW k \in {"user", "assistant", "partial", "result"}, NEW n \in Nat
    PROVE  /\ Msg(k, n) \in Message
           /\ Msg(k, n).kind = k /\ Msg(k, n).turn = turn
           /\ Msg(k, n).step = step /\ Msg(k, n).n = n
<1>1. turn \in Nat /\ step \in Nat
  BY BoundsAssumption DEF BoundsAssumption, TypeOK, ControlType, LocalsType
<1>2. QED
  BY <1>1 DEF Msg, Message

\* Messages are stamped with the step that wrote them.
LEMMA StepsStep ==
    ASSUME TypeOK, StepsInv, [Next]_vars
    PROVE  StepsInv'
<1>1. CASE StartTurn
  <2>1. turn \in Nat /\ turn' = turn + 1 /\ pc' = "agentStart" /\ log' = log
    BY <1>1, BoundsAssumption DEF StartTurn, GoTo, store, BoundsAssumption, TypeOK, ControlType
  <2>2. step' = 0
    BY <1>1 DEF StartTurn, GoTo, locals, StepsInv
  <2>3. \A k \in DOMAIN log : log[k].turn \in Nat /\ log[k].turn <= turn
    BY LogFields DEF StepsInv
  <2>4. QED
    BY <2>1, <2>2, <2>3 DEF StepsInv, AskPoints, ToolPoints
<1>2. CASE BeforeAgentStart
  BY <1>2 DEF BeforeAgentStart, HookDecides, GoTo, Break, vars, locals, store, StepsInv, TypeOK, ControlType, LocalsType, StoreType, Message, BeforeLoop, AskPoints, ToolPoints
<1>3. CASE CheckCancelBeforeStart
  BY <1>3 DEF CheckCancelBeforeStart, GoTo, Return, vars, locals, store, StepsInv, TypeOK, ControlType, LocalsType, StoreType, Message, BeforeLoop, AskPoints, ToolPoints
<1>4. CASE PersistUser
  <2>1. CASE log' = log /\ pc' \in {"idle", "load", "finish"}
    BY <1>4, <2>1 DEF PersistUser, StepsInv, FailTurn, Return, GoTo, Break, locals, BeforeLoop, AskPoints, ToolPoints
  <2>2. CASE log' = Append(log, Msg("user", 0))
    <3>1. 0 \in Nat
      BY DEF TypeOK, LocalsType
    <3>2. turn' = turn /\ step' = step /\ pc' \in {"load"}
      BY <1>4, <2>2 DEF PersistUser, GoTo, Break, locals, FailTurn, Return, StepsInv, BeforeLoop
    <3> DEFINE m == Msg("user", 0)
    <3>3. /\ m \in Message /\ m.kind = "user" /\ m.turn = turn /\ m.step = step
      BY <3>1, MsgFacts
    <3> HIDE DEF m
    <3>4. SUFFICES ASSUME NEW k \in DOMAIN log'
          PROVE  /\ log'[k].turn <= turn
                 /\ log'[k].kind \in {"assistant", "result"} /\ log'[k].turn = turn =>
                     1 <= log'[k].step /\ log'[k].step <= step
      BY <1>4, <3>2 DEF PersistUser, StepsInv, BeforeLoop, AskPoints, ToolPoints
    <3>5. CASE k \in DOMAIN log
      <4>1. log'[k] = log[k]
        BY <2>2, <3>3, <3>5, AppendFacts DEF m
      <4>2. QED
        BY <4>1, <3>5, <1>4 DEF StepsInv, PersistUser
    <3>6. CASE k \notin DOMAIN log
      <4>1. log'[k] = m
        BY <2>2, <3>3, <3>6, AppendFacts DEF m
      <4>2. turn \in Nat /\ step \in Nat
        BY BoundsAssumption DEF BoundsAssumption, TypeOK, ControlType, LocalsType
      <4>3. QED
        BY <4>1, <4>2, <3>3
    <3>7. QED
      BY <3>5, <3>6
  <2>3. QED
    BY <1>4, <2>1, <2>2 DEF PersistUser, GoTo, Persist, FailTurn, Return, Break
<1>5. CASE LoadHistory
  BY <1>5 DEF LoadHistory, GoTo, FailTurn, Return, vars, locals, store, StepsInv, TypeOK, ControlType, LocalsType, StoreType, Message, BeforeLoop, AskPoints, ToolPoints
<1>6. CASE LoopTop
  <2>1. log' = log /\ turn' = turn /\ step' \in {step, step + 1} /\ step \in Nat
    BY <1>6 DEF LoopTop, Break, store, TypeOK, LocalsType
  <2>2. pc = "top" /\ pc' \in {"finish", "turnHook"} /\ (pc' = "turnHook" => step' = step + 1)
    BY <1>6 DEF LoopTop, Break
  <2>3. \A k \in DOMAIN log : log[k].step \in Nat
    BY LogFields
  <2>4. QED
    BY <2>1, <2>2, <2>3 DEF StepsInv, BeforeLoop, AskPoints, ToolPoints
<1>7. CASE BeforeTurn
  BY <1>7 DEF BeforeTurn, HookDecides, GoTo, Break, vars, locals, store, StepsInv, TypeOK, ControlType, LocalsType, StoreType, Message, BeforeLoop, AskPoints, ToolPoints
<1>8. CASE BeforeRequest
  BY <1>8 DEF BeforeRequest, HookDecides, GoTo, Break, vars, locals, store, StepsInv, TypeOK, ControlType, LocalsType, StoreType, Message, BeforeLoop, AskPoints, ToolPoints
<1>9. CASE OpenStream
  BY <1>9 DEF OpenStream, GoTo, Break, vars, locals, store, StepsInv, TypeOK, ControlType, LocalsType, StoreType, Message, BeforeLoop, AskPoints, ToolPoints
<1>10. CASE Recv
  BY <1>10 DEF Recv, GoTo, Break, vars, locals, store, StepsInv, TypeOK, ControlType, LocalsType, StoreType, Message, BeforeLoop, AskPoints, ToolPoints
<1>11. CASE StreamEnds
  BY <1>11 DEF StreamEnds, GoTo, Break, vars, locals, store, StepsInv, TypeOK, ControlType, LocalsType, StoreType, Message, BeforeLoop, AskPoints, ToolPoints
<1>12. CASE PersistPartial
  <2>1. CASE log' = log /\ pc' \in {"idle", "load", "finish"}
    BY <1>12, <2>1 DEF PersistPartial, StepsInv, FailTurn, Return, GoTo, Break, locals, BeforeLoop, AskPoints, ToolPoints
  <2>2. CASE log' = Append(log, Msg("partial", 0))
    <3>1. 0 \in Nat
      BY DEF TypeOK, LocalsType
    <3>2. turn' = turn /\ step' = step /\ pc' \in {"finish"}
      BY <1>12, <2>2 DEF PersistPartial, GoTo, Break, locals, FailTurn, Return, StepsInv, BeforeLoop
    <3> DEFINE m == Msg("partial", 0)
    <3>3. /\ m \in Message /\ m.kind = "partial" /\ m.turn = turn /\ m.step = step
      BY <3>1, MsgFacts
    <3> HIDE DEF m
    <3>4. SUFFICES ASSUME NEW k \in DOMAIN log'
          PROVE  /\ log'[k].turn <= turn
                 /\ log'[k].kind \in {"assistant", "result"} /\ log'[k].turn = turn =>
                     1 <= log'[k].step /\ log'[k].step <= step
      BY <1>12, <3>2 DEF PersistPartial, StepsInv, BeforeLoop, AskPoints, ToolPoints
    <3>5. CASE k \in DOMAIN log
      <4>1. log'[k] = log[k]
        BY <2>2, <3>3, <3>5, AppendFacts DEF m
      <4>2. QED
        BY <4>1, <3>5, <1>12 DEF StepsInv, PersistPartial
    <3>6. CASE k \notin DOMAIN log
      <4>1. log'[k] = m
        BY <2>2, <3>3, <3>6, AppendFacts DEF m
      <4>2. turn \in Nat /\ step \in Nat
        BY BoundsAssumption DEF BoundsAssumption, TypeOK, ControlType, LocalsType
      <4>3. QED
        BY <4>1, <4>2, <3>3
    <3>7. QED
      BY <3>5, <3>6
  <2>3. QED
    BY <1>12, <2>1, <2>2 DEF PersistPartial, GoTo, Persist, FailTurn, Return, Break
<1>13. CASE PersistAssistant
  <2>1. CASE log' = log /\ pc' \in {"idle", "load", "finish"}
    BY <1>13, <2>1 DEF PersistAssistant, StepsInv, FailTurn, Return, GoTo, Break, locals, BeforeLoop, AskPoints, ToolPoints
  <2>2. CASE log' = Append(log, Msg("assistant", Len(calls)))
    <3>1. Len(calls) \in Nat
      BY DEF TypeOK, LocalsType
    <3>2. turn' = turn /\ step' = step /\ pc' \in {"nextCall", "finish"}
      BY <1>13, <2>2 DEF PersistAssistant, GoTo, Break, locals, FailTurn, Return, StepsInv, BeforeLoop
    <3> DEFINE m == Msg("assistant", Len(calls))
    <3>3. /\ m \in Message /\ m.kind = "assistant" /\ m.turn = turn /\ m.step = step
      BY <3>1, MsgFacts
    <3> HIDE DEF m
    <3>4. SUFFICES ASSUME NEW k \in DOMAIN log'
          PROVE  /\ log'[k].turn <= turn
                 /\ log'[k].kind \in {"assistant", "result"} /\ log'[k].turn = turn =>
                     1 <= log'[k].step /\ log'[k].step <= step
      BY <1>13, <3>2 DEF PersistAssistant, StepsInv, BeforeLoop, AskPoints, ToolPoints
    <3>5. CASE k \in DOMAIN log
      <4>1. log'[k] = log[k]
        BY <2>2, <3>3, <3>5, AppendFacts DEF m
      <4>2. QED
        BY <4>1, <3>5, <1>13 DEF StepsInv, PersistAssistant
    <3>6. CASE k \notin DOMAIN log
      <4>1. log'[k] = m
        BY <2>2, <3>3, <3>6, AppendFacts DEF m
      <4>2. turn \in Nat /\ step \in Nat
        BY BoundsAssumption DEF BoundsAssumption, TypeOK, ControlType, LocalsType
      <4>3. QED
        BY <4>1, <4>2, <3>3, <1>13 DEF StepsInv, AskPoints, ToolPoints, PersistAssistant
    <3>7. QED
      BY <3>5, <3>6
  <2>3. QED
    BY <1>13, <2>1, <2>2 DEF PersistAssistant, GoTo, Persist, FailTurn, Return, Break
<1>14. CASE NextCall
  BY <1>14 DEF NextCall, GoTo, Break, vars, locals, store, StepsInv, TypeOK, ControlType, LocalsType, StoreType, Message, BeforeLoop, AskPoints, ToolPoints
<1>15. CASE BeforeToolCall
  BY <1>15 DEF BeforeToolCall, Break, vars, locals, store, StepsInv, TypeOK, ControlType, LocalsType, StoreType, Message, BeforeLoop, AskPoints, ToolPoints
<1>16. CASE ToolReturns
  BY <1>16 DEF ToolReturns, ToolDone, GoTo, vars, locals, store, StepsInv, TypeOK, ControlType, LocalsType, StoreType, Message, BeforeLoop, AskPoints, ToolPoints
<1>17. CASE ToolTimesOut
  BY <1>17 DEF ToolTimesOut, ToolDone, GoTo, vars, locals, store, StepsInv, TypeOK, ControlType, LocalsType, StoreType, Message, BeforeLoop, AskPoints, ToolPoints
<1>18. CASE PersistResult
  <2>1. CASE log' = log /\ pc' \in {"idle", "load", "finish"}
    BY <1>18, <2>1 DEF PersistResult, StepsInv, FailTurn, Return, GoTo, Break, locals, BeforeLoop, AskPoints, ToolPoints
  <2>2. CASE log' = Append(log, Msg("result", next))
    <3>1. next \in Nat
      BY DEF TypeOK, LocalsType
    <3>2. turn' = turn /\ step' = step /\ pc' \in {"nextCall"}
      BY <1>18, <2>2 DEF PersistResult, GoTo, Break, locals, FailTurn, Return, StepsInv, BeforeLoop
    <3> DEFINE m == Msg("result", next)
    <3>3. /\ m \in Message /\ m.kind = "result" /\ m.turn = turn /\ m.step = step
      BY <3>1, MsgFacts
    <3> HIDE DEF m
    <3>4. SUFFICES ASSUME NEW k \in DOMAIN log'
          PROVE  /\ log'[k].turn <= turn
                 /\ log'[k].kind \in {"assistant", "result"} /\ log'[k].turn = turn =>
                     1 <= log'[k].step /\ log'[k].step <= step
      BY <1>18, <3>2 DEF PersistResult, StepsInv, BeforeLoop, AskPoints, ToolPoints
    <3>5. CASE k \in DOMAIN log
      <4>1. log'[k] = log[k]
        BY <2>2, <3>3, <3>5, AppendFacts DEF m
      <4>2. QED
        BY <4>1, <3>5, <1>18 DEF StepsInv, PersistResult
    <3>6. CASE k \notin DOMAIN log
      <4>1. log'[k] = m
        BY <2>2, <3>3, <3>6, AppendFacts DEF m
      <4>2. turn \in Nat /\ step \in Nat
        BY BoundsAssumption DEF BoundsAssumption, TypeOK, ControlType, LocalsType
      <4>3. QED
        BY <4>1, <4>2, <3>3, <1>18 DEF StepsInv, AskPoints, ToolPoints, PersistResult
    <3>7. QED
      BY <3>5, <3>6
  <2>3. QED
    BY <1>18, <2>1, <2>2 DEF PersistResult, GoTo, Persist, FailTurn, Return, Break
<1>19. CASE Finish
  BY <1>19 DEF Finish, Return, vars, locals, store, StepsInv, TypeOK, ControlType, LocalsType, StoreType, Message, BeforeLoop, AskPoints, ToolPoints
<1>20. CASE Cancel
  BY <1>20 DEF Cancel, vars, locals, store, StepsInv, TypeOK, ControlType, LocalsType, StoreType, Message, BeforeLoop, AskPoints, ToolPoints
<1>21. CASE UNCHANGED vars
  BY <1>21 DEF vars, locals, store, StepsInv, TypeOK, ControlType, LocalsType, StoreType, Message, BeforeLoop, AskPoints, ToolPoints
<1>22. QED
  BY <1>1, <1>2, <1>3, <1>4, <1>5, <1>6, <1>7, <1>8, <1>9, <1>10, <1>11, <1>12, <1>13, <1>14, <1>15, <1>16, <1>17, <1>18, <1>19, <1>20, <1>21 DEF Next, EngineStep, Done

\* A store error makes the property vacuous: the turn is recorded as "Err".
LEMMA FailStarted ==
    ASSUME TypeOK, EndedInv, pc # "idle", FailTurn
    PROVE  StartedInv'
<1>1. turn \in Nat /\ turn > 0 /\ Len(ended) = turn - 1
  BY BoundsAssumption DEF BoundsAssumption, TypeOK, ControlType, EndedInv
<1>2. pc' = "idle" /\ turn' = turn /\ ended' = Append(ended, "Err")
  BY DEF FailTurn, Return
<1>3. ended'[turn] = "Err"
  BY <1>1, <1>2 DEF TypeOK, StoreType
<1>4. QED
  BY <1>1, <1>2, <1>3 DEF StartedInv

\* Appending to the store forgets no result.
LEMMA RecordedKept ==
    ASSUME TypeOK, NEW m \in Message, log' = Append(log, m), turn' = turn,
           NEW c, Recorded(c)
    PROVE  Recorded(c)'
BY AppendFacts DEF Recorded

\* A started call is finished and recorded before the turn can end.
LEMMA StartedStep ==
    ASSUME TypeOK, EndedInv, StartedInv, [Next]_vars
    PROVE  StartedInv'
<1>1. CASE StartTurn
  BY <1>1 DEF StartTurn, GoTo, vars, locals, sink, store, StartedInv, Recorded, Position, TypeOK, ControlType, LocalsType, StoreType, SinkType, CallId, EndedInv
<1>2. CASE BeforeAgentStart
  BY <1>2 DEF BeforeAgentStart, HookDecides, GoTo, Break, EmitAborted, vars, locals, sink, store, StartedInv, Recorded, Position, TypeOK, ControlType, LocalsType, StoreType, SinkType, CallId, EndedInv
<1>3. CASE CheckCancelBeforeStart
  BY <1>3 DEF CheckCancelBeforeStart, GoTo, Return, vars, locals, sink, store, StartedInv, Recorded, Position, TypeOK, ControlType, LocalsType, StoreType, SinkType, CallId, EndedInv
<1>4. CASE PersistUser
  <2>1. CASE FailTurn
    BY <1>4, <2>1, FailStarted DEF PersistUser
  <2>2. CASE log' = Append(log, Msg("user", 0)) /\ ~FailTurn
    <3>1. 0 \in Nat /\ Msg("user", 0) \in Message
      BY MsgFacts DEF TypeOK, LocalsType
    <3>2. turn' = turn /\ step' = step /\ started' = started /\ finished' = finished
      BY <1>4, <2>2 DEF PersistUser, GoTo, Break, locals, sink
    <3>3. pc \notin {"idle", "exec", "persistResult"} /\ pc' \in {"load"}
      BY <1>4, <2>2 DEF PersistUser, GoTo, Break
    <3>4. QED
      BY <2>2, <3>1, <3>2, <3>3, RecordedKept DEF StartedInv
  <2>3. CASE log' = log /\ ~FailTurn
    BY <1>4, <2>3 DEF PersistUser, GoTo, sink, locals, StartedInv, Recorded
  <2>4. QED
    BY <1>4, <2>1, <2>2, <2>3 DEF PersistUser
<1>5. CASE LoadHistory
  BY <1>5 DEF LoadHistory, GoTo, FailTurn, Return, vars, locals, sink, store, StartedInv, Recorded, Position, TypeOK, ControlType, LocalsType, StoreType, SinkType, CallId, EndedInv
<1>6. CASE LoopTop
  BY <1>6 DEF LoopTop, Break, EmitAborted, vars, locals, sink, store, StartedInv, Recorded, Position, TypeOK, ControlType, LocalsType, StoreType, SinkType, CallId, EndedInv
<1>7. CASE BeforeTurn
  BY <1>7 DEF BeforeTurn, HookDecides, GoTo, Break, EmitAborted, vars, locals, sink, store, StartedInv, Recorded, Position, TypeOK, ControlType, LocalsType, StoreType, SinkType, CallId, EndedInv
<1>8. CASE BeforeRequest
  BY <1>8 DEF BeforeRequest, HookDecides, GoTo, Break, EmitAborted, vars, locals, sink, store, StartedInv, Recorded, Position, TypeOK, ControlType, LocalsType, StoreType, SinkType, CallId, EndedInv
<1>9. CASE OpenStream
  BY <1>9 DEF OpenStream, GoTo, Break, vars, locals, sink, store, StartedInv, Recorded, Position, TypeOK, ControlType, LocalsType, StoreType, SinkType, CallId, EndedInv
<1>10. CASE Recv
  BY <1>10 DEF Recv, GoTo, Break, vars, locals, sink, store, StartedInv, Recorded, Position, TypeOK, ControlType, LocalsType, StoreType, SinkType, CallId, EndedInv
<1>11. CASE StreamEnds
  BY <1>11 DEF StreamEnds, GoTo, Break, vars, locals, sink, store, StartedInv, Recorded, Position, TypeOK, ControlType, LocalsType, StoreType, SinkType, CallId, EndedInv
<1>12. CASE PersistPartial
  <2>1. CASE FailTurn
    BY <1>12, <2>1 DEF PersistPartial, Break, FailTurn, Return
  <2>2. CASE log' = Append(log, Msg("partial", 0)) /\ ~FailTurn
    <3>1. 0 \in Nat /\ Msg("partial", 0) \in Message
      BY MsgFacts DEF TypeOK, LocalsType
    <3>2. turn' = turn /\ step' = step /\ started' = started /\ finished' = finished
      BY <1>12, <2>2 DEF PersistPartial, GoTo, Break, locals, sink
    <3>3. pc \notin {"idle", "exec", "persistResult"} /\ pc' \in {"finish"}
      BY <1>12, <2>2 DEF PersistPartial, GoTo, Break
    <3>4. QED
      BY <2>2, <3>1, <3>2, <3>3, RecordedKept DEF StartedInv
  <2>3. CASE log' = log /\ ~FailTurn
    BY <1>12, <2>3 DEF PersistPartial, Break, sink, locals, StartedInv, Recorded
  <2>4. QED
    BY <1>12, <2>1, <2>2, <2>3 DEF PersistPartial
<1>13. CASE PersistAssistant
  <2>1. CASE FailTurn
    BY <1>13, <2>1, FailStarted DEF PersistAssistant
  <2>2. CASE log' = Append(log, Msg("assistant", Len(calls))) /\ ~FailTurn
    <3>1. Len(calls) \in Nat /\ Msg("assistant", Len(calls)) \in Message
      BY MsgFacts DEF TypeOK, LocalsType
    <3>2. turn' = turn /\ step' = step /\ started' = started /\ finished' = finished
      BY <1>13, <2>2 DEF PersistAssistant, GoTo, Break, locals, sink
    <3>3. pc \notin {"idle", "exec", "persistResult"} /\ pc' \in {"nextCall", "finish"}
      BY <1>13, <2>2 DEF PersistAssistant, GoTo, Break
    <3>4. QED
      BY <2>2, <3>1, <3>2, <3>3, RecordedKept DEF StartedInv
  <2>3. QED
    BY <1>13, <2>1, <2>2 DEF PersistAssistant, Persist
<1>14. CASE NextCall
  BY <1>14 DEF NextCall, GoTo, Break, vars, locals, sink, store, StartedInv, Recorded, Position, TypeOK, ControlType, LocalsType, StoreType, SinkType, CallId, EndedInv
<1>15. CASE BeforeToolCall
  BY <1>15 DEF BeforeToolCall, Break, EmitAborted, Position, vars, locals, sink, store, StartedInv, Recorded, Position, TypeOK, ControlType, LocalsType, StoreType, SinkType, CallId, EndedInv
<1>16. CASE ToolReturns
  BY <1>16 DEF ToolReturns, ToolDone, GoTo, Position, vars, locals, sink, store, StartedInv, Recorded, Position, TypeOK, ControlType, LocalsType, StoreType, SinkType, CallId, EndedInv
<1>17. CASE ToolTimesOut
  BY <1>17 DEF ToolTimesOut, ToolDone, GoTo, Position, vars, locals, sink, store, StartedInv, Recorded, Position, TypeOK, ControlType, LocalsType, StoreType, SinkType, CallId, EndedInv
<1>18. CASE PersistResult
  <2>1. CASE FailTurn
    BY <1>18, <2>1, FailStarted DEF PersistResult
  <2>2. CASE ~FailTurn
    <3>1. next \in Nat /\ Msg("result", next) \in Message
      BY MsgFacts DEF TypeOK, LocalsType
    <3>2. /\ log' = Append(log, Msg("result", next)) /\ pc = "persistResult" /\ pc' = "nextCall"
          /\ turn' = turn /\ step' = step /\ started' = started /\ finished' = finished
      BY <1>18, <2>2 DEF PersistResult, Persist, sink
    <3>3. ASSUME NEW CONSTANT c, c = Position PROVE Recorded(c)'
      <4>1. log'[Len(log) + 1] = Msg("result", next) /\ Len(log) + 1 \in DOMAIN log'
        BY <3>1, <3>2, AppendFacts
      <4>2. \E j \in DOMAIN log' :
              log'[j] = [kind |-> "result", turn |-> turn, step |-> step, n |-> next]
        BY <4>1 DEF Msg
      <4>3. QED
        BY <4>2, <3>2, <3>3 DEF Recorded, Position
    <3>4. ASSUME NEW CONSTANT c \in started PROVE c \in finished /\ Recorded(c)'
      <4>1. c \in finished /\ (Recorded(c) \/ c = Position)
        BY <3>2 DEF StartedInv
      <4>2. QED
        BY <4>1, <3>1, <3>2, <3>3, RecordedKept
    <3>5. QED
      BY <3>2, <3>4 DEF StartedInv
  <2>3. QED
    BY <2>1, <2>2
<1>19. CASE Finish
  BY <1>19 DEF Finish, Return, vars, locals, sink, store, StartedInv, Recorded, Position, TypeOK, ControlType, LocalsType, StoreType, SinkType, CallId, EndedInv
<1>20. CASE Cancel
  BY <1>20 DEF Cancel, vars, locals, sink, store, StartedInv, Recorded, Position, TypeOK, ControlType, LocalsType, StoreType, SinkType, CallId, EndedInv
<1>21. CASE UNCHANGED vars
  BY <1>21 DEF vars, locals, sink, store, StartedInv, Recorded, Position, TypeOK, ControlType, LocalsType, StoreType, SinkType, CallId, EndedInv
<1>22. QED
  BY <1>1, <1>2, <1>3, <1>4, <1>5, <1>6, <1>7, <1>8, <1>9, <1>10, <1>11, <1>12, <1>13, <1>14, <1>15, <1>16, <1>17, <1>18, <1>19, <1>20, <1>21 DEF Next, EngineStep, Done

\* An answered call stays answered when a message that is not another answer
\* to it is appended.
LEMMA AnsweredKept ==
    ASSUME TypeOK, NEW CONSTANT k \in DOMAIN log, NEW CONSTANT i, NEW m \in Message,
           AnsweredOnce(log, k, i), ~Answers(m, log[k], i), log' = Append(log, m)
    PROVE  AnsweredOnce(log', k, i)
<1>1. PICK j \in DOMAIN log : /\ j > k /\ Answers(log[j], log[k], i)
                              /\ \A l \in DOMAIN log : Answers(log[l], log[k], i) => l = j
  BY DEF AnsweredOnce
<1>2. j \in DOMAIN log' /\ log'[j] = log[j] /\ log'[k] = log[k]
  BY AppendFacts
<1>3. ASSUME NEW l \in DOMAIN log', Answers(log'[l], log'[k], i) PROVE l = j
  <2>1. CASE l \in DOMAIN log
    BY <2>1, <1>1, <1>2, <1>3, AppendFacts
  <2>2. CASE l \notin DOMAIN log
    <3>1. log'[l] = m
      BY <2>2, AppendFacts
    <3>2. QED
      BY <3>1, <1>2, <1>3
  <2>3. QED
    BY <2>1, <2>2
<1>4. QED
  BY <1>1, <1>2, <1>3 DEF AnsweredOnce

\* The tool loop answers its calls in order, each once.
LEMMA AnsweredStep ==
    ASSUME TypeOK, StepsInv, AnsweredInv, [Next]_vars
    PROVE  AnsweredInv'
<1>1. CASE StartTurn
  BY <1>1 DEF StartTurn, GoTo, vars, locals, store, AnsweredInv, NoOrphan, TypeOK, ControlType, LocalsType, StoreType, AskPoints, ToolPoints
<1>2. CASE BeforeAgentStart
  BY <1>2 DEF BeforeAgentStart, HookDecides, GoTo, Break, vars, locals, store, AnsweredInv, NoOrphan, TypeOK, ControlType, LocalsType, StoreType, AskPoints, ToolPoints
<1>3. CASE CheckCancelBeforeStart
  BY <1>3 DEF CheckCancelBeforeStart, GoTo, Return, vars, locals, store, AnsweredInv, NoOrphan, TypeOK, ControlType, LocalsType, StoreType, AskPoints, ToolPoints
<1>4. CASE PersistUser
  BY <1>4 DEF PersistUser, GoTo, FailTurn, Return, Msg, vars, locals, store, AnsweredInv, NoOrphan, TypeOK, ControlType, LocalsType, StoreType, AskPoints, ToolPoints
<1>5. CASE LoadHistory
  <2>1. log' = log /\ turn' = turn /\ pc' \in {"top", "idle"}
    BY <1>5 DEF LoadHistory, GoTo, FailTurn, Return
  <2>2. \A k \in DOMAIN log : ~(log[k].kind = "assistant" /\ log[k].turn = turn)
    BY <1>5, LogFields DEF LoadHistory, StepsInv, BeforeLoop
  <2>3. QED
    BY <2>1, <2>2 DEF AnsweredInv, NoOrphan, AskPoints, ToolPoints
<1>6. CASE LoopTop
  BY <1>6 DEF LoopTop, Break, vars, locals, store, AnsweredInv, NoOrphan, TypeOK, ControlType, LocalsType, StoreType, AskPoints, ToolPoints
<1>7. CASE BeforeTurn
  BY <1>7 DEF BeforeTurn, HookDecides, GoTo, Break, vars, locals, store, AnsweredInv, NoOrphan, TypeOK, ControlType, LocalsType, StoreType, AskPoints, ToolPoints
<1>8. CASE BeforeRequest
  BY <1>8 DEF BeforeRequest, HookDecides, GoTo, Break, vars, locals, store, AnsweredInv, NoOrphan, TypeOK, ControlType, LocalsType, StoreType, AskPoints, ToolPoints
<1>9. CASE OpenStream
  BY <1>9 DEF OpenStream, GoTo, Break, vars, locals, store, AnsweredInv, NoOrphan, TypeOK, ControlType, LocalsType, StoreType, AskPoints, ToolPoints
<1>10. CASE Recv
  BY <1>10 DEF Recv, GoTo, Break, vars, locals, store, AnsweredInv, NoOrphan, TypeOK, ControlType, LocalsType, StoreType, AskPoints, ToolPoints
<1>11. CASE StreamEnds
  BY <1>11 DEF StreamEnds, GoTo, Break, vars, locals, store, AnsweredInv, NoOrphan, TypeOK, ControlType, LocalsType, StoreType, AskPoints, ToolPoints
<1>12. CASE PersistPartial
  BY <1>12 DEF PersistPartial, Break, Msg, vars, locals, store, AnsweredInv, NoOrphan, TypeOK, ControlType, LocalsType, StoreType, AskPoints, ToolPoints
<1>13. CASE PersistAssistant
  <2>1. CASE FailTurn \/ pc' = "finish"
    BY <2>1 DEF FailTurn, Return, AnsweredInv, AskPoints, ToolPoints
  <2>2. CASE ~FailTurn /\ pc' # "finish"
    <3> DEFINE m == Msg("assistant", Len(calls))
    <3>1. /\ log' = Append(log, m) /\ pc' = "nextCall" /\ turn' = turn /\ step' = step
          /\ calls' = calls /\ next' = next /\ pc = "persistAssistant"
      BY <1>13, <2>2 DEF PersistAssistant, Persist, GoTo, Break, locals
    <3>2. /\ m \in Message /\ m.kind = "assistant" /\ m.step = step /\ m.n = Len(calls)
      BY MsgFacts DEF TypeOK, LocalsType
    <3> HIDE DEF m
    <3>3. next = 1 /\ NoOrphan(log, turn)
      BY <3>1 DEF AnsweredInv, AskPoints
    <3>4. \A k \in DOMAIN log : log[k].kind \in {"assistant", "result"} /\ log[k].turn = turn
              => log[k].step < step
      BY <3>1 DEF StepsInv, AskPoints
    <3>5. ASSUME NEW CONSTANT k \in DOMAIN log', log'[k].kind = "assistant", log'[k].turn = turn
          PROVE  /\ log'[k].step = step => log'[k].n = Len(calls)
                 /\ \A i \in 1..log'[k].n :
                      log'[k].step < step \/ i < next => AnsweredOnce(log', k, i)
      <4>1. CASE k \in DOMAIN log
        <5>1. log'[k] = log[k]
          BY <4>1, <3>1, <3>2, AppendFacts
        <5>2. log[k].step < step /\ log[k].step \in Nat /\ step \in Nat
          BY <4>1, <5>1, <3>4, <3>5, LogFields DEF TypeOK, LocalsType
        <5>3. ASSUME NEW CONSTANT i \in 1..log[k].n PROVE AnsweredOnce(log', k, i)
          <6>1. AnsweredOnce(log, k, i)
            BY <3>3, <3>5, <4>1, <5>1 DEF NoOrphan
          <6>2. QED
            BY <6>1, <4>1, <3>1, <3>2, AnsweredKept DEF Answers
        <5>4. QED
          BY <5>1, <5>2, <5>3
      <4>2. CASE k \notin DOMAIN log
        <5>1. log'[k] = m /\ step \in Nat
          BY <4>2, <3>1, <3>2, AppendFacts DEF TypeOK, LocalsType
        <5>2. QED
          BY <5>1, <3>2, <3>3
      <4>3. QED
        BY <4>1, <4>2
    <3>6. ASSUME NEW CONSTANT k \in DOMAIN log', log'[k].kind = "result", log'[k].turn = turn,
                 log'[k].step = step
          PROVE  FALSE
      <4>1. k \in DOMAIN log /\ log'[k] = log[k]
        BY <3>6, <3>1, <3>2, AppendFacts
      <4>2. QED
        BY <4>1, <3>4, <3>6 DEF TypeOK, LocalsType
    <3>7. QED
      BY <3>1, <3>3, <3>5, <3>6 DEF AnsweredInv, AskPoints, ToolPoints
  <2>3. QED
    BY <2>1, <2>2
<1>14. CASE NextCall
  <2>1. /\ log' = log /\ turn' = turn /\ step' = step /\ calls' = calls /\ next' = next
        /\ pc = "nextCall" /\ pc' \in {"top", "finish", "toolHook", "persistResult"}
        /\ pc' = "top" => next > Len(calls)
    BY <1>14 DEF NextCall, GoTo, Break, locals, store
  <2>2. CASE pc' = "top"
    <3>1. ASSUME NEW CONSTANT k \in DOMAIN log, log[k].kind = "assistant", log[k].turn = turn,
                 NEW CONSTANT i \in 1..log[k].n
          PROVE  AnsweredOnce(log, k, i)
      <4>1. log[k].step <= step /\ log[k].step \in Nat /\ step \in Nat /\ log[k].n \in Nat
        BY <2>1, <3>1, LogFields DEF StepsInv, TypeOK, LocalsType
      <4>2. Len(calls) \in Nat /\ next \in Nat
        BY DEF TypeOK, LocalsType
      <4>3. log[k].step = step => log[k].n = Len(calls)
        BY <2>1, <3>1 DEF AnsweredInv, ToolPoints
      <4>4. log[k].step < step \/ i < next
        BY <4>1, <4>2, <4>3, <2>1, <2>2
      <4>5. QED
        BY <4>4, <2>1, <3>1 DEF AnsweredInv, ToolPoints
    <3>2. QED
      BY <2>1, <2>2, <3>1 DEF AnsweredInv, NoOrphan, AskPoints, ToolPoints
  <2>3. CASE pc' # "top"
    BY <2>1, <2>3 DEF AnsweredInv, AskPoints, ToolPoints
  <2>4. QED
    BY <2>2, <2>3
<1>15. CASE BeforeToolCall
  BY <1>15 DEF BeforeToolCall, Break, Position, vars, locals, store, AnsweredInv, NoOrphan, TypeOK, ControlType, LocalsType, StoreType, AskPoints, ToolPoints
<1>16. CASE ToolReturns
  BY <1>16 DEF ToolReturns, ToolDone, GoTo, Position, vars, locals, store, AnsweredInv, NoOrphan, TypeOK, ControlType, LocalsType, StoreType, AskPoints, ToolPoints
<1>17. CASE ToolTimesOut
  BY <1>17 DEF ToolTimesOut, ToolDone, GoTo, Position, vars, locals, store, AnsweredInv, NoOrphan, TypeOK, ControlType, LocalsType, StoreType, AskPoints, ToolPoints
<1>18. CASE PersistResult
  <2>1. CASE FailTurn
    BY <2>1 DEF FailTurn, Return, AnsweredInv, AskPoints, ToolPoints
  <2>2. CASE ~FailTurn
    <3> DEFINE m == Msg("result", next)
    <3>1. /\ log' = Append(log, m) /\ pc' = "nextCall" /\ turn' = turn /\ step' = step
          /\ calls' = calls /\ next' = next + 1 /\ pc = "persistResult"
      BY <1>18, <2>2 DEF PersistResult, Persist
    <3>2. /\ m \in Message /\ m.kind = "result" /\ m.step = step /\ m.n = next /\ m.turn = turn
          /\ next \in Nat /\ step \in Nat
      BY MsgFacts DEF TypeOK, LocalsType
    <3> HIDE DEF m
    <3>3. /\ \A k \in DOMAIN log : log[k].kind = "assistant" /\ log[k].turn = turn =>
                /\ log[k].step = step => log[k].n = Len(calls)
                /\ \A i \in 1..log[k].n :
                     log[k].step < step \/ i < next => AnsweredOnce(log, k, i)
          /\ \A k \in DOMAIN log : log[k].kind = "result" /\ log[k].turn = turn
                                   /\ log[k].step = step => log[k].n < next
          /\ next >= 1
      BY <3>1 DEF AnsweredInv, ToolPoints
    <3>4. ASSUME NEW CONSTANT k \in DOMAIN log', log'[k].kind = "assistant", log'[k].turn = turn
          PROVE  /\ log'[k].step = step => log'[k].n = Len(calls)
                 /\ \A i \in 1..log'[k].n :
                      log'[k].step < step \/ i < next + 1 => AnsweredOnce(log', k, i)
      <4>1. k \in DOMAIN log /\ log'[k] = log[k]
        BY <3>4, <3>1, <3>2, AppendFacts
      <4>2. log[k].step \in Nat /\ log[k].n \in Nat
        BY <4>1, LogFields
      <4>3. ASSUME NEW CONSTANT i \in 1..log[k].n, log[k].step < step \/ i < next + 1
            PROVE  AnsweredOnce(log', k, i)
        <5>1. CASE log[k].step < step \/ i < next
          <6>1. AnsweredOnce(log, k, i)
            BY <5>1, <4>1, <3>3, <3>4
          <6>2. ~Answers(m, log[k], i)
            BY <5>1, <3>2, <4>2 DEF Answers
          <6>3. QED
            BY <6>1, <6>2, <4>1, <3>1, <3>2, AnsweredKept
        <5>2. CASE log[k].step = step /\ i = next
          <6>1. Len(log) + 1 \in DOMAIN log' /\ Len(log) + 1 > k /\ log'[Len(log) + 1] = m
            BY <4>1, <3>1, <3>2, AppendFacts
          <6>2. Answers(m, log'[k], i)
            BY <5>2, <3>2, <3>4, <4>1 DEF Answers
          <6>3. ASSUME NEW l \in DOMAIN log', Answers(log'[l], log'[k], i)
                PROVE  l = Len(log) + 1
            <7>1. CASE l \in DOMAIN log
              <8>1. log'[l] = log[l]
                BY <7>1, <3>1, <3>2, AppendFacts
              <8>2. /\ log[l].kind = "result" /\ log[l].turn = turn
                    /\ log[l].step = step /\ log[l].n = next
                BY <8>1, <6>3, <5>2, <3>4, <4>1 DEF Answers
              <8>3. QED
                BY <8>2, <7>1, <3>2, <3>3
            <7>2. CASE l \notin DOMAIN log
              BY <7>2, <3>1, <3>2, AppendFacts
            <7>3. QED
              BY <7>1, <7>2
          <6>4. QED
            BY <6>1, <6>2, <6>3 DEF AnsweredOnce
        <5>3. CASE log[k].step > step
          <6>1. log[k].step <= step
            BY <4>1, <3>1, <3>4 DEF StepsInv
          <6>2. QED
            BY <6>1, <5>3, <4>2, <3>2
        <5>4. QED
          BY <5>1, <5>2, <5>3, <4>2, <4>3, <3>2
      <4>4. QED
        BY <4>1, <4>3, <3>3, <3>4
    <3>5. ASSUME NEW CONSTANT k \in DOMAIN log', log'[k].kind = "result", log'[k].turn = turn,
                 log'[k].step = step
          PROVE  log'[k].n < next + 1
      <4>1. CASE k \in DOMAIN log
        <5>1. log'[k] = log[k] /\ log[k].n \in Nat
          BY <4>1, <3>1, <3>2, AppendFacts, LogFields
        <5>2. QED
          BY <5>1, <4>1, <3>2, <3>3, <3>5
      <4>2. CASE k \notin DOMAIN log
        <5>1. log'[k] = m
          BY <4>2, <3>1, <3>2, AppendFacts
        <5>2. QED
          BY <5>1, <3>2
      <4>3. QED
        BY <4>1, <4>2
    <3>6. QED
      BY <3>1, <3>2, <3>3, <3>4, <3>5 DEF AnsweredInv, AskPoints, ToolPoints
  <2>3. QED
    BY <2>1, <2>2
<1>19. CASE Finish
  BY <1>19 DEF Finish, Return, vars, locals, store, AnsweredInv, NoOrphan, TypeOK, ControlType, LocalsType, StoreType, AskPoints, ToolPoints
<1>20. CASE Cancel
  BY <1>20 DEF Cancel, vars, locals, store, AnsweredInv, NoOrphan, TypeOK, ControlType, LocalsType, StoreType, AskPoints, ToolPoints
<1>21. CASE UNCHANGED vars
  BY <1>21 DEF vars, locals, store, AnsweredInv, NoOrphan, TypeOK, ControlType, LocalsType, StoreType, AskPoints, ToolPoints
<1>22. QED
  BY <1>1, <1>2, <1>3, <1>4, <1>5, <1>6, <1>7, <1>8, <1>9, <1>10, <1>11, <1>12, <1>13, <1>14, <1>15, <1>16, <1>17, <1>18, <1>19, <1>20, <1>21 DEF Next, EngineStep, Done

\* `ended` grows exactly when run_turn returns.
LEMMA EndedStep ==
    ASSUME TypeOK, EndedInv, [Next]_vars
    PROVE  EndedInv'
<1>1. CASE StartTurn
  BY <1>1 DEF StartTurn, GoTo, vars, store, locals, EndedInv, TypeOK, ControlType, StoreType
<1>2. CASE BeforeAgentStart
  BY <1>2 DEF BeforeAgentStart, HookDecides, GoTo, Break, EmitAborted, vars, store, locals, EndedInv, TypeOK, ControlType, StoreType
<1>3. CASE CheckCancelBeforeStart
  BY <1>3 DEF CheckCancelBeforeStart, GoTo, Return, vars, store, locals, EndedInv, TypeOK, ControlType, StoreType
<1>4. CASE PersistUser
  BY <1>4 DEF PersistUser, GoTo, FailTurn, Return, vars, store, locals, EndedInv, TypeOK, ControlType, StoreType
<1>5. CASE LoadHistory
  BY <1>5 DEF LoadHistory, GoTo, FailTurn, Return, vars, store, locals, EndedInv, TypeOK, ControlType, StoreType
<1>6. CASE LoopTop
  BY <1>6 DEF LoopTop, Break, EmitAborted, vars, store, locals, EndedInv, TypeOK, ControlType, StoreType
<1>7. CASE BeforeTurn
  BY <1>7 DEF BeforeTurn, HookDecides, GoTo, Break, EmitAborted, vars, store, locals, EndedInv, TypeOK, ControlType, StoreType
<1>8. CASE BeforeRequest
  BY <1>8 DEF BeforeRequest, HookDecides, GoTo, Break, EmitAborted, vars, store, locals, EndedInv, TypeOK, ControlType, StoreType
<1>9. CASE OpenStream
  BY <1>9 DEF OpenStream, GoTo, Break, CountLate, vars, store, locals, EndedInv, TypeOK, ControlType, StoreType
<1>10. CASE Recv
  BY <1>10 DEF Recv, GoTo, Break, vars, store, locals, EndedInv, TypeOK, ControlType, StoreType
<1>11. CASE StreamEnds
  BY <1>11 DEF StreamEnds, GoTo, Break, vars, store, locals, EndedInv, TypeOK, ControlType, StoreType
<1>12. CASE PersistPartial
  BY <1>12 DEF PersistPartial, Break, vars, store, locals, EndedInv, TypeOK, ControlType, StoreType
<1>13. CASE PersistAssistant
  BY <1>13 DEF PersistAssistant, GoTo, Break, FailTurn, Return, vars, store, locals, EndedInv, TypeOK, ControlType, StoreType
<1>14. CASE NextCall
  BY <1>14 DEF NextCall, GoTo, Break, vars, store, locals, EndedInv, TypeOK, ControlType, StoreType
<1>15. CASE BeforeToolCall
  BY <1>15 DEF BeforeToolCall, Break, EmitAborted, CountLate, vars, store, locals, EndedInv, TypeOK, ControlType, StoreType
<1>16. CASE ToolReturns
  BY <1>16 DEF ToolReturns, ToolDone, GoTo, vars, store, locals, EndedInv, TypeOK, ControlType, StoreType
<1>17. CASE ToolTimesOut
  BY <1>17 DEF ToolTimesOut, ToolDone, GoTo, vars, store, locals, EndedInv, TypeOK, ControlType, StoreType
<1>18. CASE PersistResult
  BY <1>18 DEF PersistResult, FailTurn, Return, vars, store, locals, EndedInv, TypeOK, ControlType, StoreType
<1>19. CASE Finish
  BY <1>19 DEF Finish, Return, vars, store, locals, EndedInv, TypeOK, ControlType, StoreType
<1>20. CASE Cancel
  BY <1>20 DEF Cancel, vars, store, locals, EndedInv, TypeOK, ControlType, StoreType
<1>21. CASE UNCHANGED vars
  BY <1>21 DEF vars, store, locals, EndedInv, TypeOK, ControlType, StoreType
<1>22. QED
  BY <1>1, <1>2, <1>3, <1>4, <1>5, <1>6, <1>7, <1>8, <1>9, <1>10, <1>11, <1>12, <1>13, <1>14, <1>15, <1>16, <1>17, <1>18, <1>19, <1>20, <1>21 DEF Next, EngineStep, Done

\* TurnFinished is emitted once, by the step that returns Ok.
LEMMA TurnFinishedStep ==
    ASSUME TypeOK, EndedInv, SilentOnlyOnStoreError, [Next]_vars
    PROVE  SilentOnlyOnStoreError'
<1>1. CASE StartTurn
  BY <1>1 DEF StartTurn, GoTo, vars, sink, EndedInv, SilentOnlyOnStoreError, TypeOK, ControlType, StoreType, LocalsType, StopReasons
<1>2. CASE BeforeAgentStart
  BY <1>2 DEF BeforeAgentStart, HookDecides, GoTo, Break, EmitAborted, vars, sink, EndedInv, SilentOnlyOnStoreError, TypeOK, ControlType, StoreType, LocalsType, StopReasons
<1>3. CASE CheckCancelBeforeStart
  BY <1>3 DEF CheckCancelBeforeStart, GoTo, Return, vars, sink, EndedInv, SilentOnlyOnStoreError, TypeOK, ControlType, StoreType, LocalsType, StopReasons
<1>4. CASE PersistUser
  BY <1>4 DEF PersistUser, GoTo, FailTurn, Return, vars, sink, EndedInv, SilentOnlyOnStoreError, TypeOK, ControlType, StoreType, LocalsType, StopReasons
<1>5. CASE LoadHistory
  BY <1>5 DEF LoadHistory, GoTo, FailTurn, Return, vars, sink, EndedInv, SilentOnlyOnStoreError, TypeOK, ControlType, StoreType, LocalsType, StopReasons
<1>6. CASE LoopTop
  BY <1>6 DEF LoopTop, Break, EmitAborted, vars, sink, EndedInv, SilentOnlyOnStoreError, TypeOK, ControlType, StoreType, LocalsType, StopReasons
<1>7. CASE BeforeTurn
  BY <1>7 DEF BeforeTurn, HookDecides, GoTo, Break, EmitAborted, vars, sink, EndedInv, SilentOnlyOnStoreError, TypeOK, ControlType, StoreType, LocalsType, StopReasons
<1>8. CASE BeforeRequest
  BY <1>8 DEF BeforeRequest, HookDecides, GoTo, Break, EmitAborted, vars, sink, EndedInv, SilentOnlyOnStoreError, TypeOK, ControlType, StoreType, LocalsType, StopReasons
<1>9. CASE OpenStream
  BY <1>9 DEF OpenStream, GoTo, Break, vars, sink, EndedInv, SilentOnlyOnStoreError, TypeOK, ControlType, StoreType, LocalsType, StopReasons
<1>10. CASE Recv
  BY <1>10 DEF Recv, GoTo, Break, vars, sink, EndedInv, SilentOnlyOnStoreError, TypeOK, ControlType, StoreType, LocalsType, StopReasons
<1>11. CASE StreamEnds
  BY <1>11 DEF StreamEnds, GoTo, Break, vars, sink, EndedInv, SilentOnlyOnStoreError, TypeOK, ControlType, StoreType, LocalsType, StopReasons
<1>12. CASE PersistPartial
  BY <1>12 DEF PersistPartial, Break, vars, sink, EndedInv, SilentOnlyOnStoreError, TypeOK, ControlType, StoreType, LocalsType, StopReasons
<1>13. CASE PersistAssistant
  BY <1>13 DEF PersistAssistant, GoTo, Break, FailTurn, Return, vars, sink, EndedInv, SilentOnlyOnStoreError, TypeOK, ControlType, StoreType, LocalsType, StopReasons
<1>14. CASE NextCall
  BY <1>14 DEF NextCall, GoTo, Break, vars, sink, EndedInv, SilentOnlyOnStoreError, TypeOK, ControlType, StoreType, LocalsType, StopReasons
<1>15. CASE BeforeToolCall
  BY <1>15 DEF BeforeToolCall, Break, EmitAborted, vars, sink, EndedInv, SilentOnlyOnStoreError, TypeOK, ControlType, StoreType, LocalsType, StopReasons
<1>16. CASE ToolReturns
  BY <1>16 DEF ToolReturns, ToolDone, GoTo, vars, sink, EndedInv, SilentOnlyOnStoreError, TypeOK, ControlType, StoreType, LocalsType, StopReasons
<1>17. CASE ToolTimesOut
  BY <1>17 DEF ToolTimesOut, ToolDone, GoTo, vars, sink, EndedInv, SilentOnlyOnStoreError, TypeOK, ControlType, StoreType, LocalsType, StopReasons
<1>18. CASE PersistResult
  BY <1>18 DEF PersistResult, FailTurn, Return, vars, sink, EndedInv, SilentOnlyOnStoreError, TypeOK, ControlType, StoreType, LocalsType, StopReasons
<1>19. CASE Finish
  BY <1>19 DEF Finish, Return, vars, sink, EndedInv, SilentOnlyOnStoreError, TypeOK, ControlType, StoreType, LocalsType, StopReasons
<1>20. CASE Cancel
  BY <1>20 DEF Cancel, vars, sink, EndedInv, SilentOnlyOnStoreError, TypeOK, ControlType, StoreType, LocalsType, StopReasons
<1>21. CASE UNCHANGED vars
  BY <1>21 DEF vars, sink, EndedInv, SilentOnlyOnStoreError, TypeOK, ControlType, StoreType, LocalsType, StopReasons
<1>22. QED
  BY <1>1, <1>2, <1>3, <1>4, <1>5, <1>6, <1>7, <1>8, <1>9, <1>10, <1>11, <1>12, <1>13, <1>14, <1>15, <1>16, <1>17, <1>18, <1>19, <1>20, <1>21 DEF Next, EngineStep, Done

\* Every persist in the loop is followed by the same push.
LEMMA HistoryStep ==
    ASSUME HistoryInv, [Next]_vars
    PROVE  HistoryInv'
<1>1. CASE StartTurn
  BY <1>1 DEF StartTurn, GoTo, vars, store, locals, HistoryInv, LoopPoints
<1>2. CASE BeforeAgentStart
  BY <1>2 DEF BeforeAgentStart, HookDecides, GoTo, Break, EmitAborted, vars, store, locals, HistoryInv, LoopPoints
<1>3. CASE CheckCancelBeforeStart
  BY <1>3 DEF CheckCancelBeforeStart, GoTo, Return, vars, store, locals, HistoryInv, LoopPoints
<1>4. CASE PersistUser
  BY <1>4 DEF PersistUser, GoTo, FailTurn, Return, vars, store, locals, HistoryInv, LoopPoints
<1>5. CASE LoadHistory
  BY <1>5 DEF LoadHistory, GoTo, FailTurn, Return, vars, store, locals, HistoryInv, LoopPoints
<1>6. CASE LoopTop
  BY <1>6 DEF LoopTop, Break, EmitAborted, vars, store, locals, HistoryInv, LoopPoints
<1>7. CASE BeforeTurn
  BY <1>7 DEF BeforeTurn, HookDecides, GoTo, Break, EmitAborted, vars, store, locals, HistoryInv, LoopPoints
<1>8. CASE BeforeRequest
  BY <1>8 DEF BeforeRequest, HookDecides, GoTo, Break, EmitAborted, vars, store, locals, HistoryInv, LoopPoints
<1>9. CASE OpenStream
  BY <1>9 DEF OpenStream, GoTo, Break, vars, store, locals, HistoryInv, LoopPoints
<1>10. CASE Recv
  BY <1>10 DEF Recv, GoTo, Break, vars, store, locals, HistoryInv, LoopPoints
<1>11. CASE StreamEnds
  BY <1>11 DEF StreamEnds, GoTo, Break, vars, store, locals, HistoryInv, LoopPoints
<1>12. CASE PersistPartial
  BY <1>12 DEF PersistPartial, Break, vars, store, locals, HistoryInv, LoopPoints
<1>13. CASE PersistAssistant
  BY <1>13 DEF PersistAssistant, GoTo, Break, Persist, FailTurn, Return, vars, store, locals, HistoryInv, LoopPoints
<1>14. CASE NextCall
  BY <1>14 DEF NextCall, GoTo, Break, vars, store, locals, HistoryInv, LoopPoints
<1>15. CASE BeforeToolCall
  BY <1>15 DEF BeforeToolCall, Break, EmitAborted, vars, store, locals, HistoryInv, LoopPoints
<1>16. CASE ToolReturns
  BY <1>16 DEF ToolReturns, ToolDone, GoTo, vars, store, locals, HistoryInv, LoopPoints
<1>17. CASE ToolTimesOut
  BY <1>17 DEF ToolTimesOut, ToolDone, GoTo, vars, store, locals, HistoryInv, LoopPoints
<1>18. CASE PersistResult
  BY <1>18 DEF PersistResult, Persist, FailTurn, Return, vars, store, locals, HistoryInv, LoopPoints
<1>19. CASE Finish
  BY <1>19 DEF Finish, Return, vars, store, locals, HistoryInv, LoopPoints
<1>20. CASE Cancel
  BY <1>20 DEF Cancel, vars, store, locals, HistoryInv, LoopPoints
<1>21. CASE UNCHANGED vars
  BY <1>21 DEF vars, store, locals, HistoryInv, LoopPoints
<1>22. QED
  BY <1>1, <1>2, <1>3, <1>4, <1>5, <1>6, <1>7, <1>8, <1>9, <1>10, <1>11, <1>12, <1>13, <1>14, <1>15, <1>16, <1>17, <1>18, <1>19, <1>20, <1>21 DEF Next, EngineStep, Done

\* A cancel check stands between any two issued operations.
LEMMA LateStep ==
    ASSUME TypeOK, LateInv, [Next]_vars
    PROVE  LateInv'
<1>1. CASE StartTurn
  BY <1>1 DEF StartTurn, GoTo, vars, LateInv, TypeOK, ControlType, BeforeLoop
<1>2. CASE BeforeAgentStart
  BY <1>2 DEF BeforeAgentStart, HookDecides, GoTo, Break, vars, LateInv, TypeOK, ControlType, BeforeLoop
<1>3. CASE CheckCancelBeforeStart
  BY <1>3 DEF CheckCancelBeforeStart, GoTo, Return, vars, LateInv, TypeOK, ControlType, BeforeLoop
<1>4. CASE PersistUser
  BY <1>4 DEF PersistUser, GoTo, FailTurn, Return, vars, LateInv, TypeOK, ControlType, BeforeLoop
<1>5. CASE LoadHistory
  BY <1>5 DEF LoadHistory, GoTo, FailTurn, Return, vars, LateInv, TypeOK, ControlType, BeforeLoop
<1>6. CASE LoopTop
  BY <1>6 DEF LoopTop, Break, vars, LateInv, TypeOK, ControlType, BeforeLoop
<1>7. CASE BeforeTurn
  BY <1>7 DEF BeforeTurn, HookDecides, GoTo, Break, vars, LateInv, TypeOK, ControlType, BeforeLoop
<1>8. CASE BeforeRequest
  BY <1>8 DEF BeforeRequest, HookDecides, GoTo, Break, vars, LateInv, TypeOK, ControlType, BeforeLoop
<1>9. CASE OpenStream
  BY <1>9 DEF OpenStream, GoTo, Break, CountLate, vars, LateInv, TypeOK, ControlType, BeforeLoop
<1>10. CASE Recv
  BY <1>10 DEF Recv, GoTo, Break, vars, LateInv, TypeOK, ControlType, BeforeLoop
<1>11. CASE StreamEnds
  BY <1>11 DEF StreamEnds, GoTo, Break, vars, LateInv, TypeOK, ControlType, BeforeLoop
<1>12. CASE PersistPartial
  BY <1>12 DEF PersistPartial, Break, vars, LateInv, TypeOK, ControlType, BeforeLoop
<1>13. CASE PersistAssistant
  BY <1>13 DEF PersistAssistant, GoTo, Break, FailTurn, Return, vars, LateInv, TypeOK, ControlType, BeforeLoop
<1>14. CASE NextCall
  BY <1>14 DEF NextCall, GoTo, Break, vars, LateInv, TypeOK, ControlType, BeforeLoop
<1>15. CASE BeforeToolCall
  BY <1>15 DEF BeforeToolCall, Break, CountLate, vars, LateInv, TypeOK, ControlType, BeforeLoop
<1>16. CASE ToolReturns
  BY <1>16 DEF ToolReturns, ToolDone, GoTo, vars, LateInv, TypeOK, ControlType, BeforeLoop
<1>17. CASE ToolTimesOut
  BY <1>17 DEF ToolTimesOut, ToolDone, GoTo, vars, LateInv, TypeOK, ControlType, BeforeLoop
<1>18. CASE PersistResult
  BY <1>18 DEF PersistResult, FailTurn, Return, vars, LateInv, TypeOK, ControlType, BeforeLoop
<1>19. CASE Finish
  BY <1>19 DEF Finish, Return, vars, LateInv, TypeOK, ControlType, BeforeLoop
<1>20. CASE Cancel
  BY <1>20 DEF Cancel, vars, LateInv, TypeOK, ControlType, BeforeLoop
<1>21. CASE UNCHANGED vars
  BY <1>21 DEF vars, LateInv, TypeOK, ControlType, BeforeLoop
<1>22. QED
  BY <1>1, <1>2, <1>3, <1>4, <1>5, <1>6, <1>7, <1>8, <1>9, <1>10, <1>11, <1>12, <1>13, <1>14, <1>15, <1>16, <1>17, <1>18, <1>19, <1>20, <1>21 DEF Next, EngineStep, Done

\* A step of the engine leaves the store alone or appends one message of the
\* current turn; only persistAssistant appends an assistant message.
LEMMA StoreGrows ==
    ASSUME TypeOK, [Next]_vars
    PROVE  \/ log' = log
           \/ /\ turn' = turn /\ pc # "idle"
              /\ \E m \in Message :
                    /\ log' = Append(log, m) /\ m.turn = turn /\ m.step = step
                    /\ IF pc = "persistAssistant"
                       THEN m.kind = "assistant" /\ m.n = Len(calls) /\ pc' \in {"finish", "nextCall"}
                       ELSE m.kind # "assistant" /\ pc' \in {"load", "finish", "nextCall"}
<1>0. /\ 0 \in Nat /\ next \in Nat /\ Len(calls) \in Nat
      /\ Msg("user", 0) \in Message /\ Msg("partial", 0) \in Message
      /\ Msg("assistant", Len(calls)) \in Message /\ Msg("result", next) \in Message
  BY MsgFacts DEF TypeOK, LocalsType
<1>1. CASE StartTurn
  BY <1>1 DEF StartTurn, GoTo, store
<1>2. CASE BeforeAgentStart
  BY <1>2 DEF BeforeAgentStart, HookDecides, GoTo, Break, store
<1>3. CASE CheckCancelBeforeStart
  BY <1>3 DEF CheckCancelBeforeStart, GoTo, Return, store
<1>4. CASE PersistUser
  <2>1. CASE log' = log
    BY <2>1
  <2>2. CASE log' # log
    <3> DEFINE m == Msg("user", 0)
    <3>1. m \in Message /\ m.kind = "user" /\ m.turn = turn /\ m.step = step /\ m.n = 0
      BY <1>0, MsgFacts
    <3>2. /\ log' = Append(log, m) /\ turn' = turn
          /\ pc = "persistUser" /\ pc' \in {"load"}
      BY <1>4, <2>2 DEF PersistUser, GoTo, FailTurn, Return
    <3> HIDE DEF m
    <3>3. QED
      BY <3>1, <3>2
  <2>3. QED
    BY <2>1, <2>2
<1>5. CASE LoadHistory
  BY <1>5 DEF LoadHistory, GoTo, FailTurn, Return, store
<1>6. CASE LoopTop
  BY <1>6 DEF LoopTop, Break, store
<1>7. CASE BeforeTurn
  BY <1>7 DEF BeforeTurn, HookDecides, GoTo, Break, store
<1>8. CASE BeforeRequest
  BY <1>8 DEF BeforeRequest, HookDecides, GoTo, Break, store
<1>9. CASE OpenStream
  BY <1>9 DEF OpenStream, GoTo, Break, store
<1>10. CASE Recv
  BY <1>10 DEF Recv, GoTo, Break, store
<1>11. CASE StreamEnds
  BY <1>11 DEF StreamEnds, GoTo, Break, store
<1>12. CASE PersistPartial
  <2>1. CASE log' = log
    BY <2>1
  <2>2. CASE log' # log
    <3> DEFINE m == Msg("partial", 0)
    <3>1. m \in Message /\ m.kind = "partial" /\ m.turn = turn /\ m.step = step /\ m.n = 0
      BY <1>0, MsgFacts
    <3>2. /\ log' = Append(log, m) /\ turn' = turn
          /\ pc = "persistPartial" /\ pc' \in {"finish"}
      BY <1>12, <2>2 DEF PersistPartial, Break
    <3> HIDE DEF m
    <3>3. QED
      BY <3>1, <3>2
  <2>3. QED
    BY <2>1, <2>2
<1>13. CASE PersistAssistant
  <2>1. CASE log' = log
    BY <2>1
  <2>2. CASE log' # log
    <3> DEFINE m == Msg("assistant", Len(calls))
    <3>1. m \in Message /\ m.kind = "assistant" /\ m.turn = turn /\ m.step = step /\ m.n = Len(calls)
      BY <1>0, MsgFacts
    <3>2. /\ log' = Append(log, m) /\ turn' = turn
          /\ pc = "persistAssistant" /\ pc' \in {"finish", "nextCall"}
      BY <1>13, <2>2 DEF PersistAssistant, GoTo, Break, Persist, FailTurn, Return
    <3> HIDE DEF m
    <3>3. QED
      BY <3>1, <3>2
  <2>3. QED
    BY <2>1, <2>2
<1>14. CASE NextCall
  BY <1>14 DEF NextCall, GoTo, Break, store
<1>15. CASE BeforeToolCall
  BY <1>15 DEF BeforeToolCall, Break, store
<1>16. CASE ToolReturns
  BY <1>16 DEF ToolReturns, ToolDone, GoTo, store
<1>17. CASE ToolTimesOut
  BY <1>17 DEF ToolTimesOut, ToolDone, GoTo, store
<1>18. CASE PersistResult
  <2>1. CASE log' = log
    BY <2>1
  <2>2. CASE log' # log
    <3> DEFINE m == Msg("result", next)
    <3>1. m \in Message /\ m.kind = "result" /\ m.turn = turn /\ m.step = step /\ m.n = next
      BY <1>0, MsgFacts
    <3>2. /\ log' = Append(log, m) /\ turn' = turn
          /\ pc = "persistResult" /\ pc' \in {"nextCall"}
      BY <1>18, <2>2 DEF PersistResult, Persist, FailTurn, Return
    <3> HIDE DEF m
    <3>3. QED
      BY <3>1, <3>2
  <2>3. QED
    BY <2>1, <2>2
<1>19. CASE Finish
  BY <1>19 DEF Finish, Return, store
<1>20. CASE Cancel
  BY <1>20 DEF Cancel, store
<1>21. CASE UNCHANGED vars
  BY <1>21 DEF vars, store
<1>22. QED
  BY <1>1, <1>2, <1>3, <1>4, <1>5, <1>6, <1>7, <1>8, <1>9, <1>10, <1>11, <1>12, <1>13, <1>14, <1>15, <1>16, <1>17, <1>18, <1>19, <1>20, <1>21 DEF Next, EngineStep, Done

\* A turn's end is appended to `ended` by the step that returns: an abort, an
\* error, or the stop reason of the loop.
LEMMA EndedGrows ==
    ASSUME TypeOK, [Next]_vars
    PROVE  \/ ended' = ended
           \/ /\ turn' = turn /\ log' = log /\ pc # "idle" /\ pc' = "idle"
              /\ \E r \in StopReasons \cup {"Err"} :
                    /\ ended' = Append(ended, r)
                    /\ r \in {"Aborted", "Err"} \/ (pc = "finish" /\ r = stop)
<1>1. CASE StartTurn
  BY <1>1 DEF StartTurn, GoTo, TypeOK, LocalsType, StopReasons
<1>2. CASE BeforeAgentStart
  BY <1>2 DEF BeforeAgentStart, HookDecides, GoTo, Break, TypeOK, LocalsType, StopReasons
<1>3. CASE CheckCancelBeforeStart
  BY <1>3 DEF CheckCancelBeforeStart, GoTo, Return, TypeOK, LocalsType, StopReasons
<1>4. CASE PersistUser
  BY <1>4 DEF PersistUser, GoTo, FailTurn, Return, TypeOK, LocalsType, StopReasons
<1>5. CASE LoadHistory
  BY <1>5 DEF LoadHistory, GoTo, FailTurn, Return, TypeOK, LocalsType, StopReasons
<1>6. CASE LoopTop
  BY <1>6 DEF LoopTop, Break, TypeOK, LocalsType, StopReasons
<1>7. CASE BeforeTurn
  BY <1>7 DEF BeforeTurn, HookDecides, GoTo, Break, TypeOK, LocalsType, StopReasons
<1>8. CASE BeforeRequest
  BY <1>8 DEF BeforeRequest, HookDecides, GoTo, Break, TypeOK, LocalsType, StopReasons
<1>9. CASE OpenStream
  BY <1>9 DEF OpenStream, GoTo, Break, TypeOK, LocalsType, StopReasons
<1>10. CASE Recv
  BY <1>10 DEF Recv, GoTo, Break, TypeOK, LocalsType, StopReasons
<1>11. CASE StreamEnds
  BY <1>11 DEF StreamEnds, GoTo, Break, TypeOK, LocalsType, StopReasons
<1>12. CASE PersistPartial
  BY <1>12 DEF PersistPartial, Break, TypeOK, LocalsType, StopReasons
<1>13. CASE PersistAssistant
  BY <1>13 DEF PersistAssistant, GoTo, Break, Persist, FailTurn, Return, TypeOK, LocalsType, StopReasons
<1>14. CASE NextCall
  BY <1>14 DEF NextCall, GoTo, Break, TypeOK, LocalsType, StopReasons
<1>15. CASE BeforeToolCall
  BY <1>15 DEF BeforeToolCall, Break, TypeOK, LocalsType, StopReasons
<1>16. CASE ToolReturns
  BY <1>16 DEF ToolReturns, ToolDone, GoTo, TypeOK, LocalsType, StopReasons
<1>17. CASE ToolTimesOut
  BY <1>17 DEF ToolTimesOut, ToolDone, GoTo, TypeOK, LocalsType, StopReasons
<1>18. CASE PersistResult
  BY <1>18 DEF PersistResult, Persist, FailTurn, Return, TypeOK, LocalsType, StopReasons
<1>19. CASE Finish
  BY <1>19 DEF Finish, Return, TypeOK, LocalsType, StopReasons
<1>20. CASE Cancel
  BY <1>20 DEF Cancel, TypeOK, LocalsType, StopReasons
<1>21. CASE UNCHANGED vars
  BY <1>21 DEF vars, TypeOK, LocalsType, StopReasons
<1>22. QED
  BY <1>1, <1>2, <1>3, <1>4, <1>5, <1>6, <1>7, <1>8, <1>9, <1>10, <1>11, <1>12, <1>13, <1>14, <1>15, <1>16, <1>17, <1>18, <1>19, <1>20, <1>21 DEF Next, EngineStep, Done

\* The calls of a turn stay answered, each once, when a message of another turn
\* is appended, or one that neither answers a call nor asks for one.
LEMMA NoOrphanKept ==
    ASSUME TypeOK, NEW CONSTANT t, NEW CONSTANT m \in Message, log' = Append(log, m),
           NoOrphan(log, t),
           m.turn # t \/ (m.kind # "result" /\ (m.kind = "assistant" => m.n = 0))
    PROVE  NoOrphan(log', t)
<1> SUFFICES ASSUME NEW CONSTANT k \in DOMAIN log', log'[k].kind = "assistant", log'[k].turn = t,
                    NEW CONSTANT i \in 1..log'[k].n
             PROVE  AnsweredOnce(log', k, i)
  BY DEF NoOrphan
<1>1. CASE k \in DOMAIN log
  <2>1. log'[k] = log[k]
    BY <1>1, AppendFacts
  <2>2. AnsweredOnce(log, k, i)
    BY <1>1, <2>1 DEF NoOrphan
  <2>3. ~Answers(m, log[k], i)
    BY <2>1 DEF Answers
  <2>4. QED
    BY <1>1, <2>2, <2>3, AnsweredKept
<1>2. CASE k \notin DOMAIN log
  <2>1. log'[k] = m
    BY <1>2, AppendFacts
  <2>2. 1..m.n = {}
    BY <2>1
  <2>3. QED
    BY <2>1, <2>2
<1>3. QED
  BY <1>1, <1>2

\* Wherever a turn is about to end otherwise than by an abort or a store error,
\* every call it asked for has been answered.
LEMMA EndingClean ==
    ASSUME TypeOK, StepsInv, AnsweredInv, OrphansInv, [Next]_vars,
           pc' = "persistPartial" \/ (pc' = "finish" /\ stop' # "Aborted")
    PROVE  turn' = turn /\ NoOrphan(log', turn)
<1>1. CASE StartTurn
  BY <1>1 DEF StartTurn, GoTo
<1>2. CASE BeforeAgentStart
  <2>1. step = 0 /\ log' = log /\ turn' = turn
    BY <1>2 DEF BeforeAgentStart, HookDecides, store, StepsInv, BeforeLoop
  <2>2. \A k \in DOMAIN log : ~(log[k].kind = "assistant" /\ log[k].turn = turn)
    BY <1>2, <2>1, LogFields DEF BeforeAgentStart, StepsInv
  <2>3. QED
    BY <2>1, <2>2 DEF NoOrphan
<1>3. CASE CheckCancelBeforeStart
  BY <1>3 DEF CheckCancelBeforeStart, GoTo, Return
<1>4. CASE PersistUser
  BY <1>4 DEF PersistUser, GoTo, FailTurn, Return
<1>5. CASE LoadHistory
  BY <1>5 DEF LoadHistory, GoTo, FailTurn, Return
<1>6. CASE LoopTop
  BY <1>6 DEF LoopTop, Break, AnsweredInv, AskPoints, store
<1>7. CASE BeforeTurn
  BY <1>7 DEF BeforeTurn, HookDecides, GoTo, Break, AnsweredInv, AskPoints, store
<1>8. CASE BeforeRequest
  BY <1>8 DEF BeforeRequest, HookDecides, GoTo, Break, AnsweredInv, AskPoints, store
<1>9. CASE OpenStream
  BY <1>9 DEF OpenStream, GoTo, Break, AnsweredInv, AskPoints, store
<1>10. CASE Recv
  BY <1>10 DEF Recv, GoTo, Break, AnsweredInv, AskPoints, store
<1>11. CASE StreamEnds
  BY <1>11 DEF StreamEnds, GoTo, Break, AnsweredInv, AskPoints, store
<1>12. CASE PersistPartial
  <2>1. NoOrphan(log, turn) /\ turn' = turn
    BY <1>12 DEF PersistPartial, OrphansInv
  <2>2. CASE log' = log
    BY <2>1, <2>2
  <2>3. CASE log' = Append(log, Msg("partial", 0))
    <3>1. PICK t : t = turn
      OBVIOUS
    <3>2. PICK m \in Message : m = Msg("partial", 0) /\ m.kind = "partial"
      BY MsgFacts
    <3>3. NoOrphan(log', t)
      BY <2>1, <2>3, <3>1, <3>2, NoOrphanKept
    <3>4. QED
      BY <2>1, <3>1, <3>3
  <2>4. QED
    BY <1>12, <2>2, <2>3 DEF PersistPartial
<1>13. CASE PersistAssistant
  <2>1. NoOrphan(log, turn)
    BY <1>13 DEF PersistAssistant, AnsweredInv, AskPoints
  <2>2. turn' = turn /\ calls = <<>> /\ log' = Append(log, Msg("assistant", Len(calls)))
    BY <1>13 DEF PersistAssistant, GoTo, Break, Persist, FailTurn, Return
  <2>3. Len(calls) = 0
    BY <2>2
  <2>4. PICK t : t = turn
    OBVIOUS
  <2>5. PICK m \in Message : m = Msg("assistant", 0) /\ m.kind = "assistant" /\ m.n = 0
    BY MsgFacts
  <2>6. NoOrphan(log', t)
    BY <2>1, <2>2, <2>3, <2>4, <2>5, NoOrphanKept
  <2>7. QED
    BY <2>2, <2>4, <2>6
<1>14. CASE NextCall
  <2>1. next > Len(calls) /\ log' = log /\ turn' = turn /\ pc \in ToolPoints
    BY <1>14 DEF NextCall, GoTo, Break, store, ToolPoints
  <2>2. ASSUME NEW k \in DOMAIN log, log[k].kind = "assistant", log[k].turn = turn,
               NEW i \in 1..log[k].n
        PROVE  AnsweredOnce(log, k, i)
    <3>1. log[k].step <= step /\ log[k].step \in Nat /\ step \in Nat /\ next \in Nat
      BY <1>14, <2>2, LogFields DEF NextCall, StepsInv, TypeOK, LocalsType
    <3>2. log[k].step < step \/ (log[k].step = step /\ log[k].n = Len(calls))
      BY <2>1, <2>2, <3>1 DEF AnsweredInv
    <3>3. log[k].step < step \/ i < next
      BY <2>1, <3>1, <3>2 DEF TypeOK, LocalsType
    <3>4. QED
      BY <2>1, <2>2, <3>3 DEF AnsweredInv
  <2>3. QED
    BY <2>1, <2>2 DEF NoOrphan
<1>15. CASE BeforeToolCall
  BY <1>15 DEF BeforeToolCall, Break
<1>16. CASE ToolReturns
  BY <1>16 DEF ToolReturns, ToolDone, GoTo
<1>17. CASE ToolTimesOut
  BY <1>17 DEF ToolTimesOut, ToolDone, GoTo
<1>18. CASE PersistResult
  BY <1>18 DEF PersistResult, Persist, FailTurn, Return
<1>19. CASE Finish
  BY <1>19 DEF Finish, Return
<1>20. CASE Cancel
  BY <1>20 DEF Cancel, locals, store, OrphansInv
<1>21. CASE UNCHANGED vars
  BY <1>21 DEF vars, locals, store, OrphansInv
<1>22. QED
  BY <1>1, <1>2, <1>3, <1>4, <1>5, <1>6, <1>7, <1>8, <1>9, <1>10, <1>11, <1>12, <1>13, <1>14, <1>15, <1>16, <1>17, <1>18, <1>19, <1>20, <1>21 DEF Next, EngineStep, Done

\* A turn that was not cut by an abort or a store error leaves no orphan.
LEMMA OrphansStep ==
    ASSUME TypeOK, EndedInv, StepsInv, AnsweredInv, OrphansInv, [Next]_vars
    PROVE  OrphansInv'
<1>0. turn \in Nat /\ ended \in Seq(StopReasons \cup {"Err"}) /\ (pc # "idle" => turn > 0)
  BY BoundsAssumption DEF BoundsAssumption, TypeOK, ControlType, StoreType, EndedInv
<1>1. ASSUME NEW CONSTANT t \in Nat, NoOrphan(log, t), pc # "idle" => t < turn PROVE NoOrphan(log', t)
  <2>1. CASE log' = log
    BY <1>1, <2>1
  <2>2. CASE log' # log
    <3>1. PICK m \in Message : log' = Append(log, m) /\ m.turn = turn
      BY <2>2, StoreGrows
    <3>2. m.turn # t
      BY <1>0, <1>1, <2>2, <3>1, StoreGrows
    <3>3. QED
      BY <1>1, <3>1, <3>2, NoOrphanKept
  <2>3. QED
    BY <2>1, <2>2
<1>2. \A k \in DOMAIN log' : log'[k].turn >= 1
  <2>1. CASE log' = log
    BY <2>1 DEF OrphansInv
  <2>2. CASE log' # log
    <3>1. PICK m \in Message : log' = Append(log, m) /\ m.turn >= 1
      BY <1>0, <2>2, StoreGrows
    <3>2. ASSUME NEW CONSTANT k \in DOMAIN log' PROVE log'[k].turn >= 1
      <4>1. log'[k] = m \/ (k \in DOMAIN log /\ log'[k] = log[k])
        BY <3>1, AppendFacts
      <4>2. QED
        BY <3>1, <4>1 DEF OrphansInv
    <3>3. QED
      BY <3>2
  <2>3. QED
    BY <2>1, <2>2
<1>3. ASSUME NEW CONSTANT t \in 1..Len(ended')
      PROVE  ended'[t] \in {"Aborted", "Err"} \/ NoOrphan(log', t)
  <2>1. CASE t \in 1..Len(ended) /\ ended'[t] = ended[t]
    <3>1. pc # "idle" => t < turn
      BY <1>0, <2>1 DEF EndedInv
    <3>2. ended[t] \in {"Aborted", "Err"} \/ NoOrphan(log, t)
      BY <2>1 DEF OrphansInv
    <3>3. QED
      BY <1>1, <2>1, <3>1, <3>2
  <2>2. CASE ~(t \in 1..Len(ended) /\ ended'[t] = ended[t])
    <3>1. ended' # ended
      BY <2>2
    <3>2. PICK r \in StopReasons \cup {"Err"} :
              /\ ended' = Append(ended, r)
              /\ r \in {"Aborted", "Err"} \/ (pc = "finish" /\ r = stop)
      BY <3>1, EndedGrows
    <3>3. log' = log /\ pc # "idle"
      BY <3>1, EndedGrows
    <3>4. t = Len(ended) + 1 /\ ended'[t] = r
      BY <1>0, <2>2, <3>2
    <3>5. t = turn
      BY <1>0, <3>3, <3>4 DEF EndedInv
    <3>6. QED
      BY <3>2, <3>3, <3>4, <3>5 DEF OrphansInv
  <2>3. QED
    BY <2>1, <2>2
<1>4. pc' = "persistPartial" \/ (pc' = "finish" /\ stop' # "Aborted") => NoOrphan(log', turn')
  BY EndingClean
<1>5. QED
  BY <1>2, <1>3, <1>4 DEF OrphansInv

\* Appending a message changes the assistant messages of a turn only if it is
\* one of them.
LEMMA AssistantsAppend ==
    ASSUME TypeOK, NEW CONSTANT t, NEW CONSTANT m \in Message, log' = Append(log, m)
    PROVE  Assistants(log', t) =
               IF m.kind = "assistant" /\ m.turn = t
               THEN Assistants(log, t) \cup {Len(log) + 1} ELSE Assistants(log, t)
<1>1. /\ DOMAIN log = 1..Len(log) /\ Len(log) \in Nat /\ DOMAIN log' = 1..(Len(log) + 1)
      /\ \A k \in DOMAIN log : log'[k] = log[k]
      /\ log'[Len(log) + 1] = m
  BY AppendFacts
<1>2. ASSUME NEW k
      PROVE  k \in Assistants(log', t) <=>
                 \/ k \in Assistants(log, t)
                 \/ k = Len(log) + 1 /\ m.kind = "assistant" /\ m.turn = t
  BY <1>1 DEF Assistants
<1>3. QED
  BY <1>2

\* The assistant messages of a turn are finitely many; one more is one more.
LEMMA AssistantsFinite ==
    ASSUME TypeOK, NEW CONSTANT t
    PROVE  /\ IsFiniteSet(Assistants(log, t))
           /\ Cardinality(Assistants(log, t)) \in Nat
           /\ Cardinality(Assistants(log, t) \cup {Len(log) + 1})
                = Cardinality(Assistants(log, t)) + 1
<1>1. DOMAIN log = 1..Len(log) /\ Len(log) \in Nat
  BY DEF TypeOK, StoreType
<1>2. Assistants(log, t) \subseteq 1..Len(log)
  BY <1>1 DEF Assistants
<1>3. IsFiniteSet(Assistants(log, t)) /\ Cardinality(Assistants(log, t)) \in Nat
  <2>1. IsFiniteSet(1..Len(log))
    BY <1>1, FS_Interval
  <2>2. IsFiniteSet(Assistants(log, t))
    BY <1>2, <2>1, FS_Subset
  <2>3. QED
    BY <2>2, FS_CardinalityType
<1>4. Len(log) + 1 \notin Assistants(log, t)
  BY <1>1, <1>2
<1>5. QED
  BY <1>3, <1>4, FS_AddElement

\* Where run_turn may go, when it counts a step and when it breaks for the
\* budget.
LEMMA Moves ==
    ASSUME TypeOK, [Next]_vars
    PROVE  /\ pc' \in AskPoints =>
                \/ pc \in AskPoints /\ step' = step /\ log' = log
                \/ pc = "top" /\ step' = step + 1 /\ log' = log /\ ~OverBudget
           /\ pc' \in ToolPoints =>
                \/ pc \in ToolPoints /\ step' = step
                \/ /\ pc = "persistAssistant" /\ step' = step
                   /\ log' = Append(log, Msg("assistant", Len(calls)))
           /\ pc' = "top" =>
                \/ pc = "load" /\ step' = step /\ log' = log
                \/ pc \in {"top", "nextCall"} /\ step' = step /\ log' = log
           /\ step' \in {0, step} \/ (pc = "top" /\ step' = step + 1 /\ ~OverBudget)
           /\ pc' # "agentStart" => turn' = turn
           /\ pc' = "finish" /\ stop' = "BudgetExhausted" =>
                \/ pc = "finish" /\ stop = "BudgetExhausted" /\ step' = step /\ log' = log
                \/ pc = "top" /\ OverBudget /\ step' = step /\ log' = log
<1>1. CASE StartTurn
  BY <1>1 DEF StartTurn, GoTo, locals, store, TypeOK, LocalsType, AskPoints, ToolPoints
<1>2. CASE BeforeAgentStart
  BY <1>2 DEF BeforeAgentStart, HookDecides, GoTo, Break, locals, store, TypeOK, LocalsType, AskPoints, ToolPoints
<1>3. CASE CheckCancelBeforeStart
  BY <1>3 DEF CheckCancelBeforeStart, GoTo, Return, locals, store, TypeOK, LocalsType, AskPoints, ToolPoints
<1>4. CASE PersistUser
  BY <1>4 DEF PersistUser, GoTo, FailTurn, Return, locals, store, TypeOK, LocalsType, AskPoints, ToolPoints
<1>5. CASE LoadHistory
  BY <1>5 DEF LoadHistory, GoTo, FailTurn, Return, locals, store, TypeOK, LocalsType, AskPoints, ToolPoints
<1>6. CASE LoopTop
  BY <1>6 DEF LoopTop, Break, locals, store, TypeOK, LocalsType, AskPoints, ToolPoints
<1>7. CASE BeforeTurn
  BY <1>7 DEF BeforeTurn, HookDecides, GoTo, Break, locals, store, TypeOK, LocalsType, AskPoints, ToolPoints
<1>8. CASE BeforeRequest
  BY <1>8 DEF BeforeRequest, HookDecides, GoTo, Break, locals, store, TypeOK, LocalsType, AskPoints, ToolPoints
<1>9. CASE OpenStream
  BY <1>9 DEF OpenStream, GoTo, Break, locals, store, TypeOK, LocalsType, AskPoints, ToolPoints
<1>10. CASE Recv
  BY <1>10 DEF Recv, GoTo, Break, locals, store, TypeOK, LocalsType, AskPoints, ToolPoints
<1>11. CASE StreamEnds
  BY <1>11 DEF StreamEnds, GoTo, Break, locals, store, TypeOK, LocalsType, AskPoints, ToolPoints
<1>12. CASE PersistPartial
  BY <1>12 DEF PersistPartial, Break, locals, store, TypeOK, LocalsType, AskPoints, ToolPoints
<1>13. CASE PersistAssistant
  BY <1>13 DEF PersistAssistant, GoTo, Break, Persist, FailTurn, Return, locals, store, TypeOK, LocalsType, AskPoints, ToolPoints
<1>14. CASE NextCall
  BY <1>14 DEF NextCall, GoTo, Break, locals, store, TypeOK, LocalsType, AskPoints, ToolPoints
<1>15. CASE BeforeToolCall
  BY <1>15 DEF BeforeToolCall, Break, locals, store, TypeOK, LocalsType, AskPoints, ToolPoints
<1>16. CASE ToolReturns
  BY <1>16 DEF ToolReturns, ToolDone, GoTo, locals, store, TypeOK, LocalsType, AskPoints, ToolPoints
<1>17. CASE ToolTimesOut
  BY <1>17 DEF ToolTimesOut, ToolDone, GoTo, locals, store, TypeOK, LocalsType, AskPoints, ToolPoints
<1>18. CASE PersistResult
  BY <1>18 DEF PersistResult, Persist, FailTurn, Return, locals, store, TypeOK, LocalsType, AskPoints, ToolPoints
<1>19. CASE Finish
  BY <1>19 DEF Finish, Return, locals, store, TypeOK, LocalsType, AskPoints, ToolPoints
<1>20. CASE Cancel
  BY <1>20 DEF Cancel, locals, store, TypeOK, LocalsType, AskPoints, ToolPoints
<1>21. CASE UNCHANGED vars
  BY <1>21 DEF vars, locals, store, TypeOK, LocalsType, AskPoints, ToolPoints
<1>22. QED
  BY <1>1, <1>2, <1>3, <1>4, <1>5, <1>6, <1>7, <1>8, <1>9, <1>10, <1>11, <1>12, <1>13, <1>14, <1>15, <1>16, <1>17, <1>18, <1>19, <1>20, <1>21 DEF Next, EngineStep, Done

\* One assistant message per step; the step that the budget refuses has none.
LEMMA BudgetStep ==
    ASSUME TypeOK, StepsInv, BudgetInv, [Next]_vars
    PROVE  BudgetInv'
<1>0. step \in Nat /\ Budget \in Nat \cup {NoBudget} /\ (pc \in AskPoints \cup ToolPoints => step >= 1)
  BY BoundsAssumption DEF BoundsAssumption, TypeOK, LocalsType, StepsInv
<1>1. Budget # NoBudget => step' <= Budget
  BY <1>0, Moves DEF BudgetInv, OverBudget, NoBudget
<1>2. ASSUME pc' \in AskPoints PROVE Cardinality(Assistants(log', turn')) = step' - 1
  <2>1. turn' = turn /\ log' = log
    BY <1>2, Moves DEF AskPoints
  <2>2. QED
    BY <1>0, <1>2, <2>1, Moves DEF BudgetInv
<1>3. ASSUME pc' = "top" PROVE Cardinality(Assistants(log', turn')) = step'
  <2>1. turn' = turn /\ log' = log /\ step' = step
    BY <1>3, Moves
  <2>2. CASE pc = "load"
    <3>1. step = 0
      BY <2>2 DEF StepsInv, BeforeLoop
    <3>2. \A k \in DOMAIN log : ~(log[k].kind = "assistant" /\ log[k].turn = turn)
      BY <2>2, <3>1, LogFields DEF StepsInv
    <3>3. Assistants(log, turn) = {}
      BY <3>2 DEF Assistants
    <3>4. QED
      BY <2>1, <3>1, <3>3, FS_EmptySet
  <2>3. CASE pc \in {"top", "nextCall"}
    BY <2>1, <2>3 DEF BudgetInv, ToolPoints
  <2>4. QED
    BY <1>3, <2>2, <2>3, Moves
<1>4. ASSUME pc' \in ToolPoints PROVE Cardinality(Assistants(log', turn')) = step'
  <2>1. turn' = turn /\ step' = step
    BY <1>4, Moves DEF ToolPoints
  <2>2. PICK t : t = turn
    OBVIOUS
  <2>3. CASE pc = "persistAssistant"
    <3>1. log' = Append(log, Msg("assistant", Len(calls)))
      BY <1>4, <2>3, Moves DEF ToolPoints
    <3>2. PICK m \in Message : m = Msg("assistant", Len(calls)) /\ m.kind = "assistant" /\ m.turn = t
      BY <2>2, MsgFacts DEF TypeOK, LocalsType
    <3>3. Assistants(log', t) = Assistants(log, t) \cup {Len(log) + 1}
      BY <3>1, <3>2, AssistantsAppend
    <3>4. Cardinality(Assistants(log, t)) = step - 1
      BY <2>2, <2>3 DEF BudgetInv, AskPoints
    <3>5. Cardinality(Assistants(log', t)) = step
      BY <1>0, <3>3, <3>4, AssistantsFinite
    <3>6. QED
      BY <2>1, <2>2, <3>5
  <2>4. CASE pc # "persistAssistant"
    <3>1. pc \in ToolPoints
      BY <1>4, <2>4, Moves
    <3>2. Assistants(log', t) = Assistants(log, t)
      <4>1. CASE log' = log
        BY <4>1
      <4>2. CASE log' # log
        <5>1. PICK m \in Message : log' = Append(log, m) /\ m.kind # "assistant"
          BY <2>4, <4>2, StoreGrows
        <5>2. QED
          BY <5>1, AssistantsAppend
      <4>3. QED
        BY <4>1, <4>2
    <3>3. QED
      BY <2>1, <2>2, <3>1, <3>2 DEF BudgetInv
  <2>5. QED
    BY <2>3, <2>4
<1>5. BudgetExact'
  <2> SUFFICES ASSUME pc' = "finish", stop' = "BudgetExhausted"
               PROVE  step' = Budget /\ Cardinality(Assistants(log', turn')) = Budget
    BY DEF BudgetExact, Assistants
  <2>1. turn' = turn /\ log' = log /\ step' = step
    BY Moves
  <2>2. CASE pc = "finish" /\ stop = "BudgetExhausted"
    BY <2>1, <2>2 DEF BudgetInv, BudgetExact, Assistants
  <2>3. CASE pc = "top" /\ OverBudget
    <3>1. step = Budget
      BY <1>0, <2>3 DEF BudgetInv, OverBudget, NoBudget
    <3>2. Cardinality(Assistants(log, turn)) = step
      BY <2>3 DEF BudgetInv
    <3>3. QED
      BY <2>1, <3>1, <3>2
  <2>4. QED
    BY <2>2, <2>3, Moves
<1>6. QED
  BY <1>1, <1>2, <1>3, <1>4, <1>5 DEF BudgetInv

\* What is started, and what ends the turn.
LEMMA EndTurnStep ==
    ASSUME TypeOK, EndedInv, EndTurnInv, [Next]_vars
    PROVE  EndTurnInv'
<1>0. step \in Nat /\ next \in Nat /\ \A c \in started : c[1] \in Nat /\ c[2] \in Nat
  BY DEF TypeOK, LocalsType, SinkType, CallId
<1>1. CASE StartTurn
  BY <1>1, <1>0 DEF StartTurn, GoTo, locals, sink, EndTurnInv, EmitAborted, Position, CurrentTool, AskPoints, ToolPoints
<1>2. CASE BeforeAgentStart
  BY <1>2, <1>0 DEF BeforeAgentStart, HookDecides, GoTo, Break, locals, sink, EndTurnInv, EmitAborted, Position, CurrentTool, AskPoints, ToolPoints
<1>3. CASE CheckCancelBeforeStart
  BY <1>3, <1>0 DEF CheckCancelBeforeStart, GoTo, Return, locals, sink, EndTurnInv, EmitAborted, Position, CurrentTool, AskPoints, ToolPoints
<1>4. CASE PersistUser
  BY <1>4, <1>0 DEF PersistUser, GoTo, FailTurn, Return, locals, sink, EndTurnInv, EmitAborted, Position, CurrentTool, AskPoints, ToolPoints
<1>5. CASE LoadHistory
  BY <1>5, <1>0 DEF LoadHistory, GoTo, FailTurn, Return, locals, sink, EndTurnInv, EmitAborted, Position, CurrentTool, AskPoints, ToolPoints
<1>6. CASE LoopTop
  BY <1>6, <1>0 DEF LoopTop, Break, locals, sink, EndTurnInv, EmitAborted, Position, CurrentTool, AskPoints, ToolPoints
<1>7. CASE BeforeTurn
  BY <1>7, <1>0 DEF BeforeTurn, HookDecides, GoTo, Break, locals, sink, EndTurnInv, EmitAborted, Position, CurrentTool, AskPoints, ToolPoints
<1>8. CASE BeforeRequest
  BY <1>8, <1>0 DEF BeforeRequest, HookDecides, GoTo, Break, locals, sink, EndTurnInv, EmitAborted, Position, CurrentTool, AskPoints, ToolPoints
<1>9. CASE OpenStream
  BY <1>9, <1>0 DEF OpenStream, GoTo, Break, locals, sink, EndTurnInv, EmitAborted, Position, CurrentTool, AskPoints, ToolPoints
<1>10. CASE Recv
  BY <1>10, <1>0 DEF Recv, GoTo, Break, locals, sink, EndTurnInv, EmitAborted, Position, CurrentTool, AskPoints, ToolPoints
<1>11. CASE StreamEnds
  BY <1>11, <1>0 DEF StreamEnds, GoTo, Break, locals, sink, EndTurnInv, EmitAborted, Position, CurrentTool, AskPoints, ToolPoints
<1>12. CASE PersistPartial
  BY <1>12, <1>0 DEF PersistPartial, Break, locals, sink, EndTurnInv, EmitAborted, Position, CurrentTool, AskPoints, ToolPoints
<1>13. CASE PersistAssistant
  BY <1>13, <1>0 DEF PersistAssistant, GoTo, Break, Persist, FailTurn, Return, locals, sink, EndTurnInv, EmitAborted, Position, CurrentTool, AskPoints, ToolPoints
<1>14. CASE NextCall
  BY <1>14, <1>0 DEF NextCall, GoTo, Break, locals, sink, EndTurnInv, EmitAborted, Position, CurrentTool, AskPoints, ToolPoints
<1>15. CASE BeforeToolCall
  BY <1>15, <1>0 DEF BeforeToolCall, Break, locals, sink, EndTurnInv, EmitAborted, Position, CurrentTool, AskPoints, ToolPoints
<1>16. CASE ToolReturns
  BY <1>16, <1>0 DEF ToolReturns, ToolDone, GoTo, locals, sink, EndTurnInv, EmitAborted, Position, CurrentTool, AskPoints, ToolPoints
<1>17. CASE ToolTimesOut
  BY <1>17, <1>0 DEF ToolTimesOut, ToolDone, GoTo, locals, sink, EndTurnInv, EmitAborted, Position, CurrentTool, AskPoints, ToolPoints
<1>18. CASE PersistResult
  <2>1. CASE FailTurn
    BY <2>1 DEF FailTurn, Return, EndTurnInv
  <2>2. CASE ~FailTurn
    <3>1. /\ pc = "persistResult" /\ pc' = "nextCall" /\ next' = next + 1 /\ step' = step
          /\ calls' = calls /\ started' = started /\ via' = via
          /\ endTurn' = (endTurn \/ (via = "executed" /\ calls[next] \in EndTurnTools))
      BY <1>18, <2>2 DEF PersistResult, sink, CurrentTool
    <3>2. ASSUME NEW c \in started
          PROVE  /\ c[1] <= step
                 /\ c[1] = step => c[2] < next' /\ (calls[c[2]] \in EndTurnTools => endTurn')
      <4>1. c[1] <= step /\ (c[1] = step => c[2] <= next)
        BY <3>1, <3>2 DEF EndTurnInv, ToolPoints
      <4>2. CASE c[1] = step /\ c[2] = next
        <5>1. via = "executed"
          BY <3>1, <3>2, <4>2 DEF EndTurnInv, ToolPoints
        <5>2. c[2] < next'
          BY <1>0, <3>1, <3>2, <4>2
        <5>3. calls[c[2]] \in EndTurnTools => endTurn'
          BY <3>1, <4>2, <5>1
        <5>4. QED
          BY <4>1, <5>2, <5>3
      <4>3. CASE c[1] = step /\ c[2] # next
        <5>1. c[2] < next /\ (calls[c[2]] \in EndTurnTools => endTurn)
          BY <1>0, <3>1, <3>2, <4>1, <4>3 DEF EndTurnInv, ToolPoints
        <5>2. c[2] < next'
          BY <1>0, <3>1, <3>2, <5>1
        <5>3. calls[c[2]] \in EndTurnTools => endTurn'
          BY <3>1, <5>1
        <5>4. QED
          BY <4>1, <5>2, <5>3
      <4>4. QED
        BY <4>1, <4>2, <4>3
    <3>3. QED
      BY <1>0, <3>1, <3>2 DEF EndTurnInv, AskPoints, ToolPoints
  <2>3. QED
    BY <2>1, <2>2
<1>19. CASE Finish
  BY <1>19, <1>0 DEF Finish, Return, locals, sink, EndTurnInv, EmitAborted, Position, CurrentTool, AskPoints, ToolPoints
<1>20. CASE Cancel
  BY <1>20, <1>0 DEF Cancel, locals, sink, EndTurnInv, EmitAborted, Position, CurrentTool, AskPoints, ToolPoints
<1>21. CASE UNCHANGED vars
  BY <1>21, <1>0 DEF vars, locals, sink, EndTurnInv, EmitAborted, Position, CurrentTool, AskPoints, ToolPoints
<1>22. QED
  BY <1>1, <1>2, <1>3, <1>4, <1>5, <1>6, <1>7, <1>8, <1>9, <1>10, <1>11, <1>12, <1>13, <1>14, <1>15, <1>16, <1>17, <1>18, <1>19, <1>20, <1>21 DEF Next, EngineStep, Done

\* The tool loop goes back to the top only if no call of the batch ended the turn.
LEMMA BackToTop ==
    ASSUME TypeOK, EndTurnInv, [Next]_vars, pc = "nextCall", pc' = "top", NEW i \in 1..Len(calls),
           <<step, i>> \in started
    PROVE  calls[i] \notin EndTurnTools
<1>1. next > Len(calls) /\ ~endTurn
  BY DEF Next, EngineStep, Done, vars, HookDecides, GoTo, Break, Return, FailTurn, ToolDone, Persist, StartTurn, BeforeAgentStart, CheckCancelBeforeStart, PersistUser, LoadHistory, LoopTop, BeforeTurn, BeforeRequest, OpenStream, Recv, StreamEnds, PersistPartial, PersistAssistant, NextCall, BeforeToolCall, ToolReturns, ToolTimesOut, PersistResult, Finish, Cancel
<1>2. i < next
  BY <1>1 DEF TypeOK, LocalsType
<1>3. QED
  BY <1>1, <1>2 DEF EndTurnInv, ToolPoints

-----------------------------------------------------------------------------
(* The invariant and what follows from it                                   *)

\* The invariant holds before the first turn.
LEMMA InitInv == Init => IInv
<1> SUFFICES ASSUME Init PROVE IInv
  OBVIOUS
<1>1. TypeOK
  <2>1. ControlType
    <3>1. turn \in 0..MaxTurns
      BY BoundsAssumption DEF BoundsAssumption, Init
    <3>2. QED
      BY <3>1 DEF Init, ControlType, Points
  <2>2. LocalsType
    BY EmptySeqs DEF Init, LocalsType, StopReasons
  <2>3. SinkType
    BY DEF Init, SinkType
  <2>4. StoreType
    BY EmptySeqs DEF Init, StoreType
  <2>5. QED
    BY <2>1, <2>2, <2>3, <2>4 DEF TypeOK
<1>2. EndedInv /\ SilentOnlyOnStoreError /\ LateInv /\ StartedInv
  BY DEF Init, EndedInv, SilentOnlyOnStoreError, LateInv, StartedInv
<1>3. HistoryInv /\ StepsInv /\ AnsweredInv
  BY DEF Init, HistoryInv, StepsInv, AnsweredInv, LoopPoints, BeforeLoop, AskPoints, ToolPoints
<1>4. OrphansInv /\ EndTurnInv
  BY DEF Init, OrphansInv, EndTurnInv
<1>5. BudgetInv
  BY BoundsAssumption DEF BoundsAssumption, Init, BudgetInv, BudgetExact, NoBudget, AskPoints, ToolPoints
<1>6. QED
  BY <1>1, <1>2, <1>3, <1>4, <1>5 DEF IInv

\* Every step of the engine and of its environment preserves it.
LEMMA StepInv == IInv /\ [Next]_vars => IInv'
<1> SUFFICES ASSUME IInv, [Next]_vars PROVE IInv'
  OBVIOUS
<1> USE DEF IInv
<1>1. TypeOK' /\ EndedInv'
  BY TypeStep, EndedStep
<1>2. SilentOnlyOnStoreError'
  BY TurnFinishedStep
<1>3. HistoryInv' /\ StepsInv' /\ AnsweredInv'
  BY HistoryStep, StepsStep, AnsweredStep
<1>4. LateInv' /\ StartedInv'
  BY LateStep, StartedStep
<1>5. OrphansInv' /\ BudgetInv' /\ EndTurnInv'
  BY OrphansStep, BudgetStep, EndTurnStep
<1>6. QED
  BY <1>1, <1>2, <1>3, <1>4, <1>5

\* The strengthening is an invariant of run_turn for every instance.
THEOREM Invariance == Spec => []IInv
BY InitInv, StepInv, PTL DEF Spec

\* Every variable of a turn keeps its type.
THEOREM TypeCorrect == Spec => []TypeOK
<1>1. IInv => TypeOK
  BY DEF IInv
<1>2. QED
  BY <1>1, Invariance, PTL

\* run_turn emits one TurnFinished as it returns, and none only when it returns
\* the error of the store.
THEOREM SilentTurnsAreStoreErrors == Spec => []SilentOnlyOnStoreError
<1>1. IInv => SilentOnlyOnStoreError
  BY DEF IInv
<1>2. QED
  BY <1>1, Invariance, PTL

\* Whenever a request goes to the model, its context is what the store holds,
\* and every call in it has exactly one result, unless an abort or a store error
\* cut the turn that asked for it.
THEOREM RequestsWellFormed == Spec => []RequestWellFormed
<1>1. IInv => RequestWellFormed
  <2> SUFFICES ASSUME IInv, pc = "openStream"
               PROVE  /\ history = log
                      /\ \A k \in DOMAIN log : log[k].kind = "assistant" =>
                             \/ Cut(log[k].turn)
                             \/ \A i \in 1..log[k].n : AnsweredOnce(log, k, i)
    BY DEF RequestWellFormed
  <2>1. history = log
    BY DEF IInv, HistoryInv, LoopPoints
  <2>2. ASSUME NEW k \in DOMAIN log, log[k].kind = "assistant", ~Cut(log[k].turn)
        PROVE  NoOrphan(log, log[k].turn)
    <3>1. log[k].turn \in Nat /\ turn \in Nat /\ Len(ended) = turn - 1
      BY LogFields, BoundsAssumption DEF IInv, TypeOK, ControlType, BoundsAssumption, EndedInv
    <3>2. 1 <= log[k].turn /\ log[k].turn <= turn
      BY DEF IInv, OrphansInv, StepsInv
    <3>3. CASE log[k].turn = turn
      BY <3>3 DEF IInv, AnsweredInv, AskPoints
    <3>4. CASE log[k].turn # turn
      <4>1. log[k].turn \in 1..Len(ended)
        BY <3>1, <3>2, <3>4
      <4>2. QED
        BY <2>2, <4>1 DEF IInv, OrphansInv, Cut
    <3>5. QED
      BY <3>3, <3>4
  <2>3. QED
    BY <2>1, <2>2 DEF NoOrphan
<1>2. QED
  BY <1>1, Invariance, PTL

\* At most one more stream or tool is started once the turn is cancelled: the one
\* whose check had already passed.
THEOREM CancelIsPrompt == Spec => []CancelLatency
<1>1. IInv => CancelLatency
  BY DEF IInv, LateInv, CancelLatency
<1>2. QED
  BY <1>1, Invariance, PTL

\* A turn that ends without a store error leaves no started call unfinished
\* or unrecorded.
THEOREM StartedCallsAreRecorded == Spec => []StartedIsRecorded
<1>1. IInv => StartedIsRecorded
  BY DEF IInv, StartedInv, Recorded, StartedIsRecorded
<1>2. QED
  BY <1>1, Invariance, PTL

\* A turn stopped by the budget took exactly the budgeted steps and stored one
\* assistant message for each: the refused attempt is not counted.
THEOREM BudgetIsExact == Spec => []BudgetExact
<1>1. IInv => BudgetExact
  BY DEF IInv, BudgetInv
<1>2. QED
  BY <1>1, Invariance, PTL

\* A call without a result in the store belongs to a turn that was aborted or
\* cut by a store error.
THEOREM OrphansAreCut == Spec => []OrphansOnlyFromCutTurns
<1>1. IInv => OrphansOnlyFromCutTurns
  <2> SUFFICES ASSUME TypeOK, OrphansInv, NEW k \in DOMAIN log,
                      log[k].kind = "assistant", log[k].turn <= Len(ended)
               PROVE  \/ Cut(log[k].turn)
                      \/ \A i \in 1..log[k].n : \E j \in DOMAIN log : Answers(log[j], log[k], i)
    BY DEF IInv, OrphansOnlyFromCutTurns
  <2>1. log[k].turn \in 1..Len(ended)
    BY LogFields DEF OrphansInv, TypeOK, StoreType
  <2>2. QED
    BY <2>1 DEF OrphansInv, NoOrphan, AnsweredOnce, Cut
<1>2. QED
  BY <1>1, Invariance, PTL

\* After a batch in which a started call was an EndTurn tool the turn never asks
\* the model again.
THEOREM EndTurnStops == Spec => EndTurnEndsTurn
<1>1. IInv /\ [Next]_vars =>
        [pc = "nextCall" /\ pc' = "top" =>
            \A i \in 1..Len(calls) :
                <<step, i>> \in started => calls[i] \notin EndTurnTools]_vars
  BY BackToTop DEF IInv
<1>2. QED
  BY <1>1, Invariance, PTL DEF Spec, EndTurnEndsTurn
=============================================================================
