----------------------------- MODULE TurnEngine -----------------------------
(***************************************************************************)
(* The turn engine: AgentRuntime::run_turn of agent-base.  One session     *)
(* runs its turns one after the other; a turn loops over steps, a step is  *)
(* one model request followed by the serial execution of the tool calls    *)
(* the model asked for.  Every await point of run_turn is a control point  *)
(* (pc); the cancel token may flip between any two of them, the store may  *)
(* refuse a write, hooks may deny or abort, tools may hang.                *)
(*                                                                         *)
(* The session store is the sequence `log` of messages; `history` is the   *)
(* copy run_turn keeps and sends to the model.  Of the event sink we keep  *)
(* which tool calls were announced as started and as finished, how many    *)
(* TurnFinished were emitted, and whether an abort left its diagnostic.    *)
(***************************************************************************)
EXTENDS Integers, Sequences, FiniteSets

CONSTANTS
    Tools,           \* names the model may call
    Registered,      \* those the catalog resolves
    EndTurnTools,    \* registered tools that declare Termination::EndTurn
    LongRunning,     \* registered tools that policy.tool_timeout spares
    Budget,          \* policy.max_steps, or NoBudget
    HasWindow,       \* the request registers a context window
    HasToolTimeout,  \* policy.tool_timeout is set
    MaxTurns,        \* bound: turns of the session
    MaxCalls         \* bound: tool calls the model asks for in the session

NoBudget == -1

ASSUME ToolsAssumption ==
    /\ Registered \subseteq Tools
    /\ EndTurnTools \subseteq Registered
    /\ LongRunning \subseteq Registered
ASSUME BoundsAssumption ==
    /\ Budget \in Nat \cup {NoBudget}
    /\ MaxTurns \in Nat /\ MaxCalls \in Nat
    /\ HasWindow \in BOOLEAN /\ HasToolTimeout \in BOOLEAN

VARIABLES
    turn,       \* number of the current (or last) turn
    pc,         \* await point run_turn is at; "idle" when no turn runs
    cancelled,  \* CancelToken::is_cancelled() of the current turn
    \* locals of run_turn
    step,       \* step_index
    near,       \* last_round_usage reached 95% of the window
    calls,      \* tool_calls of this step
    next,       \* position in the tool loop
    via,        \* how the result about to be persisted came about
    text,       \* text or thinking was accumulated
    endTurn,    \* should_terminate_turn
    stop,       \* final_stop_reason
    \* what the EventSink received in this turn
    started,    \* calls with a ToolCallStarted
    finished,   \* calls with a ToolCallFinished
    turnFinished, \* number of TurnFinished
    reasoned,   \* a POINT_TURN_ABORTED diagnostic was emitted
    \* the conversation
    log,        \* the session store: every message persisted so far
    history,    \* run_turn's in-memory copy
    \* history variables
    ended,      \* how turn 1, 2, ... ended: a stop reason or "Err"
    late        \* requests and tool starts issued after this turn's cancel

locals == <<step, near, calls, next, via, text, endTurn, stop>>
sink == <<started, finished, turnFinished, reasoned>>
store == <<log, history>>
vars == <<turn, pc, cancelled, locals, sink, store, ended, late>>

StopReasons == {"Completed", "Aborted", "ModelError", "BudgetExhausted",
                "ContextWindowExceeded", "Denied"}

\* A message of the session: n is the number of tool calls an assistant
\* message asks for, and the position of the call a tool result answers.
Message == [kind : {"user", "assistant", "partial", "result"},
            turn : Nat, step : Nat, n : Nat]

Msg(kind, n) == [kind |-> kind, turn |-> turn, step |-> step, n |-> n]

Answers(m, a, i) ==
    m.kind = "result" /\ m.turn = a.turn /\ m.step = a.step /\ m.n = i

CallId == Nat \X Nat
Position == <<step, next>>
CurrentTool == calls[next]

BeforeLoop == {"agentStart", "checkStart", "persistUser", "load"}
LoopPoints == {"top", "turnHook", "requestHook", "openStream", "recv",
               "persistAssistant", "nextCall", "toolHook", "exec", "persistResult"}
Points == BeforeLoop \cup LoopPoints \cup {"idle", "persistPartial", "finish"}

Init ==
    /\ turn = 0 /\ pc = "idle" /\ cancelled = FALSE
    /\ step = 0 /\ near = FALSE /\ calls = <<>> /\ next = 1 /\ via = "executed"
    /\ text = FALSE /\ endTurn = FALSE /\ stop = "Completed"
    /\ started = {} /\ finished = {} /\ turnFinished = 0 /\ reasoned = FALSE
    /\ log = <<>> /\ history = <<>> /\ ended = <<>> /\ late = 0

-----------------------------------------------------------------------------
(* Helpers: moving on, break 'turn_loop, leaving run_turn, persist?         *)

GoTo(p) == pc' = p /\ UNCHANGED locals

Break(reason) ==
    /\ pc' = "finish" /\ stop' = reason
    /\ UNCHANGED <<step, near, calls, next, via, text, endTurn>>

\* run_turn returns: its locals are gone.
Return(result) ==
    /\ pc' = "idle" /\ ended' = Append(ended, result)
    /\ step' = 0 /\ near' = FALSE /\ calls' = <<>> /\ next' = 1 /\ via' = "executed"
    /\ text' = FALSE /\ endTurn' = FALSE /\ stop' = "Completed" /\ history' = <<>>

\* `?` on a store error: run_turn returns Err and emits nothing.
FailTurn == Return("Err") /\ UNCHANGED <<turn, cancelled, sink, log, late>>

EmitAborted == reasoned' = TRUE /\ UNCHANGED <<started, finished, turnFinished>>

PersistLogOnly(m) == log' = Append(log, m) /\ history' = history  \* mutant: no push

\* persist_message(...)?; history.push(...)
Persist(m) == log' = Append(log, m) /\ history' = Append(history, m)

CountLate == late' = late + (IF cancelled THEN 1 ELSE 0)

\* A before-hook that may pass, deny the turn, or abort it with a diagnostic.
HookDecides(passTo) ==
    /\ \/ GoTo(passTo) /\ UNCHANGED sink
       \/ Break("Denied") /\ UNCHANGED sink
       \/ Break("Aborted") /\ EmitAborted
    /\ UNCHANGED <<turn, cancelled, store, ended, late>>

-----------------------------------------------------------------------------
(* Before the loop                                                          *)

\* A caller starts a turn with a fresh cancel token; TurnStarted is emitted.
StartTurn ==
    /\ pc = "idle" /\ turn < MaxTurns
    /\ turn' = turn + 1 /\ GoTo("agentStart")
    /\ cancelled' = FALSE /\ late' = 0
    /\ started' = {} /\ finished' = {} /\ turnFinished' = 0 /\ reasoned' = FALSE
    /\ UNCHANGED <<store, ended>>

BeforeAgentStart == pc = "agentStart" /\ HookDecides("checkStart")

FinishTwice ==  \* mutant: the early exit also runs the common ending
    /\ pc = "checkStart"
    /\ \/ /\ cancelled /\ Break("Aborted")
          /\ reasoned' = TRUE /\ turnFinished' = turnFinished + 1
          /\ UNCHANGED <<started, finished, history, ended>>
       \/ ~cancelled /\ GoTo("persistUser") /\ UNCHANGED <<sink, history, ended>>
    /\ UNCHANGED <<turn, cancelled, log, late>>

\* Cancelled before it began: diagnostic and TurnFinished at once.
CheckCancelBeforeStart ==
    /\ pc = "checkStart"
    /\ \/ /\ cancelled /\ Return("Aborted")
          /\ reasoned' = TRUE /\ turnFinished' = turnFinished + 1
          /\ UNCHANGED <<started, finished>>
       \/ ~cancelled /\ GoTo("persistUser") /\ UNCHANGED <<sink, history, ended>>
    /\ UNCHANGED <<turn, cancelled, log, late>>

\* The user's prompt, if there is one, goes to the store first.
PersistUser ==
    /\ pc = "persistUser"
    /\ \/ /\ GoTo("load") /\ log' \in {log, Append(log, Msg("user", 0))}
          /\ UNCHANGED <<turn, cancelled, sink, history, ended, late>>
       \/ FailTurn

LoadHistory ==
    /\ pc = "load"
    /\ \/ /\ GoTo("top") /\ history' = log
          /\ UNCHANGED <<turn, cancelled, sink, log, ended, late>>
       \/ FailTurn

-----------------------------------------------------------------------------
(* One step: budget, window, cancel, hooks, the model's stream              *)

OverBudgetOffByOne == Budget # NoBudget /\ step > Budget  \* mutant

OverBudget == Budget # NoBudget /\ step >= Budget
WindowFull == HasWindow /\ near

\* No await between the three checks; budget and window come before the
\* increment of step_index, the cancel check after it.
LoopTop ==
    /\ pc = "top"
    /\ \/ OverBudget /\ Break("BudgetExhausted") /\ UNCHANGED sink
       \/ ~OverBudget /\ WindowFull /\ Break("ContextWindowExceeded") /\ UNCHANGED sink
       \/ /\ ~OverBudget /\ ~WindowFull /\ step' = step + 1
          /\ \/ /\ cancelled /\ pc' = "finish" /\ stop' = "Aborted" /\ EmitAborted
                /\ UNCHANGED <<near, calls, next, via, text, endTurn>>
             \/ /\ ~cancelled /\ pc' = "turnHook"
                /\ near' = FALSE /\ calls' = <<>> /\ next' = 1 /\ text' = FALSE
                /\ endTurn' = FALSE /\ via' = "executed"
                /\ UNCHANGED <<stop, sink>>
    /\ UNCHANGED <<turn, cancelled, store, ended, late>>

\* BEFORE_TURN (Replace is ignored), then the context is formatted.
BeforeTurn == pc = "turnHook" /\ HookDecides("requestHook")

\* BEFORE_PROVIDER_REQUEST, BEFORE_PROVIDER_HEADERS and BEFORE_LLM_REQUEST.
BeforeRequest == pc = "requestHook" /\ HookDecides("openStream")

OpenStreamRaw ==  \* mutant: the error itself becomes the stop reason
    /\ pc = "openStream"
    /\ GoTo("recv") \/ (cancelled /\ Break("Aborted")) \/ Break("Err")
    /\ CountLate
    /\ UNCHANGED <<turn, cancelled, sink, store, ended>>

\* model.stream(request, cancel): a receiver, Cancelled, or another error.
OpenStream ==
    /\ pc = "openStream"
    /\ GoTo("recv") \/ (cancelled /\ Break("Aborted")) \/ Break("ModelError")
    /\ CountLate
    /\ UNCHANGED <<turn, cancelled, sink, store, ended>>

\* The calls of the steps so far, of all turns.
Asked == Cardinality({p \in (DOMAIN log) \X (1..MaxCalls) :
                        log[p[1]].kind = "assistant" /\ p[2] <= log[p[1]].n})

RecvDeaf ==  \* mutant: no cancel check between deltas
    /\ pc = "recv"
    /\ \/ near' \in BOOLEAN /\ UNCHANGED <<pc, step, calls, next, via, text, endTurn, stop>>
       \/ GoTo("persistPartial")
    /\ UNCHANGED <<turn, cancelled, sink, store, ended, late>>

\* A delta arrived: the cancel check comes before it is looked at.
Recv ==
    /\ pc = "recv"
    /\ \/ cancelled /\ Break("Aborted")
       \/ /\ ~cancelled /\ text' = TRUE                           \* Text, Thinking
          /\ UNCHANGED <<pc, step, near, calls, next, via, endTurn, stop>>
       \/ /\ ~cancelled /\ Asked + Len(calls) < MaxCalls            \* ToolCall
          /\ \E t \in Tools : calls' = Append(calls, t)
          /\ UNCHANGED <<pc, step, near, next, via, text, endTurn, stop>>
       \/ /\ ~cancelled /\ near' \in BOOLEAN                       \* Usage
          /\ UNCHANGED <<pc, step, calls, next, via, text, endTurn, stop>>
       \/ ~cancelled /\ GoTo("persistPartial")                     \* Error
    /\ UNCHANGED <<turn, cancelled, sink, store, ended, late>>

\* The channel closed without an error (also after a cancel).
StreamEnds ==
    /\ pc = "recv"
    /\ \/ cancelled /\ Break("Aborted")
       \/ ~cancelled /\ GoTo("persistAssistant")
    /\ UNCHANGED <<turn, cancelled, sink, store, ended, late>>

\* A broken stream: what was produced so far is saved, a failing save ignored.
PersistPartial ==
    /\ pc = "persistPartial"
    /\ log' = log \/ (text /\ log' = Append(log, Msg("partial", 0)))
    /\ Break("ModelError")
    /\ UNCHANGED <<turn, cancelled, sink, history, ended, late>>

\* The assistant message with its tool calls; without calls the turn is over.
PersistAssistant ==
    /\ pc = "persistAssistant"
    /\ \/ /\ Persist(Msg("assistant", Len(calls)))
          /\ \/ calls = <<>> /\ Break("Completed")
             \/ calls # <<>> /\ GoTo("nextCall")
          /\ UNCHANGED <<turn, cancelled, sink, ended, late>>
       \/ FailTurn

-----------------------------------------------------------------------------
(* The tool loop                                                            *)

NextCallDeaf ==  \* mutant: no cancel check between tool calls
    /\ pc = "nextCall"
    /\ \/ next > Len(calls) /\ endTurn /\ Break("Completed")
       \/ next > Len(calls) /\ ~endTurn /\ GoTo("top")
       \/ next <= Len(calls) /\ CurrentTool \in Registered /\ GoTo("toolHook")
       \/ /\ next <= Len(calls) /\ CurrentTool \notin Registered
          /\ pc' = "persistResult" /\ via' = "unresolved"
          /\ UNCHANGED <<step, near, calls, next, text, endTurn, stop>>
    /\ UNCHANGED <<turn, cancelled, sink, store, ended, late>>

NextCallCutsBatch ==  \* mutant: EndTurn is consumed before the batch is done
    /\ pc = "nextCall"
    /\ \/ endTurn /\ Break("Completed")
       \/ next > Len(calls) /\ ~endTurn /\ GoTo("top")
       \/ next <= Len(calls) /\ ~endTurn /\ CurrentTool \in Registered /\ GoTo("toolHook")
       \/ /\ next <= Len(calls) /\ ~endTurn /\ CurrentTool \notin Registered
          /\ pc' = "persistResult" /\ via' = "unresolved"
          /\ UNCHANGED <<step, near, calls, next, text, endTurn, stop>>
    /\ UNCHANGED <<turn, cancelled, sink, store, ended, late>>

\* Cancel check, then resolve; at the end of the batch EndTurn is consumed.
NextCall ==
    /\ pc = "nextCall"
    /\ \/ next > Len(calls) /\ endTurn /\ Break("Completed")
       \/ next > Len(calls) /\ ~endTurn /\ GoTo("top")
       \/ next <= Len(calls) /\ cancelled /\ Break("Aborted")
       \/ /\ next <= Len(calls) /\ ~cancelled /\ CurrentTool \in Registered
          /\ GoTo("toolHook")
       \/ /\ next <= Len(calls) /\ ~cancelled /\ CurrentTool \notin Registered
          /\ pc' = "persistResult" /\ via' = "unresolved"
          /\ UNCHANGED <<step, near, calls, next, text, endTurn, stop>>
    /\ UNCHANGED <<turn, cancelled, sink, store, ended, late>>

\* BEFORE_TOOL_CALL.  A denied call is announced as finished without having
\* been started; a Replace (accepted or rejected by the schema) executes.
BeforeToolCall ==
    /\ pc = "toolHook"
    /\ \/ /\ pc' = "exec" /\ via' = "executed"
          /\ started' = started \cup {Position} /\ CountLate
          /\ UNCHANGED <<step, near, calls, next, text, endTurn, stop,
                         finished, turnFinished, reasoned>>
       \/ /\ pc' = "persistResult" /\ via' = "denied"
          /\ finished' = finished \cup {Position}
          /\ UNCHANGED <<step, near, calls, next, text, endTurn, stop,
                         started, turnFinished, reasoned, late>>
       \/ Break("Aborted") /\ EmitAborted /\ UNCHANGED late
    /\ UNCHANGED <<turn, cancelled, store, ended>>

\* tool.execute returned a receipt, or the engine wrote one.
ToolDone ==
    /\ pc = "exec" /\ GoTo("persistResult")
    /\ finished' = finished \cup {Position}
    /\ UNCHANGED <<turn, cancelled, started, turnFinished, reasoned, store, ended, late>>

ToolAbandoned ==  \* mutant: a cancel tears the running call apart
    \/ /\ pc = "exec" /\ cancelled /\ Break("Aborted")
       /\ UNCHANGED <<turn, cancelled, sink, store, ended, late>>
    \/ ToolDone

ToolReturns == ToolDone

TimesOutWrongTools ==  \* mutant: the long-running test is inverted
    /\ pc = "exec" /\ HasToolTimeout /\ CurrentTool \in LongRunning
    /\ ToolDone

\* policy.tool_timeout: the engine stops waiting and writes a Timeout receipt.
ToolTimesOut ==
    /\ pc = "exec" /\ HasToolTimeout /\ CurrentTool \notin LongRunning
    /\ ToolDone

LastCallDecides ==  \* mutant: endTurn is overwritten by every call
    /\ pc = "persistResult"
    /\ \/ /\ Persist(Msg("result", next))
          /\ next' = next + 1 /\ pc' = "nextCall"
          /\ endTurn' = (via = "executed" /\ CurrentTool \in EndTurnTools)
          /\ UNCHANGED <<turn, cancelled, step, near, calls, via, text, stop,
                         sink, ended, late>>
       \/ FailTurn

\* The receipt becomes a tool result; only an executed tool may end the turn.
PersistResult ==
    /\ pc = "persistResult"
    /\ \/ /\ Persist(Msg("result", next))
          /\ next' = next + 1 /\ pc' = "nextCall"
          /\ endTurn' = (endTurn \/ (via = "executed" /\ CurrentTool \in EndTurnTools))
          /\ UNCHANGED <<turn, cancelled, step, near, calls, via, text, stop,
                         sink, ended, late>>
       \/ FailTurn

-----------------------------------------------------------------------------
(* AFTER_AGENT_END, then the TurnFinished of every break                    *)

Finish ==
    /\ pc = "finish" /\ Return(stop)
    /\ turnFinished' = turnFinished + 1
    /\ UNCHANGED <<turn, cancelled, started, finished, reasoned, log, late>>

\* The user (or a parent) cancels: the token flips once.
Cancel ==
    /\ pc # "idle" /\ ~cancelled /\ cancelled' = TRUE
    /\ UNCHANGED <<turn, pc, locals, sink, store, ended, late>>

\* What the provider sends: a delta, an error, or the end of its stream.
ProviderSpeaks == Recv \/ StreamEnds

\* Steps that wait for no tool: hooks, the store, the provider's next delta.
EngineStep ==
    \/ BeforeAgentStart \/ CheckCancelBeforeStart \/ PersistUser \/ LoadHistory
    \/ LoopTop \/ BeforeTurn \/ BeforeRequest \/ OpenStream \/ Recv \/ StreamEnds
    \/ PersistPartial \/ PersistAssistant \/ NextCall \/ BeforeToolCall
    \/ PersistResult \/ Finish

\* Every turn of the session is over.
Done == pc = "idle" /\ turn = MaxTurns /\ UNCHANGED vars

Next == StartTurn \/ EngineStep \/ ToolReturns \/ ToolTimesOut \/ Cancel \/ Done

Spec == Init /\ [][Next]_vars

\* Hooks have budgets, store writes end, model.stream returns its receiver at
\* once and the engine has a tool timeout; a tool returns once it sees the
\* cancel.  The provider is owed nothing: nobody limits the wait for its headers.
Fairness ==
    /\ WF_vars(pc # "recv" /\ EngineStep)
    /\ WF_vars(ToolTimesOut)
    /\ WF_vars(cancelled /\ ToolReturns)

FairSpec == Spec /\ Fairness

-----------------------------------------------------------------------------
(* Properties                                                               *)

ControlType ==
    /\ turn \in 0..MaxTurns /\ pc \in Points /\ cancelled \in BOOLEAN /\ late \in Nat
LocalsType ==
    /\ step \in Nat /\ near \in BOOLEAN /\ calls \in Seq(Tools) /\ next \in Nat
    /\ via \in {"executed", "denied", "unresolved"}
    /\ text \in BOOLEAN /\ endTurn \in BOOLEAN /\ stop \in StopReasons
SinkType ==
    /\ started \subseteq CallId /\ finished \subseteq CallId
    /\ turnFinished \in Nat /\ reasoned \in BOOLEAN
StoreType ==
    /\ log \in Seq(Message) /\ history \in Seq(Message)
    /\ ended \in Seq(StopReasons \cup {"Err"})

\* Every variable has its type (the shape of run_turn's state).
TypeOK == ControlType /\ LocalsType /\ SinkType /\ StoreType

\* Call i of assistant message s[k] has exactly one result in s, after s[k].
AnsweredOnce(s, k, i) ==
    \E j \in DOMAIN s : /\ j > k /\ Answers(s[j], s[k], i)
                        /\ \A l \in DOMAIN s : Answers(s[l], s[k], i) => l = j

\* Turn t was cut: aborted, or left on a store error.
Cut(t) == t <= Len(ended) /\ ended[t] \in {"Aborted", "Err"}

\* When a model request is about to be sent, the context equals what the store
\* holds, and every call in it, of this turn and of all turns before, has
\* exactly one result, unless an abort or a store error cut its turn.
RequestWellFormed ==
    pc = "openStream" =>
        /\ history = log
        /\ \A k \in DOMAIN history : history[k].kind = "assistant" =>
               \/ Cut(history[k].turn)
               \/ \A i \in 1..history[k].n : AnsweredOnce(history, k, i)

\* A call left without a result in the store was cut by an abort or a store
\* error: a turn that ended otherwise leaves no orphan behind.
OrphansOnlyFromCutTurns ==
    \A k \in DOMAIN log : log[k].kind = "assistant" /\ log[k].turn <= Len(ended) =>
        \/ Cut(log[k].turn)
        \/ \A i \in 1..log[k].n : \E j \in DOMAIN log : Answers(log[j], log[k], i)

\* runtime/mod.rs:4: every turn emits exactly one TurnFinished.  A turn left
\* with `?` on a store error emits none.
OneTurnFinished == pc = "idle" /\ turn > 0 => turnFinished = 1

\* A turn that ends emits its one TurnFinished as it returns, whatever stopped
\* it; only one that a store error cut is silent.
SilentOnlyOnStoreError ==
    IF pc = "idle" /\ turn > 0
    THEN turnFinished = (IF ended[turn] = "Err" THEN 0 ELSE 1)
    ELSE turnFinished = 0

\* Whatever ends the turn without an error, a started tool was also finished
\* and its result is in the store: an abort never tears a running call apart.
StartedIsRecorded ==
    pc = "idle" /\ turn > 0 /\ ended[turn] # "Err" =>
        \A c \in started :
            /\ c \in finished
            /\ \E j \in DOMAIN log :
                  log[j] = [kind |-> "result", turn |-> turn, step |-> c[1], n |-> c[2]]

\* After a cancel at most one more request or tool start slips through: the
\* one whose cancel check had already passed.
CancelLatency == late <= 1

\* A turn stopped by the budget took exactly the budgeted steps and issued
\* that many answered requests; the refused attempt is not counted.
BudgetExact ==
    pc = "finish" /\ stop = "BudgetExhausted" =>
        /\ step = Budget
        /\ Cardinality({k \in DOMAIN log : log[k].kind = "assistant" /\ log[k].turn = turn})
               = Budget

\* Once a call of the batch ran an EndTurn tool, the turn does not go back for
\* another step, whatever the later calls of the batch were.
EndTurnEndsTurn ==
    [][pc = "nextCall" /\ pc' = "top" =>
          \A i \in 1..Len(calls) :
              <<step, i>> \in started => calls[i] \notin EndTurnTools]_vars

\* From some point on the turn waits for the provider and hears nothing more.
ProviderSilent == <>[](pc = "recv") /\ <>[][~ProviderSpeaks]_vars

\* A cancelled turn ends, whatever hook, store write or tool it was waiting for
\* and however the stream goes on; only a provider that says nothing at all for
\* ever holds it (no cancel reaches the wait for its next delta).
CancelConverges == (cancelled ~> pc = "idle") \/ ProviderSilent

\* A hung tool that the policy's timeout covers does not hang the turn.
HungToolReleased ==
    (pc = "exec" /\ CurrentTool \notin LongRunning) ~> pc # "exec"
=============================================================================
