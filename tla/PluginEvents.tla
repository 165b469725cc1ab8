---------------------------- MODULE PluginEvents ----------------------------
(***************************************************************************)
(* The way of a tool call's events through the plugins: the engine         *)
(* dispatches event_before_tool_call and event_after_tool_call to a        *)
(* bounded lane each (hooks/event_runtime.rs), the lane's only worker      *)
(* asks the hooks registered at that moment one after the other            *)
(* (hooks/mod.rs), and plugin.setEnabled or a reload of the plugins        *)
(* rebuilds the registrations in place meanwhile (agent-host/live.rs).     *)
(* A rebuild is many short critical sections of the request that asked     *)
(* for it; requests of two connections run side by side.                   *)
(*                                                                         *)
(* Left out: the notify and the stream lane, which nothing in the          *)
(* repository publishes to; what a hook sees and says beyond its verdict   *)
(* (arguments, notes, observations); the tools, fragments and skills a     *)
(* rebuild exchanges; built-in plugins, which have no script; the moment   *)
(* in which the configuration file is truncated and not yet rewritten.     *)
(***************************************************************************)
EXTENDS Integers, Sequences, Functions

CONSTANTS
    Calls,      \* tool calls of the engine's turns, each its own task
    Requests,   \* requests that rebuild the registrations, each its own task
    Order,      \* the plugins on disk, by their order field and name
    Listens,    \* the points each plugin has a handler for
    Deniers,    \* the plugins whose declaration grants them deny
    Capacity    \* jobs a lane holds (DEFAULT_LANE_CAPACITY)

Points == {"before", "after"}
Plugins == Range(Order)

ASSUME OrderAssumption == Order \in Seq(Plugins) /\ IsInjective(Order)
ASSUME ListensAssumption == Listens \in [Plugins -> SUBSET Points]
ASSUME DeniersAssumption == Deniers \subseteq Plugins
ASSUME CapacityAssumption == Capacity \in Nat \ {0}

VARIABLES
    disabled,   \* the configuration file: plugins switched off
    registry,   \* whether each plugin's handler of a point is registered
    generation, \* PluginEventRuntime.generation
    rstep,      \* where each request stands
    rwant,      \* the switch it makes: a plugin and on or off, or none
    rfile,      \* the list of disabled plugins it read from the file
    rtodo,      \* the handlers it has still to register
    cstep,      \* where each tool call stands
    cpoint,     \* the point it is at
    refused,    \* a plugin denied it
    cgen,       \* the generation its job carries
    lane,       \* the jobs queued at each point, by their call
    wstep,      \* where the worker of each lane stands
    wjob,       \* the call whose job it has in hand
    wtodo,      \* the handlers it has still to ask
    calm,       \* history: since the dispatch no rebuild; the one before sound
    due,        \* history: plugins the file held enabled as a calm call began
    asked,      \* history: plugins asked about a calm call at its point
    sound,      \* history: the last rebuild to begin ran alone and to its end
    spoiled     \* history: it met another, or a plugin did not load

rvars == <<disabled, registry, generation, rstep, rwant, rfile, rtodo, sound, spoiled>>
cvars == <<cstep, cpoint, cgen, refused>>
hvars == <<calm, due, asked>>
wvars == <<wstep, wjob, wtodo>>
vars == <<rvars, cvars, hvars, lane, wvars>>

Handlers == {h \in Plugins \X Points : h[2] \in Listens[h[1]]}
NoSwitch == [plugin |-> "none", on |-> TRUE]
Switches == [plugin : Plugins, on : BOOLEAN]

\* The handlers of a set of plugins.
HandlersOf(S) == {h \in Handlers : h[1] \in S}

\* HookRuntime::registrations: a copy, asked by order.
Registrations(point) == {p \in Plugins : registry[<<p, point>>]}
Before(p, q) == \E i, j \in DOMAIN Order : i <= j /\ Order[i] = p /\ Order[j] = q

Listeners(point) == {p \in Plugins \ disabled : point \in Listens[p]}

InFlight == {r \in Requests : rstep[r] \notin {"idle", "done"}}

Init ==
    /\ disabled \in SUBSET Plugins
    /\ registry = [h \in Plugins \X Points |-> h \in Handlers /\ h[1] \notin disabled]
    /\ generation = 1
    /\ rstep = [r \in Requests |-> "idle"]
    /\ rwant = [r \in Requests |-> NoSwitch]
    /\ rfile = [r \in Requests |-> {}]
    /\ rtodo = [r \in Requests |-> {}]
    /\ cstep = [c \in Calls |-> "idle"]
    /\ cpoint = [c \in Calls |-> "before"]
    /\ cgen = [c \in Calls |-> 0]
    /\ refused = [c \in Calls |-> FALSE]
    /\ lane = [l \in Points |-> <<>>]
    /\ wstep = [l \in Points |-> "recv"]
    /\ wjob = [l \in Points |-> "none"]
    /\ wtodo = [l \in Points |-> {}]
    /\ asked = [c \in Calls |-> {}]
    /\ due = [c \in Calls |-> {}]
    /\ calm = [c \in Calls |-> FALSE]
    /\ sound = TRUE
    /\ spoiled = FALSE
-----------------------------------------------------------------------------
(* plugin.setEnabled, plugin.reload                                         *)

\* The request begins; from here to its end the registrations are its work.
Begins(r) ==
    /\ rstep[r] = "idle"
    /\ sound' = FALSE
    /\ spoiled' = (InFlight # {})
    /\ calm' = [c \in Calls |-> FALSE]
    /\ due' = [c \in Calls |-> {}]
    /\ asked' = [c \in Calls |-> {}]
    /\ UNCHANGED <<registry, generation, rtodo, cvars, lane, wvars>>

\* toggle_plugin reads the whole file ...
ReadSwitch(r) ==
    /\ Begins(r)
    /\ \E s \in Switches : rwant' = [rwant EXCEPT ![r] = s]
    /\ rfile' = [rfile EXCEPT ![r] = disabled]
    /\ rstep' = [rstep EXCEPT ![r] = "write"]
    /\ UNCHANGED disabled

\* ... and writes it back with the one plugin changed.
WriteSwitch(r) ==
    /\ rstep[r] = "write"
    /\ disabled' = IF rwant[r].on THEN rfile[r] \ {rwant[r].plugin}
                                  ELSE rfile[r] \cup {rwant[r].plugin}
    /\ rstep' = [rstep EXCEPT ![r] = "collect"]
    /\ rfile' = [rfile EXCEPT ![r] = {}]
    /\ rwant' = [rwant EXCEPT ![r] = NoSwitch]
    /\ UNCHANGED <<registry, generation, rtodo, sound, spoiled,
                   cvars, hvars, lane, wvars>>

\* A reload, a new or a deleted plugin leaves the file alone.
Refresh(r) ==
    /\ Begins(r)
    /\ rstep' = [rstep EXCEPT ![r] = "collect"]
    /\ UNCHANGED <<disabled, rwant, rfile>>

\* collect_plugin_tools: the file decides once, then every plugin it leaves
\* enabled is loaded; one that does not load is skipped.
Collect(r) ==
    /\ rstep[r] = "collect"
    /\ \E broken \in {{}} \cup {{p} : p \in Plugins \ disabled} :
         /\ rtodo' = [rtodo EXCEPT ![r] = HandlersOf((Plugins \ disabled) \ broken)]
         /\ spoiled' = (spoiled \/ broken # {})
    /\ rstep' = [rstep EXCEPT ![r] = "clear"]
    /\ UNCHANGED <<disabled, registry, generation, rwant, rfile, sound,
                   cvars, hvars, lane, wvars>>

\* The assembly pipeline refuses the new set: what ran goes on running.
GiveUp(r) ==
    /\ rstep[r] = "clear"
    /\ rstep' = [rstep EXCEPT ![r] = "done"]
    /\ rtodo' = [rtodo EXCEPT ![r] = {}]
    /\ UNCHANGED <<disabled, registry, generation, rwant, rfile, sound, spoiled,
                   cvars, hvars, lane, wvars>>

\* Mutant: what is registered stays, as register leaves it alone.
ClearedNothing == registry

\* The registrations after reassemble's clear.
Cleared == [h \in Plugins \X Points |-> FALSE]

Clear(r) ==
    /\ rstep[r] = "clear"
    /\ registry' = Cleared
    /\ rstep' = [rstep EXCEPT ![r] = "register"]
    /\ UNCHANGED <<disabled, generation, rwant, rfile, rtodo, sound, spoiled,
                   cvars, hvars, lane, wvars>>

\* register leaves a handler alone that is there already, and adds its own, in
\* the order the directory gives the plugins.
\* (Look and push are two holds of the lock: two rebuilds that pass between
\* them leave the handler twice, which asks the plugin twice.)
RegisterOne(r) ==
    /\ rstep[r] = "register"
    /\ \E h \in rtodo[r] :
         /\ registry' = [registry EXCEPT ![h] = TRUE]
         /\ rtodo' = [rtodo EXCEPT ![r] = @ \ {h}]
    /\ UNCHANGED <<disabled, generation, rstep, rwant, rfile, sound, spoiled,
                   cvars, hvars, lane, wvars>>

BumpGeneration(r) ==
    /\ rstep[r] = "register" /\ rtodo[r] = {}
    /\ generation' = generation + 1
    /\ rstep' = [rstep EXCEPT ![r] = "done"]
    /\ sound' = ~spoiled
    /\ UNCHANGED <<disabled, registry, rwant, rfile, rtodo, spoiled,
                   cvars, hvars, lane, wvars>>
-----------------------------------------------------------------------------
(* The engine's side of a lane                                              *)

\* The engine comes to a point of the call: before the tool, and after it
\* or after its refusal.
AtPoint(c) ==
    \/ cstep[c] = "idle" /\ UNCHANGED cpoint
    \/ /\ cstep[c] = "answered" /\ cpoint[c] = "before"
       /\ cpoint' = [cpoint EXCEPT ![c] = "after"]

\* dispatch, dispatch_many: the generation is read before the lane is waited for.
Dispatch(c) ==
    /\ AtPoint(c)
    /\ cstep' = [cstep EXCEPT ![c] = "sending"]
    /\ cgen' = [cgen EXCEPT ![c] = generation]
    /\ asked' = [asked EXCEPT ![c] = {}]
    /\ calm' = [calm EXCEPT ![c] = sound /\ InFlight = {}]
    /\ due' = [due EXCEPT ![c] = IF calm'[c] THEN Listeners(cpoint'[c]) ELSE {}]
    /\ UNCHANGED <<rvars, refused, lane, wvars>>

\* Mutant: an unbounded channel.
EnqueueUnbounded(c) ==
    /\ cstep[c] = "sending"
    /\ lane' = [lane EXCEPT ![cpoint[c]] = Append(@, c)]
    /\ cstep' = [cstep EXCEPT ![c] = "waiting"]
    /\ UNCHANGED <<rvars, cpoint, cgen, refused, hvars, wvars>>

\* tx.send waits while the lane is full.
Enqueue(c) ==
    /\ cstep[c] = "sending"
    /\ Len(lane[cpoint[c]]) < Capacity
    /\ lane' = [lane EXCEPT ![cpoint[c]] = Append(@, c)]
    /\ cstep' = [cstep EXCEPT ![c] = "waiting"]
    /\ UNCHANGED <<rvars, cpoint, cgen, refused, hvars, wvars>>

\* The turn's task is killed: its job, once queued, stays in the lane.
Abandon(c) ==
    /\ cstep[c] \in {"sending", "waiting", "answered"}
    /\ cstep' = [cstep EXCEPT ![c] = "gone"]
    /\ UNCHANGED <<rvars, cpoint, cgen, refused, hvars, lane, wvars>>
-----------------------------------------------------------------------------
(* The worker of a lane                                                     *)

\* The job was dispatched before the last rebuild ended.
Stale(c) == cgen[c] # generation

\* The response reaches the caller, if it still waits.
Answer(c, deny) ==
    /\ cstep' = [cstep EXCEPT ![c] = IF @ = "waiting" THEN "answered" ELSE @]
    /\ refused' = [refused EXCEPT ![c] = @ \/ deny]
    /\ cgen' = [cgen EXCEPT ![c] = 0]

\* A job of an old generation is passed without asking anybody.
Void(l) ==
    /\ wstep[l] = "recv" /\ lane[l] # <<>>
    /\ Stale(Head(lane[l]))
    /\ lane' = [lane EXCEPT ![l] = Tail(@)]
    /\ Answer(Head(lane[l]), FALSE)
    /\ UNCHANGED <<rvars, cpoint, hvars, wvars>>

Take(l) ==
    /\ wstep[l] = "recv" /\ lane[l] # <<>>
    /\ ~Stale(Head(lane[l]))
    /\ lane' = [lane EXCEPT ![l] = Tail(@)]
    /\ wjob' = [wjob EXCEPT ![l] = Head(lane[l])]
    /\ wstep' = [wstep EXCEPT ![l] = "begin"]
    /\ UNCHANGED <<rvars, cvars, hvars, wtodo>>

\* HookRuntime::before, after: the list is read once for the whole job.
ReadRegistrations(l) ==
    /\ wstep[l] = "begin"
    /\ wtodo' = [wtodo EXCEPT ![l] = Registrations(l)]
    /\ wstep' = [wstep EXCEPT ![l] = "ask"]
    /\ UNCHANGED <<rvars, cvars, hvars, lane, wjob>>

IsNext(p, l) == p \in wtodo[l] /\ \A q \in wtodo[l] : Before(p, q)

Ask(l) ==
    /\ wstep[l] = "ask"
    /\ \E p \in Plugins :
         /\ IsNext(p, l)
         /\ asked' = [asked EXCEPT ![wjob[l]] = IF calm[wjob[l]] THEN @ \cup {p} ELSE {}]
    /\ wstep' = [wstep EXCEPT ![l] = "asking"]
    /\ UNCHANGED <<rvars, cvars, calm, due, lane, wjob, wtodo>>

\* No opinion, an observation, a note, a replacement, a broken hook or one over
\* its budget: the next one is asked.
AskNext(l) ==
    /\ wstep[l] = "asking"
    /\ \E p \in Plugins : IsNext(p, l) /\ wtodo' = [wtodo EXCEPT ![l] = @ \ {p}]
    /\ wstep' = [wstep EXCEPT ![l] = "ask"]
    /\ UNCHANGED <<rvars, cvars, hvars, lane, wjob>>

\* The worker is through with its job.
Idle(l) ==
    /\ wstep' = [wstep EXCEPT ![l] = "recv"]
    /\ wjob' = [wjob EXCEPT ![l] = "none"]
    /\ wtodo' = [wtodo EXCEPT ![l] = {}]

\* A declared refusal is final. After the tool there is nothing to refuse.
HookDenies(l) ==
    /\ wstep[l] = "asking" /\ l = "before"
    /\ \E p \in Deniers : IsNext(p, l)
    /\ Answer(wjob[l], TRUE)
    /\ Idle(l)
    /\ UNCHANGED <<rvars, cpoint, hvars, lane>>

\* Everybody was asked, or nobody is registered.
Finish(l) ==
    /\ wstep[l] = "ask" /\ wtodo[l] = {}
    /\ Answer(wjob[l], FALSE)
    /\ Idle(l)
    /\ UNCHANGED <<rvars, cpoint, hvars, lane>>
-----------------------------------------------------------------------------
Rebuild(r) == \/ ReadSwitch(r) \/ WriteSwitch(r) \/ Refresh(r) \/ Collect(r)
              \/ GiveUp(r) \/ Clear(r) \/ RegisterOne(r)
              \/ BumpGeneration(r)
Call(c) == Dispatch(c) \/ Enqueue(c) \/ Abandon(c)
Work(l) == \/ Void(l) \/ Take(l) \/ ReadRegistrations(l) \/ Ask(l) \/ AskNext(l)
           \/ HookDenies(l) \/ Finish(l)

Next == \/ \E r \in Requests : Rebuild(r)
        \/ \E c \in Calls : Call(c)
        \/ \E l \in Points : Work(l)

Spec == Init /\ [][Next]_vars
-----------------------------------------------------------------------------
RebuildType ==
    /\ disabled \subseteq Plugins
    /\ registry \in [Plugins \X Points -> BOOLEAN]
    /\ \A h \in Plugins \X Points : registry[h] => h \in Handlers
    /\ generation \in Nat \ {0}
    /\ rstep \in [Requests -> {"idle", "write", "collect", "clear", "register", "done"}]
    /\ rwant \in [Requests -> Switches \cup {NoSwitch}]
    /\ rfile \in [Requests -> SUBSET Plugins]
    /\ rtodo \in [Requests -> SUBSET Handlers]
CallType ==
    /\ cstep \in [Calls -> {"idle", "sending", "waiting", "answered", "gone"}]
    /\ cpoint \in [Calls -> Points]
    /\ cgen \in [Calls -> 0 .. generation]
    /\ refused \in [Calls -> BOOLEAN]
LaneType ==
    /\ lane \in [Points -> Seq(Calls)] /\ \A l \in Points : Len(lane[l]) <= Capacity
    /\ wstep \in [Points -> {"recv", "begin", "ask", "asking"}]
    /\ wjob \in [Points -> Calls \cup {"none"}]
    /\ wtodo \in [Points -> SUBSET Plugins]
HistoryType ==
    /\ asked \in [Calls -> SUBSET Plugins] /\ due \in [Calls -> SUBSET Plugins]
    /\ calm \in [Calls -> BOOLEAN] /\ sound \in BOOLEAN /\ spoiled \in BOOLEAN

\* Types of all variables (hooks/event_runtime.rs, hooks/mod.rs, live.rs); a lane
\* holds no more jobs than its capacity.
TypeOK == RebuildType /\ CallType /\ LaneType /\ HistoryType

\* A tool call whose point no rebuild touched, dispatched after a rebuild that
\* ran alone and to its end, was put to exactly the plugins the configuration
\* held enabled then: no disabled plugin decides it, no enabled one is passed
\* over, whatever order the rebuild, the lane, its worker and the calls of
\* other turns ran in before. Only a refusal spares it the plugins behind.
\* (live.rs exchanges the registrations in place, so that the running turn's
\* next call meets the new ones.)
HooksFollowConfig ==
    \A c \in Calls : (cstep[c] = "answered" /\ calm[c]) =>
        \/ asked[c] = due[c]
        \/ cpoint[c] = "before" /\ refused[c] /\ asked[c] \subseteq due[c]
=============================================================================
