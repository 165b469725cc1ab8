----------------------------- MODULE AgentPool -----------------------------
(***************************************************************************)
(* The gateway's pool of agent processes: one process per workspace, used  *)
(* by every client of that workspace, reaped when nobody uses it.          *)
(*                                                                         *)
(* The registry keeps three maps by instance id, each under a lock of its  *)
(* own: entries, shutdown switches, connection counts.  Clients spawn,     *)
(* bind and leave (ensure_agent, relay, subscribe); a guard task per       *)
(* process waits for its exit or its switch; the reaper lists and stops;   *)
(* a client may detach an instance.  A process outlives whoever forgets it.*)
(*                                                                         *)
(* A key stands for a workspace and the instance id derived from it, so    *)
(* successive processes of one workspace share their key.  Processes that  *)
(* register themselves from outside, and the gateway's own exit, are left  *)
(* out.                                                                    *)
(***************************************************************************)
EXTENDS Integers, FiniteSets

CONSTANTS
    Keys,      \* instance ids
    NoKey,     \* none of them
    Clients,   \* tasks that use the pool
    Relays,    \* those that come over the gateway's WebSocket, the others over HTTP
    IdleAge,   \* idle_after
    EvictAge,  \* min_idle_before_evict
    MaxLive,   \* max_live
    MaxProcs,  \* bound: processes started
    MaxLeft,   \* bound: processes of a key left to themselves
    MaxCount   \* bound: the count at which no further relay binds

ASSUME ClientsAssumption ==
    /\ IsFiniteSet(Keys) /\ NoKey \notin Keys
    /\ IsFiniteSet(Clients) /\ Relays \subseteq Clients
ASSUME PolicyAssumption == IdleAge \in Nat /\ EvictAge \in Nat /\ MaxLive \in Nat
ASSUME BoundsAssumption == MaxProcs \in Nat /\ MaxLeft \in Nat /\ MaxCount \in Nat

Procs == 1..MaxProcs
None == 0
OldAge == IF IdleAge > EvictAge THEN IdleAge ELSE EvictAge
NotListed == -1

VARIABLES
    entry,    \* registry.inner: the process an instance stands for
    stopped,  \* the entries whose status is Stopped; the others are Ready
    age,      \* time since last_active_ms
    switch,   \* registry.shutdowns: the process whose switch it is
    count,    \* registry.connections
    life,     \* of each process: none, starting, up, dead
    key,      \* the workspace it was started for
    guard,    \* its guard task: none, waits, killed, forgot, unswitched, gone
    thrown,   \* processes whose switch was thrown and whose guard has not seen it
    at,       \* each client: idle, waits, spawns, registered, holds, counted, bound
    want,     \* its workspace
    started,  \* the process it is starting
    reaper,   \* stage of reap_once: forgot, unswitched, pruned, reaps, evicts
    seen,     \* the ages it listed and has not checked yet
    chosen,   \* the instances it is about to stop, or has just forgotten
    room,     \* how many it may still choose
    detach,   \* stage of a detach: none, forgot, unswitched
    detached, \* the instance it removes
    left      \* how often a process of the key was left to itself

registry == <<entry, stopped, age, switch, count>>
processes == <<life, key, guard, thrown>>
clients == <<at, want, started>>
reaping == <<reaper, seen, chosen, room>>
detaching == <<detach, detached>>
vars == <<registry, processes, clients, reaping, detaching, left>>

Init ==
    /\ entry = [k \in Keys |-> None] /\ stopped = {} /\ age = [k \in Keys |-> 0]
    /\ switch = [k \in Keys |-> None] /\ count = [k \in Keys |-> 0]
    /\ life = [p \in Procs |-> "none"] /\ key = [p \in Procs |-> NoKey]
    /\ guard = [p \in Procs |-> "none"] /\ thrown = {}
    /\ at = [c \in Clients |-> "idle"] /\ want = [c \in Clients |-> NoKey]
    /\ started = [c \in Clients |-> None]
    /\ reaper = "evicts" /\ seen = [k \in Keys |-> NotListed] /\ chosen = {} /\ room = 0
    /\ detach = "none" /\ detached = NoKey
    /\ left = [k \in Keys |-> 0]

-----------------------------------------------------------------------------
(* The maps of the registry                                                *)

Routable(k) == entry[k] # None /\ k \notin stopped

\* Traffic of an instance: without an entry nothing happens.
Touch(k) == age' = [age EXCEPT ![k] = 0]

\* The first of the three locks of a removal; the other two follow as steps.
ForgetEntries(ks) ==
    /\ entry' = [k \in Keys |-> IF k \in ks THEN None ELSE entry[k]]
    /\ stopped' = stopped \ ks
    /\ age' = [k \in Keys |-> IF k \in ks THEN 0 ELSE age[k]]
    /\ UNCHANGED <<switch, count>>
ForgetSwitches(ks) ==
    /\ switch' = [k \in Keys |-> IF k \in ks THEN None ELSE switch[k]]
    /\ UNCHANGED <<entry, stopped, age, count>>
ForgetCounts(ks) ==
    /\ count' = [k \in Keys |-> IF k \in ks THEN 0 ELSE count[k]]
    /\ UNCHANGED <<entry, stopped, age, switch>>

-----------------------------------------------------------------------------
(* Clients                                                                  *)

Goes(c, to) == at' = [at EXCEPT ![c] = to]
GivesUp(c) ==
    /\ Goes(c, "idle")
    /\ want' = [want EXCEPT ![c] = NoKey] /\ started' = [started EXCEPT ![c] = None]

\* ensure_agent finds a routable instance and returns a copy of its entry.
Reuse(c, k) ==
    /\ Routable(k)
    /\ Touch(k) /\ UNCHANGED <<entry, stopped, switch, count, started>>
    /\ Goes(c, "holds") /\ want' = [want EXCEPT ![c] = k]

Ask(c) ==
    /\ at[c] = "idle"
    /\ \E k \in Keys :
        \/ Reuse(c, k)
        \/ /\ ~Routable(k)
           /\ Goes(c, "waits") /\ want' = [want EXCEPT ![c] = k]
           /\ UNCHANGED <<registry, started>>
    /\ UNCHANGED <<processes, reaping, detaching, left>>

LockFree == \A c \in Clients : at[c] \notin {"spawns", "registered"}

\* With spawn_lock the registry is asked again.
Recheck(c) ==
    /\ at[c] = "waits" /\ LockFree
    /\ Reuse(c, want[c])
    /\ UNCHANGED <<processes, reaping, detaching, left>>

\* The workspace or the binary is missing.
Refuse(c) ==
    /\ at[c] = "waits" /\ LockFree /\ ~Routable(want[c])
    /\ GivesUp(c)
    /\ UNCHANGED <<registry, processes, reaping, detaching, left>>

\* An HTTP client that disconnects takes its handler with it.
HangUp(c) ==
    /\ at[c] = "waits" /\ c \notin Relays
    /\ GivesUp(c)
    /\ UNCHANGED <<registry, processes, reaping, detaching, left>>

\* Mutant: without the second look.
MustSpawnUnchecked(c) == LockFree
MustSpawn(c) == LockFree /\ ~Routable(want[c])

StartProcess(c) ==
    /\ at[c] = "waits" /\ MustSpawn(c)
    /\ \E p \in Procs :
        /\ life[p] = "none" /\ \A q \in 1..(p - 1) : life[q] # "none"
        /\ life' = [life EXCEPT ![p] = "starting"]
        /\ key' = [key EXCEPT ![p] = want[c]]
        /\ started' = [started EXCEPT ![c] = p]
    /\ Goes(c, "spawns")
    /\ UNCHANGED <<registry, guard, thrown, want, reaping, detaching, left>>

\* No ready line in time, or the process ended without one: it is killed.
NotReady(c) ==
    /\ at[c] = "spawns"
    /\ life' = [life EXCEPT ![started[c]] = "dead"]
    /\ GivesUp(c)
    /\ UNCHANGED <<registry, key, guard, thrown, reaping, detaching, left>>

\* The ready line cannot be parsed, or the HTTP client hangs up and its handler
\* is dropped: the child handle is dropped too, which does not kill the process.
LeaveProcess(c) ==
    /\ at[c] = "spawns" /\ left[want[c]] < MaxLeft
    /\ life' = [life EXCEPT ![started[c]] = "up"]
    /\ left' = [left EXCEPT ![want[c]] = @ + 1]
    /\ GivesUp(c)
    /\ UNCHANGED <<registry, key, guard, thrown, reaping, detaching>>

\* The end of spawn_agent: the entry replaces whatever is there.
Register(c) ==
    /\ at[c] = "spawns"
    /\ life' = [life EXCEPT ![started[c]] = "up"]
    /\ entry' = [entry EXCEPT ![want[c]] = started[c]] /\ stopped' = stopped \ {want[c]}
    /\ Touch(want[c])
    /\ Goes(c, "registered")
    /\ UNCHANGED <<switch, count, key, guard, thrown, want, started, reaping, detaching, left>>

\* attach_shutdown and the guard task; the lock is released.
AttachShutdown(c) ==
    /\ at[c] = "registered"
    /\ switch' = [switch EXCEPT ![want[c]] = started[c]]
    /\ guard' = [guard EXCEPT ![started[c]] = "waits"]
    /\ Goes(c, "holds") /\ started' = [started EXCEPT ![c] = None]
    /\ UNCHANGED <<entry, stopped, age, count, life, key, thrown, want, reaping,
                   detaching, left>>

\* Mutant: the entry is set instead of incremented.
CountOnce(k) == count' = [count EXCEPT ![k] = 1]
Count(k) == count' = [count EXCEPT ![k] = @ + 1]

\* Of the two increments a relay makes, the first.
ConnInc(c) ==
    /\ at[c] = "holds" /\ c \in Relays /\ count[want[c]] < MaxCount
    /\ Count(want[c])
    /\ Goes(c, "counted")
    /\ UNCHANGED <<entry, stopped, age, switch, want, started, processes, reaping,
                   detaching, left>>

OpenConnection(c) ==
    /\ at[c] = (IF c \in Relays THEN "counted" ELSE "holds")
    /\ Count(want[c])
    /\ Goes(c, "bound")
    /\ UNCHANGED <<entry, stopped, age, switch, want, started, processes, reaping,
                   detaching, left>>

\* A single call, without a connection of its own.
UseOnce(c) ==
    /\ at[c] = "holds" /\ c \notin Relays
    /\ GivesUp(c)
    /\ UNCHANGED <<registry, processes, reaping, detaching, left>>

Traffic(c) ==
    /\ at[c] = "bound" /\ Touch(want[c])
    /\ UNCHANGED <<entry, stopped, switch, count, clients, processes, reaping,
                   detaching, left>>

\* Mutant: a count that was erased meanwhile is decremented all the same.
UncountAlways(k) == count' = [count EXCEPT ![k] = @ - 1]
Uncount(k) == count' = [count EXCEPT ![k] = IF @ > 0 THEN @ - 1 ELSE 0]

\* The connection ends, or was never made: the guard is dropped.
Leave(c) ==
    /\ at[c] = "bound"
    /\ Uncount(want[c])
    /\ GivesUp(c)
    /\ UNCHANGED <<entry, stopped, age, switch, processes, reaping, detaching, left>>

Client(c) ==
    \/ Ask(c) \/ Recheck(c) \/ Refuse(c) \/ HangUp(c) \/ StartProcess(c)
    \/ NotReady(c) \/ LeaveProcess(c) \/ Register(c) \/ AttachShutdown(c)
    \/ ConnInc(c) \/ OpenConnection(c) \/ UseOnce(c) \/ Traffic(c) \/ Leave(c)

-----------------------------------------------------------------------------
(* Processes and their guards                                               *)

Exit(p) ==
    /\ life[p] = "up" /\ life' = [life EXCEPT ![p] = "dead"]
    /\ UNCHANGED <<registry, key, guard, thrown, clients, reaping, detaching, left>>

\* Mutant: the exit is only logged.
MarkNothing(k) == UNCHANGED stopped
\* The status goes to whatever entry has the id by now.
MarkStopped(k) == stopped' = IF entry[k] = None THEN stopped ELSE stopped \cup {k}

GuardSeesExit(p) ==
    /\ guard[p] = "waits" /\ life[p] = "dead"
    /\ MarkStopped(key[p])
    /\ guard' = [guard EXCEPT ![p] = "gone"] /\ thrown' = thrown \ {p}
    /\ UNCHANGED <<entry, age, switch, count, life, key, clients, reaping, detaching,
                   left>>

GuardKills(p) ==
    /\ guard[p] = "waits" /\ p \in thrown
    /\ life' = [life EXCEPT ![p] = "dead"] /\ guard' = [guard EXCEPT ![p] = "killed"]
    /\ thrown' = thrown \ {p}
    /\ UNCHANGED <<registry, key, clients, reaping, detaching, left>>

\* The sender was dropped: the guard ends, and with it the child handle.
GuardLosesSwitch(p) ==
    /\ guard[p] = "waits" /\ p \notin thrown /\ switch[key[p]] # p
    /\ guard' = [guard EXCEPT ![p] = "gone"]
    /\ UNCHANGED <<registry, life, key, thrown, clients, reaping, detaching, left>>

GuardRemoves(p) ==
    /\ \/ guard[p] = "killed" /\ ForgetEntries({key[p]})
          /\ guard' = [guard EXCEPT ![p] = "forgot"]
       \/ guard[p] = "forgot" /\ ForgetSwitches({key[p]})
          /\ guard' = [guard EXCEPT ![p] = "unswitched"]
       \/ guard[p] = "unswitched" /\ ForgetCounts({key[p]})
          /\ guard' = [guard EXCEPT ![p] = "gone"]
    /\ UNCHANGED <<life, key, thrown, clients, reaping, detaching, left>>

Guard(p) == GuardSeesExit(p) \/ GuardKills(p) \/ GuardLosesSwitch(p) \/ GuardRemoves(p)

-----------------------------------------------------------------------------
(* Detach                                                                   *)

Detach ==
    /\ \/ /\ detach = "none"
          /\ \E k \in Keys :
              /\ left[k] < MaxLeft /\ left' = [left EXCEPT ![k] = @ + 1]
              /\ ForgetEntries({k}) /\ detached' = k
          /\ detach' = "forgot"
       \/ /\ detach = "forgot" /\ ForgetSwitches({detached})
          /\ detach' = "unswitched" /\ UNCHANGED <<detached, left>>
       \/ /\ detach = "unswitched" /\ ForgetCounts({detached})
          /\ detach' = "none" /\ detached' = NoKey /\ UNCHANGED left
    /\ UNCHANGED <<processes, clients, reaping>>

-----------------------------------------------------------------------------
(* The reaper                                                               *)

Tick ==
    /\ age' = [k \in Keys |-> IF entry[k] # None /\ age[k] < OldAge
                              THEN age[k] + 1 ELSE age[k]]
    /\ UNCHANGED <<entry, stopped, switch, count, processes, clients, reaping,
                   detaching, left>>

Listed == {k \in Keys : seen[k] # NotListed}
RoundDone == Listed = {} /\ chosen = {}

\* prune_stopped at the start of a round, lock by lock.
Prune ==
    /\ \/ /\ reaper = "evicts" /\ RoundDone
          /\ chosen' = stopped /\ ForgetEntries(stopped)
          /\ reaper' = IF stopped = {} THEN "pruned" ELSE "forgot"
       \/ /\ reaper = "forgot" /\ ForgetSwitches(chosen)
          /\ reaper' = "unswitched" /\ UNCHANGED chosen
       \/ /\ reaper = "unswitched" /\ ForgetCounts(chosen)
          /\ reaper' = "pruned" /\ chosen' = {}
    /\ UNCHANGED <<seen, room, processes, clients, detaching, left>>

\* The candidates are copied under the lock of the entries, for those idle too
\* long, then for those in excess.
List ==
    LET live == {k \in Keys : Routable(k)}
        Copy(ks) == seen' = [k \in Keys |-> IF k \in ks THEN age[k] ELSE NotListed]
    IN  /\ \/ /\ reaper = "pruned" /\ reaper' = "reaps"
              /\ Copy(live) /\ room' = Cardinality(live)
           \/ /\ reaper = "reaps" /\ RoundDone /\ reaper' = "evicts"
              /\ IF Cardinality(live) > MaxLive
                 THEN Copy(live) /\ room' = Cardinality(live) - MaxLive
                 ELSE Copy({}) /\ room' = 0
        /\ UNCHANGED <<chosen, registry, processes, clients, detaching, left>>

\* Mutant: the threshold itself is not old enough.
OlderThan(k) == seen[k] > (IF reaper = "reaps" THEN IdleAge ELSE EvictAge)
OldEnough(k) == seen[k] >= (IF reaper = "reaps" THEN IdleAge ELSE EvictAge)

\* One candidate: its count is read under the lock of the counts.  Where the
\* number of victims is limited the least recently used comes first.
Check(k) ==
    LET taken == OldEnough(k) /\ count[k] = 0
        over == (taken /\ room = 1) \/ Listed = {k}
    IN  /\ k \in Listed
        /\ reaper = "evicts" => \A j \in Listed : seen[j] <= seen[k]
        /\ seen' = [j \in Keys |-> IF over \/ j = k THEN NotListed ELSE seen[j]]
        /\ chosen' = IF taken THEN chosen \cup {k} ELSE chosen
        /\ room' = IF over THEN 0 ELSE IF taken THEN room - 1 ELSE room
        /\ UNCHANGED <<reaper, registry, processes, clients, detaching, left>>

\* request_shutdown: by id, whoever the switch belongs to by now.
RequestShutdown(k) ==
    /\ reaper \in {"reaps", "evicts"} /\ Listed = {} /\ k \in chosen
    /\ chosen' = chosen \ {k}
    /\ thrown' = thrown \cup {p \in Procs : p = switch[k] /\ guard[p] = "waits"}
    /\ UNCHANGED <<reaper, seen, room, registry, life, key, guard, clients,
                   detaching, left>>

Reaper == Prune \/ List \/ \E k \in Keys : Check(k) \/ RequestShutdown(k)

-----------------------------------------------------------------------------

Next ==
    \/ \E c \in Clients : Client(c)
    \/ \E p \in Procs : Exit(p) \/ Guard(p)
    \/ Detach \/ Tick \/ Reaper

Spec == Init /\ [][Next]_vars

Guards == \E p \in Procs : Guard(p)

\* Time passes, the reaper's interval fires, the runtime polls ready guards (each
\* has few steps in its life, so fairness to one is fairness to all).  Nothing
\* makes a client ask or leave, or a process exit.
FairSpec == Spec /\ WF_vars(Tick) /\ WF_vars(Reaper) /\ WF_vars(Guards)

-----------------------------------------------------------------------------
(* Properties                                                               *)

RegistryType ==
    /\ entry \in [Keys -> Procs \cup {None}] /\ stopped \subseteq Keys
    /\ age \in [Keys -> 0..OldAge]
    /\ switch \in [Keys -> Procs \cup {None}] /\ count \in [Keys -> Nat]
ProcessType ==
    /\ life \in [Procs -> {"none", "starting", "up", "dead"}]
    /\ key \in [Procs -> Keys \cup {NoKey}]
    /\ guard \in [Procs -> {"none", "waits", "killed", "forgot", "unswitched", "gone"}]
    /\ thrown \subseteq Procs
ClientType ==
    /\ at \in [Clients -> {"idle", "waits", "spawns", "registered", "holds", "counted",
                           "bound"}]
    /\ want \in [Clients -> Keys \cup {NoKey}] /\ started \in [Clients -> Procs \cup {None}]
ReaperType ==
    /\ reaper \in {"forgot", "unswitched", "pruned", "reaps", "evicts"}
    /\ seen \in [Keys -> NotListed..OldAge] /\ chosen \subseteq Keys /\ room \in Nat
DetachType ==
    /\ detach \in {"none", "forgot", "unswitched"} /\ detached \in Keys \cup {NoKey}
    /\ left \in [Keys -> 0..MaxLeft]

\* Types of all variables (registry.rs:116-129 and the tasks around it).
TypeOK == RegistryType /\ ProcessType /\ ClientType /\ ReaperType /\ DetachType

ProcessesOf(k) == {p \in Procs : key[p] = k /\ life[p] # "none"}
Alive(k) == {p \in ProcessesOf(k) : life[p] # "dead"}

\* A workspace has one process, and one more for each that a detach or a spawn
\* that gave up has left to itself, although statuses, entries and switches are
\* changed by id and may hit a successor (supervisor.rs:399-406).
OneProcess == \A k \in Keys : Cardinality(Alive(k)) <= 1 + left[k]

Users(k) == {c \in Clients : want[c] = k}
Bound(k) == {c \in Users(k) : at[c] = "bound"}

\* As long as a workspace is with its first process, and nobody has detached it,
\* every client bound to it is counted, however clients come and leave while the
\* reaper and the guards erase counts: the only protection of a quiet connection
\* (registry.rs:124-128).
ClientsAreCounted ==
    \A k \in Keys :
        entry[k] # None /\ left[k] = 0 /\ Cardinality(ProcessesOf(k)) = 1
            => count[k] >= Cardinality(Bound(k))

\* The instance stands for a process whose guard and switch are in place.
Managed(k) ==
    /\ entry[k] # None /\ k \notin stopped
    /\ switch[k] = entry[k] /\ guard[entry[k]] = "waits"

\* Nobody uses the workspace's process, or it is dead and the next client would
\* be sent to it.
Useless(k) ==
    \/ Managed(k) /\ life[entry[k]] = "up" /\ count[k] = 0 /\ Users(k) = {}
    \/ entry[k] # None /\ switch[k] = entry[k] /\ life[entry[k]] = "dead"

\* The pool does not keep useless processes for ever: one that nobody uses is
\* reaped, or a client turns up (supervisor.rs:470-471), and one that died is
\* forgotten (supervisor.rs:451-454, registry.rs:290).
PoolDrains == \A k \in Keys : []<>~Useless(k)
=============================================================================
