--------------------------- MODULE AgentPoolProofs ---------------------------
(***************************************************************************)
(* Proofs about AgentPool, for any number of workspaces, clients and       *)
(* processes.  Everything in the registry goes by instance id, so a guard, *)
(* the reaper or a detach may strike the successor of the process it       *)
(* means.  The argument counts strays: processes of a workspace that are   *)
(* not its current one and can still live or strike.  Only what is left to *)
(* itself makes a stray from nothing; a stray that strikes is one no more, *)
(* and what it strikes takes its place.                                    *)
(***************************************************************************)
EXTENDS AgentPool, FiniteSetTheorems, TLAPS

Registered(p) == life[p] \in {"up", "dead"}

\* Who starts a process holds the spawn lock.
Holders == {c \in Clients : at[c] \in {"spawns", "registered"}}

\* Keys, processes and entries belong together.
Ownership ==
    /\ \A k \in Keys : entry[k] # None => key[entry[k]] = k /\ Registered(entry[k])
    /\ stopped \subseteq {k \in Keys : entry[k] # None}
    /\ \A p \in Procs : life[p] # "none" => key[p] \in Keys
    /\ \A p \in Procs : guard[p] # "none" => Registered(p)
    /\ \A p \in Procs : guard[p] \in {"killed", "forgot", "unswitched"} => life[p] = "dead"
    /\ \A c \in Clients : at[c] # "idle" => want[c] \in Keys

Spawning ==
    /\ \A c, d \in Holders : c = d
    /\ \A c \in Holders :
          /\ started[c] \in Procs /\ key[started[c]] = want[c] /\ guard[started[c]] = "none"
          /\ at[c] = "spawns" => life[started[c]] = "starting" /\ ~Routable(want[c])
          /\ at[c] = "registered" => Registered(started[c])
    /\ \A p \in Procs : life[p] = "starting" => \E c \in Clients : at[c] = "spawns" /\ started[c] = p

\* The reaper has candidates only between a listing and the end of its stage, and
\* may choose as long as it has some.
RoomLeft == Listed # {} => room >= 1 /\ reaper \in {"reaps", "evicts"}

\* A process that lives, or whose guard has yet to touch what is under its key.
Dangerous(p) ==
    \/ life[p] \in {"starting", "up"}
    \/ guard[p] \in {"waits", "killed"}
    \/ \E c \in Clients : at[c] = "registered" /\ started[c] = p

Current(k, p) ==
    \/ Routable(k) /\ p = entry[k]
    \/ \E c \in Clients : at[c] = "spawns" /\ want[c] = k /\ started[c] = p

Strays(k) == {p \in Procs : key[p] = k /\ Dangerous(p) /\ ~Current(k, p)}
StraysPaid == \A k \in Keys : Cardinality(Strays(k)) <= left[k]

\* A workspace that is used has had a process; one that is being forgotten, too.
Served(k) == \E p \in Procs : key[p] = k /\ Registered(p)
UseNeedsProcess ==
    /\ \A c \in Clients : at[c] \in {"holds", "counted", "bound"} => Served(want[c])
    /\ reaper \in {"forgot", "unswitched"} => \A k \in chosen : Served(k)
    /\ detach # "none" => detached \in Keys /\ left[detached] > 0

\* The first process, with nothing left to itself.
First(k) ==
    /\ entry[k] # None /\ left[k] = 0
    /\ \A p \in Procs : key[p] = k /\ life[p] # "none" => p = entry[k]
NothingPending ==
    \A k \in Keys : First(k) =>
        /\ \A p \in Procs : key[p] = k => guard[p] \notin {"forgot", "unswitched"}
        /\ reaper \in {"forgot", "unswitched"} => k \notin chosen
Counted == \A k \in Keys : First(k) => count[k] >= Cardinality(Bound(k))

Facts ==
    /\ Ownership /\ Spawning /\ RoomLeft /\ StraysPaid /\ UseNeedsProcess /\ NothingPending
    /\ Counted

Ind == TypeOK /\ Facts

-----------------------------------------------------------------------------
(* Types                                                                    *)

\* The ages in the policy are numbers, and an age is one of 0..OldAge.
LEMMA AgeType == OldAge \in Nat /\ 0 \in 0..OldAge /\ None \in Procs \cup {None}
BY PolicyAssumption DEF PolicyAssumption, OldAge

\* Clients keep the types.
LEMMA ClientTypes == ASSUME TypeOK, Ownership, Spawning, NEW c \in Clients, Client(c) PROVE TypeOK'
<1>. USE DEF TypeOK
<1>1. ReaperType'
  BY DEF Client, Ask, Reuse, Recheck, Refuse, HangUp, StartProcess, NotReady, LeaveProcess,
         Register, AttachShutdown, ConnInc, OpenConnection, UseOnce, Traffic, Leave, ReaperType,
         reaping
<1>2. DetachType'
  <2>1. CASE LeaveProcess(c)
    <3>1. want[c] \in Keys
      BY <2>1 DEF LeaveProcess, Ownership
    <3>2. left[want[c]] + 1 \in 0..MaxLeft
      BY <2>1, <3>1, BoundsAssumption DEF LeaveProcess, DetachType, BoundsAssumption
    <3>. QED BY <2>1, <3>2 DEF LeaveProcess, DetachType, detaching
  <2>2. CASE UNCHANGED <<detaching, left>>
    BY <2>2 DEF DetachType, detaching
  <2>. QED BY <2>1, <2>2 DEF Client, Ask, Reuse, Recheck, Refuse, HangUp, StartProcess, NotReady,
         Register, AttachShutdown, ConnInc, OpenConnection, UseOnce, Traffic, Leave
<1>3. CASE Ask(c) \/ Recheck(c)
  <2>1. RegistryType' /\ ClientType'
    <3>1. CASE UNCHANGED <<registry, started>> /\ Goes(c, "waits") /\ \E k \in Keys : want' = [want EXCEPT ![c] = k]
      BY <3>1 DEF RegistryType, ClientType, registry, Goes
    <3>2. ASSUME NEW k \in Keys \cup {NoKey}, Reuse(c, k) PROVE RegistryType' /\ ClientType'
      <4>1. RegistryType'
        BY <3>2, AgeType DEF Reuse, RegistryType, Touch
      <4>2. ClientType'
        BY <3>2 DEF Reuse, ClientType, Goes
      <4>. QED BY <4>1, <4>2
    <3>3. want[c] \in Keys \cup {NoKey}
      BY DEF ClientType
    <3>. QED BY <1>3, <3>1, <3>2, <3>3 DEF Ask, Recheck
  <2>2. ProcessType'
    BY <1>3 DEF Ask, Recheck, ProcessType, processes
  <2>. QED BY <1>1, <1>2, <2>1, <2>2
<1>4. CASE Refuse(c) \/ HangUp(c) \/ UseOnce(c)
  <2>1. RegistryType'
    BY <1>4 DEF Refuse, HangUp, UseOnce, RegistryType, registry
  <2>2. ProcessType'
    BY <1>4 DEF Refuse, HangUp, UseOnce, ProcessType, processes
  <2>3. ClientType'
    BY <1>4 DEF Refuse, HangUp, UseOnce, ClientType, GivesUp, Goes
  <2>. QED BY <1>1, <1>2, <2>1, <2>2, <2>3
<1>5. CASE StartProcess(c)
  <2>1. RegistryType'
    BY <1>5 DEF StartProcess, RegistryType, registry
  <2>2. ProcessType'
    BY <1>5 DEF StartProcess, ProcessType, ClientType
  <2>3. ClientType'
    BY <1>5 DEF StartProcess, ClientType, Goes
  <2>. QED BY <1>1, <1>2, <2>1, <2>2, <2>3
<1>6. CASE NotReady(c) \/ LeaveProcess(c)
  <2>1. RegistryType'
    BY <1>6 DEF NotReady, LeaveProcess, RegistryType, registry
  <2>2. ProcessType'
    BY <1>6 DEF NotReady, LeaveProcess, ProcessType
  <2>3. ClientType'
    BY <1>6 DEF NotReady, LeaveProcess, ClientType, GivesUp, Goes
  <2>. QED BY <1>1, <1>2, <2>1, <2>2, <2>3
<1>7. CASE Register(c) \/ AttachShutdown(c)
  <2>0. c \in Holders /\ started[c] \in Procs
    BY <1>7 DEF Register, AttachShutdown, Holders, Spawning
  <2>1. RegistryType'
    BY <1>7, <2>0, AgeType DEF Register, AttachShutdown, RegistryType, Touch
  <2>2. ProcessType'
    BY <1>7 DEF Register, AttachShutdown, ProcessType
  <2>3. ClientType'
    BY <1>7 DEF Register, AttachShutdown, ClientType, Goes
  <2>. QED BY <1>1, <1>2, <2>1, <2>2, <2>3
<1>8. CASE ConnInc(c) \/ OpenConnection(c) \/ Traffic(c) \/ Leave(c)
  <2>1. RegistryType'
    <3>1. \/ UNCHANGED count
          \/ Count(want[c])
          \/ Uncount(want[c])
      BY <1>8 DEF ConnInc, OpenConnection, Traffic, Leave
    <3>2. count' \in [Keys -> Nat]
      BY <3>1 DEF RegistryType, Count, Uncount
    <3>3. age' \in [Keys -> 0..OldAge]
      BY <1>8, AgeType DEF ConnInc, OpenConnection, Traffic, Leave, Touch, RegistryType
    <3>4. UNCHANGED <<entry, stopped, switch>>
      BY <1>8 DEF ConnInc, OpenConnection, Traffic, Leave
    <3>. QED BY <3>2, <3>3, <3>4 DEF RegistryType
  <2>2. ProcessType'
    BY <1>8 DEF ConnInc, OpenConnection, Traffic, Leave, ProcessType, processes
  <2>3. ClientType'
    BY <1>8 DEF ConnInc, OpenConnection, Traffic, Leave, ClientType, GivesUp, Goes, clients
  <2>. QED BY <1>1, <1>2, <2>1, <2>2, <2>3
<1>. QED BY <1>3, <1>4, <1>5, <1>6, <1>7, <1>8 DEF Client

\* Removing ids from one of the maps keeps its type.
LEMMA ForgetTypes ==
  ASSUME TypeOK, NEW ks, ForgetEntries(ks) \/ ForgetSwitches(ks) \/ ForgetCounts(ks)
  PROVE  RegistryType'
<1>1. CASE ForgetEntries(ks)
  BY <1>1, AgeType DEF ForgetEntries, TypeOK, RegistryType
<1>2. CASE ForgetSwitches(ks)
  BY <1>2, AgeType DEF ForgetSwitches, TypeOK, RegistryType
<1>3. CASE ForgetCounts(ks)
  BY <1>3 DEF ForgetCounts, TypeOK, RegistryType
<1>. QED BY <1>1, <1>2, <1>3

\* Processes and their guards keep the types.
LEMMA GuardTypes ==
  ASSUME TypeOK, Ownership, NEW p \in Procs, Exit(p) \/ Guard(p)
  PROVE  TypeOK'
<1>1. ClientType' /\ ReaperType' /\ DetachType'
  BY DEF Exit, Guard, GuardSeesExit, GuardKills, GuardLosesSwitch, GuardRemoves, TypeOK,
         ClientType, ReaperType, DetachType, clients, reaping, detaching
<1>2. ProcessType'
  BY DEF Exit, Guard, GuardSeesExit, GuardKills, GuardLosesSwitch, GuardRemoves, TypeOK,
         ProcessType
<1>3. RegistryType'
  <2>1. CASE UNCHANGED registry
    BY <2>1 DEF TypeOK, RegistryType, registry
  <2>2. CASE GuardSeesExit(p)
    <3>1. key[p] \in Keys
      BY <2>2 DEF GuardSeesExit, Ownership, Registered
    <3>. QED BY <2>2, <3>1 DEF GuardSeesExit, MarkStopped, TypeOK, RegistryType
  <2>3. CASE GuardRemoves(p)
    BY <2>3, ForgetTypes DEF GuardRemoves
  <2>. QED BY <2>1, <2>2, <2>3 DEF Exit, Guard, GuardKills, GuardLosesSwitch
<1>. QED BY <1>1, <1>2, <1>3 DEF TypeOK

\* Detaches and the clock keep the types.
LEMMA DetachTypes == ASSUME TypeOK, Detach \/ Tick PROVE TypeOK'
<1>1. ClientType' /\ ReaperType' /\ ProcessType'
  BY DEF Detach, Tick, TypeOK, ClientType, ReaperType, ProcessType, clients, reaping, processes
<1>2. CASE Detach
  <2>1. RegistryType'
    BY <1>2, ForgetTypes DEF Detach
  <2>2. DetachType'
    <3>1. ASSUME NEW k \in Keys, left[k] < MaxLeft, left' = [left EXCEPT ![k] = @ + 1]
          PROVE  left' \in [Keys -> 0..MaxLeft]
      <4>1. left[k] + 1 \in 0..MaxLeft
        BY <3>1, BoundsAssumption DEF TypeOK, DetachType, BoundsAssumption
      <4>. QED BY <3>1, <4>1 DEF TypeOK, DetachType
    <3>. QED BY <1>2, <3>1 DEF Detach, TypeOK, DetachType
  <2>. QED BY <1>1, <2>1, <2>2 DEF TypeOK
<1>3. CASE Tick
  <2>1. \A k \in Keys : age[k] < OldAge => age[k] + 1 \in 0..OldAge
    BY AgeType DEF TypeOK, RegistryType
  <2>2. RegistryType'
    BY <1>3, <2>1 DEF Tick, TypeOK, RegistryType
  <2>3. DetachType'
    BY <1>3 DEF Tick, TypeOK, DetachType, detaching
  <2>. QED BY <1>1, <2>2, <2>3 DEF TypeOK
<1>. QED BY <1>2, <1>3

\* The instances a listing may take are finitely many.
LEMMA LiveFinite ==
  ASSUME NEW live \in SUBSET Keys
  PROVE  IsFiniteSet(live) /\ Cardinality(live) \in Nat /\ (live # {} => Cardinality(live) >= 1)
<1>1. IsFiniteSet(live)
  BY FS_Subset, ClientsAssumption DEF ClientsAssumption
<1>. QED BY <1>1, FS_CardinalityType, FS_EmptySet

\* The reaper keeps the types, and its room as long as it has candidates.
LEMMA ReaperTypes == ASSUME TypeOK, RoomLeft, Reaper PROVE TypeOK' /\ RoomLeft'
<1>1. ClientType' /\ DetachType'
  BY DEF Reaper, Prune, List, Check, RequestShutdown, TypeOK, ClientType, DetachType, clients,
         detaching
<1>2. CASE Prune
  <2>1. RegistryType'
    BY <1>2, ForgetTypes DEF Prune
  <2>2. ProcessType'
    BY <1>2 DEF Prune, TypeOK, ProcessType, processes
  <2>3. ReaperType'
    BY <1>2 DEF Prune, TypeOK, ReaperType, RegistryType
  <2>4. RoomLeft'
    BY <1>2 DEF Prune, RoomLeft, Listed, RoundDone
  <2>. QED BY <1>1, <2>1, <2>2, <2>3, <2>4 DEF TypeOK
<1>3. CASE List
  <2>. DEFINE live == {k \in Keys : Routable(k)}
              n == Cardinality(live)
  <2>1. n \in Nat /\ (live # {} => n >= 1)
    BY LiveFinite
  <2>2. RegistryType' /\ ProcessType'
    BY <1>3 DEF List, TypeOK, RegistryType, ProcessType, registry, processes
  <2>3. \A ks \in SUBSET Keys :
          [k \in Keys |-> IF k \in ks THEN age[k] ELSE NotListed] \in [Keys -> NotListed..OldAge]
    BY AgeType DEF TypeOK, RegistryType, NotListed
  <2>4. /\ reaper' \in {"reaps", "evicts"} /\ chosen' = chosen
        /\ \/ seen' = [k \in Keys |-> IF k \in live THEN age[k] ELSE NotListed] /\ room' = n
           \/ /\ n > MaxLive /\ room' = n - MaxLive
              /\ seen' = [k \in Keys |-> IF k \in live THEN age[k] ELSE NotListed]
           \/ seen' = [k \in Keys |-> IF k \in {} THEN age[k] ELSE NotListed] /\ room' = 0
    BY <1>3 DEF List
  <2>. HIDE DEF n
  <2>5. room' \in Nat /\ (room' >= 1 \/ live = {} \/ seen' = [k \in Keys |-> NotListed])
    BY <2>1, <2>4, PolicyAssumption DEF PolicyAssumption
  <2>6. seen' \in [Keys -> NotListed..OldAge]
    <3>1. live \in SUBSET Keys /\ {} \in SUBSET Keys
      OBVIOUS
    <3>2. /\ [k \in Keys |-> IF k \in live THEN age[k] ELSE NotListed] \in [Keys -> NotListed..OldAge]
          /\ [k \in Keys |-> IF k \in {} THEN age[k] ELSE NotListed] \in [Keys -> NotListed..OldAge]
      BY <2>3, <3>1
    <3>. HIDE DEF live
    <3>. QED BY <2>4, <3>2
  <2>7. ReaperType'
    BY <2>4, <2>5, <2>6 DEF TypeOK, ReaperType
  <2>8. RoomLeft'
    <3>. HIDE DEF live
    <3>1. live = {} => seen' = [k \in Keys |-> NotListed]
      BY <2>4
    <3>. QED BY <2>4, <2>5, <3>1 DEF RoomLeft, Listed
  <2>. QED BY <1>1, <2>2, <2>7, <2>8 DEF TypeOK
<1>4. ASSUME NEW k \in Keys, Check(k) PROVE TypeOK' /\ RoomLeft'
  <2>. DEFINE taken == OldEnough(k) /\ count[k] = 0
              over == (taken /\ room = 1) \/ Listed = {k}
  <2>1. RegistryType' /\ ProcessType'
    BY <1>4 DEF Check, TypeOK, RegistryType, ProcessType, registry, processes
  <2>2. /\ k \in Listed /\ reaper' = reaper
        /\ seen' = [j \in Keys |-> IF over \/ j = k THEN NotListed ELSE seen[j]]
        /\ chosen' = IF taken THEN chosen \cup {k} ELSE chosen
        /\ room' = IF over THEN 0 ELSE IF taken THEN room - 1 ELSE room
    BY <1>4 DEF Check
  <2>3. room >= 1 /\ room \in Nat
    BY <2>2 DEF RoomLeft, TypeOK, ReaperType
  <2>4. NotListed \in NotListed..OldAge
    BY AgeType DEF NotListed
  <2>5. seen' \in [Keys -> NotListed..OldAge]
    BY <2>2, <2>4 DEF TypeOK, ReaperType
  <2>6. room' \in Nat /\ (over \/ room' >= 1)
    BY <2>2, <2>3
  <2>7. ReaperType'
    BY <2>2, <2>5, <2>6 DEF TypeOK, ReaperType
  <2>8. RoomLeft'
    BY <2>2, <2>6 DEF RoomLeft, Listed
  <2>. QED BY <1>1, <2>1, <2>7, <2>8 DEF TypeOK
<1>5. ASSUME NEW k \in Keys, RequestShutdown(k) PROVE TypeOK' /\ RoomLeft'
  <2>1. RegistryType' /\ ProcessType'
    BY <1>5 DEF RequestShutdown, TypeOK, RegistryType, ProcessType, registry
  <2>2. ReaperType' /\ RoomLeft'
    BY <1>5 DEF RequestShutdown, TypeOK, ReaperType, RoomLeft, Listed
  <2>. QED BY <1>1, <2>1, <2>2 DEF TypeOK
<1>. QED BY <1>2, <1>3, <1>4, <1>5 DEF Reaper

-----------------------------------------------------------------------------
(* Strays                                                                   *)

\* What a step may do to the strays of a workspace.
Moves(k) ==
    \/ Strays(k)' \subseteq Strays(k) /\ left'[k] \in {left[k], left[k] + 1}
    \/ \E x \in Procs : Strays(k)' \subseteq Strays(k) \cup {x} /\ left'[k] = left[k] + 1
    \/ \E p \in Strays(k), x \in Procs :
          Strays(k)' \subseteq (Strays(k) \ {p}) \cup {x} /\ left'[k] = left[k]

\* Sets of processes are finite, and grow by what is put into them.
LEMMA ProcsFinite ==
  ASSUME NEW S \in SUBSET Procs
  PROVE  /\ IsFiniteSet(S) /\ Cardinality(S) \in Nat
         /\ \A T \in SUBSET S : Cardinality(T) <= Cardinality(S)
         /\ \A x \in Procs : Cardinality(S \cup {x}) <= Cardinality(S) + 1
         /\ \A p \in S : Cardinality(S \ {p}) = Cardinality(S) - 1
<1>1. IsFiniteSet(Procs)
  BY FS_Interval, BoundsAssumption DEF Procs, BoundsAssumption
<1>2. IsFiniteSet(S)
  BY <1>1, FS_Subset
<1>3. Cardinality(S) \in Nat
  BY <1>2, FS_CardinalityType
<1>4. \A T \in SUBSET S : Cardinality(T) <= Cardinality(S)
  BY <1>2, FS_Subset
<1>5. \A x \in Procs : Cardinality(S \cup {x}) <= Cardinality(S) + 1
  BY <1>2, <1>3, FS_AddElement
<1>6. \A p \in S : Cardinality(S \ {p}) = Cardinality(S) - 1
  BY <1>2, FS_RemoveElement
<1>. QED BY <1>2, <1>3, <1>4, <1>5, <1>6

\* However they move, they stay paid for.
LEMMA StraysStayPaid ==
  ASSUME StraysPaid, DetachType, \A k \in Keys : Moves(k)
  PROVE  StraysPaid'
<1>. SUFFICES ASSUME NEW k \in Keys PROVE Cardinality(Strays(k)') <= left'[k]
  BY DEF StraysPaid
<1>. DEFINE S == Strays(k)
            T == Strays(k)'
<1>1. S \in SUBSET Procs /\ T \in SUBSET Procs
  BY DEF Strays, Procs
<1>2. Cardinality(S) \in Nat /\ left[k] \in Nat /\ Cardinality(S) <= left[k]
  BY <1>1, ProcsFinite DEF StraysPaid, DetachType
<1>3. Cardinality(T) \in Nat
  BY <1>1, ProcsFinite
<1>4. Moves(k)
  OBVIOUS
<1>5. ASSUME T \subseteq S, left'[k] \in {left[k], left[k] + 1} PROVE Cardinality(T) <= left'[k]
  <2>1. Cardinality(T) <= Cardinality(S)
    BY <1>1, <1>5, ProcsFinite
  <2>. HIDE DEF S, T
  <2>. QED BY <1>2, <1>3, <1>5, <2>1
<1>6. ASSUME NEW x \in Procs, T \subseteq S \cup {x}, left'[k] = left[k] + 1
      PROVE  Cardinality(T) <= left'[k]
  <2>. HIDE DEF S, T
  <2>1. S \cup {x} \in SUBSET Procs
    BY <1>1
  <2>2. Cardinality(T) <= Cardinality(S \cup {x}) /\ Cardinality(S \cup {x}) \in Nat
    BY <1>6, <2>1, ProcsFinite
  <2>3. Cardinality(S \cup {x}) <= Cardinality(S) + 1
    BY <1>1, ProcsFinite
  <2>. QED BY <1>2, <1>3, <1>6, <2>2, <2>3
<1>7. ASSUME NEW p \in S, NEW x \in Procs, T \subseteq (S \ {p}) \cup {x}, left'[k] = left[k]
      PROVE  Cardinality(T) <= left'[k]
  <2>. HIDE DEF S, T
  <2>1. S \ {p} \in SUBSET Procs /\ (S \ {p}) \cup {x} \in SUBSET Procs
    BY <1>1
  <2>2. Cardinality(T) <= Cardinality((S \ {p}) \cup {x}) /\ Cardinality((S \ {p}) \cup {x}) \in Nat
    BY <1>7, <2>1, ProcsFinite
  <2>3. Cardinality((S \ {p}) \cup {x}) <= Cardinality(S \ {p}) + 1
    BY <2>1, ProcsFinite
  <2>4. Cardinality(S \ {p}) = Cardinality(S) - 1
    BY <1>1, ProcsFinite
  <2>. QED BY <1>2, <1>3, <1>7, <2>2, <2>3, <2>4
<1>. QED BY <1>4, <1>5, <1>6, <1>7 DEF Moves

\* A process that strays after a step was one before, or was current, or was not
\* dangerous.
LEMMA StraysKept ==
  ASSUME NEW k \in Keys,
         \A p \in Procs : key'[p] = k /\ Dangerous(p)' /\ ~Current(k, p)'
                             => key[p] = k /\ Dangerous(p) /\ ~Current(k, p)
  PROVE  Strays(k)' \subseteq Strays(k)
BY DEF Strays, Procs

-----------------------------------------------------------------------------
(* Clients that do not hold the spawn lock                                  *)

Busy == {"spawns", "registered"}

\* A step of a client that neither takes nor gives back the spawn lock.
Bystander(c) ==
    /\ UNCHANGED <<entry, stopped, switch, processes, reaping, detaching, left>>
    /\ at[c] \notin Busy /\ at'[c] \notin Busy /\ at' = [at EXCEPT ![c] = at'[c]]
    /\ \A d \in Clients \ {c} : want'[d] = want[d] /\ started'[d] = started[d]
    /\ at'[c] # "idle" => want'[c] \in Keys

\* A client that steps without touching entries, processes or the spawn lock
\* disturbs nothing of what is said of them.
LEMMA BystanderFacts ==
  ASSUME TypeOK, Ind, NEW c \in Clients, Bystander(c)
  PROVE  Ownership' /\ Spawning' /\ StraysPaid' /\ NothingPending'
<1>. USE DEF Ind, Facts
<1>1. \A d \in Clients : /\ at[d] \in Busy \/ at'[d] \in Busy
                            => d # c /\ at'[d] = at[d] /\ want'[d] = want[d] /\ started'[d] = started[d]
                         /\ d # c => at'[d] = at[d] /\ want'[d] = want[d]
  BY DEF Bystander, TypeOK, ClientType
<1>2. Ownership'
  <2>1. \A d \in Clients : at'[d] # "idle" => want'[d] \in Keys
    BY <1>1 DEF Bystander, Ownership
  <2>. QED BY <2>1 DEF Bystander, Ownership, Registered, processes
<1>3. Holders' = Holders
  BY <1>1 DEF Holders, Busy
<1>4. Spawning'
  BY <1>1, <1>3 DEF Spawning, Holders, Busy, Bystander, Registered, Routable, processes
<1>5. \A k \in Keys : Moves(k)
  <2>. TAKE k \in Keys
  <2>1. \A p \in Procs : key'[p] = k /\ Dangerous(p)' /\ ~Current(k, p)'
                             => key[p] = k /\ Dangerous(p) /\ ~Current(k, p)
    BY <1>1 DEF Bystander, Dangerous, Current, Routable, processes, Busy
  <2>. QED BY <2>1, StraysKept DEF Moves, Bystander
<1>6. StraysPaid'
  BY <1>5, StraysStayPaid DEF TypeOK
<1>7. NothingPending'
  BY DEF NothingPending, First, Bystander, processes, reaping
<1>. QED BY <1>2, <1>4, <1>6, <1>7

\* Processes are not forgotten, so a workspace that had one has had one ever since.
LEMMA ServedStays ==
  ASSUME \A p \in Procs : Registered(p) => Registered(p)' /\ key'[p] = key[p]
  PROVE  \A k \in Keys : Served(k) => Served(k)'
BY DEF Served

\* Sizes of sets of clients: of a subset, of one more, of one less.
LEMMA ClientsFinite ==
  ASSUME NEW S \in SUBSET Clients
  PROVE  /\ IsFiniteSet(S) /\ Cardinality(S) \in Nat
         /\ \A T \in SUBSET S : Cardinality(T) <= Cardinality(S)
         /\ \A c \in Clients : Cardinality(S \cup {c}) <= Cardinality(S) + 1
         /\ \A c \in S : Cardinality(S \ {c}) = Cardinality(S) - 1
<1>1. IsFiniteSet(S)
  BY FS_Subset, ClientsAssumption DEF ClientsAssumption
<1>2. Cardinality(S) \in Nat
  BY <1>1, FS_CardinalityType
<1>3. \A T \in SUBSET S : Cardinality(T) <= Cardinality(S)
  BY <1>1, FS_Subset
<1>4. \A c \in Clients : Cardinality(S \cup {c}) <= Cardinality(S) + 1
  <2>. TAKE c \in Clients
  <2>1. CASE c \in S
    <3>1. S \cup {c} = S
      BY <2>1
    <3>2. Cardinality(S) <= Cardinality(S) + 1
      BY ONLY <1>2
    <3>. QED BY ONLY <3>1, <3>2
  <2>2. CASE c \notin S
    <3>1. Cardinality(S \cup {c}) = Cardinality(S) + 1
      BY <1>1, <2>2, FS_AddElement
    <3>. QED BY ONLY <1>2, <3>1
  <2>. QED BY <2>1, <2>2
<1>5. \A c \in S : Cardinality(S \ {c}) = Cardinality(S) - 1
  BY <1>1, FS_RemoveElement
<1>. QED BY <1>1, <1>2, <1>3, <1>4, <1>5

\* Nobody new is bound, and the count is not lowered.
LEMMA CountKept ==
  ASSUME RegistryType, Counted, NEW k \in Keys, First(k)' => First(k),
         Bound(k)' \subseteq Bound(k), First(k)' => count'[k] = count[k] \/ count'[k] = count[k] + 1
  PROVE  First(k)' => count'[k] >= Cardinality(Bound(k)')
<1>. SUFFICES ASSUME First(k)' PROVE count'[k] >= Cardinality(Bound(k)')
  OBVIOUS
<1>. DEFINE S == Bound(k)
            T == Bound(k)'
<1>1. S \in SUBSET Clients /\ T \in SUBSET S
  BY DEF Bound, Users
<1>2. Cardinality(T) <= Cardinality(S) /\ Cardinality(S) \in Nat /\ Cardinality(T) \in Nat
  BY <1>1, ClientsFinite
<1>3. count[k] \in Nat /\ count[k] >= Cardinality(S)
  BY DEF RegistryType, Counted
<1>4. count'[k] = count[k] \/ count'[k] = count[k] + 1
  OBVIOUS
<1>5. count'[k] >= Cardinality(T)
  <2>. HIDE DEF S, T
  <2>. QED BY <1>2, <1>3, <1>4
<1>. QED BY <1>5

\* Clients that come, wait, give up, use the process once or count themselves.
LEMMA QuietSteps ==
  ASSUME Ind, NEW c \in Clients,
         \/ Ask(c) \/ Recheck(c) \/ Refuse(c) \/ HangUp(c) \/ UseOnce(c) \/ Traffic(c)
         \/ ConnInc(c)
  PROVE  Bystander(c) /\ UseNeedsProcess' /\ Counted'
<1>. USE DEF Ind, Facts
<1>0. at[c] # "idle" => want[c] \in Keys
  BY DEF Ownership
<1>1. at \in [Clients -> {"idle", "waits", "spawns", "registered", "holds", "counted", "bound"}]
  BY DEF TypeOK, ClientType
<1>2. want \in [Clients -> Keys \cup {NoKey}] /\ started \in [Clients -> Procs \cup {None}]
  BY DEF TypeOK, ClientType
<1>3. \A k \in Keys : Routable(k) => Served(k)
  BY DEF Routable, Served, Ownership, TypeOK, RegistryType
<1>4. /\ UNCHANGED <<entry, stopped, switch, processes, reaping, detaching, left>>
      /\ at[c] \notin Busy
      /\ \/ UNCHANGED clients
         \/ /\ at' = [at EXCEPT ![c] = "idle"] /\ want' = [want EXCEPT ![c] = NoKey]
            /\ started' = [started EXCEPT ![c] = None]
         \/ \E k \in Keys : /\ Routable(k) \/ at'[c] = "waits"
                            /\ at'[c] \in {"waits", "holds"} /\ at' = [at EXCEPT ![c] = at'[c]]
                            /\ want' = [want EXCEPT ![c] = k] /\ started' = started
         \/ /\ at[c] = "holds" /\ at' = [at EXCEPT ![c] = "counted"]
            /\ UNCHANGED <<want, started>>
      /\ at[c] = "idle" \/ at[c] # "idle"
  <2>1. CASE Ask(c)
    BY <2>1, <1>1 DEF Ask, Reuse, Goes, registry, Busy
  <2>2. CASE Recheck(c)
    BY <2>2, <1>0, <1>1 DEF Recheck, Reuse, Goes, Busy
  <2>3. CASE Refuse(c) \/ HangUp(c) \/ UseOnce(c)
    BY <2>3 DEF Refuse, HangUp, UseOnce, GivesUp, Goes, registry, Busy
  <2>4. CASE Traffic(c) \/ ConnInc(c)
    BY <2>4 DEF Traffic, ConnInc, Goes, Busy
  <2>. QED BY <2>1, <2>2, <2>3, <2>4
<1>5. Bystander(c)
  BY <1>0, <1>1, <1>2, <1>4 DEF Bystander, Busy, clients
<1>6. \A k \in Keys : Served(k) => Served(k)'
  BY <1>5, ServedStays DEF Bystander, processes, Registered
<1>7. UseNeedsProcess'
  <2>1. \A d \in Clients : at'[d] \in {"holds", "counted", "bound"} => want'[d] \in Keys /\ Served(want'[d])
    BY <1>0, <1>1, <1>2, <1>3, <1>4 DEF UseNeedsProcess, clients, Ownership
  <2>2. \A d \in Clients : at'[d] \in {"holds", "counted", "bound"} => Served(want[d])'
    BY <1>5, <2>1 DEF Bystander, processes, Served, Registered
  <2>3. chosen' = chosen /\ reaper' = reaper /\ detach' = detach /\ detached' = detached /\ left' = left
    BY <1>5 DEF Bystander, reaping, detaching
  <2>4. chosen \subseteq Keys
    BY DEF TypeOK, ReaperType
  <2>. QED BY <1>6, <2>2, <2>3, <2>4 DEF UseNeedsProcess
<1>8. Counted'
  <2>1. \A k \in Keys : Bound(k)' \subseteq Bound(k)
    BY <1>1, <1>2, <1>4 DEF Bound, Users, clients
  <2>2. \A k \in Keys : First(k)' => First(k)
    BY <1>5 DEF Bystander, First, processes
  <2>3. \A k \in Keys : count'[k] = count[k] \/ count'[k] = count[k] + 1
    <3>1. UNCHANGED count \/ Count(want[c])
      BY DEF Ask, Recheck, Reuse, Refuse, HangUp, UseOnce, Traffic, ConnInc, registry
    <3>. QED BY <3>1 DEF Count, TypeOK, RegistryType
  <2>. QED BY <2>1, <2>2, <2>3, CountKept DEF Counted, TypeOK
<1>. QED BY <1>5, <1>7, <1>8

\* A client binds and counts itself, or leaves and uncounts itself.
LEMMA BindingSteps ==
  ASSUME Ind, NEW c \in Clients, OpenConnection(c) \/ Leave(c)
  PROVE  Bystander(c) /\ UseNeedsProcess' /\ Counted'
<1>. USE DEF Ind, Facts
<1>0. at[c] \in {"holds", "counted", "bound"} /\ want[c] \in Keys /\ Served(want[c])
  BY DEF OpenConnection, Leave, Ownership, UseNeedsProcess
<1>1. at \in [Clients -> {"idle", "waits", "spawns", "registered", "holds", "counted", "bound"}]
  BY DEF TypeOK, ClientType
<1>2. want \in [Clients -> Keys \cup {NoKey}] /\ started \in [Clients -> Procs \cup {None}]
  BY DEF TypeOK, ClientType
<1>3. Bystander(c)
  BY <1>0, <1>1, <1>2 DEF OpenConnection, Leave, Bystander, Busy, GivesUp, Goes
<1>4. UseNeedsProcess'
  <2>1. \A k \in Keys : Served(k) => Served(k)'
    BY <1>3, ServedStays DEF Bystander, processes, Registered
  <2>2. \A d \in Clients : at'[d] \in {"holds", "counted", "bound"} =>
           want'[d] = want[d] /\ at[d] \in {"holds", "counted", "bound"}
    BY <1>0, <1>1, <1>2 DEF OpenConnection, Leave, GivesUp, Goes
  <2>3. \A d \in Clients : at'[d] \in {"holds", "counted", "bound"} => want'[d] \in Keys /\ Served(want'[d])
    BY <2>2 DEF UseNeedsProcess, Ownership
  <2>4. \A d \in Clients : at'[d] \in {"holds", "counted", "bound"} => Served(want[d])'
    BY <1>3, <2>3 DEF Bystander, processes, Served, Registered
  <2>5. chosen' = chosen /\ reaper' = reaper /\ detach' = detach /\ detached' = detached /\ left' = left
    BY <1>3 DEF Bystander, reaping, detaching
  <2>6. chosen \subseteq Keys
    BY DEF TypeOK, ReaperType
  <2>. QED BY <2>1, <2>4, <2>5, <2>6 DEF UseNeedsProcess
<1>5. Counted'
  <2>. SUFFICES ASSUME NEW k \in Keys, First(k)' PROVE count'[k] >= Cardinality(Bound(k)')
    BY DEF Counted
  <2>1. First(k)
    BY <1>3 DEF Bystander, First, processes
  <2>2. CASE want[c] # k
    <3>1. count'[k] = count[k]
      BY <2>2 DEF OpenConnection, Leave, Count, Uncount, TypeOK, RegistryType
    <3>2. Bound(k)' \subseteq Bound(k)
      BY <2>2, <1>1, <1>2 DEF OpenConnection, Leave, GivesUp, Goes, Bound, Users
    <3>. QED BY <2>1, <3>1, <3>2, CountKept DEF TypeOK
  <2>. DEFINE S == Bound(k)
              T == Bound(k)'
  <2>3. S \in SUBSET Clients /\ T \in SUBSET Clients
    BY DEF Bound, Users
  <2>4. Cardinality(S) \in Nat /\ Cardinality(T) \in Nat
    BY <2>3, ClientsFinite
  <2>5. count[k] \in Nat /\ count[k] >= Cardinality(S)
    BY <2>1 DEF Counted, TypeOK, RegistryType
  <2>6. ASSUME want[c] = k, OpenConnection(c) PROVE count'[k] >= Cardinality(T)
    <3>1. T = S \cup {c} /\ count'[k] = count[k] + 1
      BY <2>6, <1>1, <1>2 DEF OpenConnection, Goes, Bound, Users, Count, TypeOK, RegistryType
    <3>2. Cardinality(T) <= Cardinality(S) + 1
      BY <2>3, <3>1, ClientsFinite
    <3>. HIDE DEF S, T
    <3>. QED BY <2>4, <2>5, <3>1, <3>2
  <2>7. ASSUME want[c] = k, Leave(c) PROVE count'[k] >= Cardinality(T)
    <3>1. /\ c \in S /\ T = S \ {c}
          /\ count'[k] = IF count[k] > 0 THEN count[k] - 1 ELSE 0
      BY <2>7, <1>1, <1>2 DEF Leave, GivesUp, Goes, Bound, Users, Uncount, TypeOK, RegistryType
    <3>2. Cardinality(T) = Cardinality(S) - 1
      BY <2>3, <3>1, ClientsFinite
    <3>. HIDE DEF S, T
    <3>. QED BY <2>4, <2>5, <3>1, <3>2
  <2>. QED BY <2>2, <2>6, <2>7
<1>. QED BY <1>3, <1>4, <1>5

-----------------------------------------------------------------------------
(* The spawn lock and who holds it                                          *)

Using == {"holds", "counted", "bound"}

\* Who uses a process has one as long as processes are only ever added.
LEMMA UseStays ==
  ASSUME Ind, \A p \in Procs : Registered(p) => Registered(p)' /\ key'[p] = key[p],
         \A d \in Clients : at'[d] \in Using => \/ at[d] \in Using /\ want'[d] = want[d]
                                                \/ Served(want[d])',
         UNCHANGED <<reaping, detaching>>, \A k \in Keys : left[k] > 0 => left'[k] > 0
  PROVE  UseNeedsProcess' /\ RoomLeft'
<1>. USE DEF Ind, Facts
<1>1. \A k \in Keys : Served(k) => Served(k)'
  BY ServedStays
<1>2. \A d \in Clients : at'[d] \in Using => Served(want[d])'
  <2>. SUFFICES ASSUME NEW d \in Clients, at'[d] \in Using, at[d] \in Using, want'[d] = want[d]
                PROVE  Served(want[d])'
    OBVIOUS
  <2>1. Served(want[d])
    BY DEF UseNeedsProcess, Using
  <2>. QED BY <2>1 DEF Served
<1>3. chosen \subseteq Keys
  BY DEF TypeOK, ReaperType
<1>4. UseNeedsProcess'
  BY <1>1, <1>2, <1>3 DEF UseNeedsProcess, Using, reaping, detaching
<1>5. RoomLeft'
  BY DEF RoomLeft, Listed, reaping
<1>. QED BY <1>4, <1>5

\* A workspace is with its first process only if it was before.
LEMMA FirstStays ==
  ASSUME NEW k \in Keys, entry'[k] = None \/ entry'[k] = entry[k], left'[k] = left[k],
         \A p \in Procs : life[p] # "none" => life'[p] # "none" /\ key'[p] = key[p]
  PROVE  First(k)' => First(k)
BY DEF First

\* The process that a client starts is the one the lock stands for: no stray.
LEMMA StartSteps == ASSUME Ind, NEW c \in Clients, StartProcess(c) PROVE Facts'
<1>. USE DEF Ind, Facts
<1>1. PICK p \in Procs : /\ life[p] = "none" /\ life' = [life EXCEPT ![p] = "starting"]
                         /\ key' = [key EXCEPT ![p] = want[c]]
                         /\ started' = [started EXCEPT ![c] = p]
  BY DEF StartProcess
<1>2. /\ at[c] = "waits" /\ Holders = {} /\ ~Routable(want[c]) /\ want[c] \in Keys
      /\ at' = [at EXCEPT ![c] = "spawns"]
      /\ UNCHANGED <<registry, guard, thrown, want, reaping, detaching, left>>
  BY DEF StartProcess, MustSpawn, LockFree, Goes, Holders, Ownership
<1>3. /\ life \in [Procs -> {"none", "starting", "up", "dead"}] /\ key \in [Procs -> Keys \cup {NoKey}]
      /\ at \in [Clients -> {"idle", "waits", "spawns", "registered", "holds", "counted", "bound"}]
      /\ started \in [Clients -> Procs \cup {None}] /\ entry \in [Keys -> Procs \cup {None}]
  BY DEF TypeOK, ProcessType, ClientType, RegistryType
<1>4. /\ guard[p] = "none" /\ ~Registered(p) /\ \A k \in Keys : entry[k] # None => entry[k] # p
      /\ \A q \in Procs : life[q] # "starting"
  BY <1>1, <1>2 DEF Ownership, Registered, Spawning, Holders
<1>5. \A q \in Procs : q # p => life'[q] = life[q] /\ key'[q] = key[q]
  BY <1>1, <1>3
<1>6. \A d \in Clients : d # c => at'[d] = at[d] /\ started'[d] = started[d] /\ d \notin Holders
  BY <1>1, <1>2, <1>3
<1>7. life'[p] = "starting" /\ key'[p] = want[c] /\ at'[c] = "spawns" /\ started'[c] = p
  BY <1>1, <1>2, <1>3
<1>8. Holders' = {c}
  BY <1>6, <1>7 DEF Holders
<1>9. Ownership'
  BY <1>2, <1>3, <1>4, <1>5, <1>6, <1>7 DEF Ownership, Registered, registry
<1>10. Spawning'
  BY <1>2, <1>4, <1>5, <1>7, <1>8 DEF Spawning, Routable, registry
<1>11. StraysPaid'
  <2>1. ASSUME NEW k \in Keys PROVE Moves(k)
    <3>1. \A q \in Procs : key'[q] = k /\ Dangerous(q)' /\ ~Current(k, q)'
                              => key[q] = k /\ Dangerous(q) /\ ~Current(k, q)
      BY <1>2, <1>5, <1>6, <1>7 DEF Dangerous, Current, Routable, registry, Holders
    <3>. QED BY <3>1, <1>2, StraysKept DEF Moves
  <2>. QED BY <2>1, StraysStayPaid DEF TypeOK
<1>12. \A k \in Keys : First(k)' => First(k)
  BY <1>1, <1>2, <1>5, FirstStays DEF registry
<1>13. UseNeedsProcess' /\ RoomLeft'
  <2>1. \A q \in Procs : Registered(q) => Registered(q)' /\ key'[q] = key[q]
    BY <1>4, <1>5 DEF Registered
  <2>2. \A d \in Clients : at'[d] \in Using => at[d] \in Using /\ want'[d] = want[d]
    BY <1>2, <1>6, <1>7 DEF Using
  <2>. QED BY <1>2, <2>1, <2>2, UseStays
<1>14. NothingPending'
  BY <1>2, <1>4, <1>5, <1>12 DEF NothingPending, reaping
<1>15. Counted'
  <2>1. \A k \in Keys : Bound(k)' \subseteq Bound(k)
    BY <1>2, <1>6, <1>7 DEF Bound, Users
  <2>. QED BY <1>2, <1>12, <2>1, CountKept DEF Counted, TypeOK, registry
<1>. QED BY <1>9, <1>10, <1>11, <1>13, <1>14, <1>15

\* What the holder of the lock knows of the process it starts.
LEMMA HolderKnows ==
  ASSUME Ind, NEW c \in Holders
  PROVE  /\ c \in Clients /\ Holders = {c} /\ want[c] \in Keys /\ started[c] \in Procs
         /\ key[started[c]] = want[c] /\ guard[started[c]] = "none"
         /\ at[c] = "spawns" => life[started[c]] = "starting" /\ ~Routable(want[c])
         /\ at[c] = "registered" => Registered(started[c])
         /\ \A k \in Keys : at[c] = "spawns" /\ entry[k] # None => entry[k] # started[c]
         /\ \A q \in Procs : life[q] = "starting" => q = started[c]
BY DEF Ind, Facts, Spawning, Ownership, Holders, Registered

\* The process does not report, or cannot be understood.
LEMMA FailedSpawnSteps ==
  ASSUME Ind, NEW c \in Clients, NotReady(c) \/ LeaveProcess(c)
  PROVE  Facts'
<1>. USE DEF Ind, Facts
<1>. DEFINE p == started[c]
            k == want[c]
<1>1. c \in Holders /\ at[c] = "spawns"
  BY DEF NotReady, LeaveProcess, Holders
<1>2. /\ Holders = {c} /\ k \in Keys /\ p \in Procs /\ key[p] = k /\ guard[p] = "none"
      /\ life[p] = "starting" /\ ~Routable(k)
      /\ \A j \in Keys : entry[j] # None => entry[j] # p
      /\ \A q \in Procs : life[q] = "starting" => q = p
  BY <1>1, HolderKnows
<1>. HIDE DEF p, k
<1>3. /\ life \in [Procs -> {"none", "starting", "up", "dead"}]
      /\ at \in [Clients -> {"idle", "waits", "spawns", "registered", "holds", "counted", "bound"}]
      /\ want \in [Clients -> Keys \cup {NoKey}]
      /\ started \in [Clients -> Procs \cup {None}] /\ entry \in [Keys -> Procs \cup {None}]
      /\ left \in [Keys -> 0..MaxLeft]
  BY DEF TypeOK, ProcessType, ClientType, RegistryType, DetachType
<1>4. /\ at'[c] = "idle" /\ \A d \in Clients : d # c => at'[d] = at[d] /\ want'[d] = want[d]
                                                     /\ started'[d] = started[d]
      /\ UNCHANGED <<registry, key, guard, thrown, reaping, detaching>>
  BY <1>3 DEF NotReady, LeaveProcess, GivesUp, Goes
<1>5. \A q \in Procs : q # p => life'[q] = life[q]
  BY <1>3 DEF NotReady, LeaveProcess, p
<1>6. life'[p] \in {"up", "dead"}
  BY <1>2, <1>3 DEF NotReady, LeaveProcess, p
<1>7. \A d \in Clients : d # c => at[d] \notin Busy
  BY <1>2 DEF Holders, Busy
<1>8. Ownership'
  <2>1. \A j \in Keys : entry'[j] # None => key'[entry[j]] = j /\ Registered(entry[j])'
    BY <1>2, <1>3, <1>4, <1>5 DEF Ownership, Registered, registry
  <2>2. \A q \in Procs : /\ life'[q] # "none" => key'[q] \in Keys
                         /\ guard'[q] # "none" => Registered(q)'
                         /\ guard'[q] \in {"killed", "forgot", "unswitched"} => life'[q] = "dead"
    BY <1>2, <1>4, <1>5, <1>6 DEF Ownership, Registered
  <2>3. \A d \in Clients : at'[d] # "idle" => want'[d] \in Keys
    BY <1>4 DEF Ownership
  <2>4. stopped' \subseteq {j \in Keys : entry'[j] # None}
    BY <1>4 DEF Ownership, registry
  <2>5. entry' = entry
    BY <1>4 DEF registry
  <2>. QED BY <2>1, <2>2, <2>3, <2>4, <2>5 DEF Ownership, Registered
<1>9. Spawning'
  <2>1. Holders' = {}
    BY <1>4, <1>7 DEF Holders, Busy
  <2>2. \A q \in Procs : life'[q] # "starting"
    BY <1>2, <1>5, <1>6
  <2>. QED BY <2>1, <2>2 DEF Spawning
<1>10. ASSUME NEW j \in Keys, NEW q \in Procs, q # p, key'[q] = j, Dangerous(q)', ~Current(j, q)'
       PROVE  key[q] = j /\ Dangerous(q) /\ ~Current(j, q)
  BY <1>2, <1>4, <1>5, <1>7, <1>10 DEF Dangerous, Current, Routable, registry, Busy, p
<1>11. \/ life'[p] = "dead" /\ UNCHANGED left
       \/ left' = [left EXCEPT ![k] = @ + 1]
  BY <1>2, <1>3 DEF NotReady, LeaveProcess, p, k
<1>12. StraysPaid'
  <2>1. ASSUME NEW j \in Keys PROVE Moves(j)
    <3>1. Strays(j)' \subseteq Strays(j) \cup {p}
      BY <1>10 DEF Strays, Procs
    <3>2. j # k => p \notin Strays(j)'
      BY <1>2, <1>4 DEF Strays
    <3>3. life'[p] = "dead" => p \notin Strays(j)'
      BY <1>2, <1>4, <1>7 DEF Strays, Dangerous, Busy
    <3>4. CASE j = k /\ left' = [left EXCEPT ![k] = @ + 1]
      BY <1>2, <1>3, <3>1, <3>4 DEF Moves
    <3>5. CASE p \notin Strays(j)' /\ left'[j] = left[j]
      BY <3>1, <3>5 DEF Moves
    <3>. QED BY <1>3, <1>11, <3>2, <3>3, <3>4, <3>5
  <2>. QED BY <2>1, StraysStayPaid DEF TypeOK
<1>13. \A j \in Keys : First(j)' => First(j) /\ j \in Keys
  <2>. TAKE j \in Keys
  <2>1. CASE left'[j] = left[j]
    BY <1>2, <1>4, <1>5, <1>6, <2>1, FirstStays DEF registry
  <2>2. CASE left'[j] = left[j] + 1
    BY <1>3, <2>2 DEF First
  <2>. QED BY <1>3, <1>11, <2>1, <2>2
<1>14. UseNeedsProcess' /\ RoomLeft'
  <2>1. \A q \in Procs : Registered(q) => Registered(q)' /\ key'[q] = key[q]
    BY <1>4, <1>5, <1>6 DEF Registered
  <2>2. \A d \in Clients : at'[d] \in Using => at[d] \in Using /\ want'[d] = want[d]
    BY <1>4 DEF Using
  <2>3. \A j \in Keys : left[j] > 0 => left'[j] > 0
    BY <1>3, <1>11
  <2>. QED BY <1>4, <2>1, <2>2, <2>3, UseStays
<1>15. NothingPending'
  BY <1>4, <1>13 DEF NothingPending, reaping
<1>16. Counted'
  <2>1. \A j \in Keys : Bound(j)' \subseteq Bound(j)
    BY <1>4 DEF Bound, Users
  <2>. QED BY <1>4, <1>13, <2>1, CountKept DEF Counted, TypeOK, registry
<1>. QED BY <1>8, <1>9, <1>12, <1>14, <1>15, <1>16

\* The new process takes the place of whatever has its id.  If it is the first of
\* its workspace, then nobody is bound there and nothing is about to be forgotten.
LEMMA RegisterSteps == ASSUME Ind, NEW c \in Clients, Register(c) PROVE Facts'
<1>. USE DEF Ind, Facts
<1>1. c \in Holders /\ at[c] = "spawns"
  BY DEF Register, Holders
<1>0. PICK k \in Keys, p \in Procs : k = want[c] /\ p = started[c]
  BY <1>1, HolderKnows
<1>2. /\ Holders = {c} /\ k \in Keys /\ p \in Procs /\ key[p] = k /\ guard[p] = "none"
      /\ life[p] = "starting" /\ ~Routable(k)
      /\ \A j \in Keys : entry[j] # None => entry[j] # p
      /\ \A q \in Procs : life[q] = "starting" => q = p
  BY <1>0, <1>1, HolderKnows
<1>3. /\ life \in [Procs -> {"none", "starting", "up", "dead"}]
      /\ at \in [Clients -> {"idle", "waits", "spawns", "registered", "holds", "counted", "bound"}]
      /\ entry \in [Keys -> Procs \cup {None}]
  BY DEF TypeOK, ProcessType, ClientType, RegistryType
<1>4. /\ at'[c] = "registered" /\ \A d \in Clients : d # c => at'[d] = at[d]
      /\ life'[p] = "up" /\ \A q \in Procs : q # p => life'[q] = life[q]
      /\ entry'[k] = p /\ \A j \in Keys : j # k => entry'[j] = entry[j]
      /\ stopped' = stopped \ {k}
      /\ UNCHANGED <<switch, count, key, guard, thrown, want, started, reaping, detaching, left>>
  BY <1>0, <1>2, <1>3 DEF Register, Goes
<1>5. started[c] = p /\ want[c] = k
  BY <1>0
<1>6. \A d \in Clients : d # c => at[d] \notin Busy
  BY <1>2 DEF Holders, Busy
<1>7. p # None
  BY <1>2 DEF Procs, None
<1>8. Ownership'
  <2>1. \A j \in Keys : entry'[j] # None => key'[entry'[j]] = j /\ life'[entry'[j]] \in {"up", "dead"}
    BY <1>2, <1>3, <1>4 DEF Ownership, Registered
  <2>2. \A q \in Procs : /\ life'[q] # "none" => key'[q] \in Keys
                         /\ guard'[q] # "none" => Registered(q)'
                         /\ guard'[q] \in {"killed", "forgot", "unswitched"} => life'[q] = "dead"
    BY <1>2, <1>4 DEF Ownership, Registered
  <2>3. \A d \in Clients : at'[d] # "idle" => want'[d] \in Keys
    BY <1>2, <1>4, <1>5 DEF Ownership
  <2>4. stopped' \subseteq {j \in Keys : entry'[j] # None}
    BY <1>4, <1>7 DEF Ownership
  <2>. QED BY <2>1, <2>2, <2>3, <2>4 DEF Ownership, Registered
<1>9. Spawning'
  <2>1. Holders' = {c}
    BY <1>4, <1>6 DEF Holders, Busy
  <2>2. \A q \in Procs : life'[q] # "starting"
    BY <1>2, <1>4
  <2>. QED BY <1>2, <1>4, <1>5, <2>1, <2>2 DEF Spawning, Registered
<1>10. StraysPaid'
  <2>1. ASSUME NEW j \in Keys PROVE Moves(j)
    <3>1. ASSUME NEW q \in Procs, key'[q] = j, Dangerous(q)', ~Current(j, q)'
          PROVE  key[q] = j /\ Dangerous(q) /\ ~Current(j, q)
      <4>1. q # p
        BY <1>2, <1>4, <1>7, <3>1 DEF Current, Routable
      <4>2. Dangerous(q)
        BY <1>2, <1>4, <1>5, <1>6, <3>1, <4>1 DEF Dangerous, Busy
      <4>3. ~Current(j, q)
        BY <1>2, <1>4, <1>5, <1>6, <3>1, <4>1 DEF Current, Routable, Busy
      <4>. QED BY <1>4, <3>1, <4>2, <4>3
    <3>. QED BY <1>4, <3>1, StraysKept DEF Moves
  <2>. QED BY <2>1, StraysStayPaid DEF TypeOK
<1>11. UseNeedsProcess' /\ RoomLeft'
  <2>1. \A q \in Procs : Registered(q) => Registered(q)' /\ key'[q] = key[q]
    BY <1>4 DEF Registered
  <2>2. \A d \in Clients : at'[d] \in Using => at[d] \in Using /\ want'[d] = want[d]
    BY <1>4 DEF Using
  <2>3. \A j \in Keys : left[j] > 0 => left'[j] > 0
    BY <1>4
  <2>. QED BY <1>4, <2>1, <2>2, <2>3, UseStays
<1>12. \A j \in Keys : j # k /\ First(j)' => First(j)
  BY <1>2, <1>4 DEF First
<1>13. First(k)' => ~Served(k)
  BY <1>2, <1>4 DEF First, Served, Registered
<1>14. NothingPending'
  <2>. SUFFICES ASSUME NEW j \in Keys, First(j)'
                PROVE  /\ \A q \in Procs : key[q] = j => guard[q] \notin {"forgot", "unswitched"}
                       /\ reaper \in {"forgot", "unswitched"} => j \notin chosen
    BY <1>4 DEF NothingPending, reaping
  <2>1. CASE j # k
    BY <1>12, <2>1 DEF NothingPending
  <2>2. CASE j = k
    BY <1>13, <2>2 DEF UseNeedsProcess, Ownership, Served
  <2>. QED BY <2>1, <2>2
<1>15. Counted'
  <2>1. \A j \in Keys : Bound(j)' \subseteq Bound(j)
    BY <1>4 DEF Bound, Users
  <2>2. ASSUME NEW j \in Keys, j # k PROVE First(j)' => count'[j] >= Cardinality(Bound(j)')
    BY <1>4, <1>12, <2>1, <2>2, CountKept DEF TypeOK
  <2>3. ASSUME First(k)' PROVE count'[k] >= Cardinality(Bound(k)')
    <3>1. Bound(k) = {}
      BY <1>13, <2>3 DEF UseNeedsProcess, Bound, Users
    <3>2. Bound(k)' = {}
      BY <1>2, <2>1, <3>1
    <3>3. Cardinality(Bound(k)') = 0
      BY <3>2, FS_EmptySet
    <3>. QED BY <1>2, <1>4, <3>3 DEF TypeOK, RegistryType
  <2>. QED BY <2>2, <2>3 DEF Counted
<1>. QED BY <1>8, <1>9, <1>10, <1>11, <1>14, <1>15

\* Whoever attaches its switch hands its process to the guard, which waits for it
\* from then on: it is current, or a stray, as before.
LEMMA AttachSteps == ASSUME Ind, NEW c \in Clients, AttachShutdown(c) PROVE Facts'
<1>. USE DEF Ind, Facts
<1>1. c \in Holders /\ at[c] = "registered"
  BY DEF AttachShutdown, Holders
<1>0. PICK k \in Keys, p \in Procs : k = want[c] /\ p = started[c]
  BY <1>1, HolderKnows
<1>2. /\ Holders = {c} /\ k \in Keys /\ p \in Procs /\ key[p] = k /\ guard[p] = "none"
      /\ Registered(p) /\ \A q \in Procs : life[q] = "starting" => q = p
  BY <1>0, <1>1, HolderKnows
<1>3. /\ guard \in [Procs -> {"none", "waits", "killed", "forgot", "unswitched", "gone"}]
      /\ at \in [Clients -> {"idle", "waits", "spawns", "registered", "holds", "counted", "bound"}]
      /\ started \in [Clients -> Procs \cup {None}]
  BY DEF TypeOK, ProcessType, ClientType
<1>4. /\ at'[c] = "holds" /\ \A d \in Clients : d # c => at'[d] = at[d] /\ started'[d] = started[d]
      /\ guard'[p] = "waits" /\ \A q \in Procs : q # p => guard'[q] = guard[q]
      /\ UNCHANGED <<entry, stopped, age, count, life, key, thrown, want, reaping, detaching, left>>
  BY <1>0, <1>2, <1>3 DEF AttachShutdown, Goes
<1>5. started[c] = p /\ want[c] = k
  BY <1>0
<1>6. \A d \in Clients : d # c => at[d] \notin Busy
  BY <1>2 DEF Holders, Busy
<1>7. Ownership'
  <2>1. \A q \in Procs : /\ life'[q] # "none" => key'[q] \in Keys
                         /\ guard'[q] # "none" => Registered(q)'
                         /\ guard'[q] \in {"killed", "forgot", "unswitched"} => life'[q] = "dead"
    BY <1>2, <1>4 DEF Ownership, Registered
  <2>2. \A d \in Clients : at'[d] # "idle" => want'[d] \in Keys
    BY <1>2, <1>4, <1>5 DEF Ownership
  <2>. QED BY <1>4, <2>1, <2>2 DEF Ownership, Registered
<1>8. Spawning'
  <2>1. Holders' = {}
    BY <1>4, <1>6 DEF Holders, Busy
  <2>2. \A q \in Procs : life'[q] # "starting"
    BY <1>2, <1>4 DEF Registered
  <2>. QED BY <2>1, <2>2 DEF Spawning
<1>9. StraysPaid'
  <2>1. ASSUME NEW j \in Keys PROVE Moves(j)
    <3>1. \A q \in Procs : key'[q] = j /\ Dangerous(q)' /\ ~Current(j, q)'
                              => key[q] = j /\ Dangerous(q) /\ ~Current(j, q)
      BY <1>1, <1>2, <1>4, <1>5, <1>6 DEF Dangerous, Current, Routable, Busy
    <3>. QED BY <1>4, <3>1, StraysKept DEF Moves
  <2>. QED BY <2>1, StraysStayPaid DEF TypeOK
<1>10. \A j \in Keys : First(j)' => First(j)
  BY <1>4 DEF First
<1>11. UseNeedsProcess' /\ RoomLeft'
  <2>1. \A q \in Procs : Registered(q) => Registered(q)' /\ key'[q] = key[q]
    BY <1>4 DEF Registered
  <2>2. \A d \in Clients : at'[d] \in Using => \/ at[d] \in Using /\ want'[d] = want[d]
                                               \/ Served(want[d])'
    BY <1>2, <1>4, <1>5, <2>1 DEF Using, Served
  <2>. QED BY <1>4, <2>1, <2>2, UseStays
<1>12. NothingPending'
  BY <1>2, <1>4, <1>10 DEF NothingPending, reaping
<1>13. Counted'
  <2>1. \A j \in Keys : Bound(j)' \subseteq Bound(j)
    BY <1>4 DEF Bound, Users
  <2>. QED BY <1>4, <1>10, <2>1, CountKept DEF Counted, TypeOK
<1>. QED BY <1>7, <1>8, <1>9, <1>11, <1>12, <1>13

-----------------------------------------------------------------------------
(* Processes, guards, detaches and the clock                                *)

\* What a step does that no client takes part in: no process is started, none is
\* made current.
Backstage ==
    /\ UNCHANGED <<key, clients>>
    /\ \A q \in Procs : /\ life'[q] = life[q] \/ (life[q] = "up" /\ life'[q] = "dead")
                        /\ guard'[q] = guard[q] \/ guard[q] # "none"
    /\ \A k \in Keys : entry'[k] \in {entry[k], None} /\ (Routable(k)' => Routable(k))
    /\ stopped' \subseteq {k \in Keys : entry'[k] # None}
    /\ \A q \in Procs : guard'[q] \in {"killed", "forgot", "unswitched"} => life'[q] = "dead"

\* What goes on in guards, reaper and detach without touching stages or marks leaves
\* ownership, the spawn lock and the processes that serve a workspace alone.
LEMMA BackstageFacts ==
  ASSUME Ind, Backstage
  PROVE  /\ Ownership' /\ Spawning' /\ \A k \in Keys : Served(k) => Served(k)'
         /\ \A k \in Keys : left'[k] = left[k] /\ First(k)' => First(k)
         /\ \A c \in Clients : at'[c] \in Using => Served(want[c])'
<1>. USE DEF Ind, Facts
<1>1. \A q \in Procs : Registered(q) <=> Registered(q)'
  BY DEF Backstage, Registered
<1>2. Ownership'
  <2>1. \A k \in Keys : entry'[k] # None => key'[entry'[k]] = k /\ life'[entry'[k]] \in {"up", "dead"}
    <3>. SUFFICES ASSUME NEW k \in Keys, entry'[k] # None
                  PROVE  key'[entry'[k]] = k /\ life'[entry'[k]] \in {"up", "dead"}
      OBVIOUS
    <3>1. entry'[k] = entry[k] /\ entry[k] \in Procs
      BY DEF Backstage, TypeOK, RegistryType
    <3>2. key[entry[k]] = k /\ Registered(entry[k])
      BY <3>1 DEF Ownership
    <3>. QED BY <1>1, <3>1, <3>2 DEF Backstage, Registered
  <2>2. \A q \in Procs : /\ life'[q] # "none" => key'[q] \in Keys
                         /\ guard'[q] # "none" => life'[q] \in {"up", "dead"}
    BY DEF Backstage, Ownership, Registered
  <2>3. \A c \in Clients : at'[c] # "idle" => want'[c] \in Keys
    BY DEF Backstage, Ownership, clients
  <2>. QED BY <2>1, <2>2, <2>3 DEF Ownership, Registered, Backstage
<1>3. Holders' = Holders
  BY DEF Holders, Backstage, clients
<1>4. Spawning'
  <2>1. \A c \in Holders : /\ life'[started[c]] = "starting" <=> life[started[c]] = "starting"
                           /\ guard'[started[c]] = "none"
    BY DEF Spawning, Backstage
  <2>2. \A c \in Holders : at[c] = "registered" => Registered(started[c])'
    BY <1>1 DEF Spawning, Backstage, clients, Registered
  <2>3. \A c \in Holders : at[c] = "spawns" => ~Routable(want[c])'
    BY DEF Spawning, Backstage, Ownership, Holders, Routable, clients
  <2>4. \A q \in Procs : life'[q] = "starting" => life[q] = "starting"
    BY DEF Backstage
  <2>. QED BY <1>3, <2>1, <2>2, <2>3, <2>4 DEF Spawning, Backstage, clients
<1>5. \A k \in Keys : Served(k) => Served(k)'
  BY <1>1, ServedStays DEF Backstage
<1>6. \A k \in Keys : left'[k] = left[k] /\ First(k)' => First(k)
  BY FirstStays DEF Backstage
<1>7. \A c \in Clients : at'[c] \in Using => Served(want[c])'
  <2>1. \A c \in Clients : at'[c] \in Using => want[c] \in Keys /\ Served(want[c])
    BY DEF Backstage, clients, UseNeedsProcess, Using, Ownership
  <2>. QED BY <2>1, <1>1 DEF Served, Backstage, clients
<1>. QED BY <1>2, <1>4, <1>5, <1>6, <1>7

\* A process whose guard runs is nobody's new process.
LEMMA GuardedIsNotNew ==
  ASSUME Ind, NEW p \in Procs, guard[p] # "none" \/ life[p] \in {"up", "dead"},
         NEW c \in Clients, started[c] = p
  PROVE  at[c] # "spawns" /\ (guard[p] # "none" => at[c] # "registered")
BY DEF Ind, Facts, Spawning, Holders, Ownership, Registered

\* A process may be struck by the guard of a stray: then the stray is one no more,
\* and what it struck takes its place.
LEMMA StrikeMoves ==
  ASSUME Ind, Backstage, UNCHANGED left, NEW p \in Procs, guard[p] \in {"waits", "killed"},
         life'[p] = "dead", guard'[p] \notin {"waits", "killed"},
         \A q \in Procs : q # p => life'[q] = life[q] /\ guard'[q] = guard[q],
         \A j \in Keys : j # key[p] => (Routable(j)' <=> Routable(j)),
         \A j \in Keys : Routable(j)' => entry'[j] = entry[j]
  PROVE  StraysPaid'
<1>. USE DEF Ind, Facts
<1>1. ~Dangerous(p)'
  BY GuardedIsNotNew DEF Dangerous, Backstage, clients
<1>2. Dangerous(p)
  BY DEF Dangerous
<1>3. ASSUME NEW j \in Keys PROVE Moves(j)
  <2>1. ASSUME NEW q \in Procs, key'[q] = j, Dangerous(q)', ~Current(j, q)'
        PROVE  /\ q # p /\ key[q] = j /\ Dangerous(q)
               /\ Current(j, q) => j = key[p] /\ Routable(j) /\ q = entry[j]
    <3>1. q # p
      BY <1>1, <2>1
    <3>2. key[q] = j /\ Dangerous(q)
      BY <2>1, <3>1 DEF Dangerous, Backstage, clients
    <3>3. Current(j, q) => j = key[p] /\ Routable(j) /\ q = entry[j]
      BY <2>1 DEF Current, Backstage, clients
    <3>. QED BY <3>1, <3>2, <3>3
  <2>2. CASE j = key[p] /\ Routable(j) /\ entry[j] # p
    <3>1. ~Current(j, p)
      BY <2>2, GuardedIsNotNew DEF Current
    <3>2. p \in Strays(j)
      BY <1>2, <2>2, <3>1 DEF Strays
    <3>3. entry[j] \in Procs
      BY <2>2 DEF Routable, TypeOK, RegistryType
    <3>4. Strays(j)' \subseteq (Strays(j) \ {p}) \cup {entry[j]}
      BY <2>1 DEF Strays, Procs
    <3>. HIDE DEF Ind, Facts
    <3>. QED BY <3>2, <3>3, <3>4 DEF Moves
  <2>3. CASE ~(j = key[p] /\ Routable(j) /\ entry[j] # p)
    <3>1. \A q \in Procs : key'[q] = j /\ Dangerous(q)' /\ ~Current(j, q)'
                             => key[q] = j /\ Dangerous(q) /\ ~Current(j, q)
      BY <2>1, <2>3
    <3>. QED BY <3>1, StraysKept DEF Moves
  <2>. QED BY <2>2, <2>3
<1>. QED BY <1>3, StraysStayPaid DEF TypeOK

\* Nothing of the kind: processes only become less dangerous.
LEMMA NoStrike ==
  ASSUME Ind, Backstage, UNCHANGED <<entry, left>>, \A j \in Keys : Routable(j)' <=> Routable(j),
         \A q \in Procs : Dangerous(q)' => Dangerous(q)
  PROVE  StraysPaid'
<1>1. ASSUME NEW j \in Keys PROVE Moves(j)
  <2>1. \A q \in Procs : key'[q] = j /\ Dangerous(q)' /\ ~Current(j, q)'
                           => key[q] = j /\ Dangerous(q) /\ ~Current(j, q)
    BY DEF Backstage, Current, clients
  <2>. QED BY <2>1, StraysKept DEF Moves
<1>. QED BY <1>1, StraysStayPaid DEF TypeOK, Ind, Facts

\* The first process of a workspace is counted for unless its counts may be erased.
LEMMA BackstageCounts ==
  ASSUME Ind, Backstage,
         \A k \in Keys : First(k)' => left'[k] = left[k] /\ (First(k) => count'[k] = count[k])
  PROVE  Counted'
<1>1. \A k \in Keys : Bound(k)' \subseteq Bound(k)
  BY DEF Bound, Users, Backstage, clients
<1>2. \A k \in Keys : First(k)' => First(k)
  BY BackstageFacts
<1>. QED BY <1>1, <1>2, CountKept DEF Counted, Ind, Facts, TypeOK

\* A guard that strikes by id takes one stray out of the count for the one it makes.
LEMMA GuardSteps == ASSUME Ind, NEW p \in Procs, Exit(p) \/ Guard(p) PROVE Facts'
<1>. USE DEF Ind, Facts
<1>0. /\ life \in [Procs -> {"none", "starting", "up", "dead"}]
      /\ guard \in [Procs -> {"none", "waits", "killed", "forgot", "unswitched", "gone"}]
      /\ entry \in [Keys -> Procs \cup {None}]
  BY DEF TypeOK, ProcessType, RegistryType
<1>1. UNCHANGED <<key, clients, reaping, detaching, left>>
  BY DEF Exit, Guard, GuardSeesExit, GuardKills, GuardLosesSwitch, GuardRemoves
<1>2. \A q \in Procs : q # p => life'[q] = life[q] /\ guard'[q] = guard[q]
  BY <1>0 DEF Exit, Guard, GuardSeesExit, GuardKills, GuardLosesSwitch, GuardRemoves
<1>3. /\ life'[p] = life[p] \/ (life[p] = "up" /\ life'[p] = "dead")
      /\ guard'[p] = guard[p] \/ guard[p] # "none"
      /\ guard'[p] \in {"killed", "forgot", "unswitched"} => life'[p] = "dead"
  <2>1. guard[p] \in {"killed", "forgot", "unswitched"} => life[p] = "dead"
    BY DEF Ownership
  <2>2. guard[p] = "waits" => life[p] \in {"up", "dead"}
    BY DEF Ownership, Registered
  <2>3. CASE Exit(p)
    BY <1>0, <2>1, <2>3 DEF Exit
  <2>4. CASE GuardSeesExit(p) \/ GuardKills(p) \/ GuardLosesSwitch(p)
    BY <1>0, <2>2, <2>4 DEF GuardSeesExit, GuardKills, GuardLosesSwitch
  <2>5. CASE GuardRemoves(p)
    BY <1>0, <2>1, <2>5 DEF GuardRemoves
  <2>. QED BY <2>3, <2>4, <2>5 DEF Guard
<1>4. guard[p] # "none" => key[p] \in Keys
  BY DEF Ownership, Registered
<1>5. \/ UNCHANGED <<entry, stopped>>
      \/ GuardSeesExit(p) /\ entry' = entry /\ MarkStopped(key[p])
      \/ guard[p] = "killed" /\ guard'[p] = "forgot" /\ ForgetEntries({key[p]})
  BY <1>0 DEF Exit, Guard, GuardSeesExit, GuardKills, GuardLosesSwitch, GuardRemoves, registry,
     ForgetSwitches, ForgetCounts
<1>6. /\ \A k \in Keys : entry'[k] \in {entry[k], None} /\ (Routable(k)' => Routable(k))
      /\ stopped' \subseteq {k \in Keys : entry'[k] # None}
  <2>1. CASE UNCHANGED <<entry, stopped>>
    BY <2>1 DEF Routable, Ownership
  <2>2. CASE GuardSeesExit(p) /\ entry' = entry /\ MarkStopped(key[p])
    BY <1>4, <2>2 DEF GuardSeesExit, MarkStopped, Routable, Ownership
  <2>3. CASE guard[p] = "killed" /\ ForgetEntries({key[p]})
    BY <1>4, <2>3 DEF ForgetEntries, Routable, Ownership
  <2>. QED BY <1>5, <2>1, <2>2, <2>3
<1>7. Backstage
  <2>1. \A q \in Procs : /\ life'[q] = life[q] \/ (life[q] = "up" /\ life'[q] = "dead")
                         /\ guard'[q] = guard[q] \/ guard[q] # "none"
                         /\ guard'[q] \in {"killed", "forgot", "unswitched"} => life'[q] = "dead"
    <3>1. \A q \in Procs : guard[q] \in {"killed", "forgot", "unswitched"} => life[q] = "dead"
      BY DEF Ownership
    <3>. QED BY <1>2, <1>3, <3>1
  <2>. QED BY <1>1, <1>6, <2>1 DEF Backstage
<1>8. Ownership' /\ Spawning' /\ UseNeedsProcess' /\ RoomLeft'
  <2>1. RoomLeft'
    BY <1>1 DEF RoomLeft, Listed, reaping
  <2>2. chosen \subseteq Keys
    BY DEF TypeOK, ReaperType
  <2>3. UseNeedsProcess'
    BY <1>1, <1>7, <2>2, BackstageFacts DEF UseNeedsProcess, Using, reaping, detaching
  <2>. QED BY <1>7, <2>1, <2>3, BackstageFacts
<1>9. \A k \in Keys : First(k)' => First(k)
  BY <1>1, <1>7, BackstageFacts
<1>10. StraysPaid'
  <2>1. CASE UNCHANGED <<entry, stopped>>
    <3>1. \A q \in Procs : Dangerous(q)' => Dangerous(q)
      <4>1. life'[p] = "up" => life[p] = "up"
        BY <1>3
      <4>2. guard'[p] \in {"waits", "killed"} => guard[p] \in {"waits", "killed"}
        BY <1>0 DEF Exit, Guard, GuardSeesExit, GuardKills, GuardLosesSwitch, GuardRemoves
      <4>. QED BY <1>1, <1>2, <1>3, <4>1, <4>2 DEF Dangerous, clients
    <3>2. \A j \in Keys : Routable(j)' <=> Routable(j)
      BY <2>1 DEF Routable
    <3>. QED BY <1>1, <1>7, <2>1, <3>1, <3>2, NoStrike
  <2>2. CASE GuardSeesExit(p) /\ entry' = entry /\ MarkStopped(key[p])
    <3>1. guard[p] = "waits" /\ life'[p] = "dead" /\ guard'[p] = "gone"
      BY <1>0, <2>2 DEF GuardSeesExit
    <3>2. \A j \in Keys : j # key[p] => (Routable(j)' <=> Routable(j))
      BY <2>2 DEF MarkStopped, Routable
    <3>. QED BY <1>1, <1>2, <1>7, <2>2, <3>1, <3>2, StrikeMoves
  <2>3. CASE guard[p] = "killed" /\ guard'[p] = "forgot" /\ ForgetEntries({key[p]})
    <3>1. life'[p] = "dead"
      BY <1>3, <2>3
    <3>2. \A j \in Keys : j # key[p] => (Routable(j)' <=> Routable(j))
      BY <2>3 DEF ForgetEntries, Routable
    <3>3. \A j \in Keys : Routable(j)' => entry'[j] = entry[j]
      BY <2>3 DEF ForgetEntries, Routable
    <3>. QED BY <1>1, <1>2, <1>7, <2>3, <3>1, <3>2, <3>3, StrikeMoves
  <2>. QED BY <1>5, <2>1, <2>2, <2>3
<1>11. NothingPending'
  <2>1. guard'[p] = "forgot" => ~First(key[p])' \/ guard[p] = "forgot"
    <3>1. guard'[p] = "forgot" => guard[p] = "forgot" \/ ForgetEntries({key[p]})
      BY <1>0 DEF Exit, Guard, GuardSeesExit, GuardKills, GuardLosesSwitch, GuardRemoves
    <3>2. guard'[p] = "forgot" /\ ForgetEntries({key[p]}) => entry'[key[p]] = None
      BY <1>0, <1>3, <1>4 DEF ForgetEntries
    <3>. QED BY <1>1, <3>1, <3>2 DEF First
  <2>2. guard'[p] = "unswitched" => guard[p] \in {"forgot", "unswitched"}
    BY <1>0 DEF Exit, Guard, GuardSeesExit, GuardKills, GuardLosesSwitch, GuardRemoves
  <2>. QED BY <1>1, <1>2, <1>9, <2>1, <2>2 DEF NothingPending, reaping
<1>12. Counted'
  <2>1. count' = count \/ (guard[p] = "unswitched" /\ ForgetCounts({key[p]}))
    <3>1. CASE GuardRemoves(p)
      BY <3>1 DEF GuardRemoves, ForgetEntries, ForgetSwitches
    <3>2. CASE ~GuardRemoves(p)
      BY <3>2 DEF Exit, Guard, GuardSeesExit, GuardKills, GuardLosesSwitch, registry
    <3>. QED BY <3>1, <3>2
  <2>2. \A k \in Keys : First(k) => count'[k] = count[k]
    BY <2>1 DEF ForgetCounts, NothingPending
  <2>. QED BY <1>1, <1>7, <2>2, BackstageCounts
<1>. QED BY <1>8, <1>10, <1>11, <1>12

\* A detach leaves what it detaches to itself; the clock only tells the time.
LEMMA DetachSteps == ASSUME Ind, Detach \/ Tick PROVE Facts'
<1>. USE DEF Ind, Facts
<1>0. /\ entry \in [Keys -> Procs \cup {None}] /\ left \in [Keys -> 0..MaxLeft]
      /\ chosen \subseteq Keys
  BY DEF TypeOK, RegistryType, DetachType, ReaperType
<1>1. UNCHANGED <<processes, clients, reaping>>
  BY DEF Detach, Tick
<1>2. \/ \E k \in Keys : /\ ForgetEntries({k}) /\ left' = [left EXCEPT ![k] = @ + 1]
                         /\ detach' = "forgot" /\ detached' = k
      \/ /\ UNCHANGED <<entry, stopped, left>>
         /\ detach' # "none" => detach # "none" /\ detached' = detached
         /\ count' = count \/ (detach # "none" /\ ForgetCounts({detached}))
  BY DEF Detach, Tick, ForgetSwitches, ForgetCounts, detaching
<1>3. ASSUME NEW k \in Keys, ForgetEntries({k}), left' = [left EXCEPT ![k] = @ + 1],
             detach' = "forgot", detached' = k
      PROVE  Facts'
  <2>1. /\ entry'[k] = None /\ \A j \in Keys : j # k => entry'[j] = entry[j]
        /\ stopped' = stopped \ {k} /\ UNCHANGED <<switch, count>>
        /\ left'[k] = left[k] + 1 /\ \A j \in Keys : j # k => left'[j] = left[j]
    BY <1>0, <1>3 DEF ForgetEntries
  <2>2. Backstage
    BY <1>1, <2>1 DEF Backstage, processes, Routable, Ownership
  <2>3. StraysPaid'
    <3>1. ASSUME NEW j \in Keys PROVE Moves(j)
      <4>1. ASSUME NEW q \in Procs, key'[q] = j, Dangerous(q)', ~Current(j, q)'
            PROVE  /\ key[q] = j /\ Dangerous(q)
                   /\ Current(j, q) => j = k /\ Routable(j) /\ q = entry[j]
        BY <1>1, <2>1, <4>1 DEF Dangerous, Current, Routable, processes, clients
      <4>2. CASE j = k /\ Routable(j)
        <5>1. entry[k] \in Procs
          BY <1>0, <4>2 DEF Routable
        <5>2. Strays(k)' \subseteq Strays(k) \cup {entry[k]}
          BY <4>1, <4>2 DEF Strays, Procs
        <5>. HIDE DEF Ind, Facts
        <5>. QED BY <2>1, <4>2, <5>1, <5>2 DEF Moves
      <4>3. CASE ~(j = k /\ Routable(j))
        <5>1. Strays(j)' \subseteq Strays(j)
          BY <4>1, <4>3, StraysKept
        <5>. QED BY <2>1, <5>1 DEF Moves
      <4>. QED BY <4>2, <4>3
    <3>. QED BY <3>1, StraysStayPaid DEF TypeOK
  <2>4. UseNeedsProcess' /\ RoomLeft'
    <3>1. RoomLeft'
      BY <1>1 DEF RoomLeft, Listed, reaping
    <3>2. left'[k] > 0
      BY <1>0, <2>1
    <3>3. UseNeedsProcess'
      BY <1>0, <1>1, <1>3, <2>2, <3>2, BackstageFacts DEF UseNeedsProcess, Using, reaping
    <3>. QED BY <3>1, <3>3
  <2>5. \A j \in Keys : First(j)' => First(j) /\ left'[j] = left[j]
    <3>1. \A j \in Keys : First(j)' => j # k
      BY <2>1 DEF First
    <3>. QED BY <2>1, <2>2, <3>1, BackstageFacts
  <2>6. NothingPending'
    BY <1>1, <2>5 DEF NothingPending, processes, reaping
  <2>7. Counted'
    BY <2>1, <2>2, <2>5, BackstageCounts
  <2>. QED BY <2>2, <2>3, <2>4, <2>6, <2>7, BackstageFacts
<1>4. ASSUME UNCHANGED <<entry, stopped, left>>,
             detach' # "none" => detach # "none" /\ detached' = detached,
             count' = count \/ (detach # "none" /\ ForgetCounts({detached}))
      PROVE  Facts'
  <2>1. Backstage
    BY <1>1, <1>4 DEF Backstage, processes, Routable, Ownership
  <2>2. StraysPaid'
    <3>1. \A q \in Procs : Dangerous(q)' => Dangerous(q)
      BY <1>1 DEF Dangerous, processes, clients
    <3>2. \A j \in Keys : Routable(j)' <=> Routable(j)
      BY <1>4 DEF Routable
    <3>. QED BY <1>4, <2>1, <3>1, <3>2, NoStrike
  <2>3. UseNeedsProcess' /\ RoomLeft'
    <3>1. RoomLeft'
      BY <1>1 DEF RoomLeft, Listed, reaping
    <3>2. UseNeedsProcess'
      BY <1>0, <1>1, <1>4, <2>1, BackstageFacts DEF UseNeedsProcess, Using, reaping
    <3>. QED BY <3>1, <3>2
  <2>4. \A j \in Keys : First(j)' => First(j) /\ left'[j] = left[j]
    BY <1>4, <2>1, BackstageFacts
  <2>5. NothingPending'
    BY <1>1, <2>4 DEF NothingPending, processes, reaping
  <2>6. \A j \in Keys : First(j) => count'[j] = count[j]
    BY <1>0, <1>4 DEF ForgetCounts, First, UseNeedsProcess
  <2>7. Counted'
    BY <2>1, <2>4, <2>6, BackstageCounts
  <2>. QED BY <2>1, <2>2, <2>3, <2>5, <2>7, BackstageFacts
<1>. QED BY <1>2, <1>3, <1>4

-----------------------------------------------------------------------------
(* The reaper                                                               *)

\* Of the reaper's steps only the first of a round touches entries, and only those
\* that are stopped already.
LEMMA ReaperSteps == ASSUME Ind, Reaper PROVE Facts'
<1>. USE DEF Ind, Facts
<1>0. /\ entry \in [Keys -> Procs \cup {None}] /\ left \in [Keys -> 0..MaxLeft]
      /\ chosen \subseteq Keys /\ stopped \subseteq Keys
  BY DEF TypeOK, RegistryType, DetachType, ReaperType
<1>1. UNCHANGED <<life, key, guard, clients, detaching, left>>
  BY DEF Reaper, Prune, List, Check, RequestShutdown, processes
<1>2. \/ /\ ForgetEntries(stopped) /\ chosen' = stopped
         /\ reaper' = "pruned" \/ reaper' = "forgot"
      \/ /\ UNCHANGED <<entry, stopped>>
         /\ \/ reaper' \notin {"forgot", "unswitched"}
            \/ reaper \in {"forgot", "unswitched"} /\ chosen' \subseteq chosen
         /\ count' = count \/ (reaper = "unswitched" /\ ForgetCounts(chosen))
  <2>1. CASE Prune
    BY <2>1 DEF Prune, ForgetSwitches, ForgetCounts
  <2>2. CASE List
    BY <2>2 DEF List, registry
  <2>3. ASSUME NEW k \in Keys, Check(k) PROVE reaper' = reaper /\ reaper \in {"reaps", "evicts"} /\ UNCHANGED registry
    BY <2>3 DEF Check, RoomLeft
  <2>4. ASSUME NEW k \in Keys, RequestShutdown(k) PROVE reaper' = reaper /\ chosen' \subseteq chosen /\ UNCHANGED registry /\ reaper \in {"reaps", "evicts"}
    BY <2>4 DEF RequestShutdown
  <2>. QED BY <2>1, <2>2, <2>3, <2>4 DEF Reaper, registry
<1>3. RoomLeft'
  BY ReaperTypes
<1>4. \A q \in Procs : Dangerous(q)' <=> Dangerous(q)
  BY <1>1 DEF Dangerous, clients
<1>5. ASSUME ForgetEntries(stopped), chosen' = stopped, reaper' = "pruned" \/ reaper' = "forgot"
      PROVE  Facts'
  <2>1. /\ \A j \in Keys : entry'[j] = IF j \in stopped THEN None ELSE entry[j]
        /\ stopped' = {} /\ UNCHANGED <<switch, count>>
    BY <1>0, <1>5 DEF ForgetEntries
  <2>2. Backstage
    BY <1>1, <2>1 DEF Backstage, Routable, Ownership
  <2>3. StraysPaid'
    <3>1. ASSUME NEW j \in Keys PROVE Moves(j)
      <4>1. \A q \in Procs : key'[q] = j /\ Dangerous(q)' /\ ~Current(j, q)'
                               => key[q] = j /\ Dangerous(q) /\ ~Current(j, q)
        BY <1>1, <1>4, <2>1 DEF Current, Routable, clients
      <4>. QED BY <1>1, <4>1, StraysKept DEF Moves
    <3>. QED BY <3>1, StraysStayPaid DEF TypeOK
  <2>4. UseNeedsProcess'
    <3>1. \A k \in stopped : Served(k)
      BY <1>0 DEF Ownership, Served
    <3>2. \A k \in stopped : Served(k)'
      BY <1>0, <2>2, <3>1, BackstageFacts
    <3>. QED BY <1>1, <1>5, <2>2, <3>2, BackstageFacts DEF UseNeedsProcess, Using, detaching
  <2>5. \A j \in Keys : First(j)' => First(j) /\ j \notin stopped /\ left'[j] = left[j]
    BY <1>1, <2>1, <2>2, BackstageFacts DEF First
  <2>6. NothingPending'
    BY <1>1, <1>5, <2>5 DEF NothingPending
  <2>7. Counted'
    BY <2>1, <2>2, <2>5, BackstageCounts
  <2>. QED BY <1>3, <2>2, <2>3, <2>4, <2>6, <2>7, BackstageFacts
<1>6. ASSUME UNCHANGED <<entry, stopped>>,
             \/ reaper' \notin {"forgot", "unswitched"}
             \/ reaper \in {"forgot", "unswitched"} /\ chosen' \subseteq chosen,
             count' = count \/ (reaper = "unswitched" /\ ForgetCounts(chosen))
      PROVE  Facts'
  <2>1. Backstage
    BY <1>1, <1>6 DEF Backstage, Routable, Ownership
  <2>2. StraysPaid'
    <3>1. \A j \in Keys : Routable(j)' <=> Routable(j)
      BY <1>6 DEF Routable
    <3>. QED BY <1>1, <1>4, <1>6, <2>1, <3>1, NoStrike
  <2>3. UseNeedsProcess'
    BY <1>0, <1>1, <1>6, <2>1, BackstageFacts DEF UseNeedsProcess, Using, detaching
  <2>4. \A j \in Keys : First(j)' => First(j) /\ left'[j] = left[j]
    BY <1>1, <2>1, BackstageFacts
  <2>5. NothingPending'
    BY <1>1, <1>6, <2>4 DEF NothingPending
  <2>6. \A j \in Keys : First(j) => count'[j] = count[j]
    BY <1>6 DEF ForgetCounts, NothingPending
  <2>7. Counted'
    BY <2>1, <2>4, <2>6, BackstageCounts
  <2>. QED BY <1>3, <2>1, <2>2, <2>3, <2>5, <2>7, BackstageFacts
<1>. QED BY <1>2, <1>5, <1>6

-----------------------------------------------------------------------------
(* The theorems                                                             *)

\* The invariant holds at the start.
LEMMA Start == Init => Ind
<1>. SUFFICES ASSUME Init PROVE Ind
  OBVIOUS
<1>1. TypeOK
  BY AgeType, BoundsAssumption
  DEF Init, TypeOK, RegistryType, ProcessType, ClientType, ReaperType, DetachType, None,
      NotListed, BoundsAssumption
<1>2. Holders = {} /\ Listed = {}
  BY DEF Init, Holders, Listed
<1>3. Ownership /\ Spawning /\ RoomLeft /\ UseNeedsProcess
  BY <1>2 DEF Init, Ownership, Spawning, RoomLeft, UseNeedsProcess
<1>4. StraysPaid
  <2>1. \A k \in Keys : Strays(k) = {}
    BY DEF Init, Strays, Dangerous
  <2>2. \A k \in Keys : Cardinality(Strays(k)) = 0 /\ left[k] = 0
    BY <2>1, FS_EmptySet DEF Init
  <2>. QED BY <2>2 DEF StraysPaid
<1>5. NothingPending /\ Counted
  BY DEF Init, NothingPending, Counted, First
<1>. QED BY <1>1, <1>3, <1>4, <1>5 DEF Ind, Facts

\* Every step keeps it.
LEMMA Step == Ind /\ [Next]_vars => Ind'
<1>. SUFFICES ASSUME Ind, [Next]_vars PROVE Ind'
  OBVIOUS
<1>1. CASE UNCHANGED vars
  BY <1>1 DEF vars, registry, processes, clients, reaping, detaching, Ind, Facts, TypeOK, RegistryType,
     ProcessType, ClientType, ReaperType, DetachType, Ownership, Spawning, RoomLeft, StraysPaid,
     UseNeedsProcess, NothingPending, Counted, Registered, Holders, Routable, Listed, Strays,
     Dangerous, Current, Served, First, Bound, Users
<1>2. ASSUME NEW c \in Clients, Client(c) PROVE Ind'
  <2>1. TypeOK'
    BY <1>2, ClientTypes DEF Ind, Facts
  <2>2. CASE Bystander(c) /\ UseNeedsProcess' /\ Counted'
    <3>1. RoomLeft'
      BY <2>2 DEF Bystander, Ind, Facts, RoomLeft, Listed, reaping
    <3>. QED BY <2>1, <2>2, <3>1, BystanderFacts DEF Ind, Facts
  <2>3. CASE Facts'
    BY <2>1, <2>3 DEF Ind
  <2>. QED BY <1>2, <2>2, <2>3, QuietSteps, BindingSteps, StartSteps, FailedSpawnSteps,
              RegisterSteps, AttachSteps DEF Client
<1>3. ASSUME NEW p \in Procs, Exit(p) \/ Guard(p) PROVE Ind'
  BY <1>3, GuardTypes, GuardSteps DEF Ind, Facts
<1>4. CASE Detach \/ Tick
  BY <1>4, DetachTypes, DetachSteps DEF Ind
<1>5. CASE Reaper
  BY <1>5, ReaperTypes, ReaperSteps DEF Ind, Facts
<1>. QED BY <1>1, <1>2, <1>3, <1>4, <1>5 DEF Next

\* The processes, entries, guards, clients and stages fit together, and every
\* stray of a workspace is paid for by a detach or a spawn that gave up.
THEOREM Invariance == Spec => []Ind
<1>. QED BY Start, Step, PTL DEF Spec

\* The variables keep their types (registry.rs:116-129 and the tasks around it).
THEOREM TypeCorrect == Spec => []TypeOK
<1>1. Ind => TypeOK
  BY DEF Ind
<1>. QED BY <1>1, Invariance, PTL

\* A workspace has one live process, and one more for each that a detach or a
\* spawn that gave up has left to itself: a switch, a status or an entry that goes
\* by id may strike a successor, but never leaves it alive beside another that is
\* not accounted for (supervisor.rs:399-406).
THEOREM OneProcessPerWorkspace == Spec => []OneProcess
<1>1. Ind => OneProcess
  <2>. SUFFICES ASSUME Ind, NEW k \in Keys PROVE Cardinality(Alive(k)) <= 1 + left[k]
    BY DEF OneProcess
  <2>. USE DEF Ind, Facts
  <2>1. left[k] \in Nat /\ Cardinality(Strays(k)) <= left[k]
    BY DEF TypeOK, DetachType, StraysPaid
  <2>2. \A p \in Alive(k) : p \in Strays(k) \/ Current(k, p)
    <3>1. life \in [Procs -> {"none", "starting", "up", "dead"}]
      BY DEF TypeOK, ProcessType
    <3>. QED BY <3>1 DEF Alive, ProcessesOf, Strays, Dangerous
  <2>3. \A p, q : Current(k, p) /\ Current(k, q) => p = q
    BY DEF Current, Spawning, Holders
  <2>4. Strays(k) \in SUBSET Procs /\ Alive(k) \in SUBSET Procs
    BY DEF Strays, Alive, ProcessesOf, Procs
  <2>5. Cardinality(Strays(k)) \in Nat /\ Cardinality(Alive(k)) \in Nat
    BY <2>4, ProcsFinite
  <2>6. CASE Alive(k) \subseteq Strays(k)
    <3>1. Cardinality(Alive(k)) <= Cardinality(Strays(k))
      BY <2>4, <2>6, ProcsFinite
    <3>. QED BY <2>1, <2>5, <3>1
  <2>7. ASSUME NEW x \in Alive(k), x \notin Strays(k) PROVE Cardinality(Alive(k)) <= 1 + left[k]
    <3>1. Alive(k) \subseteq Strays(k) \cup {x} /\ x \in Procs
      BY <2>2, <2>3, <2>4, <2>7
    <3>2. Strays(k) \cup {x} \in SUBSET Procs
      BY <2>4, <3>1
    <3>3. /\ Cardinality(Alive(k)) <= Cardinality(Strays(k) \cup {x})
          /\ Cardinality(Strays(k) \cup {x}) \in Nat
      BY <3>1, <3>2, ProcsFinite
    <3>4. Cardinality(Strays(k) \cup {x}) <= Cardinality(Strays(k)) + 1
      BY <2>4, <3>1, ProcsFinite
    <3>. QED BY <2>1, <2>5, <3>3, <3>4
  <2>. QED BY <2>6, <2>7
<1>. QED BY <1>1, Invariance, PTL

\* As long as a workspace is with its first process and nobody has detached it,
\* the count of its connections is at least the number of clients bound to it,
\* although the reaper and the guards erase counts by id (registry.rs:124-128).
THEOREM BoundClientsAreCounted == Spec => []ClientsAreCounted
<1>1. Ind => ClientsAreCounted
  <2>. SUFFICES ASSUME Ind, NEW k \in Keys, entry[k] # None, left[k] = 0,
                       Cardinality(ProcessesOf(k)) = 1
                PROVE  count[k] >= Cardinality(Bound(k))
    BY DEF ClientsAreCounted
  <2>. USE DEF Ind, Facts
  <2>1. entry[k] \in Procs /\ entry[k] \in ProcessesOf(k)
    BY DEF TypeOK, RegistryType, Ownership, Registered, ProcessesOf
  <2>2. ProcessesOf(k) \in SUBSET Procs
    BY DEF ProcessesOf, Procs
  <2>3. Cardinality(ProcessesOf(k) \ {entry[k]}) = 0 /\ ProcessesOf(k) \ {entry[k]} \in SUBSET Procs
    <3>1. Cardinality(ProcessesOf(k) \ {entry[k]}) = Cardinality(ProcessesOf(k)) - 1
      BY <2>1, <2>2, ProcsFinite
    <3>. QED BY <2>2, <3>1
  <2>4. ProcessesOf(k) \ {entry[k]} = {}
    BY <2>3, ProcsFinite, FS_EmptySet
  <2>5. First(k)
    BY <2>4 DEF First, ProcessesOf
  <2>. QED BY <2>5 DEF Counted
<1>. QED BY <1>1, Invariance, PTL

=============================================================================
