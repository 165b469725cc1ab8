------------------------- MODULE PluginEventsProofs -------------------------
(***************************************************************************)
(* Proofs about PluginEvents, for any plugins, calls and requests.  That a *)
(* calm call meets exactly the configured plugins needs three things to be *)
(* known at once: a sound rebuild leaves the registrations that the file   *)
(* asks for, and none is under way while a call is calm; a job is in one   *)
(* place at most, and of the current generation; and the plugins a worker  *)
(* has asked and those it has still to ask are those that were due.        *)
(***************************************************************************)
EXTENDS PluginEvents, SequenceTheorems, TLAPS

\* What the configuration asks to be registered.
Wanted == {h \in Handlers : h[1] \notin disabled}
Registry == {h \in Plugins \X Points : registry[h]}

\* A rebuild that has met no other is alone; between its collection and its end
\* the registrations and what it has still to register are what the file wants.
Rebuilding ==
    /\ sound => InFlight = {} /\ Registry = Wanted
    /\ ~spoiled => \A r, s \in InFlight : r = s
    /\ ~spoiled => \A r \in Requests :
          /\ rstep[r] = "clear" => rtodo[r] = Wanted
          /\ rstep[r] = "register" => Registry \cup rtodo[r] = Wanted

\* A calm call is one since whose dispatch nothing was rebuilt.
Calm ==
    \A c \in Calls : calm[c] =>
        /\ sound /\ due[c] = Listeners(cpoint[c])
        /\ cstep[c] \in {"sending", "waiting"} => cgen[c] = generation

InLane(c, l) == \E i \in 1..Len(lane[l]) : lane[l][i] = c
InHand(c, l) == wstep[l] # "recv" /\ wjob[l] = c

\* The job of a call is at one place, of the lane of its point, and only while
\* the call waits or after it was abandoned.
OnePlace ==
    /\ \A l \in Points : wstep[l] # "recv" => wjob[l] \in Calls
    /\ \A l \in Points : \A c \in Calls :
          InLane(c, l) \/ InHand(c, l) => cpoint[c] = l /\ cstep[c] \in {"waiting", "gone"}
    /\ \A l \in Points : \A c \in Calls : ~(InLane(c, l) /\ InHand(c, l))
    /\ \A l \in Points : \A i, j \in 1..Len(lane[l]) : lane[l][i] = lane[l][j] => i = j

\* What was asked and what is still to be asked is what was due.
Asking ==
    /\ \A l \in Points : \A c \in Calls : InHand(c, l) /\ calm[c] =>
          /\ wstep[l] = "begin" => asked[c] = {}
          /\ wstep[l] \in {"ask", "asking"} => asked[c] \cup wtodo[l] = due[c]
          /\ wstep[l] = "asking" => \A p \in Plugins : IsNext(p, l) => p \in asked[c]
    /\ \A l \in Points : \A c \in Calls : InLane(c, l) /\ calm[c] => asked[c] = {}
    /\ \A c \in Calls : cstep[c] = "sending" /\ calm[c] => asked[c] = {}

Facts == Rebuilding /\ Calm /\ OnePlace /\ Asking /\ HooksFollowConfig
Ind == TypeOK /\ Facts

-----------------------------------------------------------------------------
(* Types                                                                    *)

\* Handlers, registrations and listeners are of the types they are compared with.
LEMMA HandlerTypes ==
  /\ Handlers \subseteq Plugins \X Points
  /\ \A S : HandlersOf(S) \subseteq Handlers
  /\ \A l \in Points : Listeners(l) \subseteq Plugins /\ Registrations(l) \subseteq Plugins
BY DEF Handlers, HandlersOf, Listeners, Registrations

\* A request that switches or rebuilds keeps the types.
LEMMA RebuildTypes == ASSUME TypeOK, NEW r \in Requests, Rebuild(r) PROVE TypeOK'
<1>. USE DEF TypeOK
<1>1. CASE ReadSwitch(r) \/ Refresh(r)
  <2>1. CallType' /\ LaneType'
    BY <1>1 DEF ReadSwitch, Refresh, Begins, CallType, LaneType, cvars, wvars
  <2>3. ASSUME ReadSwitch(r) PROVE RebuildType'
    <3>1. PICK s \in Switches : rwant' = [rwant EXCEPT ![r] = s]
      BY <2>3 DEF ReadSwitch
    <3>2. /\ rwant' \in [Requests -> Switches \cup {NoSwitch}] /\ rfile' \in [Requests -> SUBSET Plugins]
          /\ rstep' \in [Requests -> {"idle", "write", "collect", "clear", "register", "done"}]
      BY <2>3, <3>1 DEF ReadSwitch, RebuildType
    <3>3. UNCHANGED <<disabled, registry, generation, rtodo>>
      BY <2>3 DEF ReadSwitch, Begins
    <3>. QED BY <3>2, <3>3 DEF RebuildType
  <2>4. ASSUME Refresh(r) PROVE RebuildType'
    <3>1. rstep' \in [Requests -> {"idle", "write", "collect", "clear", "register", "done"}]
      BY <2>4 DEF Refresh, RebuildType
    <3>2. UNCHANGED <<disabled, registry, generation, rtodo, rwant, rfile>>
      BY <2>4 DEF Refresh, Begins
    <3>. QED BY <3>1, <3>2 DEF RebuildType
  <2>2. HistoryType'
    BY <1>1 DEF ReadSwitch, Refresh, Begins, HistoryType
  <2>. QED BY <1>1, <2>1, <2>2, <2>3, <2>4
<1>2. CASE WriteSwitch(r)
  <2>1. disabled' \subseteq Plugins
    <3>1. rfile[r] \subseteq Plugins
      BY DEF RebuildType
    <3>2. rwant[r].plugin \in Plugins \/ rwant[r] = NoSwitch
      BY DEF RebuildType, Switches
    <3>3. rwant[r] = NoSwitch => rwant[r].on
      BY DEF NoSwitch
    <3>. QED BY <1>2, <3>1, <3>2, <3>3 DEF WriteSwitch
  <2>2. RebuildType'
    BY <1>2, <2>1 DEF WriteSwitch, RebuildType
  <2>3. CallType' /\ LaneType' /\ HistoryType'
    BY <1>2 DEF WriteSwitch, CallType, LaneType, HistoryType, cvars, wvars, hvars
  <2>. QED BY <2>2, <2>3
<1>3. CASE Collect(r) \/ GiveUp(r) \/ Clear(r)
  <2>1. RebuildType'
    <3>1. CASE Collect(r)
      <4>1. PICK S : rtodo' = [rtodo EXCEPT ![r] = HandlersOf(S)]
        BY <3>1 DEF Collect
      <4>2. rtodo' \in [Requests -> SUBSET Handlers]
        BY <4>1, HandlerTypes DEF RebuildType
      <4>. QED BY <3>1, <4>2 DEF Collect, RebuildType
    <3>2. CASE GiveUp(r)
      BY <3>2 DEF GiveUp, RebuildType
    <3>3. CASE Clear(r)
      BY <3>3 DEF Clear, Cleared, RebuildType
    <3>. QED BY <1>3, <3>1, <3>2, <3>3
  <2>2. CallType' /\ LaneType' /\ HistoryType'
    BY <1>3 DEF Collect, GiveUp, Clear, CallType, LaneType, HistoryType, cvars, wvars, hvars
  <2>. QED BY <2>1, <2>2
<1>4. CASE RegisterOne(r)
  <2>1. RebuildType'
    <3>1. PICK h \in rtodo[r] : /\ registry' = [registry EXCEPT ![h] = TRUE]
                                /\ rtodo' = [rtodo EXCEPT ![r] = @ \ {h}]
      BY <1>4 DEF RegisterOne
    <3>2. h \in Handlers /\ rtodo[r] \subseteq Handlers
      BY <3>1 DEF RebuildType
    <3>. QED BY <1>4, <3>1, <3>2 DEF RegisterOne, RebuildType
  <2>2. CallType' /\ LaneType' /\ HistoryType'
    BY <1>4 DEF RegisterOne, CallType, LaneType, HistoryType, cvars, wvars, hvars
  <2>. QED BY <2>1, <2>2
<1>5. CASE BumpGeneration(r)
  <2>1. generation' \in Nat \ {0} /\ cgen' \in [Calls -> 0..generation']
    BY <1>5 DEF BumpGeneration, RebuildType, CallType, cvars
  <2>2. RebuildType'
    BY <1>5, <2>1 DEF BumpGeneration, RebuildType
  <2>3. CallType'
    BY <1>5, <2>1 DEF BumpGeneration, CallType, cvars
  <2>4. LaneType' /\ HistoryType'
    BY <1>5 DEF BumpGeneration, LaneType, HistoryType, wvars, hvars
  <2>. QED BY <2>2, <2>3, <2>4
<1>. QED BY <1>1, <1>2, <1>3, <1>4, <1>5 DEF Rebuild

\* A call keeps the types.
LEMMA CallTypes == ASSUME TypeOK, NEW c \in Calls, Call(c) PROVE TypeOK'
<1>. USE DEF TypeOK
<1>1. RebuildType'
  BY DEF Call, Dispatch, Enqueue, Abandon, RebuildType, rvars
<1>2. CASE Dispatch(c)
  <2>1. generation \in 0..generation
    BY DEF RebuildType
  <2>2. cpoint' \in [Calls -> Points]
    BY <1>2 DEF Dispatch, AtPoint, CallType, Points
  <2>3. CallType'
    BY <1>2, <2>1, <2>2 DEF Dispatch, CallType, rvars
  <2>4. LaneType'
    BY <1>2 DEF Dispatch, LaneType, wvars
  <2>5. HistoryType'
    <3>1. Listeners(cpoint'[c]) \subseteq Plugins
      BY DEF Listeners
    <3>2. calm' \in [Calls -> BOOLEAN] /\ asked' \in [Calls -> SUBSET Plugins]
      BY <1>2 DEF Dispatch, HistoryType
    <3>3. due' \in [Calls -> SUBSET Plugins]
      BY <1>2, <3>1 DEF Dispatch, HistoryType
    <3>. QED BY <1>2, <3>2, <3>3 DEF Dispatch, HistoryType, rvars
  <2>. QED BY <1>1, <2>3, <2>4, <2>5
<1>3. CASE Enqueue(c)
  <2>1. lane' \in [Points -> Seq(Calls)] /\ \A l \in Points : Len(lane'[l]) <= Capacity
    BY <1>3, CapacityAssumption DEF Enqueue, LaneType, CallType, CapacityAssumption
  <2>2. LaneType'
    BY <1>3, <2>1 DEF Enqueue, LaneType, wvars
  <2>3. CallType' /\ HistoryType'
    BY <1>3 DEF Enqueue, CallType, HistoryType, rvars, hvars
  <2>. QED BY <1>1, <2>2, <2>3
<1>4. CASE Abandon(c)
  BY <1>1, <1>4 DEF Abandon, CallType, LaneType, HistoryType, rvars, hvars, wvars
<1>. QED BY <1>2, <1>3, <1>4 DEF Call

\* The head of a lane is a call; without it the lane is shorter by one.
LEMMA HeadOfLane ==
  ASSUME LaneType, NEW l \in Points, lane[l] # <<>>
  PROVE  /\ Head(lane[l]) \in Calls /\ Head(lane[l]) = lane[l][1] /\ 1 \in 1..Len(lane[l])
         /\ Tail(lane[l]) \in Seq(Calls) /\ Len(Tail(lane[l])) = Len(lane[l]) - 1
         /\ \A i \in 1..Len(Tail(lane[l])) : i + 1 \in 1..Len(lane[l]) /\ Tail(lane[l])[i] = lane[l][i + 1]
<1>1. lane[l] \in Seq(Calls) /\ lane[l] # <<>>
  BY DEF LaneType
<1>. QED BY <1>1, HeadTailProperties, EmptySeq

\* An answer keeps the types of the calls.
LEMMA AnswerTypes ==
  ASSUME TypeOK, NEW c \in Calls, NEW deny \in BOOLEAN, Answer(c, deny), UNCHANGED <<cpoint, generation>>
  PROVE  CallType'
<1>1. 0 \in 0..generation
  BY DEF TypeOK, RebuildType
<1>. QED BY <1>1 DEF Answer, TypeOK, CallType

\* A worker keeps the types.
LEMMA WorkTypes ==
  ASSUME TypeOK, OnePlace, NEW l \in Points, Work(l)
  PROVE  TypeOK'
<1>. USE DEF TypeOK
<1>1. RebuildType'
  BY DEF Work, Void, Take, ReadRegistrations, Ask, AskNext, HookDenies, Finish, RebuildType, rvars
<1>2. CASE Void(l) \/ Take(l)
  <2>1. lane[l] # <<>> /\ lane' = [lane EXCEPT ![l] = Tail(lane[l])]
    BY <1>2 DEF Void, Take, LaneType
  <2>2. lane' \in [Points -> Seq(Calls)] /\ \A m \in Points : Len(lane'[m]) <= Capacity
    <3>1. Tail(lane[l]) \in Seq(Calls) /\ Len(Tail(lane[l])) <= Capacity
      <4>1. Len(lane[l]) \in Nat /\ Len(lane[l]) <= Capacity
        BY DEF LaneType
      <4>. QED BY <2>1, <4>1, HeadOfLane, CapacityAssumption DEF CapacityAssumption
    <3>. QED BY <2>1, <3>1 DEF LaneType
  <2>3. LaneType'
    <3>1. Head(lane[l]) \in Calls
      BY <2>1, HeadOfLane
    <3>2. /\ wstep' \in [Points -> {"recv", "begin", "ask", "asking"}]
          /\ wjob' \in [Points -> Calls \cup {"none"}] /\ wtodo' = wtodo
      <4>1. CASE Void(l)
        BY <4>1 DEF Void, LaneType, wvars
      <4>2. CASE Take(l)
        BY <3>1, <4>2 DEF Take, LaneType
      <4>. QED BY <1>2, <4>1, <4>2
    <3>. QED BY <2>2, <3>2 DEF LaneType
  <2>4. CallType'
    <3>1. CASE Void(l)
      BY <2>1, <3>1, HeadOfLane, AnswerTypes DEF Void, rvars
    <3>2. CASE Take(l)
      BY <3>2 DEF Take, CallType, cvars, rvars
    <3>. QED BY <1>2, <3>1, <3>2
  <2>5. HistoryType'
    BY <1>2 DEF Void, Take, HistoryType, hvars, rvars
  <2>. QED BY <1>1, <2>3, <2>4, <2>5
<1>3. CASE ReadRegistrations(l) \/ AskNext(l)
  <2>1. LaneType'
    BY <1>3, HandlerTypes DEF ReadRegistrations, AskNext, LaneType
  <2>2. CallType' /\ HistoryType'
    BY <1>3 DEF ReadRegistrations, AskNext, CallType, HistoryType, cvars, hvars, rvars
  <2>. QED BY <1>1, <2>1, <2>2
<1>4. CASE Ask(l)
  <2>1. asked' \in [Calls -> SUBSET Plugins]
    <3>1. PICK p \in Plugins : asked' = [asked EXCEPT ![wjob[l]] = IF calm[wjob[l]] THEN @ \cup {p} ELSE {}]
      BY <1>4 DEF Ask
    <3>. QED BY <3>1 DEF HistoryType
  <2>2. HistoryType'
    BY <1>4, <2>1 DEF Ask, HistoryType, rvars
  <2>3. CallType' /\ LaneType'
    BY <1>4 DEF Ask, CallType, LaneType, cvars, rvars
  <2>. QED BY <1>1, <2>2, <2>3
<1>5. CASE HookDenies(l) \/ Finish(l)
  <2>1. wjob[l] \in Calls
    BY <1>5 DEF HookDenies, Finish, OnePlace
  <2>2. CallType'
    BY <1>5, <2>1, AnswerTypes DEF HookDenies, Finish, rvars
  <2>3. LaneType' /\ HistoryType'
    BY <1>5 DEF HookDenies, Finish, Idle, LaneType, HistoryType, hvars, rvars
  <2>. QED BY <1>1, <2>2, <2>3
<1>. QED BY <1>2, <1>3, <1>4, <1>5 DEF Work

-----------------------------------------------------------------------------
(* Rebuilds                                                                 *)

\* While a rebuild is under way no call is calm; whatever the rebuild does, the
\* facts about calm calls and about jobs stay.
LEMMA NoCalmCall ==
  ASSUME Ind, UNCHANGED <<cvars, lane, wvars>>,
         (UNCHANGED hvars /\ InFlight # {}) \/ calm' = [c \in Calls |-> FALSE]
  PROVE  Calm' /\ OnePlace' /\ Asking' /\ HooksFollowConfig'
<1>1. \A c \in Calls : ~calm'[c]
  BY DEF Ind, Facts, Calm, Rebuilding, hvars
<1>2. OnePlace'
  BY DEF Ind, Facts, OnePlace, InLane, InHand, cvars, wvars
<1>. QED BY <1>1, <1>2 DEF Calm, Asking, HooksFollowConfig

\* A rebuild leaves no call calm, and leaves what the file wants if it is alone.
LEMMA RebuildSteps == ASSUME Ind, NEW r \in Requests, Rebuild(r) PROVE Facts'
<1>. USE DEF Ind, Facts
<1>0. rstep \in [Requests -> {"idle", "write", "collect", "clear", "register", "done"}]
      /\ rtodo \in [Requests -> SUBSET Handlers]
  BY DEF TypeOK, RebuildType
<1>1. CASE ReadSwitch(r) \/ Refresh(r)
  <2>1. /\ ~sound' /\ spoiled' = (InFlight # {}) /\ calm' = [c \in Calls |-> FALSE]
        /\ rstep[r] = "idle" /\ rstep'[r] \in {"write", "collect"}
        /\ \A s \in Requests : s # r => rstep'[s] = rstep[s]
        /\ UNCHANGED <<rtodo, registry, disabled, cvars, lane, wvars>>
    BY <1>0, <1>1 DEF ReadSwitch, Refresh, Begins
  <2>2. Rebuilding'
    <3>1. InFlight = {} => \A s \in Requests : s # r => rstep'[s] \in {"idle", "done"}
      BY <2>1 DEF InFlight
    <3>. QED BY <2>1, <3>1 DEF Rebuilding, InFlight
  <2>. QED BY <2>1, <2>2, NoCalmCall
<1>2. ASSUME r \in InFlight, UNCHANGED <<cvars, lane, wvars, hvars>>, Rebuilding' PROVE Facts'
  <2>1. InFlight # {}
    BY <1>2
  <2>. QED BY <1>2, <2>1, NoCalmCall
<1>4. ~spoiled => InFlight \subseteq {r} \/ r \notin InFlight
  BY DEF Rebuilding
<1>5. ASSUME r \in InFlight, WriteSwitch(r) \/ Collect(r) \/ Clear(r)
      PROVE  Facts'
  <2>1. /\ UNCHANGED sound /\ ~sound /\ (spoiled => spoiled')
        /\ UNCHANGED <<cvars, lane, wvars, hvars>>
    <3>1. CASE WriteSwitch(r)
      BY <1>5, <3>1 DEF WriteSwitch, Rebuilding
    <3>2. CASE Collect(r)
      BY <1>5, <3>2 DEF Collect, Rebuilding
    <3>3. CASE Clear(r)
      BY <1>5, <3>3 DEF Clear, Rebuilding
    <3>. QED BY <1>5, <3>1, <3>2, <3>3
  <2>2. \A s \in Requests : s # r => rstep'[s] = rstep[s]
    BY <1>0, <1>5 DEF WriteSwitch, Collect, Clear
  <2>3. InFlight' = InFlight
    <3>1. rstep'[r] \in {"collect", "clear", "register"}
      BY <1>0, <1>5 DEF WriteSwitch, Collect, Clear
    <3>. QED BY <1>5, <2>2, <3>1 DEF InFlight
  <2>4. ~spoiled' => \A s \in Requests : s # r => rstep'[s] \in {"idle", "done"}
    BY <1>4, <1>5, <2>1, <2>2 DEF InFlight
  <2>5. ~spoiled' => /\ rstep'[r] = "clear" => rtodo'[r] = Wanted'
                     /\ rstep'[r] = "register" => Registry' \cup rtodo'[r] = Wanted'
    <3>1. CASE WriteSwitch(r)
      BY <1>0, <3>1 DEF WriteSwitch
    <3>2. CASE Collect(r)
      <4>1. PICK broken \in {{}} \cup {{p} : p \in Plugins \ disabled} :
                /\ rtodo' = [rtodo EXCEPT ![r] = HandlersOf((Plugins \ disabled) \ broken)]
                /\ spoiled' = (spoiled \/ broken # {})
        BY <3>2 DEF Collect
      <4>2. ~spoiled' => rtodo'[r] = HandlersOf(Plugins \ disabled)
        BY <1>0, <4>1
      <4>3. HandlersOf(Plugins \ disabled) = Wanted
        BY DEF HandlersOf, Wanted, Handlers
      <4>4. Wanted' = Wanted /\ rstep'[r] = "clear"
        BY <1>0, <3>2 DEF Collect, Wanted
      <4>. QED BY <4>2, <4>3, <4>4
    <3>3. CASE Clear(r)
      <4>1. Registry' = {}
        BY <3>3 DEF Clear, Cleared, Registry
      <4>2. rstep'[r] = "register" /\ rstep[r] = "clear" /\ rtodo' = rtodo /\ Wanted' = Wanted /\ spoiled' = spoiled
        BY <1>0, <3>3 DEF Clear, Wanted
      <4>. QED BY <4>1, <4>2 DEF Rebuilding
    <3>. QED BY <1>5, <3>1, <3>2, <3>3
  <2>6. Rebuilding'
    BY <2>1, <2>3, <2>4, <2>5 DEF Rebuilding
  <2>. QED BY <1>2, <1>5, <2>1, <2>6
<1>6. CASE RegisterOne(r)
  <2>1. PICK h \in rtodo[r] : /\ registry' = [registry EXCEPT ![h] = TRUE]
                              /\ rtodo' = [rtodo EXCEPT ![r] = @ \ {h}]
    BY <1>6 DEF RegisterOne
  <2>2. /\ rstep[r] = "register" /\ r \in InFlight /\ ~sound
        /\ UNCHANGED <<rstep, sound, spoiled, disabled, cvars, lane, wvars, hvars>>
    BY <1>6 DEF RegisterOne, InFlight, Rebuilding
  <2>3. InFlight' = InFlight /\ Wanted' = Wanted
    BY <2>2 DEF InFlight, Wanted
  <2>4. h \in Plugins \X Points
    BY <1>0, <2>1, HandlerTypes
  <2>5. Registry' = Registry \cup {h}
    BY <2>1, <2>4 DEF Registry, TypeOK, RebuildType
  <2>6. rtodo'[r] = rtodo[r] \ {h}
    BY <1>0, <2>1
  <2>7. ~spoiled => Registry' \cup rtodo'[r] = Wanted
    BY <2>1, <2>2, <2>5, <2>6 DEF Rebuilding
  <2>8. ~spoiled => \A s \in Requests : s # r => rstep[s] \in {"idle", "done"}
    BY <1>4, <2>2 DEF InFlight
  <2>9. Rebuilding'
    BY <2>2, <2>3, <2>7, <2>8 DEF Rebuilding
  <2>. QED BY <1>2, <2>2, <2>9
<1>7. CASE GiveUp(r) \/ BumpGeneration(r)
  <2>1. /\ r \in InFlight /\ ~sound /\ rstep'[r] = "done"
        /\ \A s \in Requests : s # r => rstep'[s] = rstep[s] /\ rtodo'[s] = rtodo[s]
        /\ UNCHANGED <<registry, disabled, spoiled, cvars, lane, wvars, hvars>>
        /\ sound' => ~spoiled /\ rstep[r] = "register" /\ rtodo[r] = {}
    <3>1. CASE GiveUp(r)
      BY <1>0, <3>1 DEF GiveUp, InFlight, Rebuilding
    <3>2. CASE BumpGeneration(r)
      BY <1>0, <3>2 DEF BumpGeneration, InFlight, Rebuilding
    <3>. QED BY <1>7, <3>1, <3>2
  <2>2. InFlight' = InFlight \ {r}
    BY <2>1 DEF InFlight
  <2>3. ~spoiled => InFlight' = {}
    BY <1>4, <2>1, <2>2
  <2>4. sound' => Registry' = Wanted'
    BY <2>1 DEF Rebuilding, Registry, Wanted
  <2>5. Rebuilding'
    BY <2>1, <2>3, <2>4 DEF Rebuilding, InFlight
  <2>. QED BY <1>2, <2>1, <2>5
<1>8. WriteSwitch(r) \/ Collect(r) \/ Clear(r) => r \in InFlight
  BY DEF WriteSwitch, Collect, Clear, InFlight
<1>. QED BY <1>1, <1>5, <1>6, <1>7, <1>8 DEF Rebuild

-----------------------------------------------------------------------------
(* Calls                                                                    *)

\* Calls and workers leave the registrations alone.
LEMMA RebuildingStays == ASSUME Rebuilding, UNCHANGED rvars PROVE Rebuilding'
BY DEF Rebuilding, rvars, InFlight, Registry, Wanted

\* A call enters one lane, and is calm only if the last rebuild was sound.
LEMMA CallSteps == ASSUME Ind, NEW c \in Calls, Call(c) PROVE Facts'
<1>. USE DEF Ind, Facts
<1>1. Rebuilding'
  BY RebuildingStays DEF Call, Dispatch, Enqueue, Abandon
<1>2. /\ cstep \in [Calls -> {"idle", "sending", "waiting", "answered", "gone"}]
      /\ cpoint \in [Calls -> Points] /\ lane \in [Points -> Seq(Calls)]
      /\ asked \in [Calls -> SUBSET Plugins] /\ due \in [Calls -> SUBSET Plugins]
      /\ calm \in [Calls -> BOOLEAN] /\ cgen \in [Calls -> 0..generation]
  BY DEF TypeOK, CallType, LaneType, HistoryType
<1>3. CASE Dispatch(c)
  <2>1. /\ cstep[c] \in {"idle", "answered"} /\ cstep'[c] = "sending" /\ cgen'[c] = generation
        /\ asked'[c] = {} /\ calm'[c] = (sound /\ InFlight = {})
        /\ due'[c] = IF calm'[c] THEN Listeners(cpoint'[c]) ELSE {}
        /\ UNCHANGED <<rvars, refused, lane, wvars>>
    BY <1>2, <1>3 DEF Dispatch, AtPoint
  <2>2. \A d \in Calls : d # c => /\ cstep'[d] = cstep[d] /\ cgen'[d] = cgen[d] /\ asked'[d] = asked[d]
                                  /\ calm'[d] = calm[d] /\ due'[d] = due[d] /\ cpoint'[d] = cpoint[d]
    BY <1>2, <1>3 DEF Dispatch, AtPoint
  <2>3. \A l \in Points : ~InLane(c, l) /\ ~InHand(c, l)
    BY <2>1 DEF OnePlace
  <2>4. \A l \in Points : \A d \in Calls : (InLane(d, l)' <=> InLane(d, l)) /\ (InHand(d, l)' <=> InHand(d, l))
    BY <2>1 DEF InLane, InHand, wvars
  <2>5. Calm'
    <3>1. \A l : Listeners(l)' = Listeners(l)
      BY <2>1 DEF Listeners, rvars
    <3>2. \A d \in Calls : calm'[d] => due'[d] = {p \in Plugins \ disabled : cpoint'[d] \in Listens[p]}
      BY <2>1, <2>2 DEF Calm, Listeners
    <3>3. \A d \in Calls : calm'[d] => sound /\ (cstep'[d] \in {"sending", "waiting"} => cgen'[d] = generation)
      BY <2>1, <2>2 DEF Calm
    <3>. QED BY <2>1, <3>2, <3>3 DEF Calm, Listeners, rvars
  <2>6. OnePlace'
    BY <2>1, <2>2, <2>3, <2>4 DEF OnePlace, wvars
  <2>7. Asking'
    BY <2>1, <2>2, <2>3, <2>4 DEF Asking, wvars, IsNext
  <2>8. HooksFollowConfig'
    BY <2>1, <2>2 DEF HooksFollowConfig
  <2>. QED BY <1>1, <2>5, <2>6, <2>7, <2>8
<1>4. CASE Enqueue(c)
  <2>. DEFINE k == cpoint[c]
  <2>1. /\ cstep[c] = "sending" /\ cstep'[c] = "waiting"
        /\ \A d \in Calls : d # c => cstep'[d] = cstep[d]
        /\ UNCHANGED <<rvars, cpoint, cgen, refused, hvars, wvars>>
        /\ k \in Points /\ lane'[k] = Append(lane[k], c) /\ \A l \in Points : l # k => lane'[l] = lane[l]
    BY <1>2, <1>4 DEF Enqueue
  <2>2. /\ Len(lane'[k]) = Len(lane[k]) + 1 /\ Len(lane[k]) \in Nat /\ lane'[k][Len(lane[k]) + 1] = c
        /\ \A i \in 1..Len(lane[k]) : lane'[k][i] = lane[k][i]
    BY <1>2, <2>1, AppendProperties
  <2>3. \A l \in Points : ~InLane(c, l) /\ ~InHand(c, l)
    BY <2>1 DEF OnePlace
  <2>4. \A l \in Points : \A d \in Calls : InLane(d, l)' => InLane(d, l) \/ (d = c /\ l = k)
    <3>. HIDE DEF k
    <3>. QED BY <2>1, <2>2 DEF InLane
  <2>5. \A l \in Points : \A d \in Calls : InHand(d, l)' <=> InHand(d, l)
    BY <2>1 DEF InHand, wvars
  <2>6. \A l \in Points : \A i, j \in 1..Len(lane'[l]) : lane'[l][i] = lane'[l][j] => i = j
    <3>1. ASSUME NEW l \in Points, l # k PROVE \A i, j \in 1..Len(lane'[l]) : lane'[l][i] = lane'[l][j] => i = j
      BY <2>1, <3>1 DEF OnePlace
    <3>2. \A i \in 1..Len(lane[k]) : lane[k][i] # c
      BY <2>1, <2>3 DEF InLane
    <3>3. \A i, j \in 1..Len(lane[k]) : lane[k][i] = lane[k][j] => i = j
      BY <2>1 DEF OnePlace
    <3>4. \A i, j \in 1..Len(lane'[k]) : lane'[k][i] = lane'[k][j] => i = j
      <4>. DEFINE n == Len(lane[k])
                  u == lane'[k]
                  s == lane[k]
      <4>1. /\ n \in Nat /\ Len(u) = n + 1 /\ u[n + 1] = c
            /\ \A i \in 1..n : u[i] = s[i] /\ s[i] # c
            /\ \A i, j \in 1..n : s[i] = s[j] => i = j
        BY <2>2, <3>2, <3>3
      <4>. HIDE DEF k, n, u, s
      <4>2. \A i \in 1..n + 1 : i \in 1..n \/ i = n + 1
        BY <4>1
      <4>3. \A i, j \in 1..n + 1 : u[i] = u[j] => i = j
        BY <4>1, <4>2
      <4>4. \A i, j \in 1..Len(u) : u[i] = u[j] => i = j
        BY ONLY <4>1, <4>3
      <4>. QED BY ONLY <4>4 DEF u
    <3>. QED BY <3>1, <3>4
  <2>7. OnePlace'
    BY <2>1, <2>3, <2>4, <2>5, <2>6 DEF OnePlace, wvars
  <2>8. Calm'
    BY <2>1 DEF Calm, Listeners, rvars, hvars
  <2>9. Asking'
    BY <2>1, <2>3, <2>4, <2>5 DEF Asking, wvars, hvars, IsNext
  <2>10. HooksFollowConfig'
    BY <2>1 DEF HooksFollowConfig, hvars
  <2>. QED BY <1>1, <2>7, <2>8, <2>9, <2>10
<1>5. CASE Abandon(c)
  <2>1. /\ cstep[c] \in {"sending", "waiting", "answered"} /\ cstep'[c] = "gone"
        /\ \A d \in Calls : d # c => cstep'[d] = cstep[d]
        /\ UNCHANGED <<rvars, cpoint, cgen, refused, hvars, lane, wvars>>
    BY <1>2, <1>5 DEF Abandon
  <2>2. OnePlace'
    BY <2>1 DEF OnePlace, InLane, InHand, wvars
  <2>3. Calm'
    BY <2>1 DEF Calm, Listeners, rvars, hvars
  <2>4. Asking'
    BY <2>1 DEF Asking, InLane, InHand, wvars, hvars, IsNext
  <2>5. HooksFollowConfig'
    BY <2>1 DEF HooksFollowConfig, hvars
  <2>. QED BY <1>1, <2>2, <2>3, <2>4, <2>5
<1>. QED BY <1>3, <1>4, <1>5 DEF Call

-----------------------------------------------------------------------------
(* Workers                                                                  *)

\* The plugin to be asked next is one.
LEMMA OneIsNext ==
  ASSUME NEW l \in Points, NEW p \in Plugins, NEW q \in Plugins, IsNext(p, l), IsNext(q, l)
  PROVE  p = q
<1>1. Before(p, q) /\ Before(q, p)
  BY DEF IsNext
<1>2. PICK i, j \in DOMAIN Order : i <= j /\ Order[i] = p /\ Order[j] = q
  BY <1>1 DEF Before
<1>3. PICK m, n \in DOMAIN Order : m <= n /\ Order[m] = q /\ Order[n] = p
  BY <1>1 DEF Before
<1>4. i = n /\ j = m
  BY <1>2, <1>3, OrderAssumption DEF OrderAssumption, IsInjective
<1>5. i \in Int /\ j \in Int
  BY OrderAssumption, ElementOfSeq, LenProperties DEF OrderAssumption
<1>. QED BY <1>2, <1>3, <1>4, <1>5

\* The first job leaves its lane: it is in no other place, and the others stay.
LEMMA JobLeaves ==
  ASSUME TypeOK, OnePlace, NEW l \in Points, lane[l] # <<>>,
         NEW c, c = Head(lane[l]), lane' = [lane EXCEPT ![l] = Tail(@)]
  PROVE  /\ c \in Calls /\ InLane(c, l)
         /\ \A m \in Points : ~InLane(c, m)' /\ ~InHand(c, m)
         /\ \A m \in Points : \A d \in Calls : InLane(d, m)' => InLane(d, m)
         /\ \A m \in Points : \A i, j \in 1..Len(lane'[m]) : lane'[m][i] = lane'[m][j] => i = j
<1>0. lane \in [Points -> Seq(Calls)] /\ Len(lane[l]) \in Nat /\ LaneType
  BY LenProperties DEF TypeOK, LaneType
<1>1. /\ c \in Calls /\ c = lane[l][1] /\ 1 \in 1..Len(lane[l])
      /\ Len(Tail(lane[l])) = Len(lane[l]) - 1
      /\ \A i \in 1..Len(Tail(lane[l])) : i + 1 \in 1..Len(lane[l]) /\ Tail(lane[l])[i] = lane[l][i + 1]
  BY <1>0, HeadOfLane
<1>2. InLane(c, l)
  BY <1>1 DEF InLane
<1>3. lane'[l] = Tail(lane[l]) /\ \A m \in Points : m # l => lane'[m] = lane[m]
  BY <1>0
<1>4. \A i, j \in 1..Len(lane[l]) : lane[l][i] = lane[l][j] => i = j
  BY DEF OnePlace
<1>5. \A m \in Points : \A d \in Calls : InLane(d, m)' => InLane(d, m)
  BY <1>1, <1>3 DEF InLane
<1>6. \A i \in 1..Len(lane'[l]) : lane'[l][i] # c
  <2>. TAKE i \in 1..Len(lane'[l])
  <2>1. i + 1 \in 1..Len(lane[l]) /\ lane'[l][i] = lane[l][i + 1]
    BY <1>1, <1>3
  <2>2. i \in Int /\ i >= 1
    OBVIOUS
  <2>3. i + 1 # 1
    BY <2>2
  <2>. QED BY <1>1, <1>4, <2>1, <2>3
<1>7. \A m \in Points : m # l => ~InLane(c, m)
  BY <1>1, <1>2 DEF OnePlace
<1>8. \A m \in Points : ~(\E i \in 1..Len(lane'[m]) : lane'[m][i] = c)
  <2>. TAKE m \in Points
  <2>1. CASE m = l
    BY ONLY <1>6, <2>1
  <2>2. CASE m # l
    <3>1. lane'[m] = lane[m]
      BY <1>1, <1>3, <2>2
    <3>. QED BY <1>7, <2>2, <3>1 DEF InLane
  <2>. QED BY <2>1, <2>2
<1>9. \A m \in Points : ~InHand(c, m)
  BY <1>1, <1>2 DEF OnePlace
<1>10. \A m \in Points : \A i, j \in 1..Len(lane'[m]) : lane'[m][i] = lane'[m][j] => i = j
  <2>1. \A i, j \in 1..Len(lane'[l]) : lane'[l][i] = lane'[l][j] => i = j
    <3>. TAKE i, j \in 1..Len(lane'[l])
    <3>1. /\ i + 1 \in 1..Len(lane[l]) /\ lane'[l][i] = lane[l][i + 1]
          /\ j + 1 \in 1..Len(lane[l]) /\ lane'[l][j] = lane[l][j + 1]
      BY <1>1, <1>3
    <3>2. lane'[l][i] = lane'[l][j] => i + 1 = j + 1
      BY <1>4, <3>1
    <3>3. i \in Int /\ j \in Int
      OBVIOUS
    <3>. QED BY <3>2, <3>3
  <2>2. ASSUME NEW m \in Points, m # l PROVE \A i, j \in 1..Len(lane'[m]) : lane'[m][i] = lane'[m][j] => i = j
    BY <1>3, <2>2 DEF OnePlace
  <2>3. ASSUME NEW m \in Points PROVE \A i, j \in 1..Len(lane'[m]) : lane'[m][i] = lane'[m][j] => i = j
    <3>1. CASE m = l
      BY <2>1, <3>1
    <3>2. CASE m # l
      BY <2>2, <3>2
    <3>. QED BY <3>1, <3>2
  <2>. QED BY <2>3
<1>11. \A m \in Points : ~InLane(c, m)'
  BY <1>8 DEF InLane
<1>. QED BY <1>1, <1>2, <1>5, <1>9, <1>10, <1>11

\* A worker asks one plugin of those that are due, in their order.
LEMMA WorkSteps == ASSUME Ind, NEW l \in Points, Work(l) PROVE Facts'
<1>. USE DEF Ind, Facts
<1>1. Rebuilding'
  BY RebuildingStays DEF Work, Void, Take, ReadRegistrations, Ask, AskNext, HookDenies, Finish
<1>2. /\ cstep \in [Calls -> {"idle", "sending", "waiting", "answered", "gone"}]
      /\ cpoint \in [Calls -> Points] /\ refused \in [Calls -> BOOLEAN]
      /\ cgen \in [Calls -> 0..generation]
  BY DEF TypeOK, CallType
<1>3. /\ wstep \in [Points -> {"recv", "begin", "ask", "asking"}]
      /\ wjob \in [Points -> Calls \cup {"none"}] /\ wtodo \in [Points -> SUBSET Plugins]
  BY DEF TypeOK, LaneType
<1>4. /\ asked \in [Calls -> SUBSET Plugins] /\ due \in [Calls -> SUBSET Plugins]
      /\ calm \in [Calls -> BOOLEAN]
  BY DEF TypeOK, HistoryType
\* An answer tells the rest nothing: the job of the call was in this lane.
<1>5. ASSUME NEW c \in Calls, NEW deny \in BOOLEAN, Answer(c, deny), UNCHANGED <<rvars, cpoint, hvars>>,
             cstep[c] \in {"waiting", "gone"}
      PROVE  /\ Calm' /\ cstep'[c] \in {"answered", "gone"}
             /\ cstep'[c] = "answered" => cstep[c] = "waiting" /\ refused'[c] = (refused[c] \/ deny)
             /\ \A d \in Calls : d # c => cstep'[d] = cstep[d] /\ refused'[d] = refused[d]
  <2>1. /\ cstep'[c] \in {"answered", "gone"} /\ refused'[c] = (refused[c] \/ deny)
        /\ cstep'[c] = "answered" => cstep[c] = "waiting"
        /\ \A d \in Calls : d # c => cstep'[d] = cstep[d] /\ refused'[d] = refused[d] /\ cgen'[d] = cgen[d]
    BY <1>2, <1>5 DEF Answer
  <2>2. Calm'
    BY <1>5, <2>1 DEF Calm, Listeners, rvars, hvars
  <2>. QED BY <2>1, <2>2
<1>6. CASE Void(l)
  <2>1. PICK c : c = Head(lane[l])
    OBVIOUS
  <2>2. /\ lane[l] # <<>> /\ lane' = [lane EXCEPT ![l] = Tail(@)] /\ Stale(c) /\ Answer(c, FALSE)
        /\ UNCHANGED <<rvars, cpoint, hvars, wvars>>
    BY <1>6, <2>1 DEF Void
  <2>3. /\ c \in Calls /\ InLane(c, l)
        /\ \A m \in Points : ~InLane(c, m)' /\ ~InHand(c, m)
        /\ \A m \in Points : \A d \in Calls : InLane(d, m)' => InLane(d, m)
        /\ \A m \in Points : \A i, j \in 1..Len(lane'[m]) : lane'[m][i] = lane'[m][j] => i = j
    BY <2>1, <2>2, JobLeaves
  <2>4. cstep[c] \in {"waiting", "gone"}
    BY <2>3 DEF OnePlace
  <2>5. /\ Calm' /\ cstep'[c] \in {"answered", "gone"} /\ (cstep'[c] = "answered" => cstep[c] = "waiting")
        /\ \A d \in Calls : d # c => cstep'[d] = cstep[d] /\ refused'[d] = refused[d]
    BY <1>5, <2>2, <2>3, <2>4
  <2>6. \A m \in Points : \A d \in Calls : InHand(d, m)' <=> InHand(d, m)
    BY <2>2 DEF InHand, wvars
  <2>7. OnePlace'
    <3>1. \A m \in Points : wstep'[m] # "recv" => wjob'[m] \in Calls
      BY <2>2 DEF OnePlace, wvars
    <3>2. \A m \in Points : \A d \in Calls :
             InLane(d, m)' \/ InHand(d, m)' => cpoint'[d] = m /\ cstep'[d] \in {"waiting", "gone"}
      <4>. SUFFICES ASSUME NEW m \in Points, NEW d \in Calls, InLane(d, m)' \/ InHand(d, m)'
                    PROVE  cpoint'[d] = m /\ cstep'[d] \in {"waiting", "gone"}
        OBVIOUS
      <4>1. d # c
        BY <2>3, <2>6
      <4>2. cpoint[d] = m /\ cstep[d] \in {"waiting", "gone"}
        BY <2>3, <2>6 DEF OnePlace
      <4>. QED BY <2>2, <2>5, <4>1, <4>2
    <3>3. \A m \in Points : \A d \in Calls : ~(InLane(d, m)' /\ InHand(d, m)')
      BY <2>3, <2>6 DEF OnePlace
    <3>. QED BY <2>3, <3>1, <3>2, <3>3 DEF OnePlace
  <2>8. Asking'
    BY <2>2, <2>3, <2>5, <2>6 DEF Asking, wvars, hvars, IsNext
  <2>9. cstep'[c] = "answered" => ~calm'[c]
    BY <2>2, <2>3, <2>5 DEF Calm, Stale, hvars
  <2>10. HooksFollowConfig'
    BY <2>2, <2>5, <2>9 DEF HooksFollowConfig, hvars
  <2>. QED BY <1>1, <2>5, <2>7, <2>8, <2>10
<1>7. CASE Take(l)
  <2>1. PICK c : c = Head(lane[l])
    OBVIOUS
  <2>2. /\ lane[l] # <<>> /\ lane' = [lane EXCEPT ![l] = Tail(@)] /\ wstep[l] = "recv"
        /\ wjob'[l] = c /\ wstep'[l] = "begin"
        /\ \A m \in Points : m # l => wjob'[m] = wjob[m] /\ wstep'[m] = wstep[m]
        /\ UNCHANGED <<rvars, cvars, hvars, wtodo>>
    BY <1>3, <1>7, <2>1 DEF Take
  <2>3. /\ c \in Calls /\ InLane(c, l)
        /\ \A m \in Points : ~InLane(c, m)' /\ ~InHand(c, m)
        /\ \A m \in Points : \A d \in Calls : InLane(d, m)' => InLane(d, m)
        /\ \A m \in Points : \A i, j \in 1..Len(lane'[m]) : lane'[m][i] = lane'[m][j] => i = j
    BY <2>1, <2>2, JobLeaves
  <2>4. \A m \in Points : \A d \in Calls : InHand(d, m)' => InHand(d, m) \/ (m = l /\ d = c)
    BY <2>2 DEF InHand
  <2>5. OnePlace'
    BY <2>2, <2>3, <2>4 DEF OnePlace, cvars
  <2>6. Asking'
    <3>1. calm[c] => asked[c] = {}
      BY <2>3 DEF Asking
    <3>2. \A d \in Calls : InHand(d, l)' => d = c
      BY <2>2 DEF InHand
    <3>3. \A m \in Points : \A d \in Calls : m # l => (InHand(d, m)' <=> InHand(d, m))
      BY <2>2 DEF InHand
    <3>. QED BY <2>2, <2>3, <3>1, <3>2, <3>3 DEF Asking, cvars, hvars, IsNext
  <2>7. Calm' /\ HooksFollowConfig'
    BY <2>2 DEF Calm, HooksFollowConfig, Listeners, rvars, cvars, hvars
  <2>. QED BY <1>1, <2>5, <2>6, <2>7
\* The job in hand is the worker's own.
<1>8. ASSUME wstep[l] # "recv" PROVE
      \E c \in Calls : /\ c = wjob[l] /\ InHand(c, l) /\ cpoint[c] = l /\ cstep[c] \in {"waiting", "gone"}
                       /\ \A m \in Points : ~InLane(c, m) /\ (m # l => ~InHand(c, m))
                       /\ \A d \in Calls : InHand(d, l) => d = c
  BY <1>8 DEF OnePlace, InHand
<1>9. CASE ReadRegistrations(l) \/ Ask(l) \/ AskNext(l)
  <2>1. /\ wstep[l] # "recv" /\ wstep'[l] # "recv" /\ wstep' = [wstep EXCEPT ![l] = wstep'[l]]
        /\ UNCHANGED <<rvars, cvars, calm, due, lane, wjob>>
    BY <1>3, <1>9 DEF ReadRegistrations, Ask, AskNext, hvars
  <2>2. PICK c \in Calls : /\ c = wjob[l] /\ InHand(c, l) /\ cpoint[c] = l /\ cstep[c] \in {"waiting", "gone"}
                          /\ \A m \in Points : ~InLane(c, m) /\ (m # l => ~InHand(c, m))
                          /\ \A d \in Calls : InHand(d, l) => d = c
    BY <1>8, <2>1
  <2>3. \A m \in Points : \A d \in Calls : /\ InHand(d, m)' <=> InHand(d, m)
                                           /\ InLane(d, m)' <=> InLane(d, m)
    BY <1>3, <2>1 DEF InHand, InLane
  <2>4. OnePlace'
    BY <1>3, <2>1, <2>3 DEF OnePlace, cvars
  <2>5. Calm'
    BY <2>1 DEF Calm, Listeners, rvars, cvars
  <2>6. \A m \in Points : m # l => wstep'[m] = wstep[m] /\ wtodo'[m] = wtodo[m]
    BY <1>3, <1>9 DEF ReadRegistrations, Ask, AskNext
  <2>7. \A d \in Calls : d # c => asked'[d] = asked[d]
    BY <1>4, <1>9, <2>2 DEF ReadRegistrations, Ask, AskNext, hvars
  <2>8. calm[c] => /\ wstep'[l] # "begin"
                   /\ wstep'[l] \in {"ask", "asking"} => asked'[c] \cup wtodo'[l] = due[c]
                   /\ wstep'[l] = "asking" => \A p \in Plugins : IsNext(p, l)' => p \in asked'[c]
    <3>. SUFFICES ASSUME calm[c] PROVE
           /\ wstep'[l] # "begin" /\ asked'[c] \cup wtodo'[l] = due[c]
           /\ wstep'[l] = "asking" => \A p \in Plugins : IsNext(p, l)' => p \in asked'[c]
      OBVIOUS
    <3>1. CASE ReadRegistrations(l)
      <4>1. asked'[c] = {} /\ wtodo'[l] = Registrations(l) /\ wstep'[l] = "ask"
        BY <1>3, <2>2, <3>1 DEF ReadRegistrations, hvars, Asking
      <4>2. Registry = Wanted /\ due[c] = Listeners(l)
        BY <2>2 DEF Calm, Rebuilding
      <4>3. Registrations(l) = Listeners(l)
        <5>1. \A p \in Plugins : <<p, l>> \in Registry <=> registry[<<p, l>>]
          BY DEF Registry
        <5>2. \A p \in Plugins : <<p, l>> \in Wanted <=> p \notin disabled /\ l \in Listens[p]
          BY DEF Wanted, Handlers
        <5>. QED BY <4>2, <5>1, <5>2 DEF Registrations, Listeners
      <4>. QED BY <4>1, <4>2, <4>3
    <3>2. CASE Ask(l)
      <4>1. PICK p \in Plugins : IsNext(p, l) /\ asked' = [asked EXCEPT ![c] = IF calm[c] THEN @ \cup {p} ELSE {}]
        BY <2>2, <3>2 DEF Ask
      <4>2. asked'[c] = asked[c] \cup {p}
        BY <1>4, <4>1
      <4>3. wtodo' = wtodo /\ wstep'[l] = "asking" /\ asked[c] \cup wtodo[l] = due[c] /\ p \in wtodo[l]
        BY <1>3, <2>2, <3>2, <4>1 DEF Ask, Asking, IsNext
      <4>4. \A q \in Plugins : IsNext(q, l)' => q = p
        BY <4>1, <4>3, OneIsNext DEF IsNext
      <4>. QED BY <4>2, <4>3, <4>4
    <3>3. CASE AskNext(l)
      <4>1. PICK p \in Plugins : IsNext(p, l) /\ wtodo' = [wtodo EXCEPT ![l] = @ \ {p}]
        BY <3>3 DEF AskNext
      <4>2. wstep[l] = "asking" /\ wstep'[l] = "ask" /\ asked' = asked
        BY <1>3, <3>3 DEF AskNext, hvars
      <4>3. p \in asked[c] /\ asked[c] \cup wtodo[l] = due[c]
        BY <2>2, <4>1, <4>2 DEF Asking
      <4>. QED BY <1>3, <4>1, <4>2, <4>3
    <3>. QED BY <1>9, <3>1, <3>2, <3>3
  <2>9. Asking'
    <3>1. \A d \in Calls : d # c => ~InHand(d, l)
      BY <2>2
    <3>2. \A m \in Points : \A p \in Plugins : m # l => (IsNext(p, m)' <=> IsNext(p, m))
      BY <2>6 DEF IsNext
    <3>. QED BY <2>1, <2>2, <2>3, <2>6, <2>7, <2>8, <3>1, <3>2 DEF Asking, cvars
  <2>10. HooksFollowConfig'
    BY <2>1, <2>2, <2>7 DEF HooksFollowConfig, cvars
  <2>. QED BY <1>1, <2>4, <2>5, <2>9, <2>10
<1>10. CASE HookDenies(l) \/ Finish(l)
  <2>1. wstep[l] \in {"ask", "asking"}
    BY <1>10 DEF HookDenies, Finish
  <2>2. PICK c \in Calls : /\ c = wjob[l] /\ InHand(c, l) /\ cpoint[c] = l /\ cstep[c] \in {"waiting", "gone"}
                          /\ \A m \in Points : ~InLane(c, m) /\ (m # l => ~InHand(c, m))
                          /\ \A d \in Calls : InHand(d, l) => d = c
    BY <1>8, <2>1
  <2>3. PICK deny \in BOOLEAN : Answer(c, deny) /\ (deny => l = "before") /\ (~deny => wtodo[l] = {})
    BY <1>10, <2>2 DEF HookDenies, Finish
  <2>4. /\ UNCHANGED <<rvars, cpoint, hvars, lane>> /\ wstep'[l] = "recv"
        /\ \A m \in Points : m # l => wstep'[m] = wstep[m] /\ wjob'[m] = wjob[m] /\ wtodo'[m] = wtodo[m]
    BY <1>3, <1>10 DEF HookDenies, Finish, Idle
  <2>5. /\ Calm' /\ cstep'[c] \in {"answered", "gone"}
        /\ cstep'[c] = "answered" => cstep[c] = "waiting" /\ refused'[c] = (refused[c] \/ deny)
        /\ \A d \in Calls : d # c => cstep'[d] = cstep[d] /\ refused'[d] = refused[d]
    BY <1>5, <2>2, <2>3, <2>4
  <2>6. \A m \in Points : \A d \in Calls : /\ InHand(d, m)' <=> (m # l /\ InHand(d, m))
                                           /\ InLane(d, m)' <=> InLane(d, m)
    BY <2>4 DEF InHand, InLane
  <2>7. OnePlace'
    BY <2>2, <2>4, <2>5, <2>6 DEF OnePlace
  <2>8. Asking'
    BY <2>2, <2>4, <2>5, <2>6 DEF Asking, hvars, IsNext
  <2>9. cstep'[c] = "answered" /\ calm[c] => \/ asked[c] = due[c]
                                            \/ (cpoint[c] = "before" /\ refused'[c] /\ asked[c] \subseteq due[c])
    <3>1. calm[c] => asked[c] \cup wtodo[l] = due[c]
      BY <2>1, <2>2 DEF Asking
    <3>. QED BY <2>2, <2>3, <2>5, <3>1
  <2>10. HooksFollowConfig'
    BY <2>4, <2>5, <2>9 DEF HooksFollowConfig, hvars
  <2>. QED BY <1>1, <2>5, <2>7, <2>8, <2>10
<1>. QED BY <1>6, <1>7, <1>9, <1>10 DEF Work

-----------------------------------------------------------------------------
(* The theorems                                                             *)

\* At first the registry is what the file wants, and no call is made.
LEMMA Start == Init => Ind
<1>. SUFFICES ASSUME Init PROVE Ind
  OBVIOUS
<1>1. TypeOK
  <2>1. RebuildType
    <3>1. /\ disabled \subseteq Plugins /\ registry \in [Plugins \X Points -> BOOLEAN]
          /\ \A h \in Plugins \X Points : registry[h] => h \in Handlers
      BY DEF Init
    <3>2. /\ generation \in Nat \ {0} /\ rwant \in [Requests -> Switches \cup {NoSwitch}]
          /\ rstep \in [Requests -> {"idle", "write", "collect", "clear", "register", "done"}]
          /\ rfile \in [Requests -> SUBSET Plugins] /\ rtodo \in [Requests -> SUBSET Handlers]
      BY DEF Init
    <3>. QED BY <3>1, <3>2 DEF RebuildType
  <2>2. CallType /\ HistoryType
    <3>1. generation = 1 /\ 0 \in 0..generation
      BY DEF Init
    <3>2. CallType
      BY <3>1 DEF Init, CallType, Points
    <3>3. HistoryType
      BY DEF Init, HistoryType
    <3>. QED BY <3>2, <3>3
  <2>3. LaneType
    <3>1. lane \in [Points -> Seq(Calls)] /\ \A l \in Points : Len(lane[l]) = 0
      BY EmptySeq DEF Init
    <3>. QED BY <3>1, CapacityAssumption DEF Init, LaneType, CapacityAssumption
  <2>. QED BY <2>1, <2>2, <2>3 DEF TypeOK
<1>2. Rebuilding
  <2>1. Registry = Wanted /\ InFlight = {}
    BY DEF Init, Registry, Wanted, Handlers, InFlight
  <2>. QED BY <2>1 DEF Init, Rebuilding
<1>3. \A l \in Points : \A c \in Calls : ~InLane(c, l) /\ ~InHand(c, l)
  <2>1. \A l \in Points : Len(lane[l]) = 0
    BY DEF Init
  <2>. QED BY <2>1 DEF Init, InLane, InHand
<1>4. OnePlace
  BY <1>3 DEF Init, OnePlace
<1>5. Calm /\ Asking /\ HooksFollowConfig
  BY <1>3 DEF Init, Calm, Asking, HooksFollowConfig
<1>. QED BY <1>1, <1>2, <1>4, <1>5 DEF Ind, Facts

\* Rebuilds, calls and workers keep the invariant.
LEMMA Step == Ind /\ [Next]_vars => Ind'
<1>. SUFFICES ASSUME Ind, [Next]_vars PROVE Ind'
  OBVIOUS
<1>1. CASE UNCHANGED vars
  <2>1. TypeOK'
    BY <1>1 DEF vars, rvars, cvars, hvars, wvars, Ind, TypeOK, RebuildType, CallType, LaneType, HistoryType
  <2>2. Rebuilding' /\ Calm' /\ OnePlace' /\ Asking' /\ HooksFollowConfig'
    <3>. USE <1>1 DEF vars, rvars, cvars, hvars, wvars, Ind, Facts
    <3>1. Rebuilding'
      BY DEF Rebuilding, InFlight, Registry, Wanted
    <3>2. Calm'
      BY DEF Calm, Listeners, InFlight, Registry, Wanted
    <3>3. OnePlace'
      BY DEF OnePlace, InLane, InHand
    <3>4. Asking'
      <4>1. \A l \in Points : \A c \in Calls :
              (InLane(c, l)' <=> InLane(c, l)) /\ (InHand(c, l)' <=> InHand(c, l))
        BY DEF InLane, InHand
      <4>2. \A l \in Points : \A p \in Plugins : IsNext(p, l)' <=> IsNext(p, l)
        BY DEF IsNext
      <4>. QED BY <4>1, <4>2 DEF Asking
    <3>5. HooksFollowConfig'
      BY DEF HooksFollowConfig, Wanted
    <3>. QED BY ONLY <3>1, <3>2, <3>3, <3>4, <3>5
  <2>. QED BY <2>1, <2>2 DEF Ind, Facts
<1>2. ASSUME NEW r \in Requests, Rebuild(r) PROVE Ind'
  BY <1>2, RebuildTypes, RebuildSteps DEF Ind
<1>3. ASSUME NEW c \in Calls, Call(c) PROVE Ind'
  BY <1>3, CallTypes, CallSteps DEF Ind
<1>4. ASSUME NEW l \in Points, Work(l) PROVE Ind'
  BY <1>4, WorkTypes, WorkSteps DEF Ind, Facts
<1>. QED BY <1>1, <1>2, <1>3, <1>4 DEF Next

\* Rebuilds, jobs and what is asked stay in step.
THEOREM Invariance == Spec => []Ind
<1>. QED BY Start, Step, PTL DEF Spec

\* The variables keep their types; a lane never holds more than its capacity
\* (hooks/event_runtime.rs).
THEOREM TypeCorrect == Spec => []TypeOK
<1>1. Ind => TypeOK
  BY DEF Ind
<1>. QED BY <1>1, Invariance, PTL

\* A call that no rebuild crossed, dispatched after a rebuild that ran alone, was
\* put to exactly the plugins the configuration held enabled, up to a refusal
\* (agent-host/src/live.rs).
THEOREM CallsMeetConfiguredPlugins == Spec => []HooksFollowConfig
<1>1. Ind => HooksFollowConfig
  BY DEF Ind, Facts
<1>. QED BY <1>1, Invariance, PTL

=============================================================================
