-------------------------- MODULE DelegationProofs --------------------------
(***************************************************************************)
(* Proof that a delegation implements an errand, for any number of         *)
(* snapshots on their way.  Ind is the inductive invariant: which requests *)
(* can be on the connection together, what a "created" and an "aborted" on *)
(* its way say of the thread, and, as long as no snapshot has overtaken    *)
(* another, that the snapshots show the task in the order it went.         *)
(***************************************************************************)
EXTENDS Delegation, SequenceTheorems, TLAPS

\* The task has run, or still does after it was told to stop.
Over == task \in {"stopping", "over", "failed", "cut"}
Has(s, x) == \E i \in DOMAIN s : s[i] = x
Asked(r) == Has(reqs, r)
Arrives(w) == \E i \in DOMAIN frames : frames[i].what = w
Comes(w) == response = w \/ Arrives(w)

\* The connection carries a thread's creation or the task, then an abort.
Requests == {<<>>, <<"initialize", "create">>, <<"create">>,
             <<"initialize", "send">>, <<"send">>,
             <<"initialize", "send", "abort">>, <<"send", "abort">>, <<"abort">>}
Connection ==
    /\ reqs \in Requests
    /\ gw \in {"none", "resolves", "opened"} =>
          /\ reqs = <<>> /\ frames = <<>> /\ response = "none"
          /\ ~known /\ ~sawRunning /\ ~sawReply
    /\ Asked("abort") => gw # "watches"

\* A thread is created once, and the task is sent when it is known.
CreatedOnce ==
    /\ known \/ Asked("create") => ~Comes("created")
    /\ known => ~Asked("create")
    /\ response = "created" => ~Arrives("created")
    /\ \A i, j \in DOMAIN frames :
          frames[i].what = "created" /\ frames[j].what = "created" => i = j

SentOnce ==
    /\ Asked("send") => known /\ task = "none"
    /\ task # "none" \/ Asked("abort") \/ Comes("aborted") => known
    /\ known /\ alive => task # "none" \/ Asked("send")

\* An abort is answered when the task has been sent and cannot begin any more.
AbortedIsOver ==
    Comes("aborted") => task \in {"stopping", "over", "failed", "cut", "dropped"}

\* The flag is the task's while it runs, unless a stopped turn's loop cleared it.
RunIsTask ==
    /\ run = "mine" => task = "running"
    /\ task = "running" /\ ~busy => run = "mine"

Verdict ==
    /\ out = "none" <=> gw \notin {"closes", "answered"}
    /\ sure => out # "none"
    /\ out = "cancelled" /\ sure => task \notin {"queued", "running"} /\ ~Asked("send")

\* A thread that was free when the task came has run nothing else.
FreeThread ==
    /\ ~busy => task \notin {"queued", "dropped"} /\ (task = "none" => run = "no")
    /\ reply /\ ~resume /\ ~busy => task # "none"

\* What shows that the task has begun: a running thread, or a new one's reply.
Shows(f, old) == f.what = "state" /\ (f.running \/ (~old /\ f.reply))
Saw == sawRunning \/ (~resume /\ sawReply)
Still(f) == f.what = "state" /\ ~f.running

\* Snapshots in the order they were computed, those on the wire first: until the task
\* comes none shows it, and while it runs none after the first that shows it is still.
InOrder ==
    ~busy /\ ~crossed =>
        /\ task = "none" =>
              /\ ~Saw
              /\ \A i \in DOMAIN frames : ~Shows(frames[i], resume)
              /\ \A i \in DOMAIN taken : ~Shows(taken[i], resume)
        /\ task = "running" =>
              /\ Saw => /\ \A j \in DOMAIN frames : ~Still(frames[j])
                        /\ \A j \in DOMAIN taken : ~Still(taken[j])
              /\ \A i \in DOMAIN frames : Shows(frames[i], resume) =>
                    /\ \A j \in DOMAIN frames : i <= j => ~Still(frames[j])
                    /\ \A j \in DOMAIN taken : ~Still(taken[j])
              /\ \A i, j \in DOMAIN taken : i <= j /\ Shows(taken[i], resume) => ~Still(taken[j])

\* Snapshots are of no other kind.
TakenAreShots == \A i \in DOMAIN taken : taken[i].what = "state"

Facts ==
    /\ Connection /\ CreatedOnce /\ SentOnce /\ AbortedIsOver /\ RunIsTask
    /\ Verdict /\ FreeThread /\ InOrder /\ TakenAreShots

Ind == TypeOK /\ Facts

-----------------------------------------------------------------------------
(* Types                                                                    *)

\* A snapshot of the thread is a frame.
LEMMA ShotType == TypeOK => Shot \in Shots
BY DEF TypeOK, HostType, Shot, Shots

\* Taking an entry out of the middle leaves a sequence; the first, its tail.
LEMMA RemoveAtType ==
  ASSUME NEW S, NEW s \in Seq(S), NEW i \in DOMAIN s
  PROVE  /\ RemoveAt(s, i) \in Seq(S) /\ (i = 1 => RemoveAt(s, i) = Tail(s))
         /\ \A j \in DOMAIN RemoveAt(s, i) : \E k \in DOMAIN s : RemoveAt(s, i)[j] = s[k]
<1>1. RemoveAt(s, i) \in Seq(S) /\ (i = 1 => RemoveAt(s, i) = Tail(s))
  BY DEF RemoveAt
<1>2. ASSUME NEW j \in DOMAIN RemoveAt(s, i)
      PROVE  \E k \in DOMAIN s : RemoveAt(s, i)[j] = s[k]
  <2>1. CASE j < i
    <3>1. j \in DOMAIN s /\ RemoveAt(s, i)[j] = s[j]
      BY <1>2, <2>1 DEF RemoveAt
    <3>. QED BY <3>1
  <2>2. CASE ~(j < i)
    <3>1. j + 1 \in DOMAIN s /\ RemoveAt(s, i)[j] = s[j + 1]
      <4>. DEFINE a == SubSeq(s, 1, i - 1)
                  b == SubSeq(s, i + 1, Len(s))
      <4>1. Len(a) = i - 1 /\ Len(b) = Len(s) - i /\ a \in Seq(S) /\ b \in Seq(S)
        OBVIOUS
      <4>2. \A k \in 1 .. Len(b) : b[k] = s[i + k]
        OBVIOUS
      <4>3. RemoveAt(s, i) = a \o b
        BY DEF RemoveAt
      <4>. HIDE DEF a, b
      <4>4. DOMAIN (a \o b) = 1 .. Len(s) - 1 /\ j \in 1 .. Len(s) - 1
        BY <1>2, <4>1, <4>3
      <4>5. j - (i - 1) \in 1 .. Len(b) /\ (a \o b)[j] = b[j - (i - 1)]
        <5>1. j \in Nat /\ i \in Nat /\ Len(s) \in Nat /\ j >= i /\ j <= Len(s) - 1
          BY <2>2, <4>4
        <5>2. (a \o b)[j] = IF j <= Len(a) THEN a[j] ELSE b[j - Len(a)]
          BY <4>1, <5>1, ConcatProperties
        <5>. QED BY <4>1, <5>1, <5>2
      <4>6. i + (j - (i - 1)) = j + 1
        BY <4>4
      <4>7. b[j - (i - 1)] = s[j + 1]
        BY <4>2, <4>5, <4>6
      <4>. QED BY <4>3, <4>4, <4>5, <4>7
    <3>. QED BY <3>1
  <2>. QED BY <2>1, <2>2
<1>. QED BY <1>1, <1>2

\* The empty sequence and a sequence without its first entry are sequences.
LEMMA ShorterSeq ==
  ASSUME NEW S, NEW s \in Seq(S)
  PROVE  <<>> \in Seq(S) /\ (s # <<>> => Tail(s) \in Seq(S))
OBVIOUS

\* The steps of the gateway keep the types.
LEMMA GatewaySteps == TypeOK /\ Gateway => TypeOK'
<1>. SUFFICES ASSUME TypeOK, Gateway PROVE TypeOK'
  OBVIOUS
<1>1. HostType'
  BY DEF Gateway, TakeDelegate, CancelDelegation, NoTarget, Open, RefuseDepth, Connect,
         Disconnected, TimesOut, TakeFrame, PollCancel, AwaitAbort, AbortUnanswered, Close,
         Reacts, TypeOK, HostType, host
<1>2. CallerType'
  BY DEF Gateway, TakeDelegate, CancelDelegation, NoTarget, Open, RefuseDepth, Connect,
         Disconnected, TimesOut, TakeFrame, PollCancel, AwaitAbort, AbortUnanswered, Close,
         Reacts, TypeOK, CallerType, caller
<1>3. CASE TakeDelegate \/ NoTarget \/ RefuseDepth \/ Close \/ Open \/ CancelDelegation
  <2>1. GatewayType'
    <3>1. CASE TakeDelegate
      BY <3>1 DEF TypeOK, GatewayType, TakeDelegate, Moves
    <3>2. CASE NoTarget \/ RefuseDepth
      BY <3>2 DEF TypeOK, GatewayType, NoTarget, RefuseDepth, Moves
    <3>3. CASE Close
      BY <3>3 DEF TypeOK, GatewayType, Close, Moves
    <3>4. CASE Open
      BY <3>4 DEF TypeOK, GatewayType, Open, Moves
    <3>5. CASE CancelDelegation
      BY <3>5 DEF TypeOK, GatewayType, CancelDelegation
    <3>. QED BY <1>3, <3>1, <3>2, <3>3, <3>4, <3>5
  <2>2. WireType'
    BY <1>3 DEF TypeOK, WireType, TakeDelegate, NoTarget, RefuseDepth, Close, Open,
                CancelDelegation, wire
  <2>. QED BY <1>1, <1>2, <2>1, <2>2 DEF TypeOK
<1>4. CASE Connect
  <2>1. GatewayType'
    BY <1>4 DEF TypeOK, GatewayType, Connect, Moves
  <2>2. WireType'
    BY <1>4, ShotType DEF TypeOK, WireType, Connect
  <2>. QED BY <1>1, <1>2, <2>1, <2>2 DEF TypeOK
<1>5. CASE Disconnected \/ TimesOut \/ AbortUnanswered
  <2>1. GatewayType'
    BY <1>5 DEF TypeOK, GatewayType, Disconnected, TimesOut, AbortUnanswered, Ends, Moves,
                Reacts
  <2>2. WireType'
    <3>1. frames' = <<>> /\ UNCHANGED reqs
      BY <1>5 DEF Disconnected, TimesOut, AbortUnanswered, Ends
    <3>. QED BY <3>1 DEF TypeOK, WireType
  <2>. QED BY <1>1, <1>2, <2>1, <2>2 DEF TypeOK
<1>6. CASE TakeFrame
  <2>1. GatewayType'
    <3>1. Head(frames) \in Shots
      BY <1>6 DEF TypeOK, WireType, TakeFrame
    <3>2. /\ gw' \in {gw, "closes"} /\ UNCHANGED <<registered, flag, deep, resume>>
          /\ out' \in {out, "error", "done"} /\ sure' \in BOOLEAN
          /\ known' \in BOOLEAN /\ sawRunning' \in BOOLEAN /\ sawReply' \in BOOLEAN
      <4>1. sawRunning \in BOOLEAN /\ sawReply \in BOOLEAN /\ known \in BOOLEAN /\ sure \in BOOLEAN
        BY DEF TypeOK, GatewayType
      <4>2. UNCHANGED <<registered, flag, deep, resume>>
        BY <1>6 DEF TakeFrame, Reacts
      <4>3. CASE Watch(Head(frames)) /\ UNCHANGED <<known, reqs>>
        BY <3>1, <4>1, <4>2, <4>3 DEF Watch, Ends, Moves, Shots
      <4>4. CASE known' = TRUE /\ UNCHANGED <<gw, sawRunning, sawReply, out, sure>>
        BY <4>1, <4>2, <4>4
      <4>5. CASE Ends("error") /\ UNCHANGED <<known, sawRunning, sawReply, sure, reqs>>
        BY <4>1, <4>2, <4>5 DEF Ends, Moves
      <4>. QED BY <1>6, <4>3, <4>4, <4>5 DEF TakeFrame
    <3>3. gw' \in {"none", "resolves", "opened", "watches", "aborting", "closes", "answered"}
      BY <3>2 DEF TypeOK, GatewayType
    <3>4. out' \in {"none", "done", "cancelled", "timeout", "error"}
      BY <3>2 DEF TypeOK, GatewayType
    <3>. QED BY <3>2, <3>3, <3>4 DEF TypeOK, GatewayType
  <2>2. WireType'
    <3>1. frames # <<>> /\ frames' \in {<<>>, Tail(frames)}
      BY <1>6 DEF TakeFrame, Watch, Ends
    <3>2. reqs' \in {reqs, Append(reqs, "send")}
      BY <1>6 DEF TakeFrame
    <3>3. reqs' \in Seq({"initialize", "create", "send", "abort"})
      BY <3>2 DEF TypeOK, WireType
    <3>4. frames' \in Seq(Shots)
      BY <3>1, ShorterSeq DEF TypeOK, WireType
    <3>. QED BY <3>3, <3>4 DEF WireType
  <2>. QED BY <1>1, <1>2, <2>1, <2>2 DEF TypeOK
<1>7. CASE PollCancel \/ AwaitAbort
  <2>1. GatewayType'
    <3>1. /\ gw' \in {gw, "aborting", "closes"} /\ out' \in {out, "cancelled"}
          /\ sure' \in {sure, TRUE}
          /\ UNCHANGED <<registered, flag, deep, resume, known, sawRunning, sawReply>>
      <4>1. CASE PollCancel
        BY <4>1 DEF PollCancel, Ends, Moves, Reacts
      <4>2. CASE AwaitAbort
        BY <4>2 DEF AwaitAbort, Ends, Moves, Reacts
      <4>. QED BY <1>7, <4>1, <4>2
    <3>2. gw' \in {"none", "resolves", "opened", "watches", "aborting", "closes", "answered"}
      BY <3>1 DEF TypeOK, GatewayType
    <3>3. out' \in {"none", "done", "cancelled", "timeout", "error"} /\ sure' \in BOOLEAN
      BY <3>1 DEF TypeOK, GatewayType
    <3>. QED BY <3>1, <3>2, <3>3 DEF TypeOK, GatewayType
  <2>2. WireType'
    <3>1. frames' = <<>> \/ frames' = frames \/ (frames # <<>> /\ frames' = Tail(frames))
      BY <1>7 DEF PollCancel, AwaitAbort, Ends
    <3>2. reqs' \in {reqs, Append(reqs, "abort")}
      BY <1>7 DEF PollCancel, AwaitAbort
    <3>3. reqs' \in Seq({"initialize", "create", "send", "abort"})
      BY <3>2 DEF TypeOK, WireType
    <3>4. frames' \in Seq(Shots)
      BY <3>1, ShorterSeq DEF TypeOK, WireType
    <3>. QED BY <3>3, <3>4 DEF WireType
  <2>. QED BY <1>1, <1>2, <2>1, <2>2 DEF TypeOK
<1>. QED BY <1>3, <1>4, <1>5, <1>6, <1>7 DEF Gateway

\* The steps of the target keep the types.
LEMMA TargetSteps == TypeOK /\ Target => TypeOK'
<1>. SUFFICES ASSUME TypeOK, Target PROVE TypeOK'
  OBVIOUS
<1>1. CallerType' /\ GatewayType'
  BY DEF Target, Serve, Respond, Take, Send, Write, TurnEnds, OtherStarts, OtherAborts,
         StoppedEnds, OtherPatches, Exits, TypeOK, CallerType, GatewayType, caller, gateway
<1>2. CASE Serve
  <2>1. HostType'
    BY <1>2 DEF TypeOK, HostType, Serve, Stop
  <2>2. WireType'
    BY <1>2 DEF TypeOK, WireType, Serve
  <2>. QED BY <1>1, <2>1, <2>2 DEF TypeOK
<1>3. CASE Respond
  <2>1. HostType'
    BY <1>3 DEF TypeOK, HostType, Respond
  <2>2. WireType'
    <3>. DEFINE f == [what |-> response, running |-> FALSE, reply |-> FALSE, exists |-> FALSE]
    <3>1. f \in Shots
      BY <1>3 DEF TypeOK, HostType, Respond, Shots
    <3>2. frames' \in {frames, Append(frames, f)} /\ UNCHANGED reqs
      BY <1>3 DEF Respond, Deliver
    <3>. QED BY <3>1, <3>2 DEF TypeOK, WireType
  <2>. QED BY <1>1, <2>1, <2>2 DEF TypeOK
<1>4. CASE Take
  <2>1. HostType'
    BY <1>4, ShotType DEF TypeOK, HostType, Take
  <2>2. WireType'
    BY <1>4 DEF TypeOK, WireType, Take, wire
  <2>. QED BY <1>1, <2>1, <2>2 DEF TypeOK
<1>5. ASSUME NEW i \in DOMAIN taken, Send(i) PROVE TypeOK'
  <2>1. taken \in Seq(Shots)
    BY DEF TypeOK, HostType
  <2>2. HostType'
    BY <1>5, <2>1, RemoveAtType DEF TypeOK, HostType, Send
  <2>3. taken[i] \in Shots
    BY <2>1
  <2>4. WireType'
    BY <1>5, <2>3 DEF TypeOK, WireType, Send, Deliver
  <2>. QED BY <1>1, <2>2, <2>4 DEF TypeOK
<1>6. CASE Write \/ TurnEnds \/ StoppedEnds \/ OtherStarts \/ OtherPatches
  <2>1. HostType'
    <3>1. CASE Write
      BY <3>1 DEF TypeOK, HostType, Write
    <3>2. CASE TurnEnds
      BY <3>2 DEF TypeOK, HostType, TurnEnds
    <3>5. CASE StoppedEnds
      BY <3>5 DEF TypeOK, HostType, StoppedEnds
    <3>3. CASE OtherStarts
      BY <3>3 DEF TypeOK, HostType, OtherStarts
    <3>4. CASE OtherPatches
      BY <3>4 DEF TypeOK, HostType, OtherPatches
    <3>. QED BY <1>6, <3>1, <3>2, <3>3, <3>4, <3>5
  <2>2. WireType'
    BY <1>6 DEF TypeOK, WireType, Write, TurnEnds, StoppedEnds, OtherStarts, OtherPatches, wire
  <2>. QED BY <1>1, <2>1, <2>2 DEF TypeOK
<1>7. CASE OtherAborts
  <2>1. HostType'
    BY <1>7 DEF TypeOK, HostType, OtherAborts, Stop
  <2>2. WireType'
    BY <1>7 DEF TypeOK, WireType, OtherAborts, wire
  <2>. QED BY <1>1, <2>1, <2>2 DEF TypeOK
<1>8. CASE Exits
  <2>1. HostType'
    <3>1. /\ alive' = FALSE /\ response' = "none" /\ taken' = <<>> /\ run' = "no"
          /\ task' \in {task, "cut", "dropped"}
          /\ UNCHANGED <<patch, exists, reply, busy, crossed>>
      BY <1>8 DEF Exits
    <3>2. taken' \in Seq(Shots) /\ alive' \in BOOLEAN
      BY <3>1, ShorterSeq DEF TypeOK, HostType
    <3>3. task' \in {"none", "queued", "running", "stopping", "over", "failed", "cut", "dropped"}
      BY <3>1 DEF TypeOK, HostType
    <3>. QED BY <3>1, <3>2, <3>3 DEF TypeOK, HostType
  <2>2. WireType'
    BY <1>8 DEF TypeOK, WireType, Exits
  <2>. QED BY <1>1, <2>1, <2>2 DEF TypeOK
<1>. QED BY <1>2, <1>3, <1>4, <1>5, <1>6, <1>7, <1>8 DEF Target

\* No step leaves the types.
LEMMA TypeStep == TypeOK /\ [Next]_vars => TypeOK'
<1>. SUFFICES ASSUME TypeOK, [Next]_vars PROVE TypeOK'
  OBVIOUS
<1>1. CASE Ask \/ SendCancel \/ GiveUp \/ TakeAnswer \/ UNCHANGED vars
  BY <1>1 DEF TypeOK, CallerType, GatewayType, WireType, HostType, Ask, SendCancel, GiveUp,
              TakeAnswer, vars, caller, gateway, wire, host
<1>. QED BY <1>1, GatewaySteps, TargetSteps DEF Next

-----------------------------------------------------------------------------
(* The requests on the connection                                           *)

\* What is left when the target takes a request.
LEMMA Served ==
  ASSUME NEW s \in Requests, s # <<>>
  PROVE  /\ Tail(s) \in Requests
         /\ \/ /\ Head(s) = "initialize"
               /\ \A r \in {"create", "send", "abort"} : Has(Tail(s), r) <=> Has(s, r)
            \/ Head(s) = "create" /\ Tail(s) = <<>> /\ Has(s, "create")
            \/ /\ Head(s) = "send" /\ Has(s, "send")
               /\ ~Has(Tail(s), "send") /\ ~Has(Tail(s), "create")
               /\ Has(Tail(s), "abort") <=> Has(s, "abort")
            \/ Head(s) = "abort" /\ Tail(s) = <<>> /\ Has(s, "abort") /\ ~Has(s, "send")
<1>1. CASE s = <<"initialize", "create">>
  BY <1>1 DEF Requests, Has
<1>2. CASE s = <<"create">>
  BY <1>2 DEF Requests, Has
<1>3. CASE s = <<"initialize", "send">>
  BY <1>3 DEF Requests, Has
<1>4. CASE s = <<"send">>
  BY <1>4 DEF Requests, Has
<1>5. CASE s = <<"initialize", "send", "abort">>
  BY <1>5 DEF Requests, Has
<1>6. CASE s = <<"send", "abort">>
  BY <1>6 DEF Requests, Has
<1>7. CASE s = <<"abort">>
  BY <1>7 DEF Requests, Has
<1>. QED BY <1>1, <1>2, <1>3, <1>4, <1>5, <1>6, <1>7 DEF Requests

\* Appending to a sequence of one entry.
LEMMA AppendToOne ==
  ASSUME NEW a, NEW b
  PROVE  Append(<<a>>, b) = <<a, b>>
<1>. DEFINE S == {a, b}
            s == Append(<<a>>, b)
            t == <<a, b>>
<1>1. s \in Seq(S) /\ t \in Seq(S) /\ Len(s) = 2 /\ Len(t) = 2
  OBVIOUS
<1>2. s[1] = a /\ s[2] = b /\ t[1] = a /\ t[2] = b
  OBVIOUS
<1>3. \A i \in 1 .. Len(s) : s[i] = t[i]
  BY <1>1, <1>2
<1>4. s = t
  <2>. HIDE DEF s, t, S
  <2>. QED BY <1>1, <1>3, SeqEqual
<1>. QED BY <1>4

\* Appending to a sequence of two entries.
LEMMA AppendToTwo ==
  ASSUME NEW a, NEW b, NEW c
  PROVE  Append(<<a, b>>, c) = <<a, b, c>>
<1>. DEFINE S == {a, b, c}
            s == Append(<<a, b>>, c)
            t == <<a, b, c>>
<1>1. s \in Seq(S) /\ t \in Seq(S) /\ Len(s) = 3 /\ Len(t) = 3
  OBVIOUS
<1>2. s[1] = a /\ s[2] = b /\ s[3] = c /\ t[1] = a /\ t[2] = b /\ t[3] = c
  OBVIOUS
<1>3. \A i \in 1 .. Len(s) : s[i] = t[i]
  BY <1>1, <1>2
<1>4. s = t
  <2>. HIDE DEF s, t, S
  <2>. QED BY <1>1, <1>3, SeqEqual
<1>. QED BY <1>4

\* What the gateway may add.
LEMMA Added ==
  ASSUME NEW s \in Requests, ~Has(s, "create"), ~Has(s, "abort")
  PROVE  /\ Append(s, "abort") \in Requests
         /\ Has(Append(s, "abort"), "abort") /\ ~Has(Append(s, "abort"), "create")
         /\ Has(Append(s, "abort"), "send") <=> Has(s, "send")
         /\ ~Has(s, "send") =>
               /\ Append(s, "send") = <<"send">> /\ Append(s, "send") \in Requests
               /\ Has(Append(s, "send"), "send") /\ ~Has(Append(s, "send"), "create")
               /\ ~Has(Append(s, "send"), "abort")
<1>1. CASE s = <<>>
  BY <1>1 DEF Requests, Has
<1>2. CASE s = <<"initialize", "send">>
  <2>1. Append(s, "abort") = <<"initialize", "send", "abort">> /\ Has(s, "send")
    BY <1>2, AppendToTwo DEF Has
  <2>2. LET a == <<"initialize", "send", "abort">>
        IN  a \in Requests /\ Has(a, "abort") /\ Has(a, "send") /\ ~Has(a, "create")
    BY DEF Requests, Has
  <2>. QED BY <2>1, <2>2
<1>3. CASE s = <<"send">>
  <2>1. Append(s, "abort") = <<"send", "abort">> /\ Has(s, "send")
    BY <1>3, AppendToOne DEF Has
  <2>2. LET a == <<"send", "abort">>
        IN  a \in Requests /\ Has(a, "abort") /\ Has(a, "send") /\ ~Has(a, "create")
    BY DEF Requests, Has
  <2>. QED BY <2>1, <2>2
<1>4. s \in {<<>>, <<"initialize", "send">>, <<"send">>}
  BY DEF Requests, Has
<1>. QED BY <1>1, <1>2, <1>3, <1>4

-----------------------------------------------------------------------------
(* The invariant                                                            *)

\* Nothing has been asked.
LEMMA InitInd == Init => Ind
<1>. SUFFICES ASSUME Init PROVE Ind
  OBVIOUS
<1>1. TypeOK
  <2>1. CallerType /\ GatewayType
    BY DEF Init, CallerType, GatewayType
  <2>2. WireType
    BY DEF Init, WireType
  <2>3. HostType
    <3>1. run \in {"no", "other"} /\ busy \in BOOLEAN
      BY DEF Init
    <3>2. taken \in Seq(Shots)
      BY DEF Init
    <3>. QED BY <3>1, <3>2 DEF Init, HostType
  <2>. QED BY <2>1, <2>2, <2>3 DEF TypeOK
<1>2. Connection /\ CreatedOnce /\ SentOnce /\ AbortedIsOver
  BY DEF Init, Connection, Requests, CreatedOnce, SentOnce, AbortedIsOver, Asked, Has, Comes,
         Arrives
<1>3. RunIsTask /\ Verdict /\ FreeThread /\ TakenAreShots
  BY DEF Init, RunIsTask, Verdict, FreeThread, TakenAreShots
<1>4. InOrder
  BY DEF Init, InOrder, Saw, Shows, Still
<1>. QED BY <1>1, <1>2, <1>3, <1>4 DEF Ind, Facts

\* Steps that touch neither the wire nor what the gateway has seen.
LEMMA MoveStep ==
  ASSUME Ind,
         UNCHANGED <<known, sawRunning, sawReply, sure, resume, wire, host>>,
         \/ UNCHANGED <<gw, out>>
         \/ gw = "none" /\ gw' = "resolves" /\ out' = out
         \/ gw = "resolves" /\ gw' = "opened" /\ out' = out
         \/ gw \in {"resolves", "opened"} /\ gw' = "answered" /\ out' = "error"
         \/ gw = "closes" /\ gw' = "answered" /\ out' = out
  PROVE  Facts'
<1>. USE DEF Ind, Facts, wire, host
<1>1. Connection'
  BY DEF Connection, Asked
<1>2. CreatedOnce' /\ SentOnce' /\ AbortedIsOver'
  BY DEF CreatedOnce, SentOnce, AbortedIsOver, Asked, Comes, Arrives
<1>3. RunIsTask' /\ FreeThread' /\ TakenAreShots'
  BY DEF RunIsTask, FreeThread, TakenAreShots
<1>4. InOrder'
  BY DEF InOrder, Saw, Shows, Still
<1>5. Verdict'
  BY DEF Verdict, Asked
<1>. QED BY <1>1, <1>2, <1>3, <1>4, <1>5

\* The gateway leaves the connection with a verdict.
LEMMA EndStep ==
  ASSUME Ind, gw \in {"opened", "watches", "aborting"}, gw' = "closes", frames' = <<>>,
         UNCHANGED <<known, resume, reqs, host>>, out' # "none",
         sure' /\ out' = "cancelled" => task \notin {"queued", "running"} /\ ~Asked("send"),
         InOrder'
  PROVE  Facts'
<1>. USE DEF Ind, Facts, host
<1>1. Connection'
  BY DEF Connection, Asked
<1>2. CreatedOnce' /\ SentOnce' /\ AbortedIsOver'
  BY DEF CreatedOnce, SentOnce, AbortedIsOver, Asked, Comes, Arrives
<1>3. RunIsTask' /\ FreeThread' /\ TakenAreShots'
  BY DEF RunIsTask, FreeThread, TakenAreShots
<1>4. Verdict'
  BY DEF Verdict, Asked
<1>. QED BY <1>1, <1>2, <1>3, <1>4

\* Without snapshots on the wire, those still to be sent remain in order.
LEMMA EmptyInOrder ==
  ASSUME InOrder, frames' = <<>>, UNCHANGED <<sawRunning, sawReply, resume, host>>
  PROVE  InOrder'
BY DEF InOrder, Saw, Shows, Still, host

\* The entries of a sequence without its first one.
LEMMA TailOf ==
  ASSUME NEW S, NEW s \in Seq(S), s # <<>>
  PROVE  /\ 1 \in DOMAIN s /\ Head(s) = s[1] /\ Head(s) \in S /\ Tail(s) \in Seq(S)
         /\ \A j \in DOMAIN Tail(s) :
               j + 1 \in DOMAIN s /\ Tail(s)[j] = s[j + 1] /\ 1 <= j + 1 /\ j \in Int
         /\ \A i, j \in DOMAIN Tail(s) : i <= j => i + 1 <= j + 1
OBVIOUS

\* The rest of the snapshots is in order when the gateway has read the first.
LEMMA TailInOrder ==
  ASSUME Ind, frames # <<>>, frames' = Tail(frames), UNCHANGED <<resume, host>>,
         Saw' => Saw \/ Shows(Head(frames), resume)
  PROVE  InOrder'
<1>1. frames \in Seq(Shots)
  BY DEF Ind, TypeOK, WireType
<1>2. /\ 1 \in DOMAIN frames /\ Head(frames) = frames[1]
      /\ \A j \in DOMAIN frames' :
            j + 1 \in DOMAIN frames /\ frames'[j] = frames[j + 1] /\ 1 <= j + 1
      /\ \A i, j \in DOMAIN frames' : i <= j => i + 1 <= j + 1
  BY <1>1, TailOf
<1>3. UNCHANGED <<resume, busy, crossed, task, taken>>
  BY DEF host
<1>. SUFFICES ASSUME ~busy, ~crossed PROVE InOrder'
  BY <1>3 DEF InOrder
<1>4. CASE task = "none"
  BY <1>2, <1>3, <1>4 DEF Ind, Facts, InOrder
<1>5. CASE task = "running"
  <2>1. Saw' => /\ \A j \in DOMAIN frames' : ~Still(frames'[j])
                /\ \A j \in DOMAIN taken' : ~Still(taken'[j])
    BY <1>2, <1>3, <1>5 DEF Ind, Facts, InOrder
  <2>2. \A i \in DOMAIN frames' : Shows(frames'[i], resume) =>
            /\ \A j \in DOMAIN frames' : i <= j => ~Still(frames'[j])
            /\ \A j \in DOMAIN taken' : ~Still(taken'[j])
    BY <1>2, <1>3, <1>5 DEF Ind, Facts, InOrder
  <2>3. \A i, j \in DOMAIN taken' : i <= j /\ Shows(taken'[i], resume) => ~Still(taken'[j])
    BY <1>3, <1>5 DEF Ind, Facts, InOrder
  <2>. QED BY <1>3, <1>5, <2>1, <2>2, <2>3 DEF InOrder
<1>. QED BY <1>3, <1>4, <1>5 DEF InOrder

\* What is on its way when the gateway has read the first frame.
LEMMA TailComes ==
  ASSUME Ind, frames # <<>>, frames' = Tail(frames), response' = response
  PROVE  /\ \A w : Comes(w)' => Comes(w)
         /\ \A w : Arrives(w)' => Arrives(w)
         /\ CreatedOnce /\ Head(frames).what = "created" => ~Comes("created")'
         /\ \A i, j \in DOMAIN frames' :
               frames'[i].what = "created" /\ frames'[j].what = "created" => i = j
<1>1. frames \in Seq(Shots)
  BY DEF Ind, TypeOK, WireType
<1>2. /\ 1 \in DOMAIN frames /\ Head(frames) = frames[1]
      /\ \A j \in DOMAIN frames' : j + 1 \in DOMAIN frames /\ frames'[j] = frames[j + 1]
      /\ \A j \in DOMAIN frames' : j \in Nat \ {0}
  BY <1>1
<1>3. \A w : Arrives(w)' => Arrives(w)
  BY <1>2 DEF Arrives
<1>4. CreatedOnce /\ Head(frames).what = "created" => ~Comes("created")'
  BY <1>2 DEF CreatedOnce, Comes, Arrives
<1>5. \A i, j \in DOMAIN frames' :
               frames'[i].what = "created" /\ frames'[j].what = "created" => i = j
  BY <1>2 DEF Ind, Facts, CreatedOnce
<1>. QED BY <1>3, <1>4, <1>5 DEF Comes

\* A frame read without a verdict and without anything sent.
LEMMA DropStep ==
  ASSUME Ind, gw \in {"watches", "aborting"}, frames # <<>>, frames' = Tail(frames),
         UNCHANGED <<gw, known, resume, reqs, out, sure, host>>, InOrder'
  PROVE  Facts'
<1>. USE DEF Ind, Facts, host
<1>1. Connection'
  BY DEF Connection, Asked
<1>2. CreatedOnce' /\ SentOnce' /\ AbortedIsOver'
  BY TailComes DEF CreatedOnce, SentOnce, AbortedIsOver, Asked
<1>3. RunIsTask' /\ FreeThread' /\ TakenAreShots'
  BY DEF RunIsTask, FreeThread, TakenAreShots
<1>4. Verdict'
  BY DEF Verdict, Asked
<1>. QED BY <1>1, <1>2, <1>3, <1>4

\* A new connection: no snapshot can show the task, which has not been sent.
LEMMA ConnectStep == Ind /\ Connect => Facts'
<1>. SUFFICES ASSUME Ind, Connect PROVE Facts'
  OBVIOUS
<1>0. /\ gw = "opened" /\ gw' = "watches" /\ frames = <<>> /\ response = "none"
      /\ alive /\ task = "none" /\ frames' = <<Shot>> /\ known' = resume
      /\ ~sawRunning /\ ~sawReply
      /\ UNCHANGED <<resume, sawRunning, sawReply, out, sure, host>>
  <2>1. gw = "opened" /\ ~known /\ response = "none" /\ frames = <<>> /\ ~sawRunning /\ ~sawReply
    BY DEF Ind, Facts, Connection, Connect
  <2>2. task = "none"
    BY <2>1 DEF Ind, Facts, SentOnce
  <2>. QED BY <2>1, <2>2 DEF Connect, Moves
<1>1. reqs' = <<"initialize", IF resume THEN "send" ELSE "create">>
  BY DEF Connect
<1>2. /\ Asked("send")' <=> resume
      /\ Asked("create")' <=> ~resume
      /\ ~Asked("abort")'
      /\ reqs' \in Requests
  <2>1. CASE resume
    BY <1>1, <2>1 DEF Asked, Has, Requests
  <2>2. CASE ~resume
    BY <1>1, <2>2 DEF Asked, Has, Requests
  <2>. QED BY <2>1, <2>2
<1>3. DOMAIN frames' = {1} /\ frames'[1] = Shot
  BY <1>0
<1>4. Shot.what = "state" /\ Shot.running = (run # "no") /\ Shot.reply = reply
  BY DEF Shot
<1>5. Connection'
  BY <1>0, <1>2 DEF Connection
<1>6. CreatedOnce' /\ SentOnce' /\ AbortedIsOver'
  BY <1>0, <1>2, <1>3, <1>4 DEF CreatedOnce, SentOnce, AbortedIsOver, Comes, Arrives, host
<1>7. RunIsTask' /\ FreeThread' /\ TakenAreShots'
  BY <1>0 DEF Ind, Facts, RunIsTask, FreeThread, TakenAreShots, host
<1>8. Verdict'
  BY <1>0 DEF Ind, Facts, Verdict, host
<1>9. InOrder'
  <2>. SUFFICES ASSUME ~busy, ~crossed PROVE InOrder'
    BY <1>0 DEF InOrder, host
  <2>1. run = "no" /\ (reply => resume)
    BY <1>0 DEF Ind, Facts, FreeThread
  <2>2. ~Shows(Shot, resume)
    BY <1>4, <2>1 DEF Shows
  <2>. QED BY <1>0, <1>3, <2>2 DEF Ind, Facts, InOrder, Saw, host
<1>. QED BY <1>5, <1>6, <1>7, <1>8, <1>9 DEF Facts

\* "done" is sure when the task is over.
LEMMA DoneIsOver ==
  ASSUME Ind, ~busy, ~crossed, frames # <<>>, Head(frames).what = "state",
         ~Head(frames).running, Saw \/ Shows(Head(frames), resume)
  PROVE  Over
<1>1. 1 \in DOMAIN frames /\ Head(frames) = frames[1]
  BY TailOf DEF Ind, TypeOK, WireType
<1>2. task \notin {"queued", "dropped"}
  BY DEF Ind, Facts, FreeThread
<1>3. task # "none"
  BY <1>1 DEF Ind, Facts, InOrder
<1>4. task # "running"
  BY <1>1 DEF Ind, Facts, InOrder, Still
<1>. QED BY <1>2, <1>3, <1>4 DEF Ind, TypeOK, HostType, Over

\* The gateway reads a snapshot.
LEMMA WatchStep ==
  ASSUME Ind, gw = "watches", frames # <<>>, Head(frames).what = "state", Watch(Head(frames)),
         UNCHANGED <<known, resume, reqs, host>>
  PROVE  Facts'
<1>. DEFINE f == Head(frames)
<1>0. f \in Shots
  BY TailOf DEF Ind, TypeOK, WireType
<1>1. CASE ~known
  <2>1. frames' = Tail(frames) /\ UNCHANGED <<gw, sawRunning, sawReply, out, sure>>
    BY <1>1 DEF Watch
  <2>. QED BY <2>1, TailInOrder, DropStep DEF Saw
<1>2. CASE known
  <2>1. Saw' => Saw \/ Shows(f, resume)
    BY <1>0, <1>2 DEF Watch, Saw, Shows, Shots
  <2>. DEFINE said == sawReply \/ (f.exists /\ f.reply)
  <2>2. CASE f.exists /\ Finished(f.running, said)
    <3>1. gw' = "closes" /\ out' = "done" /\ frames' = <<>>
      BY <1>2, <2>2 DEF Watch, Ends, Moves
    <3>2. ~f.running /\ (Saw \/ Shows(f, resume))
      BY <1>0, <2>2 DEF Finished, Saw, Shows, Shots
    <3>3. InOrder'
      <4>1. CASE busy \/ crossed
        BY <4>1 DEF InOrder, host
      <4>2. CASE ~busy /\ ~crossed
        BY <3>2, <4>2, DoneIsOver DEF Over, InOrder, host
      <4>. QED BY <4>1, <4>2
    <3>. QED BY <3>1, <3>3, EndStep
  <2>3. CASE ~(f.exists /\ Finished(f.running, said))
    <3>1. frames' = Tail(frames) /\ UNCHANGED <<gw, out, sure>>
      BY <1>2, <2>3 DEF Watch
    <3>. QED BY <2>1, <3>1, TailInOrder, DropStep
  <2>. QED BY <2>2, <2>3
<1>. QED BY <1>1, <1>2

\* The gateway reads that the thread is created, and sends the task.
LEMMA CreatedStep ==
  ASSUME Ind, gw = "watches", frames # <<>>, Head(frames).what = "created", known' = TRUE,
         reqs' = Append(reqs, "send"), frames' = Tail(frames),
         UNCHANGED <<gw, sawRunning, sawReply, out, sure, resume, host>>
  PROVE  Facts'
<1>1. 1 \in DOMAIN frames /\ Head(frames) = frames[1]
  BY TailOf DEF Ind, TypeOK, WireType
<1>2. Comes("created")
  BY <1>1 DEF Comes, Arrives
<1>3. ~known /\ ~Asked("create") /\ ~Asked("send") /\ ~Asked("abort") /\ task = "none"
      /\ ~Comes("aborted") /\ reqs \in Requests
  BY <1>2 DEF Ind, Facts, CreatedOnce, SentOnce, Connection
<1>4. /\ reqs' \in Requests
      /\ Asked("send")' /\ ~Asked("create")' /\ ~Asked("abort")'
  BY <1>3, Added DEF Asked
<1>5. ~Comes("created")' /\ ~Comes("aborted")'
  BY <1>3, TailComes DEF Ind, Facts, host
<1>6. Connection'
  BY <1>4 DEF Connection
<1>7. CreatedOnce'
  BY <1>4, <1>5, TailComes DEF CreatedOnce, Comes, host
<1>8. SentOnce' /\ AbortedIsOver'
  BY <1>3, <1>4, <1>5 DEF SentOnce, AbortedIsOver, host
<1>9. RunIsTask' /\ FreeThread' /\ TakenAreShots'
  BY DEF Ind, Facts, RunIsTask, FreeThread, TakenAreShots, host
<1>10. Verdict'
  BY DEF Ind, Facts, Verdict, host
<1>11. InOrder'
  BY TailInOrder DEF Saw
<1>. QED BY <1>6, <1>7, <1>8, <1>9, <1>10, <1>11 DEF Facts

\* A cancel is sent to a thread that is known, and is sure where none is.
LEMMA PollStep == Ind /\ PollCancel => Facts'
<1>. SUFFICES ASSUME Ind, PollCancel PROVE Facts'
  OBVIOUS
<1>0. gw = "watches" /\ frames = <<>> /\ alive
      /\ UNCHANGED <<resume, known, sawRunning, sawReply, host>>
  BY DEF PollCancel, Reacts
<1>1. CASE ~known
  <2>1. /\ gw' = "closes" /\ out' = "cancelled" /\ frames' = <<>>
        /\ UNCHANGED reqs
    BY <1>1 DEF PollCancel, Ends, Moves
  <2>2. task = "none" /\ ~Asked("send")
    BY <1>1 DEF Ind, Facts, SentOnce
  <2>. QED BY <1>0, <2>1, <2>2, EndStep, EmptyInOrder DEF Ind, Facts
<1>2. CASE known
  <2>1. /\ gw' = "aborting" /\ reqs' = Append(reqs, "abort") /\ UNCHANGED <<out, sure, frames>>
    BY <1>2 DEF PollCancel, Moves
  <2>2. ~Asked("abort") /\ ~Asked("create") /\ reqs \in Requests
    BY <1>0, <1>2 DEF Ind, Facts, Connection, CreatedOnce
  <2>3. /\ reqs' \in Requests /\ Asked("abort")' /\ ~Asked("create")'
        /\ Asked("send")' <=> Asked("send")
    BY <2>1, <2>2, Added DEF Asked
  <2>4. \A w : Comes(w)' <=> Comes(w)
    BY <1>0, <2>1 DEF Comes, Arrives, host
  <2>5. Connection'
    BY <1>0, <2>1, <2>3 DEF Connection
  <2>6. CreatedOnce'
    BY <1>0, <1>2, <2>1, <2>3, <2>4 DEF Ind, Facts, CreatedOnce, Comes, Arrives, host
  <2>7. SentOnce' /\ AbortedIsOver'
    BY <1>0, <1>2, <2>3, <2>4 DEF Ind, Facts, SentOnce, AbortedIsOver, host
  <2>8. RunIsTask' /\ FreeThread' /\ TakenAreShots'
    BY <1>0 DEF Ind, Facts, RunIsTask, FreeThread, TakenAreShots, host
  <2>9. Verdict'
    BY <1>0, <2>1, <2>3 DEF Ind, Facts, Verdict, host
  <2>10. InOrder'
    BY <1>0, <2>1, EmptyInOrder DEF Ind, Facts
  <2>. QED BY <2>5, <2>6, <2>7, <2>8, <2>9, <2>10 DEF Facts
<1>. QED BY <1>1, <1>2

\* The gateway waits for the answer to its abort.
LEMMA AwaitStep == Ind /\ AwaitAbort => Facts'
<1>. SUFFICES ASSUME Ind, AwaitAbort PROVE Facts'
  OBVIOUS
<1>0. gw = "aborting" /\ frames # <<>>
      /\ UNCHANGED <<resume, known, sawRunning, sawReply, reqs, host>>
  BY DEF AwaitAbort, Reacts
<1>1. CASE IsAbortAnswer(Head(frames))
  <2>1. gw' = "closes" /\ out' = "cancelled" /\ frames' = <<>>
    BY <1>1 DEF AwaitAbort, Ends, Moves
  <2>2. Comes("aborted")
    BY <1>0, <1>1, TailOf DEF Ind, TypeOK, WireType, IsAbortAnswer, Comes, Arrives
  <2>3. task \notin {"queued", "running"} /\ ~Asked("send")
    BY <2>2 DEF Ind, Facts, AbortedIsOver, SentOnce
  <2>. QED BY <1>0, <2>1, <2>3, EndStep, EmptyInOrder DEF Ind, Facts
<1>2. CASE ~IsAbortAnswer(Head(frames))
  <2>1. frames' = Tail(frames) /\ UNCHANGED <<gw, out, sure>>
    BY <1>2 DEF AwaitAbort
  <2>. QED BY <1>0, <2>1, DropStep, TailInOrder DEF Saw
<1>. QED BY <1>1, <1>2

\* The gateway gives up without an answer.
LEMMA UnsureStep ==
  Ind /\ (Disconnected \/ TimesOut \/ AbortUnanswered) => Facts'
<1>. SUFFICES ASSUME Ind, Disconnected \/ TimesOut \/ AbortUnanswered PROVE Facts'
  OBVIOUS
<1>1. /\ gw \in {"opened", "watches", "aborting"} /\ gw' = "closes" /\ frames' = <<>>
      /\ out' \in {"error", "timeout", "cancelled"}
      /\ UNCHANGED <<resume, known, sawRunning, sawReply, sure, reqs, host>>
  BY DEF Disconnected, TimesOut, AbortUnanswered, DuringRun, Ends, Moves, Reacts
<1>2. ~sure
  BY <1>1 DEF Ind, Facts, Verdict
<1>3. InOrder'
  BY <1>1, EmptyInOrder DEF Ind, Facts
<1>. QED BY <1>1, <1>2, <1>3, EndStep

\* No step of the gateway leaves the invariant.
LEMMA GatewayInd == Ind /\ Gateway => Facts'
<1>. SUFFICES ASSUME Ind, Gateway PROVE Facts'
  OBVIOUS
<1>1. CASE TakeDelegate \/ CancelDelegation \/ NoTarget \/ Open \/ RefuseDepth \/ Close
  BY <1>1, MoveStep DEF TakeDelegate, CancelDelegation, NoTarget, Open, RefuseDepth, Close, Moves
<1>2. CASE TakeFrame
  <2>1. gw = "watches" /\ frames # <<>> /\ UNCHANGED <<resume, host>>
    BY <1>2 DEF TakeFrame, Reacts
  <2>2. CASE Head(frames).what = "state" /\ Watch(Head(frames)) /\ UNCHANGED <<known, reqs>>
    BY <2>1, <2>2, WatchStep
  <2>3. CASE /\ Head(frames).what = "created" /\ known' = TRUE
             /\ reqs' = Append(reqs, "send") /\ frames' = Tail(frames)
             /\ UNCHANGED <<gw, sawRunning, sawReply, out, sure>>
    BY <2>1, <2>3, CreatedStep
  <2>4. CASE Ends("error") /\ UNCHANGED <<known, sawRunning, sawReply, sure, reqs>>
    <3>1. InOrder'
      BY <2>1, <2>4, EmptyInOrder DEF Ind, Facts, Ends
    <3>. QED BY <2>1, <2>4, <3>1, EndStep DEF Ends, Moves
  <2>. QED BY <1>2, <2>2, <2>3, <2>4 DEF TakeFrame
<1>. QED BY <1>1, <1>2, ConnectStep, PollStep, AwaitStep, UnsureStep DEF Gateway

\* The target takes a request off the connection.
LEMMA ServeStep == Ind /\ Serve => Facts'
<1>. SUFFICES ASSUME Ind, Serve PROVE Facts'
  OBVIOUS
<1>0. /\ alive /\ response = "none" /\ reqs # <<>> /\ reqs' = Tail(reqs) /\ reqs \in Requests
      /\ UNCHANGED <<gw, known, sawRunning, sawReply, resume, out, sure, frames, alive, taken,
                     patch, reply, busy, crossed>>
  BY DEF Serve, gateway, Ind, Facts, Connection
<1>1. \A w : Arrives(w)' <=> Arrives(w)
  BY <1>0 DEF Arrives
<1>2. reqs' \in Requests
  BY <1>0, Served
<1>3. gw \notin {"none", "resolves", "opened"}
  BY <1>0 DEF Ind, Facts, Connection
<1>4. CASE Head(reqs) = "initialize"
  <2>1. UNCHANGED <<response, exists, run, task>>
    BY <1>4 DEF Serve
  <2>2. \A r \in {"create", "send", "abort"} : Asked(r)' <=> Asked(r)
    BY <1>0, <1>4, Served DEF Asked
  <2>3. Connection' /\ CreatedOnce' /\ SentOnce' /\ AbortedIsOver'
    BY <1>0, <1>1, <1>2, <1>3, <2>1, <2>2
       DEF Ind, Facts, Connection, CreatedOnce, SentOnce, AbortedIsOver, Comes
  <2>4. RunIsTask' /\ FreeThread' /\ TakenAreShots' /\ Verdict' /\ InOrder'
    BY <1>0, <2>1, <2>2 DEF Ind, Facts, RunIsTask, FreeThread, TakenAreShots, Verdict, InOrder, Saw
  <2>. QED BY <2>3, <2>4 DEF Facts
<1>5. CASE Head(reqs) = "create"
  <2>1. response' \in {"created", "refused"} /\ UNCHANGED <<run, task>>
    BY <1>5 DEF Serve
  <2>2. Asked("create") /\ \A r : ~Asked(r)'
    BY <1>0, <1>5, Served DEF Asked, Has
  <2>3. ~known /\ ~Comes("created") /\ task = "none" /\ ~Comes("aborted")
    BY <2>2 DEF Ind, Facts, CreatedOnce, SentOnce
  <2>4. Connection' /\ CreatedOnce' /\ SentOnce' /\ AbortedIsOver'
    BY <1>0, <1>1, <1>2, <1>3, <2>1, <2>2, <2>3
       DEF Ind, Facts, Connection, CreatedOnce, SentOnce, AbortedIsOver, Comes
  <2>5. RunIsTask' /\ FreeThread' /\ TakenAreShots' /\ Verdict' /\ InOrder'
    BY <1>0, <2>1, <2>2 DEF Ind, Facts, RunIsTask, FreeThread, TakenAreShots, Verdict, InOrder, Saw
  <2>. QED BY <2>4, <2>5 DEF Facts
<1>6. CASE Head(reqs) = "send"
  <2>1. /\ IF run = "no" THEN run' = "mine" /\ task' = "running"
                         ELSE task' = "queued" /\ UNCHANGED run
        /\ UNCHANGED <<response, exists>>
    BY <1>6 DEF Serve
  <2>2. Asked("send") /\ ~Asked("send")' /\ ~Asked("create")' /\ (Asked("abort")' <=> Asked("abort"))
    BY <1>0, <1>6, Served DEF Asked
  <2>3. known /\ task = "none" /\ ~Comes("created")
    BY <2>2 DEF Ind, Facts, CreatedOnce, SentOnce
  <2>4. ~Comes("aborted")
    BY <2>3 DEF Ind, Facts, AbortedIsOver
  <2>5. Connection' /\ CreatedOnce' /\ SentOnce' /\ AbortedIsOver'
    BY <1>0, <1>1, <1>2, <1>3, <2>1, <2>2, <2>3, <2>4
       DEF Ind, Facts, Connection, CreatedOnce, SentOnce, AbortedIsOver, Comes
  <2>6. RunIsTask' /\ TakenAreShots' /\ FreeThread'
    BY <1>0, <2>1, <2>3 DEF Ind, Facts, RunIsTask, FreeThread, TakenAreShots
  <2>7. Verdict'
    BY <1>0, <2>1, <2>2 DEF Ind, Facts, Verdict
  <2>8. InOrder'
    BY <1>0, <2>1, <2>3 DEF Ind, Facts, InOrder, Saw
  <2>. QED BY <2>5, <2>6, <2>7, <2>8 DEF Facts
<1>7. CASE Head(reqs) = "abort"
  <2>1. /\ response' = "aborted" /\ UNCHANGED exists /\ run' = "no"
        /\ task' = IF task = "running" THEN "stopping"
                   ELSE IF task = "queued" THEN "dropped" ELSE task
    BY <1>7 DEF Serve, Stop
  <2>2. Asked("abort") /\ ~Asked("send") /\ \A r : ~Asked(r)'
    <3>1. reqs' = <<>> /\ Has(reqs, "abort") /\ ~Has(reqs, "send")
      BY <1>0, <1>7, Served
    <3>. QED BY <3>1 DEF Asked, Has
  <2>3. known /\ task # "none" /\ ~Comes("created")
    BY <1>0, <2>2 DEF Ind, Facts, CreatedOnce, SentOnce
  <2>4. task' \in {"stopping", "over", "failed", "cut", "dropped"}
    BY <2>1, <2>3 DEF Ind, TypeOK, HostType
  <2>5. Connection' /\ CreatedOnce' /\ SentOnce' /\ AbortedIsOver'
    BY <1>0, <1>1, <1>2, <1>3, <2>1, <2>2, <2>3, <2>4
       DEF Ind, Facts, Connection, CreatedOnce, SentOnce, AbortedIsOver, Comes
  <2>6. RunIsTask' /\ TakenAreShots'
    BY <1>0, <2>1, <2>4 DEF Ind, Facts, RunIsTask, TakenAreShots
  <2>7. FreeThread'
    BY <1>0, <2>1, <2>4 DEF Ind, Facts, FreeThread
  <2>8. Verdict'
    BY <1>0, <2>2, <2>4 DEF Ind, Facts, Verdict
  <2>9. InOrder'
    BY <1>0, <2>4 DEF InOrder
  <2>. QED BY <2>5, <2>6, <2>7, <2>8, <2>9 DEF Facts
<1>. QED BY <1>4, <1>5, <1>6, <1>7 DEF Serve

\* The answer to a request goes out behind the frames sent before.
LEMMA RespondStep == Ind /\ Respond => Facts'
<1>. SUFFICES ASSUME Ind, Respond PROVE Facts'
  OBVIOUS
<1>. DEFINE f == [what |-> response, running |-> FALSE, reply |-> FALSE, exists |-> FALSE]
<1>0. /\ response # "none" /\ response' = "none" /\ gw \notin {"none", "resolves", "opened"}
      /\ UNCHANGED <<gw, known, sawRunning, sawReply, resume, out, sure, reqs, alive, taken,
                     run, reply, task, busy, crossed>>
  BY DEF Respond, gateway, Ind, Facts, Connection
<1>1. response \in {"created", "refused", "aborted"} /\ frames \in Seq(Shots)
  BY <1>0 DEF Ind, TypeOK, HostType, WireType
<1>2. \/ frames' = frames
      \/ /\ frames' = Append(frames, f)
         /\ DOMAIN frames' = DOMAIN frames \cup {Len(frames) + 1}
         /\ Len(frames) + 1 \notin DOMAIN frames
         /\ \A i \in DOMAIN frames : frames'[i] = frames[i]
         /\ frames'[Len(frames) + 1] = f
  BY <1>1 DEF Respond, Deliver
<1>3. f.what = response /\ f.what # "state"
  BY <1>1
<1>4. \A w \in {"created", "aborted"} : Comes(w)' => Comes(w)
  BY <1>0, <1>2, <1>3 DEF Comes, Arrives
<1>5. CreatedOnce'
  <2>1. ~Arrives("created") \/ response # "created"
    BY DEF Ind, Facts, CreatedOnce
  <2>2. \A i, j \in DOMAIN frames' :
           frames'[i].what = "created" /\ frames'[j].what = "created" => i = j
    BY <1>2, <1>3, <2>1 DEF Ind, Facts, CreatedOnce, Arrives
  <2>. QED BY <1>0, <1>4, <2>2 DEF Ind, Facts, CreatedOnce, Asked
<1>6. Connection' /\ SentOnce' /\ AbortedIsOver'
  BY <1>0, <1>4 DEF Ind, Facts, Connection, SentOnce, AbortedIsOver, Asked
<1>7. RunIsTask' /\ TakenAreShots' /\ FreeThread' /\ Verdict'
  BY <1>0 DEF Ind, Facts, RunIsTask, FreeThread, TakenAreShots, Verdict, Asked
<1>8. InOrder'
  <2>. HIDE DEF f
  <2>1. ~Shows(f, resume) /\ ~Still(f)
    BY <1>3 DEF Shows, Still
  <2>. SUFFICES ASSUME ~busy, ~crossed PROVE InOrder'
    BY <1>0 DEF InOrder
  <2>2. CASE task = "none"
    BY <1>0, <1>2, <2>1, <2>2 DEF Ind, Facts, InOrder, Saw
  <2>3. CASE task = "running"
    BY <1>0, <1>2, <2>1, <2>3 DEF Ind, Facts, InOrder, Saw
  <2>. QED BY <1>0, <2>2, <2>3 DEF InOrder
<1>. QED BY <1>5, <1>6, <1>7, <1>8 DEF Facts

\* A task of the target computes a snapshot.
LEMMA TakeStep == Ind /\ Take => Facts'
<1>. SUFFICES ASSUME Ind, Take PROVE Facts'
  OBVIOUS
<1>0. /\ taken' = Append(taken, Shot)
      /\ UNCHANGED <<gw, known, sawRunning, sawReply, resume, out, sure, reqs, frames, response,
                     alive, run, reply, task, busy, crossed>>
  BY DEF Take, gateway, wire
<1>1. taken \in Seq(Shots)
  BY DEF Ind, TypeOK, HostType
<1>2. /\ DOMAIN taken' = DOMAIN taken \cup {Len(taken) + 1}
      /\ \A i \in DOMAIN taken : taken'[i] = taken[i] /\ ~(Len(taken) + 1 <= i)
      /\ taken'[Len(taken) + 1] = Shot
  BY <1>0, <1>1
<1>3. Shot.what = "state" /\ Shot.running = (run # "no") /\ Shot.reply = reply
  BY DEF Shot
<1>4. Connection' /\ CreatedOnce' /\ SentOnce' /\ AbortedIsOver'
  BY <1>0 DEF Ind, Facts, Connection, CreatedOnce, SentOnce, AbortedIsOver, Asked, Comes, Arrives
<1>5. RunIsTask' /\ FreeThread' /\ Verdict'
  BY <1>0 DEF Ind, Facts, RunIsTask, FreeThread, Verdict, Asked
<1>6. TakenAreShots'
  BY <1>2, <1>3 DEF Ind, Facts, TakenAreShots
<1>7. InOrder'
  <2>. SUFFICES ASSUME ~busy, ~crossed PROVE InOrder'
    BY <1>0 DEF InOrder
  <2>1. CASE task = "none"
    <3>1. ~Shows(Shot, resume)
      BY <1>3, <2>1 DEF Ind, Facts, FreeThread, Shows
    <3>. QED BY <1>0, <1>2, <2>1, <3>1 DEF Ind, Facts, InOrder, Saw
  <2>2. CASE task = "running"
    <3>1. ~Still(Shot)
      BY <1>3, <2>2 DEF Ind, Facts, RunIsTask, Still
    <3>2. \A j \in DOMAIN taken' : Still(taken'[j]) => j \in DOMAIN taken /\ taken'[j] = taken[j]
      BY <1>2, <3>1
    <3>3. Saw' => /\ \A j \in DOMAIN frames' : ~Still(frames'[j])
                  /\ \A j \in DOMAIN taken' : ~Still(taken'[j])
      BY <1>0, <2>2, <3>2 DEF Ind, Facts, InOrder, Saw
    <3>4. \A i \in DOMAIN frames' : Shows(frames'[i], resume') =>
             /\ \A j \in DOMAIN frames' : i <= j => ~Still(frames'[j])
             /\ \A j \in DOMAIN taken' : ~Still(taken'[j])
      BY <1>0, <2>2, <3>2 DEF Ind, Facts, InOrder
    <3>5. ASSUME NEW i \in DOMAIN taken', NEW j \in DOMAIN taken', i <= j,
                 Shows(taken'[i], resume')
          PROVE  ~Still(taken'[j])
      <4>. SUFFICES ASSUME j \in DOMAIN taken PROVE ~Still(taken'[j])
        BY <3>2
      <4>1. i \in DOMAIN taken
        BY <1>2, <3>5
      <4>. QED BY <1>0, <1>2, <2>2, <3>5, <4>1 DEF Ind, Facts, InOrder
    <3>. QED BY <1>0, <2>2, <3>3, <3>4, <3>5 DEF InOrder
  <2>. QED BY <1>0, <2>1, <2>2 DEF InOrder
<1>. QED BY <1>4, <1>5, <1>6, <1>7 DEF Facts

\* The oldest computed snapshot becomes the last on the wire; sending another one
\* is what "crossed" remembers.
LEMMA SendStep ==
  ASSUME Ind, NEW i \in DOMAIN taken, Send(i)
  PROVE  Facts'
<1>0. /\ taken' = RemoveAt(taken, i)
      /\ frames' = IF gw \in {"watches", "aborting"} THEN Append(frames, taken[i]) ELSE frames
      /\ crossed' = (crossed \/ i > 1)
      /\ UNCHANGED <<gw, known, sawRunning, sawReply, resume, out, sure, reqs, response,
                     alive, run, reply, task, busy>>
  BY DEF Send, Deliver, Listens, gateway
<1>1. taken \in Seq(Shots) /\ frames \in Seq(Shots) /\ taken # <<>>
  BY DEF Ind, TypeOK, HostType, WireType
<1>2. taken[i].what = "state"
  BY DEF Ind, Facts, TakenAreShots
<1>3. \/ frames' = frames
      \/ /\ frames' = Append(frames, taken[i]) /\ gw \in {"watches", "aborting"}
         /\ DOMAIN frames' = DOMAIN frames \cup {Len(frames) + 1}
         /\ \A j \in DOMAIN frames : frames'[j] = frames[j] /\ ~(Len(frames) + 1 <= j)
         /\ frames'[Len(frames) + 1] = taken[i]
  BY <1>0, <1>1
<1>4. \A w : w # "state" => (Comes(w)' <=> Comes(w)) /\ (Arrives(w)' <=> Arrives(w))
  BY <1>0, <1>2, <1>3 DEF Comes, Arrives
<1>5. Connection' /\ SentOnce' /\ AbortedIsOver'
  BY <1>0, <1>4 DEF Ind, Facts, Connection, SentOnce, AbortedIsOver, Asked
<1>6. CreatedOnce'
  <2>1. \A k, j \in DOMAIN frames' :
           frames'[k].what = "created" /\ frames'[j].what = "created" => k = j
    BY <1>2, <1>3 DEF Ind, Facts, CreatedOnce
  <2>. QED BY <1>0, <1>4, <2>1 DEF Ind, Facts, CreatedOnce, Asked
<1>7. RunIsTask' /\ FreeThread' /\ Verdict'
  BY <1>0 DEF Ind, Facts, RunIsTask, FreeThread, Verdict, Asked
<1>8. TakenAreShots'
  BY <1>0, <1>1, RemoveAtType DEF Ind, Facts, TakenAreShots
<1>9. InOrder'
  <2>0. i > 1 \/ i = 1
    BY <1>1
  <2>. SUFFICES ASSUME ~busy, ~crossed, i = 1 PROVE InOrder'
    BY <1>0, <2>0 DEF InOrder
  <2>a. taken' = Tail(taken)
    BY <1>0, <1>1, RemoveAtType
  <2>1. /\ 1 \in DOMAIN taken
        /\ \A j \in DOMAIN taken' :
              j + 1 \in DOMAIN taken /\ taken'[j] = taken[j + 1] /\ 1 <= j + 1
        /\ \A k, j \in DOMAIN taken' : k <= j => k + 1 <= j + 1
    BY <1>1, <2>a, TailOf
  <2>2. CASE task = "none"
    BY <1>0, <1>3, <2>1, <2>2 DEF Ind, Facts, InOrder, Saw
  <2>3. CASE task = "running"
    <3>1. \A j \in DOMAIN taken : 1 <= j
      BY <1>1
    <3>2. Saw' => /\ \A j \in DOMAIN frames' : ~Still(frames'[j])
                  /\ \A j \in DOMAIN taken' : ~Still(taken'[j])
      BY <1>0, <1>3, <2>1, <2>3 DEF Ind, Facts, InOrder, Saw
    <3>3. \A k \in DOMAIN frames' : Shows(frames'[k], resume') =>
             /\ \A j \in DOMAIN frames' : k <= j => ~Still(frames'[j])
             /\ \A j \in DOMAIN taken' : ~Still(taken'[j])
      BY <1>0, <1>3, <2>1, <2>3, <3>1 DEF Ind, Facts, InOrder
    <3>4. \A k, j \in DOMAIN taken' :
             k <= j /\ Shows(taken'[k], resume') => ~Still(taken'[j])
      BY <1>0, <2>1, <2>3 DEF Ind, Facts, InOrder
    <3>. QED BY <1>0, <2>3, <3>2, <3>3, <3>4 DEF InOrder
  <2>. QED BY <1>0, <2>2, <2>3 DEF InOrder
<1>. QED BY <1>5, <1>6, <1>7, <1>8, <1>9 DEF Facts

\* Turns and users of the target.
TargetMoves ==
    Write \/ TurnEnds \/ StoppedEnds \/ OtherStarts \/ OtherAborts \/ OtherPatches

\* They leave the wire alone.
LEMMA TurnStep == Ind /\ TargetMoves => Facts'
<1>. SUFFICES ASSUME Ind, TargetMoves PROVE Facts'
  OBVIOUS
<1>0. UNCHANGED <<gw, known, sawRunning, sawReply, resume, out, sure, reqs, frames, response,
                  alive, taken, crossed>>
  BY DEF TargetMoves, Write, TurnEnds, StoppedEnds, OtherStarts, OtherAborts, OtherPatches,
         gateway, wire
<1>1. \/ task' = task
      \/ task = "running" /\ task' \in {"over", "failed", "stopping"}
      \/ task = "stopping" /\ task' = "cut"
      \/ task = "queued" /\ task' \in {"running", "dropped"}
  BY DEF Ind, Facts, RunIsTask, TargetMoves, Write, TurnEnds, StoppedEnds, OtherStarts,
         OtherAborts, OtherPatches, Stop
<1>2. Connection' /\ CreatedOnce' /\ SentOnce'
  BY <1>0, <1>1 DEF Ind, Facts, Connection, CreatedOnce, SentOnce, Asked, Comes, Arrives
<1>3. AbortedIsOver'
  BY <1>0, <1>1 DEF Ind, Facts, AbortedIsOver, Comes, Arrives
<1>4. RunIsTask'
  <2>. USE DEF Ind, Facts, RunIsTask
  <2>1. CASE Write \/ OtherPatches
    BY <2>1 DEF Write, OtherPatches
  <2>2. CASE TurnEnds
    BY <2>2 DEF TurnEnds
  <2>3. CASE StoppedEnds
    BY <2>3 DEF StoppedEnds
  <2>4. CASE OtherStarts
    BY <2>4 DEF OtherStarts
  <2>5. CASE OtherAborts
    BY <2>5 DEF OtherAborts, Stop
  <2>. QED BY <2>1, <2>2, <2>3, <2>4, <2>5 DEF TargetMoves
<1>5. Verdict'
  BY <1>0, <1>1 DEF Ind, Facts, Verdict, Asked
<1>6. busy => busy'
  BY DEF TargetMoves, Write, TurnEnds, StoppedEnds, OtherStarts, OtherAborts, OtherPatches
<1>7. FreeThread'
  <2>1. reply' = reply \/ task # "none" \/ busy
    BY DEF Ind, Facts, FreeThread, TargetMoves, Write, TurnEnds, StoppedEnds, OtherStarts,
           OtherAborts, OtherPatches
  <2>2. task = "none" => task' = "none" /\ (run' = run \/ run' = "no" \/ busy')
    BY <1>1 DEF Ind, Facts, RunIsTask, TargetMoves, Write, TurnEnds, StoppedEnds,
                OtherStarts, OtherAborts, OtherPatches, Stop
  <2>3. task # "none" => task' # "none"
    BY <1>1
  <2>. QED BY <1>0, <1>1, <1>6, <2>1, <2>2, <2>3 DEF Ind, Facts, FreeThread
<1>8. TakenAreShots'
  BY <1>0 DEF Ind, Facts, TakenAreShots
<1>9. InOrder'
  <2>. SUFFICES ASSUME ~busy, ~crossed PROVE InOrder'
    BY <1>0, <1>6 DEF InOrder
  <2>1. task' = task \/ task' \notin {"none", "running"}
    BY <1>1 DEF Ind, Facts, FreeThread
  <2>. QED BY <1>0, <2>1 DEF Ind, Facts, InOrder, Saw
<1>. QED BY <1>2, <1>3, <1>4, <1>5, <1>7, <1>8, <1>9 DEF Facts

\* The target's process ends: what was asked is never served.
LEMMA ExitStep == Ind /\ Exits => Facts'
<1>. SUFFICES ASSUME Ind, Exits PROVE Facts'
  OBVIOUS
<1>0. /\ alive' = FALSE /\ reqs' = <<>> /\ response' = "none" /\ taken' = <<>> /\ run' = "no"
      /\ task' = IF task \in {"running", "stopping"} THEN "cut"
                 ELSE IF task = "queued" THEN "dropped" ELSE task
      /\ UNCHANGED <<gw, known, sawRunning, sawReply, resume, out, sure, frames, reply, busy,
                     crossed>>
  BY DEF Exits, gateway
<1>1. \A r : ~Asked(r)'
  BY <1>0 DEF Asked, Has
<1>2. \A w \in {"created", "aborted"} : Comes(w)' => Comes(w)
  BY <1>0 DEF Comes, Arrives
<1>3. Connection'
  BY <1>0, <1>1 DEF Ind, Facts, Connection, Requests
<1>4. CreatedOnce'
  BY <1>0, <1>1, <1>2 DEF Ind, Facts, CreatedOnce
<1>5. SentOnce' /\ AbortedIsOver'
  BY <1>0, <1>1, <1>2 DEF Ind, Facts, SentOnce, AbortedIsOver
<1>6. RunIsTask' /\ FreeThread' /\ TakenAreShots'
  BY <1>0 DEF Ind, Facts, RunIsTask, FreeThread, TakenAreShots
<1>7. Verdict'
  BY <1>0, <1>1 DEF Ind, Facts, Verdict
<1>8. InOrder'
  BY <1>0 DEF Ind, Facts, InOrder, Saw
<1>. QED BY <1>3, <1>4, <1>5, <1>6, <1>7, <1>8 DEF Facts

\* No step leaves the invariant.
LEMMA IndStep == Ind /\ [Next]_vars => Ind'
<1>. SUFFICES ASSUME Ind, [Next]_vars PROVE Ind'
  OBVIOUS
<1>1. TypeOK'
  BY TypeStep DEF Ind
<1>2. CASE Ask \/ SendCancel \/ GiveUp \/ TakeAnswer \/ UNCHANGED vars
  BY <1>1, <1>2, MoveStep DEF Ind, Ask, SendCancel, GiveUp, TakeAnswer, vars, gateway
<1>3. CASE Gateway
  BY <1>1, <1>3, GatewayInd DEF Ind
<1>4. CASE Target
  BY <1>1, <1>4, ServeStep, RespondStep, TakeStep, SendStep, TurnStep, ExitStep
     DEF Ind, Target, TargetMoves
<1>. QED BY <1>2, <1>3, <1>4 DEF Next

-----------------------------------------------------------------------------
(* Theorems                                                                 *)

\* The variables keep their types (delegate.rs:112-150, 202-270).
THEOREM TypeCorrect == Spec => []TypeOK
<1>1. Init => TypeOK
  BY InitInd DEF Ind
<1>. QED BY <1>1, TypeStep, PTL DEF Spec

\* What is on the connection agrees with what the gateway and the target know, in
\* every reachable state (delegate.rs:202-330).
THEOREM Invariance == Spec => []Ind
BY InitInd, IndStep, PTL DEF Spec


-----------------------------------------------------------------------------
(* A delegation implements an errand                                        *)

\* As long as the verdict stands, a step of the task is a step of the errand's task.
LEMMA TaskStep ==
  ASSUME Ind, UNCHANGED <<out, sure>>,
         \/ task' = task
         \/ task = "none" /\ task' = "queued"
         \/ task = "none" /\ Asked("send") /\ task' = "running"
         \/ task = "queued" /\ task' \in {"running", "dropped"}
         \/ task = "running" /\ task' \in {"stopping", "over", "failed", "cut"}
         \/ task = "stopping" /\ task' = "cut"
  PROVE  [E!Next]_E!vars
<1>1. CASE task' = task \/ (task = "none" /\ task' = "queued") \/ (task = "queued" /\ task' = "dropped")
  BY <1>1 DEF E!vars
<1>2. CASE task' = "running" /\ ((task = "none" /\ Asked("send")) \/ task = "queued")
  <2>1. ~(out = "cancelled" /\ sure)
    BY <1>2 DEF Ind, Facts, Verdict
  <2>2. E!Start
    BY <1>2, <2>1 DEF E!Start
  <2>. QED BY <2>2 DEF E!Next
<1>3. CASE task \in {"running", "stopping"} /\ task' \in {"over", "failed", "cut"}
  <2>1. E!End
    BY <1>3 DEF E!End
  <2>. QED BY <2>1 DEF E!Next
<1>4. CASE task = "running" /\ task' = "stopping"
  <2>1. E!Stop
    BY <1>4 DEF E!Stop
  <2>. QED BY <2>1 DEF E!Next
<1>. QED BY <1>1, <1>2, <1>3, <1>4

\* A verdict is an answer of the errand.
LEMMA VerdictStep ==
  ASSUME Ind, out = "none", task' = task,
         \/ out' \in {"error", "timeout"}
         \/ out' = "cancelled" /\ (sure' => task # "running")
         \/ out' = "done" /\ (sure' => Over)
  PROVE  [E!Next]_E!vars
<1>1. CASE out' \in {"error", "timeout"} \/ ~sure'
  <2>1. E!Unknown
    BY <1>1 DEF E!Unknown, E!Answers
  <2>. QED BY <2>1 DEF E!Next
<1>2. CASE sure' /\ out' = "cancelled" /\ task # "running"
  <2>1. E!Cancelled
    BY <1>2 DEF E!Cancelled, E!Answers
  <2>. QED BY <2>1 DEF E!Next
<1>3. CASE sure' /\ out' = "done" /\ Over
  <2>1. E!Done
    BY <1>3 DEF E!Done, E!Answers, Over
  <2>. QED BY <2>1 DEF E!Next
<1>. QED BY <1>1, <1>2, <1>3

\* A step of the gateway gives at most the verdict, once.
LEMMA GatewayErrand == Ind /\ Gateway => [E!Next]_E!vars
<1>. SUFFICES ASSUME Ind, Gateway PROVE [E!Next]_E!vars
  OBVIOUS
<1>0. task' = task
  BY DEF Gateway, TakeDelegate, CancelDelegation, NoTarget, Open, RefuseDepth, Connect,
         Disconnected, TimesOut, TakeFrame, PollCancel, AwaitAbort, AbortUnanswered, Close,
         Reacts, host
<1>1. CASE gw \in {"closes", "answered"} \/ UNCHANGED <<out, sure>>
  <2>1. UNCHANGED <<out, sure>>
    BY <1>1 DEF Gateway, TakeDelegate, CancelDelegation, NoTarget, Open, RefuseDepth, Connect,
         Disconnected, TimesOut, DuringRun, TakeFrame, PollCancel, AwaitAbort, AbortUnanswered,
         Close
  <2>. QED BY <1>0, <2>1, TaskStep
<1>2. CASE gw \notin {"closes", "answered"} /\ ~UNCHANGED <<out, sure>>
  <2>1. out = "none"
    BY <1>2 DEF Ind, Facts, Verdict
  <2>2. CASE TakeDelegate \/ CancelDelegation \/ Open \/ Connect \/ Close
    BY <1>2, <2>2 DEF TakeDelegate, CancelDelegation, Open, Connect, Close
  <2>3. CASE NoTarget \/ RefuseDepth \/ Disconnected \/ TimesOut
    <3>1. out' \in {"error", "timeout"}
      BY <2>3 DEF NoTarget, RefuseDepth, Disconnected, TimesOut, Ends
    <3>. QED BY <1>0, <2>1, <3>1, VerdictStep
  <2>4. CASE TakeFrame
    <3>1. frames # <<>> /\ Head(frames) \in Shots
      BY <2>4, TailOf DEF TakeFrame, Ind, TypeOK, WireType
    <3>2. CASE out' = "error"
      BY <1>0, <2>1, <3>2, VerdictStep
    <3>3. CASE Head(frames).what = "state" /\ Watch(Head(frames))
      <4>. DEFINE f == Head(frames)
                  said == sawReply \/ (f.exists /\ f.reply)
      <4>1. f.exists /\ Finished(f.running, said) /\ out' = "done" /\ sure' = (~busy /\ ~crossed)
        BY <1>2, <3>3 DEF Watch, Ends
      <4>2. ~f.running /\ (Saw \/ Shows(f, resume))
        BY <3>1, <3>3, <4>1 DEF Finished, Saw, Shows, Shots
      <4>3. sure' => Over
        BY <3>1, <3>3, <4>1, <4>2, DoneIsOver
      <4>. QED BY <1>0, <2>1, <4>1, <4>3, VerdictStep
    <3>. QED BY <1>2, <2>4, <3>2, <3>3 DEF TakeFrame, Ends
  <2>5. CASE PollCancel
    <3>1. out' = "cancelled" /\ ~known
      BY <1>2, <2>5 DEF PollCancel, Ends
    <3>2. task = "none"
      BY <3>1 DEF Ind, Facts, SentOnce
    <3>. QED BY <1>0, <2>1, <3>1, <3>2, VerdictStep
  <2>6. CASE AwaitAbort
    <3>1. out' = "cancelled" /\ frames # <<>> /\ Head(frames).what = "aborted"
      BY <1>2, <2>6 DEF AwaitAbort, IsAbortAnswer, Ends
    <3>2. Comes("aborted")
      BY <3>1, TailOf DEF Ind, TypeOK, WireType, Comes, Arrives
    <3>3. task # "running"
      BY <3>2 DEF Ind, Facts, AbortedIsOver
    <3>. QED BY <1>0, <2>1, <3>1, <3>3, VerdictStep
  <2>7. CASE AbortUnanswered
    <3>1. out' = "cancelled" /\ ~sure'
      BY <2>1, <2>7 DEF AbortUnanswered, Ends, Ind, Facts, Verdict
    <3>. QED BY <1>0, <2>1, <3>1, VerdictStep
  <2>. QED BY <2>2, <2>3, <2>4, <2>5, <2>6, <2>7 DEF Gateway
<1>. QED BY <1>1, <1>2

\* A step of the target starts or ends the task, or is none of the errand's.
LEMMA TargetErrand == Ind /\ Target => [E!Next]_E!vars
<1>. SUFFICES ASSUME Ind, Target PROVE [E!Next]_E!vars
  OBVIOUS
<1>1. UNCHANGED <<out, sure>>
  BY DEF Target, Serve, Respond, Take, Send, Write, TurnEnds, StoppedEnds, OtherStarts, OtherAborts,
         OtherPatches, Exits, gateway
<1>2. CASE Serve
  <2>1. reqs # <<>> /\ reqs \in Requests
    BY <1>2 DEF Serve, Ind, Facts, Connection
  <2>2. CASE Head(reqs) = "send"
    <3>1. Asked("send") /\ task = "none"
      BY <2>1, <2>2, Served DEF Ind, Facts, SentOnce, Asked
    <3>2. task' \in {"running", "queued"}
      BY <1>2, <2>2 DEF Serve
    <3>. QED BY <1>1, <3>1, <3>2, TaskStep
  <2>3. CASE Head(reqs) # "send"
    <3>1. \/ task' = task
          \/ task = "queued" /\ task' = "dropped"
          \/ task = "running" /\ task' = "stopping"
      BY <1>2, <2>3 DEF Serve, Stop
    <3>. QED BY <1>1, <3>1, TaskStep
  <2>. QED BY <2>2, <2>3
<1>3. CASE Respond \/ Take \/ (\E i \in DOMAIN taken : Send(i)) \/ Write \/ OtherStarts
           \/ OtherPatches
  <2>1. task' = task
    BY <1>3 DEF Respond, Take, Send, Write, OtherStarts, OtherPatches
  <2>. QED BY <1>1, <2>1, TaskStep
<1>4. CASE TurnEnds \/ StoppedEnds
  <2>1. \/ task' = task
        \/ task = "queued" /\ task' = "running"
        \/ task = "running" /\ task' \in {"over", "failed"}
        \/ task = "stopping" /\ task' = "cut"
    BY <1>4 DEF TurnEnds, StoppedEnds
  <2>. QED BY <1>1, <2>1, TaskStep
<1>5. CASE OtherAborts \/ Exits
  <2>1. \/ task' = task
        \/ task = "queued" /\ task' = "dropped"
        \/ task = "running" /\ task' \in {"stopping", "cut"}
        \/ task = "stopping" /\ task' = "cut"
    BY <1>5 DEF OtherAborts, Exits, Stop
  <2>. QED BY <1>1, <2>1, TaskStep
<1>. QED BY <1>2, <1>3, <1>4, <1>5 DEF Target

\* Every step of a delegation is a step of the errand, or none.
LEMMA ErrandStep == Ind /\ [Next]_vars => [E!Next]_E!vars
<1>. SUFFICES ASSUME Ind, [Next]_vars PROVE [E!Next]_E!vars
  OBVIOUS
<1>1. CASE Ask \/ SendCancel \/ GiveUp \/ TakeAnswer \/ UNCHANGED vars
  <2>1. UNCHANGED <<out, sure, task>>
    BY <1>1 DEF Ask, SendCancel, GiveUp, TakeAnswer, vars, gateway, host
  <2>. QED BY <2>1, TaskStep
<1>. QED BY <1>1, GatewayErrand, TargetErrand DEF Next

\* Nothing has been asked of the errand.
LEMMA ErrandInit == Init => E!Init
BY DEF Init, E!Init

\* A delegation keeps the promises of an errand (delegate.rs:14-25, 300-330): the task
\* runs once, "done" is said after it ran or was told to stop, and after an acknowledged
\* cancel it never begins, and if it had begun it has been told to stop (it may be winding
\* down), except where another turn of the thread was there before or snapshots crossed.
THEOREM DelegationIsErrand == Spec => IsErrand
BY Invariance, ErrandInit, ErrandStep, PTL DEF Spec, IsErrand, E!Spec

\* The same for the specification with fairness, which the runs check.
THEOREM FairDelegationIsErrand == FairSpec => IsErrand
BY DelegationIsErrand, PTL DEF FairSpec

=============================================================================
