----------------------------- MODULE Delegation -----------------------------
(***************************************************************************)
(* One delegation through the gateway: an agent's bus asks, the gateway    *)
(* finds or starts the target, drives one turn of a thread there over a    *)
(* connection of its own, and answers.  A cancel goes the same way.        *)
(*                                                                         *)
(* The gateway's task learns of the turn only from the full snapshots the  *)
(* target broadcasts, each computed by one task while another's may be on  *)
(* its way (module Broadcast).  The target's drain loop is reduced to what *)
(* a snapshot shows of the thread and what became of the message (module   *)
(* ThreadLoop): a message sent to a busy thread waits in its queue, where  *)
(* a failed turn leaves it.  An abort signals a turn and no more: the flag *)
(* is cleared and the answer sent while the engine still winds down, or,   *)
(* where no signal was registered yet, runs its whole turn; and the loop   *)
(* of such a turn may clear the flag of the next.                          *)
(***************************************************************************)
EXTENDS Integers, SequencesExt

CONSTANTS
    MaxFrames, \* bound: snapshots on their way to the gateway
    MaxTaken   \* bound: tasks of the target that broadcast at the same time

ASSUME BoundsAssumption == MaxFrames \in Nat /\ MaxTaken \in Nat

VARIABLES
    \* the asking agent
    bus,         \* asks, waits, answered, gaveUp
    cancelFrame, \* none, sent, handled
    \* the gateway
    gw,          \* none, resolves, opened, watches, aborting, closes, answered
    registered,  \* the delegation is in the DelegationRegistry
    flag,        \* its cancel flag
    deep,        \* the depth it carries is refused
    resume,      \* it names a thread to continue
    known,       \* thread_id is some, and the task was sent
    sawRunning,
    sawReply,    \* last_assistant is not empty
    out,         \* none, done, cancelled, timeout, error
    \* the target
    alive,
    reqs,        \* requests on the gateway's connection
    response,    \* the one it owes before it serves the next: none, created, ...
    frames,      \* responses and snapshots on their way to the gateway
    taken,       \* snapshots computed and not yet sent, oldest first
    patch,       \* the target sends patches instead of snapshots
    exists,      \* the thread
    run,         \* its turn: no, mine, other
    reply,       \* it has an assistant card
    task,        \* none, queued, running, stopping, over, failed, cut, dropped
    \* history
    busy,        \* another turn ran, or wound down, before the task came
    crossed,     \* a snapshot overtook an older one
    sure         \* what "out" says was not a guess

caller == <<bus, cancelFrame>>
gateway == <<gw, registered, flag, deep, resume, known, sawRunning, sawReply, out, sure>>
wire == <<reqs, frames>>
host == <<alive, response, taken, patch, exists, run, reply, task, busy, crossed>>
vars == <<caller, gateway, wire, host>>

\* A new delegation; a thread to continue has replies, may be running, and a turn
\* of it that was stopped may still wind down.
Init ==
    /\ bus = "asks" /\ cancelFrame = "none"
    /\ gw = "none" /\ registered = FALSE /\ flag = FALSE
    /\ deep \in BOOLEAN /\ resume \in BOOLEAN
    /\ known = FALSE /\ sawRunning = FALSE /\ sawReply = FALSE
    /\ out = "none" /\ sure = FALSE
    /\ alive = TRUE /\ reqs = <<>> /\ response = "none" /\ frames = <<>>
    /\ taken = <<>> /\ patch \in BOOLEAN
    /\ exists = resume /\ reply = resume
    /\ run \in IF resume THEN {"no", "other"} ELSE {"no"}
    /\ task = "none" /\ busy \in {run = "other", resume} /\ crossed = FALSE

-----------------------------------------------------------------------------
(* The asking agent                                                         *)

Ask ==
    /\ bus = "asks"
    /\ bus' \in {"waits", "gaveUp"}
    /\ UNCHANGED <<cancelFrame, gateway, wire, host>>

\* The turn that asked has been cancelled; the frame goes out once.
SendCancel ==
    /\ bus = "waits" /\ cancelFrame = "none"
    /\ cancelFrame' = "sent"
    /\ UNCHANGED <<bus, gateway, wire, host>>

\* Its own timeout, or the connection to the gateway is lost.
GiveUp ==
    /\ bus = "waits" /\ bus' = "gaveUp"
    /\ UNCHANGED <<cancelFrame, gateway, wire, host>>

TakeAnswer ==
    /\ bus = "waits" /\ gw = "answered" /\ bus' = "answered"
    /\ UNCHANGED <<cancelFrame, gateway, wire, host>>

-----------------------------------------------------------------------------
(* The gateway                                                              *)

Moves(to) == gw' = to

\* Each delegation is a task of its own, so that the relay reads on.
TakeDelegate ==
    /\ bus = "waits" /\ gw = "none" /\ Moves("resolves")
    /\ UNCHANGED <<caller, registered, flag, deep, resume, known, sawRunning, sawReply,
                   out, sure, wire, host>>

\* cancelDelegation: without an entry it is answered "cancelled: false".
CancelDelegation ==
    /\ cancelFrame = "sent" /\ gw # "none"
    /\ cancelFrame' = "handled"
    /\ flag' = (flag \/ registered)
    /\ UNCHANGED <<bus, gw, registered, deep, resume, known, sawRunning, sawReply,
                   out, sure, wire, host>>

\* The target could not be found or started.
NoTarget ==
    /\ gw = "resolves" /\ Moves("answered") /\ out' = "error"
    /\ UNCHANGED <<caller, registered, flag, deep, resume, known, sawRunning, sawReply,
                   sure, wire, host>>

Open ==
    /\ gw = "resolves" /\ Moves("opened")
    /\ registered' = TRUE /\ flag' = FALSE
    /\ UNCHANGED <<caller, deep, resume, known, sawRunning, sawReply, out, sure, wire,
                   host>>

\* The entry stays in the registry.
RefuseDepth ==
    /\ gw = "opened" /\ deep /\ Moves("answered") /\ out' = "error"
    /\ UNCHANGED <<caller, registered, flag, deep, resume, known, sawRunning, sawReply,
                   sure, wire, host>>

Shot == [what |-> "state", running |-> run # "no", reply |-> reply, exists |-> exists]

\* The target greets with a full snapshot.
Connect ==
    /\ gw = "opened" /\ ~deep /\ alive /\ Moves("watches")
    /\ known' = resume
    /\ reqs' = <<"initialize", IF resume THEN "send" ELSE "create">>
    /\ frames' = <<Shot>>
    /\ UNCHANGED <<caller, registered, flag, deep, resume, sawRunning, sawReply, out, sure,
                   host>>

Ends(verdict) == Moves("closes") /\ out' = verdict /\ frames' = <<>>
Reacts == UNCHANGED <<caller, registered, flag, deep, resume, host>>

\* The connection cannot be made, or is lost before a verdict.
Disconnected ==
    /\ \/ gw = "opened" /\ ~deep
       \/ gw = "watches" /\ ~alive /\ frames = <<>>
    /\ Ends("error")
    /\ Reacts /\ UNCHANGED <<known, sawRunning, sawReply, sure, reqs>>

\* Mutant: the timeout is around the loop only.
DuringWatch == gw \in {"watches", "aborting"}
DuringRun == gw \in {"opened", "watches", "aborting"} /\ ~deep

\* DEFAULT_DELEGATION_TIMEOUT: nothing is sent to the target.
TimesOut ==
    /\ DuringRun
    /\ Ends("timeout")
    /\ Reacts /\ UNCHANGED <<known, sawRunning, sawReply, sure, reqs>>

\* Mutant: a new thread is over as soon as it does not run.
FinishedIdle(running, reply_) == ~running
\* The thread does not run, and has run or answered before.
Finished(running, reply_) == ~running /\ (sawRunning \/ (~resume /\ reply_))

\* A snapshot counts once the thread is known, and shows it.
Watch(f) ==
    LET ran == sawRunning \/ f.running
        said == sawReply \/ (f.exists /\ f.reply)
    IN  IF ~known THEN frames' = Tail(frames) /\ UNCHANGED <<gw, sawRunning, sawReply, out,
                                                             sure>>
        ELSE /\ sawRunning' = ran /\ sawReply' = said
             /\ IF f.exists /\ Finished(f.running, said)
                THEN Ends("done") /\ sure' = (~busy /\ ~crossed)
                ELSE frames' = Tail(frames) /\ UNCHANGED <<gw, out, sure>>

TakeFrame ==
    /\ gw = "watches" /\ frames # <<>>
    /\ LET f == Head(frames)
       IN  \/ /\ f.what = "state" /\ Watch(f)
              /\ UNCHANGED <<known, reqs>>
           \/ /\ f.what = "created" /\ known' = TRUE
              /\ reqs' = Append(reqs, "send") /\ frames' = Tail(frames)
              /\ UNCHANGED <<gw, sawRunning, sawReply, out, sure>>
           \/ /\ f.what = "refused" /\ Ends("error")
              /\ UNCHANGED <<known, sawRunning, sawReply, sure, reqs>>
    /\ Reacts

\* The poll comes when no frame has for 50 ms.  With a thread to abort it waits
\* for the answer, otherwise there is nothing to abort.
PollCancel ==
    /\ gw = "watches" /\ frames = <<>> /\ alive /\ flag
    /\ IF known
       THEN /\ Moves("aborting") /\ reqs' = Append(reqs, "abort")
            /\ UNCHANGED <<out, sure, frames>>
       ELSE Ends("cancelled") /\ sure' = TRUE /\ UNCHANGED reqs
    /\ Reacts /\ UNCHANGED <<known, sawRunning, sawReply>>

IsAbortAnswer(f) == f.what = "aborted"

AwaitAbort ==
    /\ gw = "aborting" /\ frames # <<>>
    /\ IF IsAbortAnswer(Head(frames))
       THEN Ends("cancelled") /\ sure' = TRUE
       ELSE frames' = Tail(frames) /\ UNCHANGED <<gw, out, sure>>
    /\ Reacts /\ UNCHANGED <<known, sawRunning, sawReply, reqs>>

\* Two seconds without an answer, or the connection is gone.
AbortUnanswered ==
    /\ gw = "aborting" /\ Ends("cancelled") /\ UNCHANGED sure
    /\ Reacts /\ UNCHANGED <<known, sawRunning, sawReply, reqs>>

Close ==
    /\ gw = "closes" /\ Moves("answered") /\ registered' = FALSE
    /\ UNCHANGED <<caller, flag, deep, resume, known, sawRunning, sawReply, out, sure,
                   wire, host>>

Gateway ==
    \/ TakeDelegate \/ CancelDelegation \/ NoTarget \/ Open \/ RefuseDepth \/ Connect
    \/ Disconnected \/ TimesOut \/ TakeFrame \/ PollCancel \/ AwaitAbort
    \/ AbortUnanswered \/ Close

-----------------------------------------------------------------------------
(* The target                                                               *)

Listens == gw \in {"watches", "aborting"}
Deliver(f) == frames' = IF Listens THEN Append(frames, f) ELSE frames

\* thread.abort, from the gateway or from a user of the target: the turn is told to
\* stop, the queue is emptied and the flag cleared.
Stop ==
    /\ run' = "no"
    /\ task' = CASE task = "running" -> "stopping"
                 [] task = "queued" -> "dropped"
                 [] OTHER -> task

\* A connection serves its requests one by one.
Serve ==
    /\ alive /\ response = "none" /\ reqs # <<>> /\ reqs' = Tail(reqs)
    /\ \/ /\ Head(reqs) = "initialize" /\ UNCHANGED <<response, exists, run, task>>
       \/ /\ Head(reqs) = "create"
          /\ \/ exists' = TRUE /\ response' = "created"
             \/ response' = "refused" /\ UNCHANGED exists
          /\ UNCHANGED <<run, task>>
       \/ /\ Head(reqs) = "send"
          /\ IF run = "no" THEN run' = "mine" /\ task' = "running"
                           ELSE task' = "queued" /\ UNCHANGED run
          /\ UNCHANGED <<response, exists>>
       \/ /\ Head(reqs) = "abort" /\ Stop /\ response' = "aborted"
          /\ UNCHANGED exists
    /\ UNCHANGED <<caller, gateway, frames, alive, taken, patch, reply, busy, crossed>>

Respond ==
    /\ response # "none" /\ response' = "none"
    /\ Deliver([what |-> response, running |-> FALSE, reply |-> FALSE, exists |-> FALSE])
    /\ UNCHANGED <<caller, gateway, reqs, alive, taken, patch, exists, run, reply, task,
                   busy, crossed>>

\* Every task of the target may broadcast at any time, the one that serves the
\* connection within and after each request.  A patch is not read by the gateway.
Take ==
    /\ alive /\ ~patch /\ (Listens \/ gw = "opened")
    /\ Len(taken) < MaxTaken /\ Len(frames) < MaxFrames
    /\ taken' = Append(taken, Shot)
    /\ UNCHANGED <<caller, gateway, wire, alive, response, patch, exists, run, reply, task,
                   busy, crossed>>

Send(i) ==
    /\ Deliver(taken[i]) /\ taken' = RemoveAt(taken, i)
    /\ crossed' = (crossed \/ i > 1)
    /\ UNCHANGED <<caller, gateway, reqs, alive, response, patch, exists, run, reply, task,
                   busy>>

Write ==
    /\ task \in {"running", "stopping"} \/ run = "other"
    /\ ~reply /\ reply' = TRUE
    /\ UNCHANGED <<caller, gateway, wire, alive, response, taken, patch, exists, run, task,
                   busy, crossed>>

\* A turn ends and its loop clears the flag; unless the turn failed, the loop takes
\* the next message, the task or what another user has queued.
TurnEnds ==
    /\ \/ /\ task = "running" /\ task' \in {"over", "failed"}
          /\ run' \in IF task' = "over" THEN {"no", "other"} ELSE {"no"}
       \/ run = "other" /\ task = "queued" /\ run' = "mine" /\ task' = "running"
       \/ run = "other" /\ run' = "no" /\ UNCHANGED task
    /\ UNCHANGED <<caller, gateway, wire, alive, response, taken, patch, exists, reply, busy,
                   crossed>>

\* A turn that was told to stop comes to its end, of itself or cut; a loop that was
\* not killed clears the flag, which may be the next turn's by now.
StoppedEnds ==
    /\ \/ task = "stopping" /\ task' = "cut" /\ run' \in {run, "no"}
       \/ busy /\ run = "mine" /\ run' = "no" /\ UNCHANGED task
    /\ UNCHANGED <<caller, gateway, wire, alive, response, taken, patch, exists, reply, busy,
                   crossed>>

\* Somebody at the target starts a turn of the thread, or aborts it.
OtherStarts ==
    /\ alive /\ exists /\ run = "no" /\ run' = "other"
    /\ busy' = (busy \/ task = "none")
    /\ UNCHANGED <<caller, gateway, wire, alive, response, taken, patch, exists, reply, task,
                   crossed>>
OtherAborts ==
    /\ alive /\ exists /\ Stop
    /\ UNCHANGED <<caller, gateway, wire, alive, response, taken, patch, exists, reply, busy,
                   crossed>>

\* Any client of the target that asks for patches gets them for all.
OtherPatches ==
    /\ ~patch /\ patch' = TRUE
    /\ UNCHANGED <<caller, gateway, wire, alive, response, taken, exists, run, reply, task,
                   busy, crossed>>

Exits ==
    /\ alive /\ alive' = FALSE /\ run' = "no"
    /\ task' = CASE task \in {"running", "stopping"} -> "cut"
                 [] task = "queued" -> "dropped"
                 [] OTHER -> task
    /\ response' = "none" /\ reqs' = <<>> /\ taken' = <<>>
    /\ UNCHANGED <<caller, gateway, frames, patch, exists, reply, busy, crossed>>

Target ==
    \/ Serve \/ Respond \/ Take \/ \E i \in DOMAIN taken : Send(i)
    \/ Write \/ TurnEnds \/ StoppedEnds \/ OtherStarts \/ OtherAborts \/ OtherPatches \/ Exits

-----------------------------------------------------------------------------

Next == Ask \/ SendCancel \/ GiveUp \/ TakeAnswer \/ Gateway \/ Target

Spec == Init /\ [][Next]_vars

\* The bus's and the gateway's tasks are polled, starting a process ends one way or
\* the other, and the gateway's timer fires; no fairness of the target, of users,
\* of the cancel poll or of the bus's own timeout is needed.
FairSpec ==
    /\ Spec
    /\ WF_vars(Ask) /\ WF_vars(TakeAnswer) /\ WF_vars(TakeDelegate)
    /\ WF_vars(NoTarget \/ Open) /\ WF_vars(RefuseDepth \/ TimesOut) /\ WF_vars(Close)

-----------------------------------------------------------------------------
(* Properties                                                               *)

Shots == [what : {"state", "created", "refused", "aborted"}, running : BOOLEAN,
          reply : BOOLEAN, exists : BOOLEAN]

CallerType ==
    bus \in {"asks", "waits", "answered", "gaveUp"} /\ cancelFrame \in {"none", "sent", "handled"}
GatewayType ==
    /\ gw \in {"none", "resolves", "opened", "watches", "aborting", "closes", "answered"}
    /\ registered \in BOOLEAN /\ flag \in BOOLEAN /\ deep \in BOOLEAN /\ resume \in BOOLEAN
    /\ known \in BOOLEAN /\ sawRunning \in BOOLEAN /\ sawReply \in BOOLEAN
    /\ out \in {"none", "done", "cancelled", "timeout", "error"} /\ sure \in BOOLEAN
WireType == reqs \in Seq({"initialize", "create", "send", "abort"}) /\ frames \in Seq(Shots)
HostType ==
    /\ alive \in BOOLEAN /\ response \in {"none", "created", "refused", "aborted"}
    /\ taken \in Seq(Shots) /\ patch \in BOOLEAN
    /\ exists \in BOOLEAN /\ run \in {"no", "mine", "other"} /\ reply \in BOOLEAN
    /\ task \in {"none", "queued", "running", "stopping", "over", "failed", "cut", "dropped"}
    /\ busy \in BOOLEAN /\ crossed \in BOOLEAN

\* Types of all variables (delegate.rs:112-150, 202-270).
TypeOK == CallerType /\ GatewayType /\ WireType /\ HostType

E == INSTANCE Errand WITH
        task <- IF task \in {"none", "queued", "dropped"} THEN "none"
                ELSE IF task \in {"running", "stopping"} THEN task ELSE "over",
        answer <- IF out = "none" \/ (out \in {"done", "cancelled"} /\ sure) THEN out
                  ELSE "unknown"

\* The delegation keeps the promises of an errand: the task runs once, "done" is
\* said after it ran or was told to stop, and after an acknowledged cancel it never
\* begins: if it had begun, it has been told to stop, and may be winding down.  No
\* promise where another turn of the thread was there before the task or where
\* snapshots overtook one another (delegate.rs:14-25, 300-330).
IsErrand == E!Spec

\* Who asks is answered by the gateway, whatever the target does
\* (delegate.rs:42, relay.rs:913-918).
AskedIsAnswered == bus = "waits" ~> bus # "waits"
=============================================================================
