---------------------------- MODULE ModelStream ----------------------------
(***************************************************************************)
(* One request to the language model.  NetworkModelClient::stream spawns a *)
(* task that sends the HTTP request, retries it with a backoff, reads the  *)
(* answer chunk by chunk, cuts it into lines and puts what they say into a *)
(* bounded channel; the turn takes the deltas out.  The three protocols    *)
(* have the same loop and differ in the names of their lines.              *)
(*                                                                         *)
(* The task listens for an abort at three of its awaits, on a watch        *)
(* channel whose sender is dropped as soon as the task is spawned: what it *)
(* can hear is what the token said then.                                   *)
(*                                                                         *)
(* A line is text, a whole tool call, or what ends an answer; a chunk with *)
(* several lines is several chunks here.  Left out: thinking, which goes   *)
(* the way of text; usage; lines that say nothing; a character cut between *)
(* two chunks, which the decoding replaces; the filter for think tags,     *)
(* which holds some characters back for a moment.                          *)
(***************************************************************************)
EXTENDS Integers, Sequences, FiniteSets, SequencesExt

CONSTANTS
    Capacity,   \* deltas the channel holds
    MaxRetries, \* ModelChatOptions.max_retries
    MaxLines    \* bound: lines of text and calls in an answer

ASSUME CapacityAssumption == Capacity \in Nat \ {0}
ASSUME RetriesAssumption == MaxRetries \in Nat
ASSUME LinesAssumption == MaxLines \in Nat

VARIABLES
    \* the turn that asks
    cancelled, \* its token
    turn,      \* reads, done, failed, aborted (was told so), cut (saw the token)
    got,       \* what it took out of the channel, without the verdict
    verdict,   \* stream_stop_reason: none, Done, Aborted
    \* the task of the stream
    abort,     \* what it sees of the token
    task,      \* sends, explains, backsOff, reads, emits, over
    attempt,
    saw,       \* saw_terminator
    calls,     \* active_tool_calls
    todo,      \* deltas it has to send
    then,      \* where it goes afterwards: reads, over
    chan,
    \* the provider
    up,        \* asked, refuses, refused, rejects, rejected, streams, closed, broken
    wire,      \* the chunk on its way: a line, its end, or its beginning
    torn,      \* the line whose beginning is out
    said       \* history: the lines that are out

asker == <<cancelled, turn, got, verdict>>
output == <<todo, then>>
parser == <<saw, calls>>
provider == <<up, wire, torn, said>>
vars == <<asker, abort, task, attempt, parser, output, chan, provider>>

\* finish: a reason to stop.  stop: [DONE] and the like.  failed: response.failed,
\* which only one of the protocols has.
Kinds == {"text", "call", "finish", "stop", "failed"}
Lines == [kind : Kinds, n : 1..MaxLines + 2]
Beginning == [kind |-> "beginning", n |-> 0]  \* a chunk without the end of a line
NoLine == [kind |-> "none", n |-> 0]
Verdict(v) == [kind |-> v, n |-> 0]
Verdicts == {Verdict(v) : v \in {"Done", "Aborted", "Error"}}
Has(kinds) == \E i \in DOMAIN said : said[i].kind \in kinds

\* stream_model_chat has spawned the task; the token may be set already.
Init ==
    /\ cancelled \in BOOLEAN /\ abort = cancelled
    /\ turn = "reads" /\ got = <<>> /\ verdict = "none"
    /\ task = "sends" /\ attempt = 1 /\ saw = FALSE /\ calls = {}
    /\ todo = <<>> /\ then = "reads" /\ chan = <<>>
    /\ up = "asked" /\ wire = <<>> /\ torn = NoLine /\ said = <<>>

-----------------------------------------------------------------------------
(* The provider                                                             *)

\* A stream, a status worth a retry, any other status, or no answer at all.
Answer ==
    /\ up = "asked" /\ up' \in {"streams", "refuses", "rejects", "broken"}
    /\ UNCHANGED <<asker, abort, task, attempt, parser, output, chan, wire, torn, said>>

\* The body of an error is there, or what there is of it.
Explain ==
    /\ up \in {"refuses", "rejects"}
    /\ up' = IF up = "refuses" THEN "refused" ELSE "rejected"
    /\ UNCHANGED <<asker, abort, task, attempt, parser, output, chan, wire, torn, said>>

\* Nothing follows what ends the answer but its last line.
MaySay(kind) ==
    /\ ~Has({"stop", "failed"})
    /\ Has({"finish"}) => kind = "stop"
    /\ kind \in {"text", "call"} => Len(said) < MaxLines

Say(chunk, line) == wire' = <<chunk>> /\ said' = Append(said, line)

\* The task has the headers: what was written before them comes after them too.
Streaming == up = "streams" /\ task # "sends"

\* A chunk carries a line, or begins one, or ends the one begun.
Chunk ==
    /\ Streaming /\ wire = <<>>
    /\ \/ /\ torn # NoLine /\ torn' = NoLine /\ Say(torn, torn)
       \/ /\ torn = NoLine
          /\ \E kind \in Kinds :
               LET line == [kind |-> kind, n |-> Len(said) + 1] IN
               /\ MaySay(kind)
               /\ \/ Say(line, line) /\ UNCHANGED torn
                  \/ torn' = line /\ wire' = <<Beginning>> /\ UNCHANGED said
    /\ UNCHANGED <<asker, abort, task, attempt, parser, output, chan, up>>

Close ==
    /\ Streaming /\ up' \in {"closed", "broken"}
    /\ UNCHANGED <<asker, abort, task, attempt, parser, output, chan, wire, torn, said>>

-----------------------------------------------------------------------------
(* The task                                                                 *)

\* It sends deltas, and then goes on.
Emits(deltas, next) == task' = "emits" /\ todo' = deltas /\ then' = next
Bails == Emits(<<Verdict("Error")>>, "over")

\* The select of three awaits has a branch for the abort.
HearAbort ==
    /\ task \in {"sends", "backsOff", "reads"} /\ abort
    /\ Emits(<<Verdict("Aborted")>>, "over")
    /\ UNCHANGED <<asker, abort, attempt, parser, chan, provider>>

RetriesForEver == TRUE  \* mutant: the attempts are not counted

MayRetry == attempt <= MaxRetries

RetryOrBail ==
    IF MayRetry THEN task' = "backsOff" /\ UNCHANGED output ELSE Bails

\* request.send() returns.
Sent ==
    /\ task = "sends" /\ up # "asked"
    /\ \/ up = "streams" /\ task' = "reads" /\ UNCHANGED output
       \/ up = "broken" /\ RetryOrBail
       \/ up \notin {"streams", "broken"} /\ task' = "explains" /\ UNCHANGED output
    /\ UNCHANGED <<asker, abort, attempt, parser, chan, provider>>

\* The body of the error has been read: retry, or not.
Explained ==
    /\ task = "explains"
    /\ \/ up = "refused" /\ RetryOrBail
       \/ up = "rejected" /\ Bails
    /\ UNCHANGED <<asker, abort, attempt, parser, chan, provider>>

Retry ==
    /\ task = "backsOff" /\ task' = "sends" /\ attempt' = attempt + 1 /\ up' = "asked"
    /\ UNCHANGED <<asker, abort, parser, output, chan, wire, torn, said>>

\* The calls leave a hash map in any order; with them go the text held back and
\* the verdict.
Settle ==
    \E order \in SetToSeqs(calls) : Emits(order \o <<Verdict("Done")>>, "over")

\* What a whole line makes the task do.
Parse(line) ==
    \/ line.kind = "text" /\ Emits(<<line>>, "reads") /\ UNCHANGED parser
    \/ line.kind = "call" /\ calls' = calls \cup {line} /\ UNCHANGED <<saw, task, output>>
    \/ line.kind = "finish" /\ saw' = TRUE /\ UNCHANGED <<calls, task, output>>
    \/ line.kind = "stop" /\ saw' = TRUE /\ Settle /\ UNCHANGED calls
    \/ line.kind = "failed" /\ Bails /\ UNCHANGED parser
    \/ line = Beginning /\ UNCHANGED <<parser, task, output>>

Read ==
    /\ task = "reads" /\ wire # <<>> /\ wire' = <<>>
    /\ Parse(Head(wire))
    /\ UNCHANGED <<asker, abort, attempt, chan, up, torn, said>>

EofIsTheEnd == Settle  \* mutant: an answer without an end passes for whole

\* The answer is over: it was whole if its end was seen.
AtEof == IF saw THEN Settle ELSE Bails

Eof ==
    /\ task = "reads" /\ wire = <<>> /\ up \in {"closed", "broken"}
    /\ IF up = "closed" THEN AtEof ELSE Bails
    /\ UNCHANGED <<asker, abort, attempt, parser, chan, provider>>

NeverIdle ==  \* mutant: a stream without a total limit, and without this one
    FALSE /\ UNCHANGED vars

\* No byte for the idle timeout.
IdleTimeout ==
    /\ task = "reads" /\ wire = <<>> /\ up = "streams"
    /\ Bails
    /\ UNCHANGED <<asker, abort, attempt, parser, chan, provider>>

\* tx.send: waits for room, and fails at once when the receiver is gone.
Emit ==
    /\ task = "emits" /\ todo # <<>>
    /\ \/ turn # "reads" /\ UNCHANGED chan
       \/ turn = "reads" /\ Len(chan) < Capacity /\ chan' = Append(chan, Head(todo))
    /\ todo' = Tail(todo)
    /\ task' = IF Len(todo) = 1 THEN then ELSE task
    /\ UNCHANGED <<asker, abort, attempt, parser, then, provider>>

-----------------------------------------------------------------------------
(* The turn                                                                 *)

Cancel ==
    /\ turn = "reads" /\ ~cancelled /\ cancelled' = TRUE
    /\ UNCHANGED <<turn, got, verdict, abort, task, attempt, parser, output, chan, provider>>

\* stream_rx.recv() returns a delta: only then the turn looks at its token.
Recv ==
    /\ turn = "reads" /\ chan # <<>>
    /\ LET delta == Head(chan) IN
       \/ cancelled /\ turn' = "cut" /\ chan' = <<>> /\ UNCHANGED <<got, verdict>>
       \/ /\ ~cancelled /\ delta.kind = "Error"
          /\ turn' = "failed" /\ chan' = <<>> /\ UNCHANGED <<got, verdict>>
       \/ /\ ~cancelled /\ delta.kind \in {"Done", "Aborted"}
          /\ verdict' = delta.kind /\ chan' = Tail(chan) /\ UNCHANGED <<turn, got>>
       \/ /\ ~cancelled /\ delta.kind \notin {"Error", "Done", "Aborted"}
          /\ got' = Append(got, delta) /\ chan' = Tail(chan) /\ UNCHANGED <<turn, verdict>>
    /\ UNCHANGED <<cancelled, abort, task, attempt, parser, output, provider>>

\* recv() returns None. Without a verdict the reason stays "stop".
RecvNone ==
    /\ turn = "reads" /\ chan = <<>> /\ task = "over"
    /\ turn' = IF verdict = "Aborted" \/ cancelled THEN "aborted" ELSE "done"
    /\ UNCHANGED <<cancelled, got, verdict, abort, task, attempt, parser, output, chan,
                   provider>>

-----------------------------------------------------------------------------
Task ==
    \/ HearAbort \/ Sent \/ Explained \/ Retry \/ Read \/ Eof \/ IdleTimeout \/ Emit
Turn == Recv \/ RecvNone
Provider == Answer \/ Explain \/ Chunk \/ Close

Next == Task \/ Turn \/ Provider \/ Cancel

Spec == Init /\ [][Next]_vars

\* The program's own share: tokio polls ready tasks and its timers fire.
CodeFairSpec == Spec /\ WF_vars(Task) /\ WF_vars(Turn)

\* And a provider that takes a request answers it, in one way or another.
FairSpec == CodeFairSpec /\ WF_vars(Answer \/ Explain)

-----------------------------------------------------------------------------
(* Properties                                                               *)

AskerType ==
    /\ cancelled \in BOOLEAN /\ abort \in BOOLEAN
    /\ turn \in {"reads", "done", "failed", "aborted", "cut"}
    /\ got \in Seq(Lines) /\ verdict \in {"none", "Done", "Aborted"}
TaskType ==
    /\ task \in {"sends", "explains", "backsOff", "reads", "emits", "over"}
    /\ attempt \in 1..MaxRetries + 1
    /\ saw \in BOOLEAN /\ calls \subseteq Lines
    /\ todo \in Seq(Lines \cup Verdicts) /\ then \in {"reads", "over"}
    /\ chan \in Seq(Lines \cup Verdicts) /\ Len(chan) <= Capacity
ProviderType ==
    /\ up \in {"asked", "refuses", "rejects", "refused", "rejected", "streams", "closed",
               "broken"}
    /\ wire \in Seq(Lines \cup {Beginning}) /\ Len(wire) <= 1
    /\ torn \in Lines \cup {NoLine} /\ said \in Seq(Lines)

\* Types of all variables; the request is sent MaxRetries times again at most
\* (stream.rs:66-148).
TypeOK == AskerType /\ TaskType /\ ProviderType

The(kind, s) == {s[i] : i \in {j \in DOMAIN s : s[j].kind = kind}}

\* The texts of s stand in the order of their lines; no call is there twice.
TextsInOrder(s) ==
    \A i, j \in DOMAIN s :
        i < j /\ s[i].kind = "text" /\ s[j].kind = "text" => s[i].n < s[j].n
CallsOnce(s) == \A i, j \in DOMAIN s : s[i].kind = "call" /\ s[i] = s[j] => i = j

\* What the turn takes out is the text the provider sent, in its order, nothing
\* left out and nothing twice, whatever was retried before; and it takes an
\* answer for a whole one only if the provider ended it and every text and call
\* of it has arrived (stream.rs:602-611, an incident of the past).
DoneIsWhole ==
    /\ TextsInOrder(got) /\ The("text", got) \subseteq The("text", said)
    /\ \A t \in The("text", got), s \in The("text", said) :
           s.n < t.n => s \in The("text", got)
    /\ turn = "done" =>
         /\ Has({"finish", "stop"})
         /\ The("text", got) = The("text", said)
         /\ The("call", got) = The("call", said) /\ CallsOnce(got)

\* A turn comes to the end of its stream: a refusal, a broken or a silent
\* stream, a full channel or a cancel do not leave it waiting, as long as the
\* provider gives each request some answer (stream.rs:273-285).
TurnGetsVerdict == turn = "reads" ~> turn # "reads"

\* ports/model.rs:44: "once cancel is set, the stream must be ended as soon as
\* possible and returned from".
CancelEndsStream == cancelled ~> turn # "reads"
=============================================================================
