---------------------------- MODULE StreamProofs ----------------------------
(***************************************************************************)
(* What arrives at the end of two streams.                                 *)
(*                                                                         *)
(* ModelStream: types of one model request, and what a turn may believe of *)
(* its answer, for every capacity of the channel, number of retries and    *)
(* length of the answer.  The invariant follows the lines of the answer    *)
(* from the wire through the task's deltas and the channel to the turn:    *)
(* the texts keep their order and none is missing as long as the turn      *)
(* reads, the calls wait in the task and are sent once, and a Done is sent *)
(* only when the end was seen and nothing can follow it.                   *)
(*                                                                         *)
(* Broadcast: a page that has nothing more to come shows the store, for    *)
(* every number of handlers, cards and changes.  The invariant says of     *)
(* broadcasts that keep to the order of their numbers that the newest      *)
(* state is on its way or has come, and that whatever is old in a frame or *)
(* on the page is corrected by a patch on its way or by the next one.      *)
(***************************************************************************)
EXTENDS ModelStream, Broadcast, FiniteSetTheorems, TLAPS

(***************************************************************************)
(* ModelStream                                                             *)
(***************************************************************************)

\* The texts of s all precede those of t.
Before(s, t) == \A a \in The("text", s), b \in The("text", t) : a.n < b.n

\* A line's number is its place in the answer; a line whose beginning is out may
\* still end; what is on the wire is the newest line, or a beginning.
Numbered ==
    /\ \A i \in DOMAIN said : said[i].n = i
    /\ torn # NoLine => torn.n = Len(said) + 1 /\ MaySay(torn.kind)
    /\ \A i \in DOMAIN wire :
          wire[i] = Beginning \/ (said # <<>> /\ wire[i] = said[Len(said)])

\* An answer has at most MaxLines lines of text and calls, and two that end it.
Fits ==
    /\ Len(said) <= MaxLines + 2
    /\ ~Has({"stop", "failed"}) => Len(said) <= MaxLines + 1
    /\ ~Has({"finish", "stop", "failed"}) => Len(said) <= MaxLines

\* As long as a request may be sent again, nothing has been said or taken.
Connecting ==
    /\ task \in {"sends", "explains", "backsOff"} =>
         /\ said = <<>> /\ wire = <<>> /\ torn = NoLine
         /\ calls = {} /\ ~saw /\ todo = <<>> /\ chan = <<>> /\ got = <<>> /\ verdict = "none"
    /\ task \in {"explains", "backsOff"} => up \notin {"asked", "streams"}
    /\ task = "backsOff" => attempt <= MaxRetries

\* The deltas the task still has to send; the last before it is over is a verdict.
Sending ==
    /\ task \in {"reads", "over"} => todo = <<>>
    /\ task = "emits" => todo # <<>>
    /\ task = "emits" /\ then = "over" => todo[Len(todo)] \in Verdicts
    /\ task = "over" /\ turn = "reads" =>
         verdict # "none" \/ \E i \in DOMAIN chan : chan[i] \in Verdicts

\* Only one verdict is sent, and nothing after it.
VerdictLast ==
    /\ verdict # "none" => task = "over" /\ chan = <<>>
    /\ \A i \in DOMAIN chan : chan[i] \in Verdicts => i = Len(chan) /\ task = "over"
    /\ \A i \in DOMAIN todo : todo[i] \in Verdicts => i = Len(todo) /\ then = "over"

\* Between the provider and the turn the texts keep their order, and as long as
\* the turn reads none is missing.
Ordered ==
    /\ TextsInOrder(got) /\ TextsInOrder(chan) /\ TextsInOrder(todo)
    /\ Before(got, chan) /\ Before(got, todo) /\ Before(got, wire)
    /\ Before(chan, todo) /\ Before(chan, wire) /\ Before(todo, wire)
OnTheWay == The("text", chan) \cup The("text", todo) \cup The("text", wire)
Carried ==
    /\ The("text", got) \cup OnTheWay \subseteq The("text", said)
    /\ turn = "reads" => The("text", said) \subseteq The("text", got) \cup OnTheWay
    /\ \A t \in The("text", got), s \in The("text", said) :
          s.n < t.n => s \in The("text", got)

\* The task has sent Done, or is about to: it saw the end of the answer, and
\* nothing can follow it.
DoneIn(s) == \E i \in DOMAIN s : s[i] = Verdict("Done")
DoneSent == verdict = "Done" \/ DoneIn(chan) \/ DoneIn(todo)
Settled ==
    /\ saw => Has({"finish", "stop"})
    /\ DoneSent =>
         /\ saw /\ wire = <<>> /\ (Has({"stop"}) \/ up = "closed")
         /\ task = "over" \/ (task = "emits" /\ then = "over")
    /\ turn = "done" => verdict = "Done"

\* The calls wait in the task until the answer is over; then each is sent once.
CallsKept ==
    /\ IsFiniteSet(calls) /\ The("call", said) = calls \cup The("call", wire)
    /\ turn = "reads" =>
         /\ CallsOnce(got) /\ CallsOnce(chan) /\ CallsOnce(todo)
         /\ The("call", got) \cap The("call", chan) = {}
         /\ The("call", got) \cap The("call", todo) = {}
         /\ The("call", chan) \cap The("call", todo) = {}
         /\ The("call", got) \cup The("call", chan) \cup The("call", todo)
              = (IF DoneSent THEN calls ELSE {})

Ind == /\ TypeOK /\ Numbered /\ Fits /\ Connecting /\ Sending /\ VerdictLast
       /\ Ordered /\ Carried /\ Settled /\ CallsKept /\ DoneIsWhole

-----------------------------------------------------------------------------
(* Sequences of deltas                                                      *)

\* What it is to be among the lines of a kind.
LEMMA TheElement ==
    ASSUME NEW kind, NEW s, NEW x
    PROVE  x \in The(kind, s) <=> \E i \in DOMAIN s : s[i] = x /\ x.kind = kind
BY DEF The

\* Nothing is among the elements of the empty sequence.
LEMMA TheEmpty ==
    /\ \A kind : The(kind, <<>>) = {}
    /\ TextsInOrder(<<>>) /\ CallsOnce(<<>>) /\ ~DoneIn(<<>>)
BY DEF The, TextsInOrder, CallsOnce, DoneIn

\* A sequence of one element.
LEMMA TheSingle ==
    ASSUME NEW x
    PROVE  /\ \A kind : The(kind, <<x>>) = IF x.kind = kind THEN {x} ELSE {}
           /\ TextsInOrder(<<x>>) /\ CallsOnce(<<x>>)
           /\ DoneIn(<<x>>) <=> x = Verdict("Done")
<1> DEFINE s == <<x>>
<1>1. DOMAIN s = {1} /\ s[1] = x
  OBVIOUS
<1> HIDE DEF s
<1>2. \A kind : The(kind, s) = IF x.kind = kind THEN {x} ELSE {}
  BY <1>1 DEF The
<1>3. TextsInOrder(s) /\ CallsOnce(s) /\ (DoneIn(s) <=> x = Verdict("Done"))
  BY <1>1 DEF TextsInOrder, CallsOnce, DoneIn
<1>4. QED
  BY <1>2, <1>3 DEF s

\* Appending a delta adds it to the lines of its kind, and keeps the order if it
\* is newer than the texts before it.
LEMMA TheAppend ==
    ASSUME NEW S, NEW s \in Seq(S), NEW x \in S
    PROVE  /\ \A kind : The(kind, Append(s, x)) =
                           The(kind, s) \cup (IF x.kind = kind THEN {x} ELSE {})
           /\ TextsInOrder(s) /\ (x.kind = "text" => \A a \in The("text", s) : a.n < x.n)
                => TextsInOrder(Append(s, x))
           /\ CallsOnce(s) /\ (x.kind = "call" => x \notin The("call", s))
                => CallsOnce(Append(s, x))
           /\ DoneIn(Append(s, x)) <=> DoneIn(s) \/ x = Verdict("Done")
<1> DEFINE r == Append(s, x)
<1>1. /\ DOMAIN s = 1..Len(s) /\ Len(s) \in Nat /\ DOMAIN r = 1..(Len(s) + 1)
      /\ \A i \in DOMAIN s : r[i] = s[i]
      /\ r[Len(s) + 1] = x
  OBVIOUS
<1> HIDE DEF r
<1>2. \A i \in DOMAIN r : (i \in DOMAIN s /\ r[i] = s[i]) \/ (i = Len(s) + 1 /\ r[i] = x)
  BY <1>1
<1>3. DOMAIN s \subseteq DOMAIN r /\ Len(s) + 1 \in DOMAIN r
  BY <1>1
<1>4. ASSUME NEW kind PROVE The(kind, r) = The(kind, s) \cup (IF x.kind = kind THEN {x} ELSE {})
  <2>1. ASSUME NEW y
        PROVE  y \in The(kind, r) <=> y \in The(kind, s) \/ (x.kind = kind /\ y = x)
    BY <1>1, <1>2, <1>3, TheElement
  <2>2. QED
    BY <2>1
<1>5. ASSUME TextsInOrder(s), x.kind = "text" => \A a \in The("text", s) : a.n < x.n
      PROVE  TextsInOrder(r)
  <2> SUFFICES ASSUME NEW i \in DOMAIN r, NEW j \in DOMAIN r, i < j,
                      r[i].kind = "text", r[j].kind = "text"
               PROVE  r[i].n < r[j].n
    BY DEF TextsInOrder
  <2>1. i \in DOMAIN s /\ r[i] = s[i]
    BY <1>1
  <2>2. CASE j \in DOMAIN s
    BY <1>1, <1>5, <2>1, <2>2 DEF TextsInOrder
  <2>3. CASE j = Len(s) + 1
    <3>1. s[i] \in The("text", s)
      BY <2>1, TheElement
    <3>2. QED
      BY <1>1, <1>5, <2>1, <2>3, <3>1
  <2>4. QED
    BY <1>2, <2>2, <2>3
<1>6. ASSUME CallsOnce(s), x.kind = "call" => x \notin The("call", s)
      PROVE  CallsOnce(r)
  <2> SUFFICES ASSUME NEW i \in DOMAIN r, NEW j \in DOMAIN r, r[i].kind = "call", r[i] = r[j]
               PROVE  i = j
    BY DEF CallsOnce
  <2>1. CASE i \in DOMAIN s /\ j \in DOMAIN s
    BY <1>1, <1>6, <2>1 DEF CallsOnce
  <2>2. CASE i = Len(s) + 1 /\ j = Len(s) + 1
    BY <2>2
  <2>3. ASSUME NEW k \in DOMAIN s, s[k] = x, x.kind = "call" PROVE FALSE
    BY <1>6, <2>3, TheElement
  <2>4. QED
    BY <1>1, <1>2, <2>1, <2>2, <2>3
<1>7. DoneIn(r) <=> DoneIn(s) \/ x = Verdict("Done")
  BY <1>1, <1>2, <1>3 DEF DoneIn
<1>8. QED
  BY <1>4, <1>5, <1>6, <1>7 DEF r

\* Taking the first delta away: it is older than the texts that stay, and a call
\* is not among them again.
LEMMA TheTail ==
    ASSUME NEW S, NEW s \in Seq(S), s # <<>>
    PROVE  /\ \A kind : The(kind, s) =
                  The(kind, Tail(s)) \cup (IF Head(s).kind = kind THEN {Head(s)} ELSE {})
           /\ TextsInOrder(s) => /\ TextsInOrder(Tail(s))
                                 /\ Head(s).kind = "text" =>
                                      \A b \in The("text", Tail(s)) : Head(s).n < b.n
           /\ CallsOnce(s) => /\ CallsOnce(Tail(s))
                              /\ Head(s).kind = "call" => Head(s) \notin The("call", Tail(s))
           /\ DoneIn(s) <=> DoneIn(Tail(s)) \/ Head(s) = Verdict("Done")
<1> DEFINE r == Tail(s)
           x == Head(s)
<1>1. /\ DOMAIN s = 1..Len(s) /\ Len(s) \in Nat \ {0}
      /\ r \in Seq(S) /\ Len(r) = Len(s) - 1
      /\ x = s[1] /\ \A i \in 1..Len(s) - 1 : r[i] = s[i + 1]
  OBVIOUS
<1>2. DOMAIN r = 1..Len(s) - 1
  BY <1>1
<1> HIDE DEF r, x
<1>3. \A i \in DOMAIN s : i = 1 \/ (i - 1 \in DOMAIN r /\ s[i] = r[i - 1])
  BY <1>1, <1>2
<1>4. \A i \in DOMAIN r : i + 1 \in DOMAIN s /\ i + 1 # 1 /\ r[i] = s[i + 1]
  BY <1>1, <1>2
<1>5. ASSUME NEW kind PROVE The(kind, s) = The(kind, r) \cup (IF x.kind = kind THEN {x} ELSE {})
  <2>1. ASSUME NEW y
        PROVE  y \in The(kind, s) <=> y \in The(kind, r) \/ (x.kind = kind /\ y = x)
    <3>1. y \in The(kind, s) => y \in The(kind, r) \/ (x.kind = kind /\ y = x)
      BY <1>1, <1>3, TheElement
    <3>2. y \in The(kind, r) => y \in The(kind, s)
      BY <1>4, TheElement
    <3>3. x.kind = kind /\ y = x => y \in The(kind, s)
      <4>1. 1 \in DOMAIN s
        BY <1>1
      <4>2. QED
        BY <1>1, <4>1, TheElement
    <3>4. QED
      BY <3>1, <3>2, <3>3
  <2>2. QED
    BY <2>1
<1>6. ASSUME TextsInOrder(s)
      PROVE  TextsInOrder(r) /\ (x.kind = "text" => \A b \in The("text", r) : x.n < b.n)
  <2>1. TextsInOrder(r)
    <3> SUFFICES ASSUME NEW i \in DOMAIN r, NEW j \in DOMAIN r, i < j,
                        r[i].kind = "text", r[j].kind = "text"
                 PROVE  r[i].n < r[j].n
      BY DEF TextsInOrder
    <3>1. i + 1 < j + 1 /\ i + 1 \in DOMAIN s /\ j + 1 \in DOMAIN s
      BY <1>2, <1>4
    <3>2. QED
      BY <1>4, <1>6, <3>1 DEF TextsInOrder
  <2>2. ASSUME x.kind = "text", NEW b \in The("text", r) PROVE x.n < b.n
    <3>1. PICK i \in DOMAIN r : r[i] = b /\ b.kind = "text"
      BY <2>2, TheElement
    <3>2. 1 < i + 1 /\ 1 \in DOMAIN s /\ i + 1 \in DOMAIN s /\ s[i + 1] = b
      BY <1>1, <1>2, <1>4, <3>1
    <3>3. QED
      BY <1>1, <1>6, <2>2, <3>1, <3>2 DEF TextsInOrder
  <2>3. QED
    BY <2>1, <2>2
<1>7. ASSUME CallsOnce(s)
      PROVE  CallsOnce(r) /\ (x.kind = "call" => x \notin The("call", r))
  <2>1. CallsOnce(r)
    <3> SUFFICES ASSUME NEW i \in DOMAIN r, NEW j \in DOMAIN r, r[i].kind = "call", r[i] = r[j]
                 PROVE  i = j
      BY DEF CallsOnce
    <3>1. i + 1 = j + 1
      BY <1>4, <1>7 DEF CallsOnce
    <3>2. QED
      BY <1>2, <3>1
  <2>2. ASSUME x.kind = "call", x \in The("call", r) PROVE FALSE
    <3>1. PICK i \in DOMAIN r : r[i] = x
      BY <2>2, TheElement
    <3>2. i + 1 \in DOMAIN s /\ i + 1 # 1 /\ s[i + 1] = x /\ 1 \in DOMAIN s /\ s[1] = x
      BY <1>1, <1>4, <3>1
    <3>3. QED
      BY <1>7, <2>2, <3>2 DEF CallsOnce
  <2>3. QED
    BY <2>1, <2>2
<1>8. DoneIn(s) <=> DoneIn(r) \/ x = Verdict("Done")
  <2>1. 1 \in DOMAIN s /\ s[1] = x
    BY <1>1
  <2>2. DoneIn(s) => DoneIn(r) \/ x = Verdict("Done")
    BY <1>1, <1>3 DEF DoneIn
  <2>3. DoneIn(r) => DoneIn(s)
    BY <1>4 DEF DoneIn
  <2>4. QED
    BY <2>1, <2>2, <2>3 DEF DoneIn
<1>9. QED
  BY <1>5, <1>6, <1>7, <1>8 DEF r, x

\* The calls of a finite set leave in some order: each once, none forgotten.
LEMMA OrderShape ==
    ASSUME NEW S, IsFiniteSet(S), NEW order \in SetToSeqs(S)
    PROVE  /\ order \in Seq(S)
           /\ \A i, j \in DOMAIN order : order[i] = order[j] => i = j
           /\ \A x \in S : \E i \in DOMAIN order : order[i] = x
<1> DEFINE D == 1..Cardinality(S)
<1>1. Cardinality(S) \in Nat
  BY FS_CardinalityType
<1>2. order \in [D -> S] /\ \A i, j \in D : i # j => order[i] # order[j]
  BY DEF SetToSeqs
<1>3. order \in Seq(S) /\ DOMAIN order = D
  BY <1>1, <1>2
<1>4. order \in Injection(D, S)
  BY <1>2 DEF Injection, IsInjective
<1>5. IsFiniteSet(D) /\ Cardinality(D) = Cardinality(S)
  <2>1. IsFiniteSet(1..Cardinality(S)) /\ Cardinality(1..Cardinality(S)) = Cardinality(S) - 1 + 1
    BY <1>1, FS_Interval
  <2>2. QED
    BY <1>1, <2>1
<1>6. order \in Surjection(D, S)
  BY <1>4, <1>5, FS_Injection
<1>7. \A x \in S : \E i \in D : order[i] = x
  BY <1>6 DEF Surjection
<1>8. QED
  BY <1>2, <1>3, <1>7

\* What goes into the channel when the answer is over: the calls, and Done.
LEMMA SettleShape ==
    ASSUME NEW S, IsFiniteSet(S), \A x \in S : x.kind = "call", NEW order \in SetToSeqs(S)
    PROVE  LET s == order \o <<Verdict("Done")>> IN
           /\ s \in Seq(S \cup Verdicts) /\ s # <<>> /\ s[Len(s)] = Verdict("Done")
           /\ The("text", s) = {} /\ The("call", s) = S
           /\ TextsInOrder(s) /\ CallsOnce(s) /\ DoneIn(s)
<1> DEFINE T == S \cup Verdicts
           v == Verdict("Done")
           s == order \o <<v>>
<1>1. /\ order \in Seq(S)
      /\ \A i, j \in DOMAIN order : order[i] = order[j] => i = j
      /\ \A x \in S : \E i \in DOMAIN order : order[i] = x
  BY OrderShape
<1>2. v \in T /\ v.kind = "Done"
  BY DEF Verdict, Verdicts
<1> HIDE DEF v
<1>3. order \in Seq(T) /\ \A i \in DOMAIN order : order[i] \in S
  BY <1>1
<1>4. s = Append(order, v)
  BY <1>2, <1>3
<1>5. s \in Seq(T) /\ s # <<>> /\ s[Len(s)] = v
  BY <1>2, <1>3, <1>4
<1>6. The("text", order) = {} /\ The("call", order) = S
  <2>1. ASSUME NEW x PROVE x \notin The("text", order)
    BY <1>3, TheElement
  <2>2. ASSUME NEW x PROVE x \in The("call", order) <=> x \in S
    BY <1>1, <1>3, TheElement
  <2>3. QED
    BY <2>1, <2>2
<1>7. TextsInOrder(order) /\ CallsOnce(order)
  BY <1>1, <1>3 DEF TextsInOrder, CallsOnce
<1> HIDE DEF T, s
<1>8. The("text", s) = {} /\ The("call", s) = S
  <2>1. \A kind : The(kind, s) = The(kind, order) \cup (IF v.kind = kind THEN {v} ELSE {})
    BY <1>2, <1>3, <1>4, TheAppend
  <2>2. The("text", s) = The("text", order) /\ The("call", s) = The("call", order)
    BY <1>2, <2>1
  <2>3. QED
    BY <1>6, <2>2
<1>9. TextsInOrder(s) /\ CallsOnce(s)
  BY <1>2, <1>3, <1>4, <1>6, <1>7, TheAppend
<1>10. DoneIn(s)
  BY <1>2, <1>3, <1>4, TheAppend DEF v
<1>11. QED
  BY <1>5, <1>8, <1>9, <1>10 DEF s, T, v

-----------------------------------------------------------------------------
(* Types                                                                    *)

\* A verdict, the beginning of a line and no line are no lines.
LEMMA KindFacts ==
    /\ Verdict("Done") \in Verdicts /\ Verdict("Aborted") \in Verdicts
    /\ Verdict("Error") \in Verdicts
    /\ \A v \in Verdicts : v.kind \in {"Done", "Aborted", "Error"} /\ v.n = 0
    /\ \A v \in Verdicts : v = Verdict("Done") <=> v.kind = "Done"
    /\ \A x \in Lines : x.kind \in Kinds /\ x.n \in 1..MaxLines + 2
    /\ Beginning.kind = "beginning" /\ Beginning \notin Lines
    /\ NoLine \notin Lines /\ NoLine.kind = "none"
    /\ Verdict("Done") \notin Lines
<1>1. \A x \in Lines : x.kind \in Kinds /\ x.n \in 1..MaxLines + 2
  BY DEF Lines
<1>2. Beginning.kind \notin Kinds /\ NoLine.kind \notin Kinds /\ Verdict("Done").kind \notin Kinds
  BY DEF Beginning, NoLine, Verdict, Kinds
<1>3. QED
  BY <1>1, <1>2 DEF Verdict, Verdicts, Beginning, NoLine

\* The one chunk on the wire, the deltas to send, those in the channel.
LEMMA HeadFacts ==
    ASSUME TypeOK
    PROVE  /\ wire # <<>> => Head(wire) \in Lines \cup {Beginning} /\ Head(wire) = wire[1]
                             /\ DOMAIN wire = {1} /\ wire = <<Head(wire)>>
           /\ todo # <<>> => Head(todo) \in Lines \cup Verdicts
                             /\ Tail(todo) \in Seq(Lines \cup Verdicts)
           /\ chan # <<>> => Head(chan) \in Lines \cup Verdicts
                             /\ Tail(chan) \in Seq(Lines \cup Verdicts)
                             /\ Len(Tail(chan)) <= Capacity
<1>1. wire \in Seq(Lines \cup {Beginning}) /\ Len(wire) <= 1
  BY DEF TypeOK, ProviderType
<1>2. ASSUME wire # <<>>
      PROVE  Head(wire) \in Lines \cup {Beginning} /\ Head(wire) = wire[1] /\ DOMAIN wire = {1}
             /\ wire = <<Head(wire)>>
  <2>1. Len(wire) \in Nat /\ Len(wire) # 0
    BY <1>1, <1>2
  <2>2. Len(wire) = 1
    <3> DEFINE n == Len(wire)
    <3>1. n \in Nat /\ n # 0 /\ n <= 1
      BY <1>1, <2>1
    <3> HIDE DEF n
    <3>2. n = 1
      BY <3>1
    <3>3. QED
      BY <3>2 DEF n
  <2>3. QED
    BY <1>1, <2>2
<1>3. todo \in Seq(Lines \cup Verdicts) /\ chan \in Seq(Lines \cup Verdicts)
      /\ Len(chan) <= Capacity /\ Capacity \in Nat
  BY CapacityAssumption DEF CapacityAssumption, TypeOK, TaskType
<1>4. QED
  BY <1>2, <1>3

\* The step that ends an answer sends calls and a verdict.
LEMMA SettleTypes ==
    ASSUME TypeOK, CallsKept, Settle
    PROVE  /\ todo' \in Seq(calls \cup Verdicts) /\ todo' # <<>>
           /\ todo'[Len(todo')] = Verdict("Done")
           /\ The("text", todo') = {} /\ The("call", todo') = calls
           /\ TextsInOrder(todo') /\ CallsOnce(todo') /\ DoneIn(todo')
           /\ task' = "emits" /\ then' = "over"
<1>1. IsFiniteSet(calls) /\ \A x \in calls : x.kind = "call"
  BY TheElement DEF CallsKept
<1>2. PICK order \in SetToSeqs(calls) :
          todo' = order \o <<Verdict("Done")>> /\ task' = "emits" /\ then' = "over"
  BY DEF Settle, Emits
<1>3. QED
  BY <1>1, <1>2, SettleShape

\* Every step keeps the types.
LEMMA TypeStep ==
    ASSUME Ind, [Next]_vars
    PROVE  TypeOK'
<1> USE DEF Ind
<1>1. AskerType'
  <2>1. CASE Recv
    <3>1. ~cancelled /\ Head(chan).kind \notin {"Error", "Done", "Aborted"} => Head(chan) \in Lines
      BY <2>1, HeadFacts, KindFacts DEF Recv
    <3>2. got' \in Seq(Lines)
      BY <2>1, <3>1 DEF Recv, TypeOK, AskerType
    <3>3. QED
      BY <2>1, <3>2 DEF Recv, TypeOK, AskerType
  <2>2. CASE RecvNone
    BY <2>2 DEF RecvNone, TypeOK, AskerType
  <2>3. CASE Cancel
    BY <2>3 DEF Cancel, TypeOK, AskerType
  <2>4. CASE UNCHANGED <<asker, abort>>
    BY <2>4 DEF asker, TypeOK, AskerType
  <2>5. QED
    BY <2>1, <2>2, <2>3, <2>4 DEF Next, Task, Turn, Provider, HearAbort, Sent, Explained, Retry,
       Read, Eof, IdleTimeout, Emit, Answer, Explain, Chunk, Close, vars
<1>2. TaskType'
  <2>0. /\ <<Verdict("Error")>> \in Seq(Lines \cup Verdicts)
        /\ <<Verdict("Aborted")>> \in Seq(Lines \cup Verdicts)
    BY KindFacts
  <2>s. ASSUME Settle PROVE /\ todo' \in Seq(Lines \cup Verdicts) /\ then' = "over"
                            /\ task' = "emits"
    <3>1. todo' \in Seq(calls \cup Verdicts) /\ calls \subseteq Lines
      BY <2>s, SettleTypes DEF TypeOK, TaskType
    <3>2. QED
      BY <2>s, <3>1, SettleTypes
  <2>1. CASE HearAbort
    BY <2>1, <2>0 DEF HearAbort, Emits, parser, TypeOK, TaskType
  <2>2. CASE Sent
    BY <2>2, <2>0 DEF Sent, RetryOrBail, Bails, Emits, parser, output, TypeOK, TaskType
  <2>3. CASE Explained
    BY <2>3, <2>0 DEF Explained, RetryOrBail, Bails, Emits, parser, output, TypeOK, TaskType
  <2>4. CASE Retry
    BY <2>4, RetriesAssumption DEF RetriesAssumption, Retry, Connecting, parser, output, TypeOK, TaskType
  <2>5. CASE Read
    <3>1. /\ attempt' = attempt /\ chan' = chan /\ Parse(Head(wire))
          /\ Head(wire) \in Lines \cup {Beginning}
      BY <2>5, HeadFacts DEF Read
    <3>2. CASE Head(wire).kind \in {"text", "call"}
      <4>1. Head(wire) \in Lines
        BY <3>1, <3>2, KindFacts
      <4>2. <<Head(wire)>> \in Seq(Lines \cup Verdicts)
        BY <4>1
      <4>3. CASE Head(wire).kind = "text"
        <5>1. todo' = <<Head(wire)>> /\ task' = "emits" /\ then' = "reads" /\ UNCHANGED parser
          BY <3>1, <4>3, KindFacts DEF Parse, Emits
        <5>2. QED
          BY <3>1, <4>2, <5>1 DEF parser, TypeOK, TaskType
      <4>4. CASE Head(wire).kind = "call"
        <5>1. calls' = calls \cup {Head(wire)} /\ UNCHANGED <<saw, task, output>>
          BY <3>1, <4>4, KindFacts DEF Parse
        <5>2. QED
          BY <3>1, <4>1, <5>1 DEF output, TypeOK, TaskType
      <4>5. QED
        BY <3>2, <4>3, <4>4
    <3>3. CASE Head(wire).kind = "stop"
      BY <3>1, <3>3, <2>s, KindFacts DEF Parse, TypeOK, TaskType
    <3>4. CASE Head(wire).kind \notin {"text", "call", "stop"}
      BY <2>0, <3>1, <3>4 DEF Parse, Bails, Emits, parser, output, TypeOK, TaskType
    <3>5. QED
      BY <3>2, <3>3, <3>4
  <2>6. CASE Eof
    BY <2>6, <2>0, <2>s DEF Eof, AtEof, Bails, Emits, parser, output, TypeOK, TaskType
  <2>7. CASE IdleTimeout
    BY <2>7, <2>0 DEF IdleTimeout, Bails, Emits, parser, TypeOK, TaskType
  <2>8. CASE Emit
    <3>1. Head(todo) \in Lines \cup Verdicts /\ Tail(todo) \in Seq(Lines \cup Verdicts)
      BY <2>8, HeadFacts DEF Emit
    <3>2. chan' \in Seq(Lines \cup Verdicts) /\ Len(chan') <= Capacity
      <4>1. chan \in Seq(Lines \cup Verdicts) /\ Len(chan) <= Capacity
        BY DEF TypeOK, TaskType
      <4>2. chan' = chan \/ (Len(chan) < Capacity /\ chan' = Append(chan, Head(todo)))
        BY <2>8 DEF Emit
      <4>3. CASE chan' = chan
        BY <4>1, <4>3
      <4>4. CASE Len(chan) < Capacity /\ chan' = Append(chan, Head(todo))
        <5>1. chan' \in Seq(Lines \cup Verdicts) /\ Len(chan') = Len(chan) + 1
          BY <3>1, <4>1, <4>4
        <5>2. QED
          BY <4>1, <4>4, <5>1, CapacityAssumption DEF CapacityAssumption
      <4>5. QED
        BY <4>2, <4>3, <4>4
    <3>3. QED
      BY <2>8, <3>1, <3>2 DEF Emit, parser, TypeOK, TaskType
  <2>9. CASE Recv
    <3>1. chan' \in Seq(Lines \cup Verdicts) /\ Len(chan') <= Capacity
      <4>1. chan' = <<>> \/ chan' = Tail(chan)
        BY <2>9 DEF Recv
      <4>2. chan # <<>>
        BY <2>9 DEF Recv
      <4>3. CASE chan' = <<>>
        BY <4>3, CapacityAssumption DEF CapacityAssumption
      <4>4. QED
        BY <4>1, <4>2, <4>3, HeadFacts
    <3>2. QED
      BY <2>9, <3>1 DEF Recv, parser, output, TypeOK, TaskType
  <2>10. CASE RecvNone
    BY <2>10 DEF RecvNone, parser, output, TypeOK, TaskType
  <2>11. CASE UNCHANGED <<task, attempt, parser, output, chan>>
    BY <2>11 DEF parser, output, TypeOK, TaskType
  <2>12. QED
    BY <2>1, <2>2, <2>3, <2>4, <2>5, <2>6, <2>7, <2>8, <2>9, <2>10, <2>11
    DEF Next, Task, Turn, Provider, Answer, Explain, Chunk, Close, Cancel, vars
<1>3. ProviderType'
  <2>1. CASE Answer \/ Explain \/ Close
    BY <2>1 DEF Answer, Explain, Close, TypeOK, ProviderType
  <2>2. CASE Chunk
    <3>1. CASE torn # NoLine /\ torn' = NoLine /\ Say(torn, torn)
      BY <2>2, <3>1 DEF Chunk, Say, TypeOK, ProviderType
    <3>2. CASE torn = NoLine
      <4>1. PICK kind \in Kinds :
                LET line == [kind |-> kind, n |-> Len(said) + 1] IN
                /\ MaySay(kind)
                /\ \/ Say(line, line) /\ UNCHANGED torn
                   \/ torn' = line /\ wire' = <<Beginning>> /\ UNCHANGED said
        BY <2>2, <3>2 DEF Chunk
      <4> DEFINE line == [kind |-> kind, n |-> Len(said) + 1]
      <4>2. Len(said) + 1 \in 1..MaxLines + 2
        BY <4>1, LinesAssumption DEF LinesAssumption, MaySay, Has, Fits, TypeOK, ProviderType
      <4>3. line \in Lines
        BY <4>2 DEF Lines
      <4>4. UNCHANGED up
        BY <2>2 DEF Chunk
      <4> HIDE DEF line
      <4>5. CASE Say(line, line) /\ UNCHANGED torn
        BY <4>3, <4>4, <4>5 DEF Say, TypeOK, ProviderType
      <4>6. CASE torn' = line /\ wire' = <<Beginning>> /\ UNCHANGED said
        BY <4>3, <4>4, <4>6 DEF TypeOK, ProviderType
      <4>7. QED
        BY <4>1, <4>5, <4>6 DEF line
    <3>3. QED
      BY <2>2, <3>1, <3>2 DEF Chunk
  <2>3. CASE Retry
    BY <2>3 DEF Retry, TypeOK, ProviderType
  <2>4. CASE Read
    BY <2>4 DEF Read, TypeOK, ProviderType
  <2>5. CASE UNCHANGED provider
    BY <2>5 DEF provider, TypeOK, ProviderType
  <2>6. QED
    BY <2>1, <2>2, <2>3, <2>4, <2>5 DEF Next, Task, Turn, Provider, HearAbort, Sent, Explained,
       Eof, IdleTimeout, Emit, Recv, RecvNone, Cancel, vars
<1>4. QED
  BY <1>1, <1>2, <1>3 DEF TypeOK

-----------------------------------------------------------------------------
(* The answer, and the task that reads it                                   *)

\* A chunk carries the next line, or its beginning.
LEMMA ChunkShape ==
    ASSUME Ind, Chunk
    PROVE  /\ up = "streams" /\ up' = up /\ task # "sends" /\ wire = <<>>
           /\ UNCHANGED <<asker, abort, task, attempt, parser, output, chan>>
           /\ \E line \in Lines :
                /\ line.n = Len(said) + 1 /\ MaySay(line.kind)
                /\ \/ wire' = <<line>> /\ said' = Append(said, line) /\ torn' = NoLine
                   \/ wire' = <<Beginning>> /\ said' = said /\ torn' = line
<1>1. /\ up = "streams" /\ up' = up /\ task # "sends" /\ wire = <<>>
      /\ UNCHANGED <<asker, abort, task, attempt, parser, output, chan>>
  BY DEF Chunk, Streaming
<1>2. CASE torn # NoLine
  <2>1. torn \in Lines /\ torn.n = Len(said) + 1 /\ MaySay(torn.kind)
    BY <1>2 DEF Ind, TypeOK, ProviderType, Numbered
  <2>2. wire' = <<torn>> /\ said' = Append(said, torn) /\ torn' = NoLine
    BY <1>2 DEF Chunk, Say
  <2>3. QED
    BY <1>1, <2>1, <2>2
<1>3. CASE torn = NoLine
  <2>1. PICK kind \in Kinds :
            LET line == [kind |-> kind, n |-> Len(said) + 1] IN
            /\ MaySay(kind)
            /\ \/ Say(line, line) /\ UNCHANGED torn
               \/ torn' = line /\ wire' = <<Beginning>> /\ UNCHANGED said
    BY <1>3 DEF Chunk
  <2> DEFINE line == [kind |-> kind, n |-> Len(said) + 1]
  <2>2. Len(said) + 1 \in 1..MaxLines + 2
    BY <2>1, LinesAssumption
    DEF LinesAssumption, MaySay, Has, Ind, Fits, TypeOK, ProviderType
  <2>3. line \in Lines /\ line.n = Len(said) + 1 /\ line.kind = kind
    BY <2>2 DEF Lines
  <2>4. \/ wire' = <<line>> /\ said' = Append(said, line) /\ torn' = NoLine
        \/ wire' = <<Beginning>> /\ said' = said /\ torn' = line
    BY <1>3, <2>1 DEF Say
  <2> HIDE DEF line
  <2>5. MaySay(line.kind)
    BY <2>1, <2>3
  <2>6. QED
    BY <1>1, <2>3, <2>4, <2>5
<1>4. QED
  BY <1>2, <1>3

\* What the provider has said it has said; a new line may be of a new kind.
LEMMA HasAppend ==
    ASSUME TypeOK, NEW CONSTANT line \in Lines, said' = Append(said, line), NEW CONSTANT kinds
    PROVE  Has(kinds)' <=> Has(kinds) \/ line.kind \in kinds
<1>1. /\ DOMAIN said = 1..Len(said) /\ Len(said) \in Nat /\ DOMAIN said' = 1..(Len(said) + 1)
      /\ \A i \in DOMAIN said : said'[i] = said[i]
      /\ said'[Len(said) + 1] = line
  BY DEF TypeOK, ProviderType
<1>2. QED
  BY <1>1 DEF Has

\* The provider's side of the invariant: the lines, their numbers, their end.
LEMMA ProviderStep ==
    ASSUME Ind, [Next]_vars
    PROVE  Numbered' /\ Fits'
<1> USE DEF Ind
<1>0. said \in Seq(Lines) /\ Len(said) \in Nat /\ MaxLines \in Nat
  BY LinesAssumption DEF LinesAssumption, TypeOK, ProviderType
<1>1. CASE Chunk
  <2>1. PICK line \in Lines :
            /\ line.n = Len(said) + 1 /\ MaySay(line.kind)
            /\ \/ wire' = <<line>> /\ said' = Append(said, line) /\ torn' = NoLine
               \/ wire' = <<Beginning>> /\ said' = said /\ torn' = line
    BY <1>1, ChunkShape
  <2>2. CASE wire' = <<line>> /\ said' = Append(said, line) /\ torn' = NoLine
    <3>1. /\ Len(said') = Len(said) + 1 /\ said'[Len(said')] = line /\ said' # <<>>
          /\ DOMAIN said' = 1..Len(said) + 1 /\ DOMAIN said = 1..Len(said)
          /\ \A i \in DOMAIN said : said'[i] = said[i]
      BY <1>0, <2>2
    <3>2. \A i \in DOMAIN said' : said'[i].n = i
      BY <1>0, <2>1, <3>1 DEF Numbered
    <3>3. Numbered'
      BY <2>2, <3>1, <3>2 DEF Numbered
    <3>4. /\ Has({"stop", "failed"})' <=> Has({"stop", "failed"}) \/ line.kind \in {"stop", "failed"}
          /\ Has({"finish", "stop", "failed"})'
               <=> Has({"finish", "stop", "failed"}) \/ line.kind \in {"finish", "stop", "failed"}
      BY <2>2, HasAppend
    <3>5. Has({"finish", "stop", "failed"}) <=> Has({"finish"}) \/ Has({"stop", "failed"})
      BY DEF Has
    <3>6. line.kind \in {"text", "call", "finish", "stop", "failed"}
      BY KindFacts DEF Kinds
    <3>7. /\ ~Has({"stop", "failed"}) /\ (Has({"finish"}) => line.kind = "stop")
          /\ (line.kind \in {"text", "call"} => Len(said) < MaxLines)
      BY <2>1 DEF MaySay
    <3>8. /\ Len(said) <= MaxLines + 1
          /\ ~Has({"finish", "stop", "failed"}) => Len(said) <= MaxLines
      BY <3>7 DEF Fits
    <3>9. Fits'
      BY <1>0, <3>1, <3>4, <3>5, <3>6, <3>7, <3>8 DEF Fits
    <3>10. QED
      BY <3>3, <3>9
  <2>3. CASE wire' = <<Beginning>> /\ said' = said /\ torn' = line
    BY <2>1, <2>3 DEF Numbered, Fits, MaySay, Has
  <2>4. QED
    BY <2>1, <2>2, <2>3
<1>2. CASE UNCHANGED <<said, torn>> /\ (wire' = <<>> \/ wire' = wire)
  BY <1>2 DEF Numbered, Fits, MaySay, Has
<1>3. QED
  BY <1>1, <1>2 DEF Next, Task, Turn, Provider, HearAbort, Sent, Explained, Retry, Read, Eof,
     IdleTimeout, Emit, Recv, RecvNone, Answer, Explain, Close, Cancel, provider, vars

\* A request is sent again only before anything was said.
LEMMA ConnectingStep ==
    ASSUME Ind, [Next]_vars
    PROVE  Connecting'
<1> USE DEF Ind
<1>1. CASE Chunk
  BY <1>1, ChunkShape DEF Connecting, parser, output, asker
<1>2. CASE Sent
  BY <1>2 DEF Sent, RetryOrBail, MayRetry, Bails, Emits, Connecting, parser, output, asker, provider
<1>3. CASE Explained
  BY <1>3 DEF Explained, RetryOrBail, MayRetry, Bails, Emits, Connecting, parser, output, asker, provider
<1>4. CASE Retry
  BY <1>4 DEF Retry, Connecting, parser, output, asker
<1>5. CASE Read \/ Eof
  BY <1>5 DEF Read, Parse, Eof, AtEof, Settle, Bails, Emits, Connecting, output
<1>6. CASE Emit
  BY <1>6 DEF Emit, Connecting, TypeOK, TaskType
<1>7. CASE HearAbort \/ IdleTimeout
  BY <1>7 DEF HearAbort, IdleTimeout, Bails, Emits, Connecting
<1>8. CASE Recv
  BY <1>8 DEF Recv, Connecting, parser, output, provider
<1>9. CASE RecvNone \/ Cancel
  BY <1>9 DEF RecvNone, Cancel, Connecting, parser, output, provider
<1>10. CASE Answer \/ Explain \/ Close
  BY <1>10 DEF Answer, Explain, Close, Streaming, Connecting, parser, output, asker
<1>11. CASE UNCHANGED vars
  BY <1>11 DEF Connecting, parser, output, asker, provider, vars
<1>12. QED
  BY <1>1, <1>2, <1>3, <1>4, <1>5, <1>6, <1>7, <1>8, <1>9, <1>10, <1>11
  DEF Next, Task, Turn, Provider

\* The task is not over before its verdict is in the channel.
LEMMA SendingStep ==
    ASSUME Ind, [Next]_vars
    PROVE  Sending'
<1> USE DEF Ind
<1>e. ASSUME NEW v \in Verdicts, todo' = <<v>>, task' = "emits" PROVE Sending'
  <2>1. todo' # <<>> /\ todo'[Len(todo')] = v
    BY <1>e
  <2>2. QED
    BY <1>e, <2>1 DEF Sending
<1>s. ASSUME Settle PROVE Sending'
  BY <1>s, SettleTypes, KindFacts DEF Sending
<1>1. CASE HearAbort \/ IdleTimeout
  BY <1>1, <1>e, KindFacts DEF HearAbort, IdleTimeout, Bails, Emits
<1>2. CASE Sent
  <2>1. CASE Bails
    BY <2>1, <1>e, KindFacts DEF Bails, Emits
  <2>2. CASE ~Bails
    BY <1>2, <2>2 DEF Sent, RetryOrBail, Connecting, Sending, output
  <2>3. QED
    BY <2>1, <2>2
<1>3. CASE Explained
  <2>1. CASE Bails
    BY <2>1, <1>e, KindFacts DEF Bails, Emits
  <2>2. CASE ~Bails
    BY <1>3, <2>2 DEF Explained, RetryOrBail, Connecting, Sending, output
  <2>3. QED
    BY <2>1, <2>2
<1>4. CASE Retry
  BY <1>4 DEF Retry, Sending, Connecting, output
<1>5. CASE Eof
  BY <1>5, <1>e, <1>s, KindFacts DEF Eof, AtEof, Bails, Emits
<1>6. CASE Read
  <2>1. CASE Settle
    BY <2>1, <1>s
  <2>2. CASE Bails
    BY <2>2, <1>e, KindFacts DEF Bails, Emits
  <2>3. CASE Emits(<<Head(wire)>>, "reads")
    BY <2>3 DEF Emits, Sending
  <2>4. CASE UNCHANGED <<task, output>>
    BY <1>6, <2>4 DEF Read, Sending, output
  <2>5. QED
    BY <1>6, <2>1, <2>2, <2>3, <2>4 DEF Read, Parse
<1>7. CASE Emit
  <2>1. /\ task = "emits" /\ todo # <<>> /\ todo' = Tail(todo) /\ then' = then
        /\ turn' = turn /\ verdict' = verdict
        /\ task' = IF Len(todo) = 1 THEN then ELSE task
    BY <1>7 DEF Emit, asker
  <2>2. todo \in Seq(Lines \cup Verdicts) /\ chan \in Seq(Lines \cup Verdicts)
    BY DEF TypeOK, TaskType
  <2>3. CASE Len(todo) = 1
    <3>1. todo' = <<>>
      BY <2>1, <2>2, <2>3
    <3>2. ASSUME then = "over", turn = "reads"
          PROVE  \E i \in DOMAIN chan' : chan'[i] \in Verdicts
      <4>1. Head(todo) = todo[Len(todo)]
        BY <2>1, <2>2, <2>3
      <4>2. Head(todo) \in Verdicts
        BY <2>1, <3>2, <4>1 DEF Sending
      <4>3. chan' = Append(chan, Head(todo))
        BY <1>7, <3>2 DEF Emit
      <4>4. Len(chan) + 1 \in DOMAIN chan' /\ chan'[Len(chan) + 1] = Head(todo)
        BY <2>2, <4>2, <4>3
      <4>5. QED
        BY <4>2, <4>4
    <3>3. then \in {"reads", "over"}
      BY DEF TypeOK, TaskType
    <3>4. QED
      BY <2>1, <2>3, <3>1, <3>2, <3>3 DEF Sending
  <2>4. CASE Len(todo) # 1
    <3> DEFINE r == Tail(todo)
    <3>1. r # <<>> /\ r[Len(r)] = todo[Len(todo)]
      <4> DEFINE n == Len(todo)
      <4>1. n \in Nat /\ n # 0 /\ n # 1
        BY <2>1, <2>2, <2>4
      <4>2. Len(r) = n - 1 /\ \A j \in 1..n - 1 : r[j] = todo[j + 1]
        BY <2>1, <2>2
      <4> HIDE DEF n, r
      <4>3. n - 1 \in 1..n - 1 /\ (n - 1) + 1 = n
        BY <4>1
      <4>4. r[Len(r)] = todo[n]
        BY <4>2, <4>3
      <4>5. r # <<>>
        BY <4>1, <4>2
      <4>6. QED
        BY <4>4, <4>5 DEF n
    <3> HIDE DEF r
    <3>2. todo' = r
      BY <2>1 DEF r
    <3>3. QED
      BY <2>1, <2>4, <3>1, <3>2 DEF Sending
  <2>5. QED
    BY <2>3, <2>4
<1>8. CASE Recv
  <2>1. UNCHANGED <<task, todo, then>> /\ turn = "reads" /\ chan # <<>>
    BY <1>8 DEF Recv, output
  <2>2. ASSUME task = "over", turn' = "reads"
        PROVE  verdict' # "none" \/ \E i \in DOMAIN chan' : chan'[i] \in Verdicts
    <3>1. chan' = Tail(chan) /\ Head(chan).kind # "Error"
      BY <1>8, <2>2 DEF Recv
    <3>2. CASE Head(chan).kind \in {"Done", "Aborted"}
      BY <1>8, <2>2, <3>2 DEF Recv
    <3>3. CASE Head(chan).kind \notin {"Done", "Aborted"}
      <4>1. Head(chan) \notin Verdicts /\ verdict' = verdict
        BY <1>8, <2>2, <3>1, <3>3, KindFacts DEF Recv
      <4>2. chan \in Seq(Lines \cup Verdicts)
        BY DEF TypeOK, TaskType
      <4>3. ASSUME NEW i \in DOMAIN chan, chan[i] \in Verdicts
            PROVE  i - 1 \in DOMAIN chan' /\ chan'[i - 1] \in Verdicts
        <5> DEFINE r == Tail(chan)
        <5>1. i # 1 /\ i \in 1..Len(chan) /\ Len(chan) \in Nat
          BY <2>1, <4>1, <4>2, <4>3
        <5>2. /\ r \in Seq(Lines \cup Verdicts) /\ Len(r) = Len(chan) - 1
              /\ \A j \in 1..Len(chan) - 1 : r[j] = chan[j + 1]
          BY <2>1, <4>2
        <5> HIDE DEF r
        <5>3. i - 1 \in 1..Len(chan) - 1 /\ (i - 1) + 1 = i
          BY <5>1
        <5>4. i - 1 \in DOMAIN r /\ r[i - 1] = chan[i]
          BY <5>2, <5>3
        <5>5. QED
          BY <3>1, <4>3, <5>4 DEF r
      <4>4. QED
        BY <2>1, <2>2, <4>1, <4>3 DEF Sending
    <3>4. QED
      BY <3>2, <3>3
  <2>3. QED
    BY <2>1, <2>2 DEF Sending
<1>9. CASE RecvNone
  BY <1>9 DEF RecvNone, Sending, output
<1>10. CASE UNCHANGED <<turn, verdict, task, output, chan>>
  BY <1>10 DEF Sending, output
<1>11. QED
  BY <1>1, <1>2, <1>3, <1>4, <1>5, <1>6, <1>7, <1>8, <1>9, <1>10
  DEF Next, Task, Turn, Provider, Answer, Explain, Chunk, Close, Cancel, asker, vars

\* The verdict is the last delta of a request.
LEMMA VerdictStep ==
    ASSUME Ind, [Next]_vars
    PROVE  VerdictLast'
<1> USE DEF Ind
<1>e. ASSUME NEW v, todo' = <<v>>, v \in Verdicts => then' = "over",
             task \notin {"emits", "over"}, UNCHANGED <<verdict, chan>>
      PROVE  VerdictLast'
  <2>1. verdict = "none" /\ \A i \in DOMAIN chan : chan[i] \notin Verdicts
    BY <1>e DEF VerdictLast
  <2>2. \A i \in DOMAIN todo' : i = Len(todo') /\ todo'[i] = v
    BY <1>e
  <2>3. QED
    BY <1>e, <2>1, <2>2 DEF VerdictLast
<1>s. ASSUME Settle, task = "reads", UNCHANGED <<verdict, chan>> PROVE VerdictLast'
  <2>1. verdict = "none" /\ \A i \in DOMAIN chan : chan[i] \notin Verdicts
    BY <1>s DEF VerdictLast
  <2>2. PICK order \in SetToSeqs(calls) : todo' = order \o <<Verdict("Done")>>
    BY <1>s DEF Settle, Emits
  <2>3. IsFiniteSet(calls) /\ calls \subseteq Lines
    BY DEF CallsKept, TypeOK, TaskType
  <2>4. order \in Seq(calls)
    BY <2>3, OrderShape
  <2>5. ASSUME NEW i \in DOMAIN todo', todo'[i] \in Verdicts PROVE i = Len(todo')
    <3>1. i \in DOMAIN order => todo'[i] \in Lines
      BY <2>2, <2>3, <2>4
    <3>2. i \notin DOMAIN order
      BY <2>5, <3>1, KindFacts DEF Kinds
    <3>3. QED
      BY <2>2, <2>4, <3>2
  <2>6. QED
    BY <1>s, <2>1, <2>5, SettleTypes DEF VerdictLast
<1>1. CASE HearAbort
  BY <1>1, <1>e DEF HearAbort, Emits, asker
<1>2. CASE Sent \/ Explained \/ IdleTimeout
  <2>1. task \in {"sends", "explains", "reads"} /\ UNCHANGED <<verdict, chan>>
    BY <1>2 DEF Sent, Explained, IdleTimeout, asker
  <2>2. CASE Bails
    BY <2>1, <2>2, <1>e DEF Bails, Emits
  <2>3. CASE ~Bails
    <3>1. UNCHANGED output
      BY <1>2, <2>3 DEF Sent, Explained, IdleTimeout, RetryOrBail
    <3>2. QED
      BY <2>1, <3>1 DEF VerdictLast, output
  <2>4. QED
    BY <2>2, <2>3
<1>3. CASE Retry
  BY <1>3 DEF Retry, VerdictLast, asker, output
<1>4. CASE Read \/ Eof
  <2>1. task = "reads" /\ UNCHANGED <<verdict, chan>>
    BY <1>4 DEF Read, Eof, asker
  <2>2. CASE Settle
    BY <2>1, <2>2, <1>s
  <2>3. CASE Bails
    BY <2>1, <2>3, <1>e DEF Bails, Emits
  <2>4. CASE Emits(<<Head(wire)>>, "reads") /\ Head(wire).kind = "text"
    <3>1. Head(wire) \notin Verdicts
      BY <2>4, KindFacts
    <3>2. QED
      BY <2>1, <2>4, <3>1, <1>e DEF Emits
  <2>5. CASE UNCHANGED <<task, output>>
    BY <2>1, <2>5 DEF VerdictLast, output
  <2>6. QED
    BY <1>4, <2>2, <2>3, <2>4, <2>5 DEF Read, Eof, AtEof, Parse
<1>5. CASE Emit
  <2> DEFINE r == Tail(todo)
             x == Head(todo)
             c == Append(chan, x)
  <2>1. /\ task = "emits" /\ todo # <<>> /\ todo' = r /\ then' = then
        /\ turn' = turn /\ verdict' = verdict
        /\ task' = IF Len(todo) = 1 THEN then ELSE task
        /\ chan' = chan \/ chan' = c
    BY <1>5 DEF Emit, asker
  <2>2. /\ todo \in Seq(Lines \cup Verdicts) /\ chan \in Seq(Lines \cup Verdicts)
        /\ x \in Lines \cup Verdicts
    BY <2>1, HeadFacts DEF TypeOK, TaskType
  <2>3. /\ Len(r) = Len(todo) - 1 /\ DOMAIN r = 1..Len(todo) - 1 /\ Len(todo) \in Nat \ {0}
        /\ DOMAIN todo = 1..Len(todo)
        /\ \A i \in 1..Len(todo) - 1 : r[i] = todo[i + 1]
        /\ x = todo[1]
    BY <2>1, <2>2
  <2>4. /\ DOMAIN c = 1..Len(chan) + 1 /\ Len(c) = Len(chan) + 1 /\ Len(chan) \in Nat
        /\ DOMAIN chan = 1..Len(chan)
        /\ \A i \in DOMAIN chan : c[i] = chan[i]
        /\ c[Len(chan) + 1] = x
    BY <2>2
  <2> HIDE DEF r, x, c
  <2>5. ASSUME NEW i \in DOMAIN r, r[i] \in Verdicts PROVE i = Len(r) /\ then = "over"
    <3>1. i + 1 \in DOMAIN todo /\ todo[i + 1] \in Verdicts /\ i \in Nat
      BY <2>3, <2>5
    <3>2. i + 1 = Len(todo) /\ then = "over"
      BY <3>1 DEF VerdictLast
    <3>3. QED
      BY <2>3, <3>1, <3>2
  <2>6. verdict = "none" /\ \A i \in DOMAIN chan : chan[i] \notin Verdicts
    BY <2>1 DEF VerdictLast
  <2>7. x \in Verdicts => task' = "over"
    BY <2>1, <2>3 DEF VerdictLast
  <2>8. \A i \in DOMAIN c : c[i] \in Verdicts => i = Len(c) /\ x \in Verdicts
    BY <2>4, <2>6
  <2>9. QED
    BY <2>1, <2>5, <2>6, <2>7, <2>8 DEF VerdictLast
<1>6. CASE Recv
  <2>0. UNCHANGED <<task, todo, then>> /\ chan # <<>> /\ chan \in Seq(Lines \cup Verdicts)
    BY <1>6 DEF Recv, output, TypeOK, TaskType
  <2> DEFINE r == Tail(chan)
  <2>1. /\ Len(r) = Len(chan) - 1 /\ DOMAIN r = 1..Len(chan) - 1 /\ Len(chan) \in Nat \ {0}
        /\ DOMAIN chan = 1..Len(chan)
        /\ \A i \in 1..Len(chan) - 1 : r[i] = chan[i + 1]
        /\ Head(chan) = chan[1] /\ r \in Seq(Lines \cup Verdicts)
    BY <2>0
  <2>2. chan' = <<>> \/ chan' = r
    BY <1>6 DEF Recv
  <2>h. Head(chan) \in Lines \cup Verdicts
    BY <2>0, HeadFacts
  <2> HIDE DEF r
  <2>3. \A i \in DOMAIN r : r[i] \in Verdicts => i = Len(r) /\ task = "over"
    <3> SUFFICES ASSUME NEW i \in DOMAIN r, r[i] \in Verdicts PROVE i = Len(r) /\ task = "over"
      OBVIOUS
    <3>1. i + 1 \in DOMAIN chan /\ chan[i + 1] \in Verdicts /\ i \in Nat
      BY <2>1
    <3>2. i + 1 = Len(chan) /\ task = "over"
      BY <3>1 DEF VerdictLast
    <3>3. QED
      BY <2>1, <3>1, <3>2
  <2>4. \A i \in DOMAIN chan' : chan'[i] \in Verdicts => i = Len(chan') /\ task = "over"
    <3>1. CASE chan' = <<>>
      BY <3>1
    <3>2. CASE chan' = r
      BY <2>3, <3>2
    <3>3. QED
      BY <2>2, <3>1, <3>2
  <2>5. verdict = "none"
    BY <2>0 DEF VerdictLast
  <2>6. ASSUME verdict' # "none" PROVE task = "over" /\ chan' = <<>>
    <3>1. Head(chan).kind \in {"Done", "Aborted"} /\ chan' = r
      BY <1>6, <2>5, <2>6 DEF Recv, r
    <3>2. Head(chan) \in Verdicts
      BY <2>h, <3>1, KindFacts DEF Kinds
    <3>3. Len(chan) = 1 /\ task = "over"
      BY <2>1, <3>2 DEF VerdictLast
    <3>4. r = <<>>
      BY <2>1, <3>3
    <3>5. QED
      BY <3>1, <3>3, <3>4
  <2>7. QED
    BY <2>0, <2>4, <2>6 DEF VerdictLast
<1>7. CASE UNCHANGED <<verdict, task, output, chan>>
  BY <1>7 DEF VerdictLast, output
<1>8. QED
  BY <1>1, <1>2, <1>3, <1>4, <1>5, <1>6, <1>7
  DEF Next, Task, Turn, Provider, RecvNone, Answer, Explain, Chunk, Close, Cancel, asker, vars

-----------------------------------------------------------------------------
(* From the wire to the turn                                                *)

\* A step that moves no line keeps the places of all lines.
LEMMA FlowKept ==
    ASSUME Ind, UNCHANGED <<got, verdict, turn, said, calls, chan>>,
           The("text", todo') = The("text", todo), The("call", todo') = The("call", todo),
           TextsInOrder(todo'), CallsOnce(todo'), DoneIn(todo') <=> DoneIn(todo),
           The("text", wire') = The("text", wire), The("call", wire') = The("call", wire)
    PROVE  Ordered' /\ Carried' /\ CallsKept' /\ DoneIsWhole'
<1>1. Ordered'
  BY DEF Ind, Ordered, Before
<1>2. Carried'
  BY DEF Ind, Carried, OnTheWay
<1>3. CallsKept'
  BY DEF Ind, CallsKept, DoneSent
<1>4. DoneIsWhole'
  BY DEF Ind, DoneIsWhole, Has
<1>5. QED
  BY <1>1, <1>2, <1>3, <1>4

\* Giving up: the error, or the abort, is all that is still to be sent.
LEMMA BailFlow ==
    ASSUME Ind, UNCHANGED <<got, verdict, turn, said, calls, chan>>,
           NEW v \in Verdicts \ {Verdict("Done")}, todo' = <<v>>, todo = <<>>,
           The("text", wire') = The("text", wire), The("call", wire') = The("call", wire)
    PROVE  /\ Ordered' /\ Carried' /\ CallsKept' /\ DoneIsWhole'
           /\ DoneSent' <=> DoneSent
<1>1. v.kind # "text" /\ v.kind # "call" /\ v # Verdict("Done")
  BY KindFacts
<1>2. /\ The("text", todo') = {} /\ The("call", todo') = {} /\ TextsInOrder(todo')
      /\ CallsOnce(todo') /\ ~DoneIn(todo')
  BY <1>1, TheSingle
<1>3. The("text", todo) = {} /\ The("call", todo) = {} /\ ~DoneIn(todo)
  BY TheEmpty
<1>4. QED
  BY <1>2, <1>3, FlowKept DEF DoneSent

\* The whole answer is settled: the calls kept are on their way, with Done.
LEMMA SettleFlow ==
    ASSUME Ind, Settle, UNCHANGED <<got, verdict, turn, said, calls, chan>>,
           todo = <<>>, task = "reads",
           The("text", wire') = The("text", wire), The("call", wire') = The("call", wire)
    PROVE  /\ Ordered' /\ Carried' /\ CallsKept' /\ DoneIsWhole'
<1>1. /\ The("text", todo') = {} /\ The("call", todo') = calls
      /\ TextsInOrder(todo') /\ CallsOnce(todo') /\ DoneIn(todo')
  BY SettleTypes DEF Ind
<1>2. The("text", todo) = {} /\ The("call", todo) = {}
  BY TheEmpty
<1>3. ~DoneSent
  BY DEF Ind, Settled
<1>4. Ordered'
  BY <1>1, <1>2 DEF Ind, Ordered, Before
<1>5. Carried'
  BY <1>1, <1>2 DEF Ind, Carried, OnTheWay
<1>6. CallsKept'
  <2>1. turn = "reads" => The("call", got) = {} /\ The("call", chan) = {}
    BY <1>3 DEF Ind, CallsKept
  <2>2. QED
    BY <1>1, <2>1 DEF Ind, CallsKept, DoneSent
<1>7. DoneIsWhole'
  BY DEF Ind, DoneIsWhole, Has
<1>8. QED
  BY <1>4, <1>5, <1>6, <1>7

\* The line that Read takes from the wire is the last one said.
LEMMA WireLine ==
    ASSUME Ind, wire # <<>>
    PROVE  LET line == Head(wire) IN
           /\ line = Beginning \/ (line \in Lines /\ \E i \in DOMAIN said : said[i] = line)
           /\ \A kind : The(kind, wire) = IF line.kind = kind THEN {line} ELSE {}
<1>1. /\ Head(wire) \in Lines \cup {Beginning} /\ Head(wire) = wire[1] /\ DOMAIN wire = {1}
      /\ wire = <<Head(wire)>>
  BY HeadFacts DEF Ind
<1>2. Head(wire) = Beginning \/ (said # <<>> /\ Head(wire) = said[Len(said)])
  BY <1>1 DEF Ind, Numbered
<1>3. said # <<>> => Len(said) \in DOMAIN said
  BY DEF Ind, TypeOK, ProviderType
<1>4. \A kind : The(kind, wire) = IF Head(wire).kind = kind THEN {Head(wire)} ELSE {}
  BY <1>1, TheSingle
<1>5. QED
  BY <1>1, <1>2, <1>3, <1>4

\* Read puts a text into the task's hands, keeps a call, or settles or gives up.
LEMMA ReadFlow ==
    ASSUME Ind, Read
    PROVE  Ordered' /\ Carried' /\ CallsKept' /\ DoneIsWhole' /\ Settled'
<1>1. /\ task = "reads" /\ wire # <<>> /\ wire' = <<>> /\ Parse(Head(wire))
      /\ UNCHANGED <<got, verdict, turn, said, chan, up, torn>>
  BY DEF Read, asker
<1>2. todo = <<>> /\ ~DoneSent /\ turn # "done"
  BY <1>1 DEF Ind, Sending, Settled, DoneSent
<1>3. PICK line : line = Head(wire)
  OBVIOUS
<1>4. /\ line = Beginning \/ (line \in Lines /\ \E i \in DOMAIN said : said[i] = line)
      /\ \A kind : The(kind, wire) = IF line.kind = kind THEN {line} ELSE {}
      /\ Parse(line)
  BY <1>1, <1>3, WireLine
<1>5. \A kind : The(kind, wire') = {} /\ The(kind, todo) = {}
  BY <1>1, <1>2, TheEmpty
<1>6. ~DoneIn(chan) /\ ~DoneIn(todo) /\ verdict # "Done"
  BY <1>2 DEF DoneSent
<1>7. CASE line.kind = "text"
  <2>1. todo' = <<line>> /\ UNCHANGED <<saw, calls>>
    BY <1>4, <1>7, KindFacts DEF Parse, Emits, parser
  <2>2. /\ The("text", todo') = {line} /\ The("call", todo') = {}
        /\ TextsInOrder(todo') /\ CallsOnce(todo') /\ ~DoneIn(todo')
    <3>1. line # Verdict("Done")
      BY <1>7, KindFacts DEF Verdict
    <3>2. QED
      BY <1>7, <2>1, <3>1, TheSingle
  <2>3. The("text", wire) = {line} /\ The("call", wire) = {}
    BY <1>4, <1>7
  <2>4. Ordered'
    BY <1>1, <1>5, <2>2, <2>3 DEF Ind, Ordered, Before
  <2>5. Carried'
    BY <1>1, <1>5, <2>2, <2>3 DEF Ind, Carried, OnTheWay
  <2>6. CallsKept'
    BY <1>1, <1>2, <1>5, <1>6, <2>1, <2>2, <2>3 DEF Ind, CallsKept, DoneSent
  <2>7. DoneIsWhole'
    BY <1>1 DEF Ind, DoneIsWhole, Has
  <2>8. Settled'
    BY <1>1, <1>6, <2>1, <2>2 DEF Ind, Settled, DoneSent, Has
  <2>9. QED
    BY <2>4, <2>5, <2>6, <2>7, <2>8
<1>8. CASE line.kind = "call"
  <2>1. calls' = calls \cup {line} /\ UNCHANGED <<saw, todo>>
    BY <1>4, <1>8, KindFacts DEF Parse, output
  <2>2. The("text", wire) = {} /\ The("call", wire) = {line}
    BY <1>4, <1>8
  <2>3. Ordered'
    BY <1>1, <1>5, <2>1, <2>2 DEF Ind, Ordered, Before
  <2>4. Carried'
    BY <1>1, <1>5, <2>1, <2>2 DEF Ind, Carried, OnTheWay
  <2>5. CallsKept'
    <3>1. IsFiniteSet(calls') /\ The("call", said') = calls' \cup The("call", wire')
      BY <1>1, <1>5, <2>1, <2>2, FS_AddElement DEF Ind, CallsKept
    <3>2. QED
      BY <1>1, <1>2, <1>6, <2>1, <3>1 DEF Ind, CallsKept, DoneSent
  <2>6. DoneIsWhole'
    BY <1>1 DEF Ind, DoneIsWhole, Has
  <2>7. Settled'
    BY <1>1, <1>6, <2>1 DEF Ind, Settled, DoneSent, Has
  <2>8. QED
    BY <2>3, <2>4, <2>5, <2>6, <2>7
<1>9. CASE line.kind \notin {"text", "call"}
  <2>0. The("text", wire) = {} /\ The("call", wire) = {}
    BY <1>4, <1>9
  <2>1. CASE line.kind \in {"finish", "beginning"}
    <3>1. /\ UNCHANGED <<calls, todo>>
          /\ saw' = saw \/ (saw' = TRUE /\ line.kind = "finish")
      BY <1>4, <2>1, KindFacts DEF Parse, output, parser
    <3>2. TextsInOrder(todo') /\ CallsOnce(todo')
      BY <1>2, <3>1, TheEmpty
    <3>3. Ordered' /\ Carried' /\ CallsKept' /\ DoneIsWhole'
      BY <1>1, <1>5, <2>0, <3>1, <3>2, FlowKept
    <3>4. saw' => Has({"finish", "stop"})
      BY <1>4, <3>1, KindFacts DEF Ind, Settled, Has
    <3>5. Settled'
      BY <1>1, <1>6, <3>1, <3>4 DEF Ind, Settled, DoneSent, Has
    <3>6. QED
      BY <3>3, <3>5
  <2>2. CASE line.kind = "stop"
    <3>1. saw' = TRUE /\ Settle /\ calls' = calls
      BY <1>4, <2>2, KindFacts DEF Parse
    <3>2. Ordered' /\ Carried' /\ CallsKept' /\ DoneIsWhole'
      BY <1>1, <1>2, <1>5, <2>0, <3>1, SettleFlow
    <3>3. Has({"finish", "stop"}) /\ Has({"stop"})
      BY <1>4, <2>2, KindFacts DEF Has
    <3>4. task' = "emits" /\ then' = "over"
      BY <3>1, SettleTypes DEF Ind
    <3>5. Settled'
      BY <1>1, <1>2, <3>1, <3>3, <3>4 DEF Ind, Settled, Has
    <3>6. QED
      BY <3>2, <3>5
  <2>3. CASE line.kind = "failed"
    <3>1. todo' = <<Verdict("Error")>> /\ UNCHANGED <<saw, calls>>
      BY <1>4, <2>3, KindFacts DEF Parse, Bails, Emits, parser
    <3>2. Verdict("Error") \in Verdicts \ {Verdict("Done")}
      BY KindFacts DEF Verdict
    <3>3. /\ Ordered' /\ Carried' /\ CallsKept' /\ DoneIsWhole'
          /\ DoneSent' <=> DoneSent
      BY <1>1, <1>2, <1>5, <2>0, <3>1, <3>2, BailFlow
    <3>4. Settled'
      BY <1>1, <1>2, <3>1, <3>3 DEF Ind, Settled, Has
    <3>5. QED
      BY <3>3, <3>4
  <2>4. line.kind \in {"finish", "beginning", "stop", "failed"}
    BY <1>4, <1>9, KindFacts DEF Kinds
  <2>5. QED
    BY <2>1, <2>2, <2>3, <2>4
<1>10. QED
  BY <1>7, <1>8, <1>9

\* A text that has been said is no newer than the last line.
LEMMA SaidBound ==
    ASSUME Ind
    PROVE  \A t \in The("text", said) : t.n <= Len(said) /\ t.n \in Nat
<1> SUFFICES ASSUME NEW t \in The("text", said) PROVE t.n <= Len(said) /\ t.n \in Nat
  OBVIOUS
<1>1. PICK i \in DOMAIN said : said[i] = t
  BY TheElement
<1>2. t.n = i /\ i \in 1..Len(said)
  BY <1>1 DEF Ind, Numbered, TypeOK, ProviderType
<1>3. QED
  BY <1>2 DEF Ind, TypeOK, ProviderType

\* A new line is newer than all that is on its way, and nothing is said after
\* the task has sent Done.
LEMMA ChunkFlow ==
    ASSUME Ind, Chunk
    PROVE  Ordered' /\ Carried' /\ CallsKept' /\ DoneIsWhole' /\ Settled'
<1>1. /\ up = "streams" /\ up' = up /\ wire = <<>>
      /\ UNCHANGED <<got, verdict, turn, chan, todo, then, task, calls, saw>>
  BY ChunkShape DEF asker, parser, output
<1>2. PICK line \in Lines :
          /\ line.n = Len(said) + 1 /\ MaySay(line.kind)
          /\ \/ wire' = <<line>> /\ said' = Append(said, line) /\ torn' = NoLine
             \/ wire' = <<Beginning>> /\ said' = said /\ torn' = line
  BY ChunkShape
<1>3. ~DoneSent /\ turn # "done"
  <2>1. ~Has({"stop"})
    BY <1>2 DEF MaySay, Has
  <2>2. ~DoneSent
    BY <1>1, <2>1 DEF Ind, Settled
  <2>3. QED
    BY <2>2 DEF Ind, Settled, DoneSent
<1>4. \A kind : The(kind, wire) = {}
  BY <1>1, TheEmpty
<1>5. CASE wire' = <<Beginning>> /\ said' = said
  <2>1. The("text", wire') = {} /\ The("call", wire') = {}
    BY <1>5, TheSingle, KindFacts
  <2>2. TextsInOrder(todo) /\ (turn = "reads" => CallsOnce(todo))
    BY DEF Ind, Ordered, CallsKept
  <2>3. Ordered'
    BY <1>1, <1>4, <2>1 DEF Ind, Ordered, Before
  <2>4. Carried'
    BY <1>1, <1>4, <1>5, <2>1 DEF Ind, Carried, OnTheWay
  <2>5. CallsKept'
    BY <1>1, <1>4, <1>5, <2>1 DEF Ind, CallsKept, DoneSent
  <2>6. DoneIsWhole'
    BY <1>1, <1>5 DEF Ind, DoneIsWhole, Has
  <2>7. Settled'
    BY <1>1, <1>3, <1>5 DEF Ind, Settled, DoneSent, Has
  <2>8. QED
    BY <2>3, <2>4, <2>5, <2>6, <2>7
<1>6. CASE wire' = <<line>> /\ said' = Append(said, line)
  <2>1. \A kind : The(kind, wire') = IF line.kind = kind THEN {line} ELSE {}
    BY <1>6, TheSingle
  <2>2. \A kind : The(kind, said') = The(kind, said) \cup (IF line.kind = kind THEN {line} ELSE {})
    BY <1>6, TheAppend DEF Ind, TypeOK, ProviderType
  <2>3. \A kind : The(kind, said') = The(kind, said) \cup The(kind, wire')
    BY <2>1, <2>2
  <2>4. Len(said) \in Nat /\ \A t \in The("text", wire') : t = line
    BY <2>1 DEF Ind, TypeOK, ProviderType
  <2>5. \A t \in The("text", said), s \in The("text", wire') : t.n < s.n
    BY <1>2, <2>4, SaidBound
  <2>6. The("text", got) \cup The("text", chan) \cup The("text", todo) \subseteq The("text", said)
    BY DEF Ind, Carried, OnTheWay
  <2>7. Ordered'
    BY <1>1, <2>5, <2>6 DEF Ind, Ordered, Before
  <2>8. Carried'
    <3>1. \A t \in The("text", got), s \in The("text", said') : s.n < t.n => s \in The("text", got)
      <4> SUFFICES ASSUME NEW t \in The("text", got), NEW s \in The("text", said'), s.n < t.n
                   PROVE  s \in The("text", got)
        OBVIOUS
      <4>1. CASE s \in The("text", said)
        BY <4>1 DEF Ind, Carried
      <4>2. CASE s \in The("text", wire')
        <5>1. s = line /\ t.n <= Len(said) /\ t.n \in Nat
          BY <2>4, <2>6, <4>2, SaidBound
        <5>2. QED
          BY <1>2, <2>4, <5>1
      <4>3. QED
        BY <2>3, <4>1, <4>2
    <3>2. The("text", got) \cup The("text", chan) \cup The("text", todo) \cup The("text", wire')
            \subseteq The("text", said')
      BY <2>3, <2>6
    <3>3. turn = "reads" => The("text", said') \subseteq
            The("text", got) \cup The("text", chan) \cup The("text", todo) \cup The("text", wire')
      BY <1>4, <2>3 DEF Ind, Carried, OnTheWay
    <3>4. QED
      BY <1>1, <3>1, <3>2, <3>3 DEF Carried, OnTheWay
  <2>9. CallsKept'
    <3>1. The("call", said') = calls \cup The("call", wire')
      BY <1>4, <2>3 DEF Ind, CallsKept
    <3>2. QED
      BY <1>1, <3>1 DEF Ind, CallsKept, DoneSent
  <2>10. DoneIsWhole'
    BY <1>1, <1>3, <2>7, <2>8 DEF DoneIsWhole, Ordered, Carried
  <2>11. Settled'
    <3>1. Has({"finish", "stop"}) => Has({"finish", "stop"})'
      BY <1>6, HasAppend DEF Ind
    <3>2. QED
      BY <1>1, <1>3, <3>1 DEF Ind, Settled, DoneSent
  <2>12. QED
    BY <2>7, <2>8, <2>9, <2>10, <2>11
<1>7. QED
  BY <1>2, <1>5, <1>6

\* A delta goes from the task into the channel, or nowhere if nobody reads it.
LEMMA EmitFlow ==
    ASSUME Ind, Emit
    PROVE  Ordered' /\ Carried' /\ CallsKept' /\ DoneIsWhole' /\ Settled'
<1>1. /\ task = "emits" /\ todo # <<>> /\ todo' = Tail(todo) /\ then' = then
      /\ task' = IF Len(todo) = 1 THEN then ELSE task
      /\ (turn # "reads" /\ chan' = chan) \/ (turn = "reads" /\ chan' = Append(chan, Head(todo)))
      /\ UNCHANGED <<got, verdict, turn, calls, saw, said, wire, up>>
  BY DEF Emit, asker, parser, provider
<1>2. PICK x : x = Head(todo)
  OBVIOUS
<1>3. /\ todo \in Seq(Lines \cup Verdicts) /\ chan \in Seq(Lines \cup Verdicts)
      /\ x \in Lines \cup Verdicts
  BY <1>1, <1>2, HeadFacts DEF Ind, TypeOK, TaskType
<1>4. /\ \A kind : The(kind, todo) =
             The(kind, todo') \cup (IF x.kind = kind THEN {x} ELSE {})
      /\ TextsInOrder(todo')
      /\ x.kind = "text" => \A b \in The("text", todo') : x.n < b.n
      /\ CallsOnce(todo) => CallsOnce(todo') /\ (x.kind = "call" => x \notin The("call", todo'))
      /\ DoneIn(todo) <=> DoneIn(todo') \/ x = Verdict("Done")
  BY <1>1, <1>2, <1>3, TheTail DEF Ind, Ordered
<1>5. /\ The("text", todo) = The("text", todo') \cup (IF x.kind = "text" THEN {x} ELSE {})
      /\ The("call", todo) = The("call", todo') \cup (IF x.kind = "call" THEN {x} ELSE {})
  BY <1>4
<1>6. CASE turn # "reads"
  <2>1. chan' = chan
    BY <1>1, <1>6
  <2>2. Ordered'
    BY <1>1, <1>4, <1>5, <2>1 DEF Ind, Ordered, Before
  <2>3. Carried'
    BY <1>1, <1>5, <1>6, <2>1 DEF Ind, Carried, OnTheWay
  <2>4. CallsKept'
    BY <1>1, <1>6 DEF Ind, CallsKept
  <2>5. DoneIsWhole'
    BY <1>1 DEF Ind, DoneIsWhole, Has
  <2>6. DoneSent' => DoneSent
    BY <1>1, <1>4, <2>1 DEF DoneSent
  <2>7. Settled'
    BY <1>1, <2>6 DEF Ind, Settled, Has
  <2>8. QED
    BY <2>2, <2>3, <2>4, <2>5, <2>7
<1>7. CASE turn = "reads"
  <2>1. chan' = Append(chan, x)
    BY <1>1, <1>2, <1>7
  <2>2. /\ \A kind : The(kind, chan') = The(kind, chan) \cup (IF x.kind = kind THEN {x} ELSE {})
        /\ TextsInOrder(chan) /\ (x.kind = "text" => \A a \in The("text", chan) : a.n < x.n)
             => TextsInOrder(chan')
        /\ CallsOnce(chan) /\ (x.kind = "call" => x \notin The("call", chan))
             => CallsOnce(chan')
        /\ DoneIn(chan') <=> DoneIn(chan) \/ x = Verdict("Done")
    BY <1>3, <2>1, TheAppend
  <2>3. /\ The("text", chan') = The("text", chan) \cup (IF x.kind = "text" THEN {x} ELSE {})
        /\ The("call", chan') = The("call", chan) \cup (IF x.kind = "call" THEN {x} ELSE {})
    BY <2>2
  <2>4. TextsInOrder(chan')
    BY <1>5, <2>2 DEF Ind, Ordered, Before
  <2>5. Before(got, chan') /\ Before(chan', todo') /\ Before(chan', wire')
    BY <1>1, <1>4, <1>5, <2>3 DEF Ind, Ordered, Before
  <2>6. Before(got, todo') /\ Before(todo', wire')
    BY <1>1, <1>5 DEF Ind, Ordered, Before
  <2>7. Ordered'
    BY <1>1, <1>4, <2>4, <2>5, <2>6 DEF Ind, Ordered
  <2>8. Carried'
    <3>1. OnTheWay' = OnTheWay
      BY <1>1, <1>5, <2>3 DEF OnTheWay
    <3>2. QED
      BY <1>1, <3>1 DEF Ind, Carried
  <2>9. DoneSent' <=> DoneSent
    BY <1>1, <1>4, <2>2 DEF DoneSent
  <2>10. CallsKept'
    <3>1. CallsOnce(todo') /\ CallsOnce(chan')
      BY <1>4, <1>5, <1>7, <2>2 DEF Ind, CallsKept
    <3>2. /\ The("call", got) \cap The("call", chan') = {}
          /\ The("call", got) \cap The("call", todo') = {}
          /\ The("call", chan') \cap The("call", todo') = {}
      BY <1>4, <1>5, <1>7, <2>3 DEF Ind, CallsKept
    <3>3. The("call", got) \cup The("call", chan') \cup The("call", todo')
            = The("call", got) \cup The("call", chan) \cup The("call", todo)
      BY <1>5, <2>3
    <3>4. QED
      BY <1>1, <1>7, <2>9, <3>1, <3>2, <3>3 DEF Ind, CallsKept
  <2>11. DoneIsWhole'
    BY <1>1 DEF Ind, DoneIsWhole, Has
  <2>12. Settled'
    BY <1>1, <2>9 DEF Ind, Settled, Has
  <2>13. QED
    BY <2>7, <2>8, <2>10, <2>11, <2>12
<1>8. QED
  BY <1>6, <1>7

\* The turn takes the oldest delta out of the channel, or stops reading.
LEMMA RecvFlow ==
    ASSUME Ind, Recv
    PROVE  Ordered' /\ Carried' /\ CallsKept' /\ DoneIsWhole' /\ Settled'
<1>1. /\ turn = "reads" /\ chan # <<>>
      /\ UNCHANGED <<task, todo, then, calls, saw, said, wire, up>>
  BY DEF Recv, output, parser, provider
<1>2. PICK x : x = Head(chan)
  OBVIOUS
<1>3. /\ chan \in Seq(Lines \cup Verdicts) /\ got \in Seq(Lines)
      /\ x \in Lines \cup Verdicts
  BY <1>1, <1>2, HeadFacts DEF Ind, TypeOK, AskerType, TaskType
<1>4. CASE turn' \in {"cut", "failed"} /\ chan' = <<>> /\ UNCHANGED <<got, verdict>>
  <2>1. The("text", chan') = {} /\ TextsInOrder(chan') /\ ~DoneIn(chan')
    BY <1>4, TheEmpty
  <2>2. Ordered'
    BY <1>1, <1>4, <2>1 DEF Ind, Ordered, Before
  <2>3. Carried'
    BY <1>1, <1>4, <2>1 DEF Ind, Carried, OnTheWay
  <2>4. CallsKept'
    BY <1>1, <1>4 DEF Ind, CallsKept
  <2>5. DoneIsWhole'
    BY <1>1, <1>4 DEF Ind, DoneIsWhole, Has
  <2>6. DoneSent' => DoneSent
    BY <1>1, <1>4, <2>1 DEF DoneSent
  <2>7. Settled'
    BY <1>1, <1>4, <2>6 DEF Ind, Settled, Has
  <2>8. QED
    BY <2>2, <2>3, <2>4, <2>5, <2>7
<1>5. ASSUME chan' = Tail(chan), turn' = turn
      PROVE  /\ The("text", chan) = The("text", chan') \cup (IF x.kind = "text" THEN {x} ELSE {})
             /\ The("call", chan) = The("call", chan') \cup (IF x.kind = "call" THEN {x} ELSE {})
             /\ TextsInOrder(chan')
             /\ x.kind = "text" => \A b \in The("text", chan') : x.n < b.n
             /\ CallsOnce(chan') /\ (x.kind = "call" => x \notin The("call", chan'))
             /\ DoneIn(chan) <=> DoneIn(chan') \/ x = Verdict("Done")
  <2>1. CallsOnce(chan) /\ TextsInOrder(chan)
    BY <1>1 DEF Ind, CallsKept, Ordered
  <2>2. \A kind : The(kind, chan) = The(kind, chan') \cup (IF x.kind = kind THEN {x} ELSE {})
    BY <1>1, <1>2, <1>3, <1>5, TheTail
  <2>3. QED
    BY <1>1, <1>2, <1>3, <1>5, <2>1, <2>2, TheTail
<1>6. CASE x.kind \in {"Done", "Aborted"} /\ verdict' = x.kind /\ chan' = Tail(chan)
           /\ UNCHANGED <<turn, got>>
  <2>1. x \notin Lines /\ x \in Verdicts
    BY <1>3, <1>6, KindFacts DEF Kinds
  <2>2. The("text", chan) = The("text", chan') /\ The("call", chan) = The("call", chan')
    BY <1>5, <1>6
  <2>3. Ordered'
    BY <1>1, <1>5, <1>6, <2>2 DEF Ind, Ordered, Before
  <2>4. Carried'
    BY <1>1, <1>6, <2>2 DEF Ind, Carried, OnTheWay
  <2>5. DoneSent' <=> DoneSent
    <3>1. x = Verdict("Done") <=> verdict' = "Done"
      BY <1>6, <2>1, KindFacts
    <3>2. verdict # "Done"
      BY <1>1 DEF Ind, VerdictLast
    <3>3. QED
      BY <1>1, <1>5, <1>6, <3>1, <3>2 DEF DoneSent
  <2>6. CallsKept'
    BY <1>1, <1>5, <1>6, <2>2, <2>5 DEF Ind, CallsKept
  <2>7. DoneIsWhole'
    BY <1>1, <1>6 DEF Ind, DoneIsWhole, Has
  <2>8. Settled'
    BY <1>1, <1>6, <2>5 DEF Ind, Settled, Has
  <2>9. QED
    BY <2>3, <2>4, <2>6, <2>7, <2>8
<1>7. CASE x.kind \notin {"Error", "Done", "Aborted"} /\ got' = Append(got, x)
           /\ chan' = Tail(chan) /\ UNCHANGED <<turn, verdict>>
  <2>1. x \in Lines /\ x # Verdict("Done")
    BY <1>3, <1>7, KindFacts
  <2>2. /\ \A kind : The(kind, got') = The(kind, got) \cup (IF x.kind = kind THEN {x} ELSE {})
        /\ TextsInOrder(got) /\ (x.kind = "text" => \A a \in The("text", got) : a.n < x.n)
             => TextsInOrder(got')
        /\ CallsOnce(got) /\ (x.kind = "call" => x \notin The("call", got))
             => CallsOnce(got')
    BY <1>3, <1>7, <2>1, TheAppend
  <2>3. /\ The("text", got') = The("text", got) \cup (IF x.kind = "text" THEN {x} ELSE {})
        /\ The("call", got') = The("call", got) \cup (IF x.kind = "call" THEN {x} ELSE {})
    BY <2>2
  <2>4. TextsInOrder(got')
    BY <1>5, <1>7, <2>2 DEF Ind, Ordered, Before
  <2>5. Before(got', chan') /\ Before(got', todo') /\ Before(got', wire')
    BY <1>1, <1>5, <1>7, <2>3 DEF Ind, Ordered, Before
  <2>6. Before(chan', todo') /\ Before(chan', wire') /\ Before(todo', wire')
    BY <1>1, <1>5, <1>7 DEF Ind, Ordered, Before
  <2>7. Ordered'
    BY <1>1, <1>5, <1>7, <2>4, <2>5, <2>6 DEF Ind, Ordered
  <2>8. Carried'
    <3>1. The("text", got') \cup OnTheWay' = The("text", got) \cup OnTheWay
      BY <1>1, <1>5, <1>7, <2>3 DEF OnTheWay
    <3>2. ASSUME NEW t \in The("text", got'), NEW s \in The("text", said), s.n < t.n
          PROVE  s \in The("text", got')
      <4>1. CASE t \in The("text", got)
        BY <2>3, <3>2, <4>1 DEF Ind, Carried
      <4>2. CASE t = x /\ x.kind = "text"
        <5>1. s \in The("text", got) \cup OnTheWay
          BY <1>1, <3>2 DEF Ind, Carried
        <5>2. \A b \in The("text", chan') : x.n < b.n
          BY <1>5, <1>7, <4>2
        <5>3. x \in The("text", chan)
          BY <1>5, <1>7, <4>2
        <5>4. \A b \in The("text", todo) \cup The("text", wire) : x.n < b.n
          BY <5>3 DEF Ind, Ordered, Before
        <5>5. x \in The("text", said)
          BY <5>3 DEF Ind, Carried, OnTheWay
        <5>6. x.n \in Nat /\ s.n \in Nat
          BY <3>2, <5>5, SaidBound
        <5>7. \A b \in The("text", chan') \cup The("text", todo) \cup The("text", wire) :
                  b \in The("text", said)
          BY <1>5, <1>7 DEF Ind, Carried, OnTheWay
        <5>8. s \notin The("text", chan') \cup The("text", todo) \cup The("text", wire)
          BY <3>2, <4>2, <5>2, <5>4, <5>6
        <5>9. QED
          BY <1>5, <1>7, <2>3, <5>1, <5>8 DEF OnTheWay
      <4>3. QED
        BY <2>3, <4>1, <4>2
    <3>3. QED
      BY <1>1, <1>7, <3>1, <3>2 DEF Ind, Carried
  <2>9. DoneSent' <=> DoneSent
    BY <1>1, <1>5, <1>7, <2>1 DEF DoneSent
  <2>10. CallsKept'
    <3>1. CallsOnce(got') /\ CallsOnce(chan') /\ CallsOnce(todo')
      BY <1>1, <1>5, <1>7, <2>2 DEF Ind, CallsKept
    <3>2. /\ The("call", got') \cap The("call", chan') = {}
          /\ The("call", got') \cap The("call", todo') = {}
          /\ The("call", chan') \cap The("call", todo') = {}
      BY <1>1, <1>5, <1>7, <2>3 DEF Ind, CallsKept
    <3>3. The("call", got') \cup The("call", chan') \cup The("call", todo')
            = The("call", got) \cup The("call", chan) \cup The("call", todo)
      BY <1>1, <1>5, <1>7, <2>3
    <3>4. QED
      BY <1>1, <1>7, <2>9, <3>1, <3>2, <3>3 DEF Ind, CallsKept
  <2>11. DoneIsWhole'
    <3>1. The("text", got') \subseteq The("text", said')
      BY <2>8 DEF Carried
    <3>2. QED
      BY <1>1, <1>7, <2>4, <2>8, <3>1 DEF DoneIsWhole, Carried
  <2>12. Settled'
    BY <1>1, <1>7, <2>9 DEF Ind, Settled, Has
  <2>13. QED
    BY <2>7, <2>8, <2>10, <2>11, <2>12
<1>8. QED
  BY <1>2, <1>4, <1>6, <1>7 DEF Recv

\* The channel is closed: what the turn has taken for whole is whole.
LEMMA RecvNoneFlow ==
    ASSUME Ind, RecvNone
    PROVE  Ordered' /\ Carried' /\ CallsKept' /\ DoneIsWhole' /\ Settled'
<1>1. /\ turn = "reads" /\ chan = <<>> /\ task = "over" /\ turn' \in {"aborted", "done"}
      /\ turn' = "done" => verdict # "Aborted"
      /\ UNCHANGED <<got, verdict, task, calls, saw, todo, then, chan, said, wire, up>>
  BY DEF RecvNone, parser, output, provider
<1>2. todo = <<>> /\ verdict # "none"
  BY <1>1 DEF Ind, Sending
<1>3. turn' = "done" => verdict = "Done"
  BY <1>1, <1>2 DEF Ind, TypeOK, AskerType
<1>4. \A kind : The(kind, chan) = {} /\ The(kind, todo) = {}
  BY <1>1, <1>2, TheEmpty
<1>5. Ordered'
  BY <1>1 DEF Ind, Ordered, Before
<1>6. Carried'
  BY <1>1 DEF Ind, Carried, OnTheWay
<1>7. CallsKept'
  BY <1>1 DEF Ind, CallsKept
<1>8. Settled'
  BY <1>1, <1>3 DEF Ind, Settled, DoneSent, Has
<1>9. DoneIsWhole'
  <2>1. ASSUME verdict = "Done"
        PROVE  /\ Has({"finish", "stop"}) /\ The("text", got) = The("text", said)
               /\ The("call", got) = The("call", said) /\ CallsOnce(got)
    <3>1. DoneSent /\ saw /\ wire = <<>> /\ Has({"finish", "stop"})
      BY <2>1 DEF Ind, Settled, DoneSent
    <3>2. \A kind : The(kind, wire) = {}
      BY <3>1, TheEmpty
    <3>3. The("text", got) = The("text", said)
      BY <1>1, <1>4, <3>2 DEF Ind, Carried, OnTheWay
    <3>4. The("call", got) = The("call", said) /\ CallsOnce(got)
      BY <1>1, <1>4, <3>1, <3>2 DEF Ind, CallsKept
    <3>5. QED
      BY <3>1, <3>3, <3>4
  <2>2. QED
    BY <1>1, <1>3, <2>1 DEF Ind, DoneIsWhole, Has
<1>10. QED
  BY <1>5, <1>6, <1>7, <1>8, <1>9

\* The steps that send no line: a request sent, tried again or given up, the
\* end of the answer, and what the provider and the user do meanwhile.
LEMMA QuietFlow ==
    ASSUME Ind,
           HearAbort \/ Sent \/ Explained \/ Retry \/ Eof \/ IdleTimeout \/ Answer
             \/ Explain \/ Close \/ Cancel \/ UNCHANGED vars
    PROVE  Ordered' /\ Carried' /\ CallsKept' /\ DoneIsWhole' /\ Settled'
<1>0. UNCHANGED <<got, verdict, turn, said, calls, chan, wire, saw>>
  BY DEF HearAbort, Sent, Explained, Retry, Eof, IdleTimeout, Answer, Explain, Close, Cancel,
     asker, parser, provider, vars
<1>1. ASSUME UNCHANGED output
      PROVE  Ordered' /\ Carried' /\ CallsKept' /\ DoneIsWhole'
  <2>1. UNCHANGED <<got, verdict, turn, said, calls, chan, wire, todo>>
    BY <1>0, <1>1 DEF output
  <2>2. QED
    BY <2>1 DEF Ind, Ordered, Before, Carried, OnTheWay, CallsKept, DoneSent, DoneIsWhole, Has
<1>2. ASSUME task \in {"sends", "explains", "backsOff", "reads"},
             NEW v \in {Verdict("Error"), Verdict("Aborted")}, todo' = <<v>>
      PROVE  /\ Ordered' /\ Carried' /\ CallsKept' /\ DoneIsWhole'
             /\ ~DoneSent'
  <2>1. v \in Verdicts \ {Verdict("Done")}
    BY KindFacts DEF Verdict
  <2>2. todo = <<>> /\ ~DoneSent
    BY <1>2 DEF Ind, Connecting, Sending, Settled
  <2>3. QED
    BY <1>0, <1>2, <2>1, <2>2, BailFlow
<1>3. CASE HearAbort
  <2>1. task \in {"sends", "backsOff", "reads"} /\ todo' = <<Verdict("Aborted")>>
    BY <1>3 DEF HearAbort, Emits
  <2>2. /\ Ordered' /\ Carried' /\ CallsKept' /\ DoneIsWhole' /\ ~DoneSent'
    BY <1>2, <2>1
  <2>3. Settled'
    BY <1>0, <2>2 DEF Ind, Settled, Has
  <2>4. QED
    BY <2>2, <2>3
<1>4. CASE Sent \/ Explained \/ IdleTimeout
  <2>1. task \in {"sends", "explains", "reads"}
    BY <1>4 DEF Sent, Explained, IdleTimeout
  <2>2. UNCHANGED output \/ todo' = <<Verdict("Error")>>
    BY <1>4 DEF Sent, Explained, IdleTimeout, RetryOrBail, Bails, Emits
  <2>3. Ordered' /\ Carried' /\ CallsKept' /\ DoneIsWhole'
    BY <1>1, <1>2, <2>1, <2>2
  <2>4. ~DoneSent
    BY <2>1 DEF Ind, Settled
  <2>5. ~DoneSent'
    <3>1. CASE UNCHANGED output
      BY <1>0, <2>4, <3>1 DEF output, DoneSent
    <3>2. CASE todo' = <<Verdict("Error")>>
      BY <1>2, <2>1, <3>2
    <3>3. QED
      BY <2>2, <3>1, <3>2
  <2>6. Settled'
    BY <1>0, <2>5 DEF Ind, Settled, Has
  <2>7. QED
    BY <2>3, <2>6
<1>5. CASE Retry
  <2>1. UNCHANGED output /\ task = "backsOff"
    BY <1>5 DEF Retry
  <2>2. ~DoneSent
    BY <2>1 DEF Ind, Settled
  <2>3. ~DoneSent'
    BY <1>0, <2>1, <2>2 DEF output, DoneSent
  <2>4. Settled'
    BY <1>0, <2>3 DEF Ind, Settled, Has
  <2>5. QED
    BY <1>1, <2>1, <2>4
<1>6. CASE Eof
  <2>1. task = "reads" /\ wire = <<>> /\ up' = up /\ todo = <<>>
    BY <1>6 DEF Eof, provider, Ind, Sending
  <2>2. CASE up = "closed" /\ saw /\ Settle
    <3>1. Ordered' /\ Carried' /\ CallsKept' /\ DoneIsWhole'
      BY <1>0, <2>1, <2>2, SettleFlow
    <3>2. task' = "emits" /\ then' = "over"
      BY <2>2, SettleTypes DEF Ind
    <3>3. Settled'
      BY <1>0, <2>1, <2>2, <3>2 DEF Ind, Settled, Has
    <3>4. QED
      BY <3>1, <3>3
  <2>3. CASE Bails
    <3>1. todo' = <<Verdict("Error")>>
      BY <2>3 DEF Bails, Emits
    <3>2. Ordered' /\ Carried' /\ CallsKept' /\ DoneIsWhole' /\ ~DoneSent'
      BY <1>2, <2>1, <3>1
    <3>3. Settled'
      BY <1>0, <3>2 DEF Ind, Settled, Has
    <3>4. QED
      BY <3>2, <3>3
  <2>4. QED
    BY <1>6, <2>2, <2>3 DEF Eof, AtEof
<1>7. CASE Answer \/ Explain \/ Close \/ Cancel \/ UNCHANGED vars
  <2>1. UNCHANGED <<output, task>>
    BY <1>7 DEF Answer, Explain, Close, Cancel, vars
  <2>2. up = "closed" => up' = "closed"
    BY <1>7 DEF Answer, Explain, Close, Streaming, Cancel, provider, vars
  <2>3. DoneSent' <=> DoneSent
    BY <1>0, <2>1 DEF output, DoneSent
  <2>4. Settled'
    BY <1>0, <2>1, <2>2, <2>3 DEF Ind, Settled, Has, output
  <2>5. QED
    BY <1>1, <2>1, <2>4
<1>8. QED
  BY <1>3, <1>4, <1>5, <1>6, <1>7

-----------------------------------------------------------------------------
(* The invariant                                                            *)

\* Nothing is on its way when the task is spawned.
LEMMA InitInv == Init => Ind
<1> SUFFICES ASSUME Init PROVE Ind
  OBVIOUS
<1>1. /\ \A kind : The(kind, got) = {} /\ The(kind, chan) = {} /\ The(kind, todo) = {}
                   /\ The(kind, wire) = {} /\ The(kind, said) = {}
      /\ TextsInOrder(<<>>) /\ CallsOnce(<<>>) /\ ~DoneIn(chan) /\ ~DoneIn(todo)
  BY TheEmpty DEF Init
<1>2. ~DoneSent
  BY <1>1 DEF Init, DoneSent
<1>3. TypeOK
  <2>1. AskerType
    BY DEF Init, AskerType
  <2>2. TaskType
    <3>1. todo = <<>> /\ chan = <<>> /\ attempt = 1 /\ calls = {}
      BY DEF Init
    <3>2. chan \in Seq(Lines \cup Verdicts) /\ todo \in Seq(Lines \cup Verdicts) /\ Len(chan) = 0
      BY <3>1
    <3>3. Len(chan) <= Capacity /\ attempt \in 1..MaxRetries + 1
      BY <3>1, <3>2, CapacityAssumption, RetriesAssumption
      DEF CapacityAssumption, RetriesAssumption
    <3>4. QED
      BY <3>1, <3>2, <3>3 DEF Init, TaskType
  <2>3. ProviderType
    BY DEF Init, ProviderType
  <2>4. QED
    BY <2>1, <2>2, <2>3 DEF TypeOK
<1>4. Numbered /\ Fits
  BY LinesAssumption DEF LinesAssumption, Init, Numbered, Fits, Has
<1>5. Connecting /\ Sending /\ VerdictLast
  BY DEF Init, Connecting, Sending, VerdictLast
<1>6. Ordered /\ Carried
  BY <1>1 DEF Init, Ordered, Before, Carried, OnTheWay
<1>7. Settled
  BY <1>2 DEF Init, Settled
<1>8. CallsKept
  BY <1>1, <1>2, FS_EmptySet DEF Init, CallsKept
<1>9. DoneIsWhole
  BY <1>1 DEF Init, DoneIsWhole
<1>10. QED
  BY <1>3, <1>4, <1>5, <1>6, <1>7, <1>8, <1>9 DEF Ind

\* Every step of the task, the turn, the provider and the user keeps it.
LEMMA StepInv == Ind /\ [Next]_vars => Ind'
<1> SUFFICES ASSUME Ind, [Next]_vars PROVE Ind'
  OBVIOUS
<1>1. Ordered' /\ Carried' /\ CallsKept' /\ DoneIsWhole' /\ Settled'
  BY ChunkFlow, ReadFlow, EmitFlow, RecvFlow, RecvNoneFlow, QuietFlow
  DEF Next, Task, Turn, Provider
<1>2. QED
  BY <1>1, TypeStep, ProviderStep, ConnectingStep, SendingStep, VerdictStep DEF Ind

\* The invariant of a request holds in every state of it.
THEOREM Invariance == Spec => []Ind
BY InitInv, StepInv, PTL DEF Spec

\* Every variable keeps its type: the channel never holds more than its
\* capacity, and the request is sent MaxRetries times again at most, however
\* the provider refuses it (stream.rs:66-148).
THEOREM TypeCorrect == Spec => []TypeOK
<1>1. Ind => TypeOK
  BY DEF Ind
<1>2. QED
  BY <1>1, Invariance, PTL

\* What the turn takes out is the text the provider sent, in its order, nothing
\* left out and nothing twice, whatever was retried before; and it takes an
\* answer for a whole one only if the provider ended it and every text and call
\* of it has arrived (stream.rs:602-611).
THEOREM WholeAnswers == Spec => []DoneIsWhole
<1>1. Ind => DoneIsWhole
  BY DEF Ind
<1>2. QED
  BY <1>1, Invariance, PTL

(***************************************************************************)
(* Broadcast: the inductive invariant                                      *)
(***************************************************************************)

\* A sender that has drawn its number, one that has computed its frame, and the frames
\* that the page may still get.
Active(s) == at[s] \in {"drawn", "read", "sends"}
Computed(s) == at[s] \in {"read", "sends"}
Pending == {queue[k] : k \in DOMAIN queue} \cup {frame[s] : s \in {t \in Senders : Computed(t)}}

\* Numbers were drawn, a full frame names every card, a patch some.
Framed ==
    /\ \A f \in Pending : f.n \in 0..seq /\ (f.full => f.cards \in CardStates)
    /\ \A s \in Senders : Active(s) => num[s] \in 1..seq
    /\ \A s \in Senders : Computed(s) => frame[s].n = num[s]
    /\ \A s, t \in Senders : Active(s) /\ Active(t) /\ num[s] = num[t] => s = t
    /\ \A i \in Cards : cards[i] <= ops /\ versions[i] <= ops
    /\ link = "up" => patch
    /\ link = "none" => queue = <<>>
    /\ page \in {"starts", "numbered"} => shown = Hidden /\ owes = {}

\* Broadcasts that have kept to the order of their numbers.
Sequenced ==
    /\ \A s, t \in Senders : Active(s) /\ Active(t) /\ num[s] < num[t] =>
          /\ at[t] = "read" => at[s] # "drawn"
          /\ at[t] = "sends" => at[s] = "sends"
    /\ \A s \in Senders : (at[s] = "sends" => num[s] <= lastSent)
                       /\ (at[s] \in {"drawn", "read"} => num[s] > lastSent)
    /\ lastSent >= 1 /\ viewSeq <= lastSent
    /\ \A k \in DOMAIN queue : queue[k].n <= lastSent
    /\ \A k \in DOMAIN queue, s \in Senders : ~queue[k].full /\ Active(s) => queue[k].n < num[s]
    /\ \A k, l \in DOMAIN queue : k < l /\ ~queue[k].full =>
          queue[k].n <= queue[l].n /\ (~queue[l].full => queue[k].n < queue[l].n)

\* No state with a higher number has been computed.
Newest(n) == n >= lastSent /\ \A s \in Senders : at[s] = "read" => n >= num[s]

\* The newest state is on its way to the page, or has come.
Delivered ==
    /\ (\A s \in Senders : at[s] # "read") \/ (\E s \in Senders : at[s] = "read" /\ Newest(num[s]))
    /\ link \in {"seeded", "up"} =>
          \/ \E f \in Pending : Newest(f.n)
          \/ page = "follows" /\ Newest(viewSeq)

\* Nobody has to read the store any more.
AllRead == ~dirty /\ \A s \in Senders : at[s] \notin {"due", "drawn"}

\* Then the newest state is that of the store.
Current ==
    /\ AllRead => \A f \in Pending : Newest(f.n) => f.flags = flags
    /\ AllRead /\ page \in {"snapped", "follows"} /\ Newest(viewSeq) => shown = flags
    /\ AllRead /\ patch /\ ~untold => versions = Projected

\* A patch on its way, newer than n, mentions the card.
Later(n, i) == \E g \in Pending : ~g.full /\ g.n > n /\ g.cards[i] # Same
\* e is what was sent of the card, or the next patch will tell the difference.
Told(i, e) ==
    \/ e = versions[i] \/ cards[i] # versions[i]
    \/ versions[i] = NoCard /\ i \in unlisted

\* Whatever the page has or will have of a card, a later patch corrects it.
Corrected ==
    /\ \A f \in Pending, i \in Cards : ~f.full /\ f.cards[i] # Same =>
          Later(f.n, i) \/ f.cards[i] = versions[i]
    /\ \A f \in Pending, i \in Cards : f.full /\ Projects(f.flags) =>
          Later(f.n, i) \/ Told(i, f.cards[i])
    /\ link \in {"seeded", "up"} /\ page \in {"snapped", "follows"} /\ Projects(shown)
          /\ "now" \notin owes /\ ~unfetched =>
       \/ \E f \in Pending : f.full /\ f.n >= viewSeq
       \/ \A i \in Cards : Later(viewSeq, i) \/ Told(i, view[i])

BroadcastInd ==
    /\ BroadcastTypeOK /\ Framed
    /\ ~crossed => Sequenced /\ Delivered /\ Current /\ Corrected

\* A host that has broadcast its state, and a page that has not begun, satisfy the invariant.
LEMMA BroadcastInitially == BroadcastInit => BroadcastInd
<1> SUFFICES ASSUME BroadcastInit PROVE BroadcastInd
  OBVIOUS
<1> USE DEF BroadcastInit
<1>1. MaxOps \in Nat /\ MaxOps >= 1
  BY OpsAssumption
<1>2. cards \in CardStates /\ NoCards \in CardStates /\ versions \in CardStates
  <2>1. PICK i \in Cards : cards = [NoCards EXCEPT ![i] = 1]
    OBVIOUS
  <2>2. NoCards \in CardStates
    BY <1>1 DEF NoCards, NoCard, CardStates
  <2>3. cards \in CardStates
    BY <1>1, <2>1, <2>2 DEF NoCard, CardStates
  <2>. QED BY <2>2, <2>3 DEF Projected
<1>3. NoFrame \in Frames /\ Hidden \in FlagStates
  BY <1>1 DEF NoFrame, Frames, Hidden, FlagStates, NoCards, NoCard, Same
<1>4. <<>> \in Seq(Frames)
  OBVIOUS
<1>5. BroadcastTypeOK
  <2>1. /\ at \in [Senders -> {"idle", "due", "drawn", "read", "sends"}]
        /\ num \in [Senders -> 0..seq] /\ frame \in [Senders -> Frames]
    BY <1>3
  <2>2. ops \in 0..MaxOps /\ lastSent \in 0..seq /\ viewSeq \in 0..seq /\ seq \in Nat
    BY <1>1
  <2>. QED BY <1>2, <1>3, <1>4, <2>1, <2>2 DEF BroadcastTypeOK, FlagStates
<1>6. Pending = {}
  BY DEF Pending, Computed
<1>7. Framed
  <2>1. \A i \in Cards : cards[i] <= ops /\ versions[i] <= ops
    BY <1>1 DEF NoCards, NoCard, Projected
  <2>. QED BY <1>6, <2>1 DEF Framed, Active, Computed
<1>8. Sequenced /\ Delivered /\ Corrected
  BY <1>6 DEF Sequenced, Delivered, Corrected, Active
<1>9. Current
  BY <1>6 DEF Current
<1>. QED BY <1>5, <1>7, <1>8, <1>9 DEF BroadcastInd

\* Types of the parts from which frames are made.
LEMMA Parts ==
  ASSUME BroadcastTypeOK
  PROVE  /\ MaxOps \in Nat /\ ops \in Nat
         /\ seq \in Nat /\ lastSent \in Nat /\ viewSeq \in Nat
         /\ NoFrame \in Frames /\ Hidden \in FlagStates
         /\ NoCards \in CardStates /\ Projected \in CardStates
         /\ Diff(versions) \in [Cards -> Same..MaxOps]
         /\ \A w \in CardStates : w \in [Cards -> Same..MaxOps]
         /\ \A f \in Frames : f.n \in Nat /\ f.full \in BOOLEAN /\ f.flags \in FlagStates
                              /\ f.cards \in [Cards -> Same..MaxOps]
<1>1. MaxOps \in Nat /\ ops \in Nat /\ seq \in Nat /\ lastSent \in Nat /\ viewSeq \in Nat
  BY OpsAssumption DEF BroadcastTypeOK
<1>2. NoFrame \in Frames /\ Hidden \in FlagStates
  BY <1>1 DEF NoFrame, Frames, Hidden, FlagStates, NoCards, NoCard, Same
<1>3. NoCards \in CardStates /\ Projected \in CardStates
  BY <1>1 DEF NoCards, CardStates, NoCard, Projected, BroadcastTypeOK
<1>4. \A w \in CardStates : w \in [Cards -> Same..MaxOps]
  BY <1>1 DEF CardStates, NoCard, Same
<1>5. Diff(versions) \in [Cards -> Same..MaxOps]
  BY <1>1, <1>3 DEF CardStates, NoCard, Same, Diff
<1>6. \A f \in Frames : f.n \in Nat /\ f.full \in BOOLEAN /\ f.flags \in FlagStates
                        /\ f.cards \in [Cards -> Same..MaxOps]
  BY DEF Frames
<1>. QED BY <1>1, <1>2, <1>3, <1>4, <1>5, <1>6

\* What is pending are frames.
LEMMA PendingFrames ==
  ASSUME BroadcastTypeOK
  PROVE  Pending \subseteq Frames
BY DEF Pending, BroadcastTypeOK

\* A change gives the card a number that no change has had.
LEMMA ChangeTypes ==
  ASSUME BroadcastTypeOK, Counted
  PROVE  /\ ops' = ops + 1 /\ ops' \in 0..MaxOps
         /\ \A i \in Cards : Change(i) => cards' \in CardStates
<1>1. ops' = ops + 1 /\ ops' \in 0..MaxOps
  BY Parts DEF Counted, BroadcastTypeOK
<1>2. ASSUME NEW i \in Cards, Change(i) PROVE cards' \in CardStates
  <2>1. ops + 1 \in NoCard..MaxOps
    BY <1>1 DEF NoCard
  <2>2. cards \in [Cards -> NoCard..MaxOps] /\ cards' = [cards EXCEPT ![i] = ops + 1]
    BY <1>2 DEF Change, CardStates, BroadcastTypeOK
  <2>. QED BY <2>1, <2>2 DEF CardStates
<1>. QED BY <1>1, <1>2

\* Each step keeps the types: numbers are drawn from seq, and what is sent, fetched and
\* applied are states of the cards.
LEMMA BroadcastTypesKept ==
  ASSUME BroadcastTypeOK, Framed, [BroadcastNext]_broadcastVars
  PROVE  BroadcastTypeOK'
<1> USE Parts
<1> DEFINE Stages == {"idle", "due", "drawn", "read", "sends"}
<1>1. CASE Stream
  <2>1. PICK i \in Cards : Change(i)
    BY <1>1 DEF Stream
  <2>2. cards' \in CardStates /\ ops' \in 0..MaxOps
    BY <1>1, <2>1, ChangeTypes DEF Stream
  <2>. QED BY <1>1, <2>2 DEF Stream, senders, pages, BroadcastTypeOK
<1>2. CASE MergeQuietly
  <2>1. PICK i \in Cards : Change(i)
    BY <1>2 DEF MergeQuietly
  <2>2. cards' \in CardStates /\ ops' \in 0..MaxOps
    BY <1>2, <2>1, ChangeTypes DEF MergeQuietly
  <2>. QED BY <1>2, <2>2 DEF MergeQuietly, broadcaster, senders, pages, BroadcastTypeOK
<1>3. ASSUME NEW h \in Handlers, Handle(h) PROVE BroadcastTypeOK'
  <2>1. ops' \in 0..MaxOps /\ h \in Senders
    BY <1>3 DEF Handle, Counted, Senders, BroadcastTypeOK
  <2>2. at' \in [Senders -> Stages]
    BY <1>3, <2>1 DEF Handle, BroadcastTypeOK
  <2>3. cards' \in CardStates /\ flags' \in FlagStates /\ unlisted' \subseteq Cards
    <3>1. CASE \E i \in Cards : Change(i) /\ UNCHANGED <<flags, unlisted>>
      BY <1>3, <3>1, ChangeTypes DEF Handle, BroadcastTypeOK
    <3>2. CASE \E i \in Cards : RemoveCard(i) /\ UNCHANGED flags
      BY <3>2 DEF RemoveCard, CardStates, NoCard, BroadcastTypeOK
    <3>3. CASE (Start \/ Finish \/ OpenTab \/ CloseTab) /\ UNCHANGED <<cards, unlisted>>
      BY <3>3 DEF Start, Finish, OpenTab, CloseTab, FlagStates, BroadcastTypeOK
    <3>4. CASE UNCHANGED <<store, unlisted>>
      BY <3>4 DEF store, BroadcastTypeOK
    <3>. QED BY <1>3, <3>1, <3>2, <3>3, <3>4 DEF Handle
  <2>. QED BY <1>3, <2>1, <2>2, <2>3 DEF Handle, broadcaster, pages, BroadcastTypeOK
<1>4. ASSUME NEW s \in Senders, Draw(s) PROVE BroadcastTypeOK'
  <2>1. at' \in [Senders -> Stages]
    BY <1>4 DEF Draw, Goes, BroadcastTypeOK
  <2>2. seq' \in Nat /\ lastSent' \in 0..seq' /\ viewSeq' \in 0..seq'
    BY <1>4 DEF Draw, pages, BroadcastTypeOK
  <2>3. num' \in [Senders -> 0..seq']
    BY <1>4 DEF Draw, BroadcastTypeOK
  <2>. QED BY <1>4, <2>1, <2>2, <2>3 DEF Draw, store, pages, BroadcastTypeOK
<1>5. ASSUME NEW s \in Senders, ReadStore(s) PROVE BroadcastTypeOK'
  <2> DEFINE c == IF patch THEN Diff(versions) ELSE Projected
             f == [n |-> num[s], full |-> ~patch, flags |-> flags, cards |-> c]
  <2>1. at' \in [Senders -> Stages]
    BY <1>5 DEF ReadStore, Goes, BroadcastTypeOK
  <2>2. num[s] \in Nat
    BY DEF BroadcastTypeOK
  <2>3. f \in Frames
    <3>1. c \in [Cards -> Same..MaxOps]
      OBVIOUS
    <3>. HIDE DEF c
    <3>. QED BY <2>2, <3>1 DEF Frames, BroadcastTypeOK
  <2>4. frame' \in [Senders -> Frames]
    <3>1. frame' = [frame EXCEPT ![s] = f]
      BY <1>5 DEF ReadStore
    <3>. HIDE DEF f
    <3>. QED BY <2>3, <3>1 DEF BroadcastTypeOK
  <2>5. versions' \in CardStates /\ crossed' \in BOOLEAN
    BY <1>5 DEF ReadStore, Overtakes, BroadcastTypeOK
  <2>. HIDE DEF f, c
  <2>. QED BY <1>5, <2>1, <2>4, <2>5 DEF ReadStore, store, pages, BroadcastTypeOK
<1>6. ASSUME NEW s \in Senders, Publish(s) PROVE BroadcastTypeOK'
  <2>1. at' \in [Senders -> Stages]
    BY <1>6 DEF Publish, Goes, BroadcastTypeOK
  <2>2. lastSent' \in 0..seq' /\ crossed' \in BOOLEAN
    BY <1>6 DEF Publish, Overtakes, BroadcastTypeOK
  <2>. QED BY <1>6, <2>1, <2>2 DEF Publish, store, pages, BroadcastTypeOK
<1>7. ASSUME NEW s \in Senders, Send(s) PROVE BroadcastTypeOK'
  <2>1. at' \in [Senders -> Stages]
    BY <1>7 DEF Send, Goes, BroadcastTypeOK
  <2>2. num' \in [Senders -> 0..seq'] /\ seq' \in Nat /\ lastSent' \in 0..seq'
    BY <1>7 DEF Send, broadcaster, BroadcastTypeOK
  <2>3. frame' \in [Senders -> Frames] /\ crossed' \in BOOLEAN
    BY <1>7 DEF Send, Overtakes, BroadcastTypeOK
  <2>4. queue' \in Seq(Frames)
    BY <1>7 DEF Send, BroadcastTypeOK
  <2>. QED BY <1>7, <2>1, <2>2, <2>3, <2>4 DEF Send, store, broadcaster, pages, BroadcastTypeOK
<1>8. CASE Register
  BY <1>8 DEF Register, store, broadcaster, senders, pages, BroadcastTypeOK
<1>9. CASE Seed
  <2>1. Full(lastSent) \in Frames
    BY DEF Full, Frames, BroadcastTypeOK
  <2>2. queue' \in Seq(Frames)
    BY <1>9, <2>1 DEF Seed, LastSentSeq, BroadcastTypeOK
  <2>. QED BY <1>9, <2>2 DEF Seed, store, broadcaster, senders, pages, BroadcastTypeOK
<1>10. ASSUME NEW h \in Handlers, Initialize(h) PROVE BroadcastTypeOK'
  <2>1. at' \in [Senders -> Stages]
    BY <1>10 DEF Initialize, Goes, Senders, BroadcastTypeOK
  <2>. QED BY <1>10, <2>1 DEF Initialize, store, pages, BroadcastTypeOK
<1>11. CASE SnapshotNumber
  BY <1>11 DEF SnapshotNumber, LastSentSeq, store, broadcaster, senders, BroadcastTypeOK
<1>12. CASE Snapshot
  <2>1. CASE viewSeq' = 0 /\ UNCHANGED <<view, shown, owes>>
    BY <1>12, <2>1 DEF Snapshot, store, broadcaster, senders, BroadcastTypeOK
  <2>2. CASE ApplySnapshot(Full(viewSeq))
    <3>1. view' \in CardStates /\ viewSeq' = viewSeq /\ shown' = flags /\ owes' = owes
      BY <2>2 DEF ApplySnapshot, Full, BroadcastTypeOK
    <3>. QED BY <1>12, <3>1 DEF Snapshot, store, broadcaster, senders, BroadcastTypeOK
  <2>. QED BY <1>12, <2>1, <2>2 DEF Snapshot
<1>13. CASE FirstFetch
  BY <1>13 DEF FirstFetch, FetchCards, store, broadcaster, senders, BroadcastTypeOK
<1>14. CASE TakeFrame
  <2> DEFINE f == Head(queue)
  <2>1. f \in Frames /\ queue' \in Seq(Frames)
    BY <1>14 DEF TakeFrame, BroadcastTypeOK
  <2>2. f \in Pending
    <3>1. 1 \in DOMAIN queue /\ f = queue[1]
      BY <1>14 DEF TakeFrame, BroadcastTypeOK
    <3>. QED BY <3>1 DEF Pending
  <2>3. f.n \in 0..seq /\ (f.full => f.cards \in CardStates)
    BY <2>2 DEF Framed
  <2>4. Apply(f)
    BY <1>14 DEF TakeFrame
  <2>. HIDE DEF f
  <2>5. /\ view' \in CardStates /\ shown' \in FlagStates /\ viewSeq' \in 0..seq
        /\ owes' \subseteq {"now", "later"}
    <3>1. CASE UNCHANGED <<view, shown, viewSeq, owes>>
      BY <3>1 DEF BroadcastTypeOK
    <3>2. CASE f.full /\ ApplySnapshot(f)
      BY <2>1, <2>3, <3>2 DEF ApplySnapshot, BroadcastTypeOK
    <3>3. CASE ApplyPatch(f)
      <4>1. view' \in CardStates
        <5>1. \A i \in Cards : f.cards[i] \in Same..MaxOps /\ view[i] \in NoCard..MaxOps
          BY <2>1 DEF CardStates, BroadcastTypeOK
        <5>2. \A i \in Cards : f.cards[i] # Same => f.cards[i] \in NoCard..MaxOps
          BY <5>1 DEF Same, NoCard
        <5>3. CASE ~Projects(f.flags)
          BY <3>3, <5>3 DEF ApplyPatch, BroadcastTypeOK
        <5>4. CASE Projects(f.flags)
          <6>1. view' = [i \in Cards |-> IF f.cards[i] = Same THEN view[i] ELSE f.cards[i]]
            BY <3>3, <5>4 DEF ApplyPatch
          <6>. QED BY <5>1, <5>2, <6>1 DEF CardStates
        <5>. QED BY <5>3, <5>4
      <4>. QED BY <2>1, <2>3, <3>3, <4>1 DEF ApplyPatch, BroadcastTypeOK
    <3>. QED BY <2>4, <3>1, <3>2, <3>3 DEF Apply
  <2>. QED BY <1>14, <2>1, <2>5 DEF TakeFrame, store, broadcaster, senders, BroadcastTypeOK
<1>15. CASE Resync
  BY <1>15 DEF Resync, store, broadcaster, senders, BroadcastTypeOK
<1>16. CASE UNCHANGED broadcastVars
  BY <1>16 DEF broadcastVars, store, broadcaster, senders, pages, BroadcastTypeOK
<1>. QED BY <1>1, <1>2, <1>3, <1>4, <1>5, <1>6, <1>7, <1>8, <1>9, <1>10, <1>11, <1>12, <1>13,
        <1>14, <1>15, <1>16 DEF BroadcastNext, Changes, Tasks, Connect, Page, Broadcasting

\* A broadcast adds a frame when it reads the store, a seed one more, the page takes the
\* first, and what is sent to nobody is gone.  The other steps:
Standing ==
    \/ Stream \/ MergeQuietly \/ \E h \in Handlers : Handle(h)
    \/ \E s \in Senders : Draw(s) \/ Publish(s)
    \/ Register \/ \E h \in Handlers : Initialize(h)
    \/ SnapshotNumber \/ Snapshot \/ FirstFetch \/ Resync \/ UNCHANGED broadcastVars

\* The steps of Standing leave the frames on their way alone.
LEMMA PendingStands ==
  ASSUME BroadcastTypeOK, Standing
  PROVE  Pending' = Pending /\ queue' = queue
<1>1. queue' = queue /\ frame' = frame
  BY DEF Standing, Stream, MergeQuietly, Handle, Draw, Publish, Register, Initialize,
     SnapshotNumber, Snapshot, FirstFetch, Resync, broadcastVars, senders
<1>2. \A t \in Senders : Computed(t)' <=> Computed(t)
  <2>1. CASE at' = at
    BY <2>1 DEF Computed
  <2>2. ASSUME NEW h \in Handlers, at[h] = "idle", at' = [at EXCEPT ![h] = "due"]
        PROVE  \A t \in Senders : Computed(t)' <=> Computed(t)
    BY <2>2 DEF Computed, Senders, BroadcastTypeOK
  <2>3. ASSUME NEW s \in Senders, Draw(s) PROVE \A t \in Senders : Computed(t)' <=> Computed(t)
    BY <2>3 DEF Draw, Goes, Computed, BroadcastTypeOK
  <2>4. ASSUME NEW s \in Senders, Publish(s) PROVE \A t \in Senders : Computed(t)' <=> Computed(t)
    BY <2>4 DEF Publish, Goes, Computed, BroadcastTypeOK
  <2>5. ASSUME NEW h \in Handlers, Handle(h) \/ Initialize(h)
        PROVE  at[h] = "idle" /\ at' = [at EXCEPT ![h] = "due"]
    BY <2>5 DEF Handle, Initialize, Goes
  <2>6. CASE Stream \/ MergeQuietly \/ Register \/ SnapshotNumber \/ Snapshot \/ FirstFetch
             \/ Resync \/ UNCHANGED broadcastVars
    BY <2>1, <2>6 DEF Stream, MergeQuietly, Register, SnapshotNumber, Snapshot, FirstFetch,
       Resync, broadcastVars, senders
  <2>. QED BY <2>2, <2>3, <2>4, <2>5, <2>6 DEF Standing
<1>. QED BY <1>1, <1>2 DEF Pending

\* Reading the store adds the frame of who reads.
LEMMA PendingRead ==
  ASSUME BroadcastTypeOK, NEW s \in Senders, ReadStore(s)
  PROVE  Pending' = Pending \cup {frame'[s]} /\ queue' = queue
<1>1. at' = [at EXCEPT ![s] = "read"] /\ at[s] = "drawn" /\ queue' = queue
  BY DEF ReadStore, Goes
<1>2. \A t \in Senders : t # s => frame'[t] = frame[t] /\ at'[t] = at[t]
  BY <1>1 DEF ReadStore, BroadcastTypeOK
<1>3. at'[s] = "read"
  BY <1>1 DEF BroadcastTypeOK
<1>. QED BY <1>1, <1>2, <1>3 DEF Pending, Computed

\* A frame that is sent stays on its way, in the queue, unless nobody has subscribed.
LEMMA PendingSent ==
  ASSUME BroadcastTypeOK, NEW s \in Senders, Send(s)
  PROVE  /\ frame[s] \in Pending /\ at[s] = "sends" /\ at'[s] = "idle"
         /\ \A t \in Senders : t # s =>
               frame'[t] = frame[t] /\ at'[t] = at[t] /\ num'[t] = num[t]
         /\ link = "none" => /\ Pending' \subseteq Pending /\ queue' = queue
                             /\ Pending \subseteq Pending' \cup {frame[s]}
         /\ link # "none" => /\ Pending' = Pending
                             /\ queue \in Seq(Frames) /\ frame[s] \in Frames
                             /\ queue' = Append(queue, frame[s])
<1>1. at' = [at EXCEPT ![s] = "idle"] /\ at[s] = "sends"
  BY DEF Send, Goes
<1>2. \A t \in Senders : t # s => frame'[t] = frame[t] /\ at'[t] = at[t] /\ num'[t] = num[t]
  BY <1>1 DEF Send, BroadcastTypeOK
<1>3. at'[s] = "idle"
  BY <1>1 DEF BroadcastTypeOK
<1>4. frame[s] \in Pending
  BY <1>1 DEF Pending, Computed
<1>5. ASSUME link = "none"
      PROVE  /\ Pending' \subseteq Pending /\ queue' = queue
             /\ Pending \subseteq Pending' \cup {frame[s]}
  <2>1. queue' = queue
    BY <1>5 DEF Send
  <2>. QED BY <1>1, <1>2, <1>3, <2>1 DEF Pending, Computed
<1>6. ASSUME link # "none"
      PROVE  /\ Pending' = Pending
             /\ queue \in Seq(Frames) /\ frame[s] \in Frames
             /\ queue' = Append(queue, frame[s])
  <2>1. queue' = Append(queue, frame[s]) /\ queue \in Seq(Frames) /\ frame[s] \in Frames
    BY <1>6 DEF Send, BroadcastTypeOK
  <2>2. {queue'[k] : k \in DOMAIN queue'} = {queue[k] : k \in DOMAIN queue} \cup {frame[s]}
    <3>1. /\ DOMAIN queue = 1..Len(queue) /\ DOMAIN queue' = 1..Len(queue) + 1
          /\ Len(queue) \in Nat
          /\ \A k \in 1..Len(queue) : queue'[k] = queue[k]
          /\ queue'[Len(queue) + 1] = frame[s]
      BY <2>1
    <3>2. \A k \in 1..Len(queue) + 1 : k \in 1..Len(queue) \/ k = Len(queue) + 1
      BY <3>1
    <3>3. \A k \in 1..Len(queue) : k \in 1..Len(queue) + 1
      BY <3>1
    <3>4. Len(queue) + 1 \in 1..Len(queue) + 1
      BY <3>1
    <3>. QED BY <3>1, <3>2, <3>3, <3>4
  <2>. QED BY <1>1, <1>2, <1>3, <2>1, <2>2 DEF Pending, Computed
<1>. QED BY <1>1, <1>2, <1>3, <1>4, <1>5, <1>6

\* The seed of a subscription adds one full frame to the queue.
LEMMA PendingSeeded ==
  ASSUME BroadcastTypeOK, Seed
  PROVE  /\ Pending' = Pending \cup {Full(lastSent)} /\ queue \in Seq(Frames)
         /\ Full(lastSent) \in Frames /\ queue' = Append(queue, Full(lastSent))
<1> DEFINE f == Full(lastSent)
<1>1. f \in Frames
  BY Parts DEF Full, Frames, BroadcastTypeOK
<1>2. queue' = Append(queue, f) /\ queue \in Seq(Frames) /\ at' = at /\ frame' = frame
  BY DEF Seed, LastSentSeq, senders, BroadcastTypeOK
<1>. HIDE DEF f
<1>3. {queue'[k] : k \in DOMAIN queue'} = {queue[k] : k \in DOMAIN queue} \cup {f}
  <2>1. /\ DOMAIN queue = 1..Len(queue) /\ DOMAIN queue' = 1..Len(queue) + 1
        /\ Len(queue) \in Nat
        /\ \A k \in 1..Len(queue) : queue'[k] = queue[k]
        /\ queue'[Len(queue) + 1] = f
    BY <1>1, <1>2
  <2>2. \A k \in 1..Len(queue) + 1 : k \in 1..Len(queue) \/ k = Len(queue) + 1
    BY <2>1
  <2>3. \A k \in 1..Len(queue) : k \in 1..Len(queue) + 1
    BY <2>1
  <2>4. Len(queue) + 1 \in 1..Len(queue) + 1
    BY <2>1
  <2>. QED BY <2>1, <2>2, <2>3, <2>4
<1>4. Pending' = Pending \cup {f}
  BY <1>2, <1>3 DEF Pending, Computed
<1>. QED BY <1>1, <1>2, <1>4 DEF f

\* The page takes the first frame of the queue, and the others move up.
LEMMA PendingTaken ==
  ASSUME BroadcastTypeOK, TakeFrame
  PROVE  /\ Head(queue) \in Pending /\ Head(queue) = queue[1] /\ 1 \in DOMAIN queue
         /\ Head(queue) \in Frames
         /\ Pending' \subseteq Pending /\ Pending \subseteq Pending' \cup {Head(queue)}
         /\ DOMAIN queue = 1..Len(queue) /\ DOMAIN queue' = 1..Len(queue) - 1
         /\ Len(queue) \in Nat
         /\ \A k \in 1..Len(queue) - 1 : queue'[k] = queue[k + 1] /\ k + 1 \in DOMAIN queue
<1>1. queue \in Seq(Frames) /\ queue # <<>> /\ queue' = Tail(queue) /\ at' = at /\ frame' = frame
  BY DEF TakeFrame, senders, BroadcastTypeOK
<1>2. /\ Head(queue) = queue[1] /\ 1 \in DOMAIN queue /\ Len(queue) \in Nat
      /\ DOMAIN queue = 1..Len(queue) /\ DOMAIN queue' = 1..Len(queue) - 1
      /\ Head(queue) \in Frames
  BY <1>1
<1>3. \A k \in 1..Len(queue) - 1 : queue'[k] = queue[k + 1] /\ k + 1 \in DOMAIN queue
  BY <1>1
<1>4. Head(queue) \in Pending
  BY <1>2 DEF Pending
<1>5. \A k \in DOMAIN queue : k = 1 \/ (k - 1 \in DOMAIN queue' /\ queue'[k - 1] = queue[k])
  BY <1>1
<1>6. {queue'[k] : k \in DOMAIN queue'} \subseteq {queue[k] : k \in DOMAIN queue}
  BY <1>2, <1>3
<1>7. {queue[k] : k \in DOMAIN queue} \subseteq {queue'[k] : k \in DOMAIN queue'} \cup {Head(queue)}
  BY <1>2, <1>5
<1>8. Pending' \subseteq Pending /\ Pending \subseteq Pending' \cup {Head(queue)}
  BY <1>1, <1>6, <1>7 DEF Pending, Computed
<1>. QED BY <1>2, <1>3, <1>4, <1>8

\* Every step is one of a broadcast, or leaves numbers and frames alone.
Aside == Changes \/ Connect \/ Page \/ UNCHANGED broadcastVars

\* Steps that are not of a broadcast leave numbers and frames alone.
LEMMA SendersAside ==
  ASSUME BroadcastTypeOK, Aside
  PROVE  /\ num' = num /\ frame' = frame /\ seq' = seq /\ lastSent' = lastSent
         /\ versions' = versions /\ crossed' = crossed
         /\ \A t \in Senders : at'[t] = at[t] \/ (at[t] = "idle" /\ at'[t] = "due")
<1>1. /\ num' = num /\ frame' = frame /\ seq' = seq /\ lastSent' = lastSent
      /\ versions' = versions /\ crossed' = crossed
  BY DEF Aside, Changes, Connect, Page, Stream, MergeQuietly, Handle, Register, Seed, Initialize,
     SnapshotNumber, Snapshot, FirstFetch, TakeFrame, Resync, broadcastVars, senders, broadcaster
<1>2. ASSUME NEW h \in Handlers, at[h] = "idle", at' = [at EXCEPT ![h] = "due"]
      PROVE  \A t \in Senders : at'[t] = at[t] \/ (at[t] = "idle" /\ at'[t] = "due")
  BY <1>2 DEF BroadcastTypeOK
<1>3. ASSUME NEW h \in Handlers, Handle(h) \/ Initialize(h)
      PROVE  at[h] = "idle" /\ at' = [at EXCEPT ![h] = "due"]
  BY <1>3 DEF Handle, Initialize, Goes
<1>4. ASSUME Stream \/ MergeQuietly \/ Register \/ Seed \/ Page \/ UNCHANGED broadcastVars
      PROVE  at' = at
  BY <1>4 DEF Page, Stream, MergeQuietly, Register, Seed, SnapshotNumber, Snapshot, FirstFetch,
     TakeFrame, Resync, broadcastVars, senders
<1>. QED BY <1>1, <1>2, <1>3, <1>4 DEF Aside, Changes, Connect

\* A step is one of a broadcast or not.
LEMMA EitherAside ==
  ASSUME [BroadcastNext]_broadcastVars
  PROVE  Aside \/ \E s \in Senders : Broadcasting(s)
BY DEF BroadcastNext, Tasks, Aside

\* What a step of a broadcast does to the senders.
LEMMA SenderSteps ==
  ASSUME BroadcastTypeOK, NEW s \in Senders
  PROVE  /\ num[s] \in Nat
         /\ Draw(s) => /\ at[s] \in {"idle", "due"} /\ at'[s] = "drawn" /\ num'[s] = seq + 1
                       /\ seq' = seq + 1 /\ frame' = frame /\ lastSent' = lastSent
         /\ ReadStore(s) => /\ at[s] = "drawn" /\ at'[s] = "read" /\ frame'[s].n = num[s]
                            /\ num' = num /\ seq' = seq /\ lastSent' = lastSent
         /\ Publish(s) => /\ at[s] = "read" /\ at'[s] = "sends" /\ frame' = frame
                          /\ num' = num /\ seq' = seq /\ lastSent' = num[s]
         /\ Send(s) => at[s] = "sends" /\ at'[s] = "idle" /\ seq' = seq /\ lastSent' = lastSent
         /\ Broadcasting(s) => \A t \in Senders : t # s =>
               at'[t] = at[t] /\ num'[t] = num[t] /\ frame'[t] = frame[t]
<1>1. num[s] \in Nat
  BY DEF BroadcastTypeOK
<1>2. Draw(s) => /\ at[s] \in {"idle", "due"} /\ at'[s] = "drawn" /\ num'[s] = seq + 1
                 /\ seq' = seq + 1 /\ frame' = frame /\ lastSent' = lastSent
  BY DEF Draw, Goes, BroadcastTypeOK
<1>3. ReadStore(s) => /\ at[s] = "drawn" /\ at'[s] = "read" /\ frame'[s].n = num[s]
                      /\ num' = num /\ seq' = seq /\ lastSent' = lastSent
  BY DEF ReadStore, Goes, BroadcastTypeOK
<1>4. Publish(s) => /\ at[s] = "read" /\ at'[s] = "sends" /\ frame' = frame
                    /\ num' = num /\ seq' = seq /\ lastSent' = num[s]
  BY DEF Publish, Goes, BroadcastTypeOK
<1>5. Send(s) => at[s] = "sends" /\ at'[s] = "idle" /\ seq' = seq /\ lastSent' = lastSent
  BY DEF Send, Goes, broadcaster, BroadcastTypeOK
<1>6. Broadcasting(s) => \A t \in Senders : t # s =>
         at'[t] = at[t] /\ num'[t] = num[t] /\ frame'[t] = frame[t]
  BY DEF Broadcasting, Draw, ReadStore, Publish, Send, Goes, BroadcastTypeOK
<1>. QED BY <1>1, <1>2, <1>3, <1>4, <1>5, <1>6

\* Numbers, frames and the page's first steps.
LEMMA FramedKept ==
  ASSUME BroadcastTypeOK, Framed, [BroadcastNext]_broadcastVars
  PROVE  Framed'
<1> USE Parts
<1>0. BroadcastTypeOK'
  BY BroadcastTypesKept
<1>1. seq \in Nat /\ seq' \in Nat /\ seq' >= seq
  <2>1. CASE Aside
    BY <2>1, SendersAside
  <2>2. ASSUME NEW s \in Senders, Broadcasting(s) PROVE seq' \in Nat /\ seq' >= seq
    BY <2>2, SenderSteps DEF Broadcasting
  <2>. QED BY <2>1, <2>2, EitherAside
<1>2. \A s \in Senders : Active(s)' => num'[s] \in 1..seq'
  <2>1. CASE Aside
    BY <2>1, SendersAside DEF Active, Framed
  <2>2. ASSUME NEW s \in Senders, Broadcasting(s), NEW t \in Senders, Active(t)'
        PROVE  num'[t] \in 1..seq'
    <3>1. CASE t # s
      <4>1. Active(t) /\ num'[t] = num[t]
        BY <2>2, <3>1, SenderSteps DEF Active
      <4>. QED BY <1>1, <4>1 DEF Framed
    <3>2. CASE t = s
      BY <1>1, <2>2, <3>2, SenderSteps DEF Broadcasting, Active, Framed
    <3>. QED BY <3>1, <3>2
  <2>. QED BY <2>1, <2>2, EitherAside
<1>3. \A s \in Senders : Computed(s)' => frame'[s].n = num'[s]
  <2>1. CASE Aside
    BY <2>1, SendersAside DEF Computed, Framed
  <2>2. ASSUME NEW s \in Senders, Broadcasting(s), NEW t \in Senders, Computed(t)'
        PROVE  frame'[t].n = num'[t]
    <3>1. CASE t # s
      BY <2>2, <3>1, SenderSteps DEF Computed, Framed
    <3>2. CASE t = s
      BY <2>2, <3>2, SenderSteps DEF Broadcasting, Computed, Framed
    <3>. QED BY <3>1, <3>2
  <2>. QED BY <2>1, <2>2, EitherAside
<1>4. \A s, t \in Senders : Active(s)' /\ Active(t)' /\ num'[s] = num'[t] => s = t
  <2>1. CASE Aside
    BY <2>1, SendersAside DEF Active, Framed
  <2>2. ASSUME NEW s \in Senders, Broadcasting(s)
        PROVE  \A r, t \in Senders : Active(r)' /\ Active(t)' /\ num'[r] = num'[t] => r = t
    <3>1. \A t \in Senders : t # s /\ Active(t)' => Active(t) /\ num'[t] = num[t] /\ num[t] <= seq
      BY <2>2, SenderSteps DEF Active, Framed
    <3>2. Active(s)' => num'[s] = seq + 1 \/ (Active(s) /\ num'[s] = num[s])
      BY <2>2, SenderSteps DEF Broadcasting, Active
    <3>3. \A t \in Senders : t # s /\ Active(t)' => num[t] \in Nat /\ num[t] # seq + 1
      BY <3>1 DEF Framed
    <3>. QED BY <3>1, <3>2, <3>3 DEF Framed
  <2>. QED BY <2>1, <2>2, EitherAside
<1>5. \A i \in Cards : cards'[i] <= ops' /\ versions'[i] <= ops'
  <2>1. \A i \in Cards : cards[i] <= ops /\ versions[i] <= ops /\ 0 <= ops
                         /\ cards[i] \in Nat /\ versions[i] \in Nat
    BY DEF Framed, CardStates, NoCard, BroadcastTypeOK
  <2>2. ASSUME Counted, NEW i \in Cards, Change(i), versions' = versions
        PROVE  \A j \in Cards : cards'[j] <= ops' /\ versions'[j] <= ops'
    <3>1. ops' = ops + 1 /\ cards' = [cards EXCEPT ![i] = ops + 1]
      BY <2>2, ChangeTypes DEF Change
    <3>2. \A j \in Cards : cards'[j] = cards[j] \/ cards'[j] = ops + 1
      BY <3>1 DEF CardStates, BroadcastTypeOK
    <3>. QED BY <2>1, <2>2, <3>1, <3>2
  <2>3. ASSUME ops' = ops \/ ops' = ops + 1, cards' = cards, versions' = versions
        PROVE  \A j \in Cards : cards'[j] <= ops' /\ versions'[j] <= ops'
    BY <2>1, <2>3
  <2>4. ASSUME NEW h \in Handlers, Handle(h)
        PROVE  \A j \in Cards : cards'[j] <= ops' /\ versions'[j] <= ops'
    <3>1. versions' = versions /\ ops' = ops + 1 /\ Counted
      BY <2>4, ChangeTypes DEF Handle, broadcaster
    <3>2. ASSUME NEW i \in Cards, RemoveCard(i)
          PROVE  \A j \in Cards : cards'[j] <= ops' /\ versions'[j] <= ops'
      <4>1. \A j \in Cards : cards'[j] = cards[j] \/ cards'[j] = 0
        BY <3>2 DEF RemoveCard, NoCard, CardStates, BroadcastTypeOK
      <4>. QED BY <2>1, <3>1, <4>1
    <3>. QED BY <2>2, <2>3, <2>4, <3>1, <3>2 DEF Handle, store
  <2>5. ASSUME NEW s \in Senders, Broadcasting(s)
        PROVE  \A j \in Cards : cards'[j] <= ops' /\ versions'[j] <= ops'
    <3>1. cards' = cards /\ ops' = ops
      BY <2>5 DEF Broadcasting, Draw, ReadStore, Publish, Send, store
    <3>2. \A j \in Cards : versions'[j] = versions[j] \/ versions'[j] = cards[j] \/ versions'[j] = 0
      BY <2>5 DEF Broadcasting, Draw, ReadStore, Publish, Send, broadcaster, Projected, NoCards, NoCard
    <3>. QED BY <2>1, <3>1, <3>2
  <2>6. CASE Stream \/ MergeQuietly
    BY <2>2, <2>6 DEF Stream, MergeQuietly, broadcaster
  <2>7. CASE Connect \/ Page \/ UNCHANGED broadcastVars
    <3>1. ops' = ops /\ cards' = cards /\ versions' = versions
      BY <2>7 DEF Connect, Page, Register, Seed, Initialize, SnapshotNumber, Snapshot, FirstFetch,
         TakeFrame, Resync, broadcastVars, store, broadcaster
    <3>. QED BY <2>3, <3>1
  <2>. QED BY <2>4, <2>5, <2>6, <2>7 DEF BroadcastNext, Changes, Tasks
<1>6. /\ link' = "up" => patch'
      /\ link' = "none" => queue' = <<>>
      /\ page' \in {"starts", "numbered"} => shown' = Hidden /\ owes' = {}
  <2>1. link' = "up" => patch'
    BY DEF Framed, BroadcastNext, Changes, Tasks, Connect, Page, Broadcasting, Stream, MergeQuietly,
       Handle, Draw, ReadStore, Publish, Send, Register, Seed, Initialize, SnapshotNumber, Snapshot,
       FirstFetch, TakeFrame, Resync, broadcastVars, broadcaster
  <2>2. link' = "none" => queue' = <<>>
    BY DEF Framed, BroadcastNext, Changes, Tasks, Connect, Page, Broadcasting, Stream, MergeQuietly,
       Handle, Draw, ReadStore, Publish, Send, Register, Seed, Initialize, SnapshotNumber, Snapshot,
       FirstFetch, TakeFrame, Resync, broadcastVars
  <2>3. page' \in {"starts", "numbered"} => shown' = Hidden /\ owes' = {}
    BY DEF Framed, BroadcastNext, Changes, Tasks, Connect, Page, Broadcasting, Stream, MergeQuietly,
       Handle, Draw, ReadStore, Publish, Send, Register, Seed, Initialize, SnapshotNumber, Snapshot,
       FirstFetch, TakeFrame, Resync, broadcastVars, pages
  <2>. QED BY <2>1, <2>2, <2>3
<1>7. \A f \in Pending' : f.n \in 0..seq' /\ (f.full => f.cards \in CardStates)
  <2>1. \A f \in Pending : f.n \in 0..seq' /\ (f.full => f.cards \in CardStates)
    BY <1>1, PendingFrames DEF Framed
  <2>2. ASSUME NEW s \in Senders, ReadStore(s)
        PROVE  frame'[s].n \in 0..seq' /\ (frame'[s].full => frame'[s].cards \in CardStates)
    <3>1. frame'[s].full = ~patch /\ (~patch => frame'[s].cards = Projected)
      BY <2>2 DEF ReadStore, BroadcastTypeOK
    <3>2. frame'[s].n = num[s] /\ num[s] \in 0..seq' /\ patch \in BOOLEAN
      BY <2>2, SenderSteps DEF BroadcastTypeOK
    <3>. QED BY <3>1, <3>2
  <2>3. Full(lastSent).n \in 0..seq' /\ Full(lastSent).cards \in CardStates
    BY <1>1 DEF Full, BroadcastTypeOK
  <2>. QED BY <2>1, <2>2, <2>3, PendingStands, PendingRead, PendingSent, PendingSeeded,
       PendingTaken DEF BroadcastNext, Changes, Tasks, Connect, Page, Broadcasting, Standing
<1>. QED BY <1>2, <1>3, <1>4, <1>5, <1>6, <1>7 DEF Framed

\* A broadcast that goes on in order is the first of those that have not come so far.
LEMMA InTurn ==
  ASSUME BroadcastTypeOK, [BroadcastNext]_broadcastVars, ~crossed'
  PROVE  /\ ~crossed
         /\ \A s \in Senders : ReadStore(s) => ~Overtakes(s, {"drawn"})
         /\ \A s \in Senders : Publish(s) => ~Overtakes(s, {"drawn", "read"})
         /\ \A s \in Senders : Send(s) => ~Overtakes(s, {"drawn", "read", "sends"})
<1>1. \A s \in Senders : Broadcasting(s) => ~crossed
  BY DEF Broadcasting, Draw, ReadStore, Publish, Send
<1>2. Aside => ~crossed
  BY SendersAside
<1>3. /\ \A s \in Senders : ReadStore(s) => ~Overtakes(s, {"drawn"})
      /\ \A s \in Senders : Publish(s) => ~Overtakes(s, {"drawn", "read"})
      /\ \A s \in Senders : Send(s) => ~Overtakes(s, {"drawn", "read", "sends"})
  BY DEF ReadStore, Publish, Send
<1>. QED BY <1>1, <1>2, <1>3, EitherAside

\* What is in a queue after a frame was appended.
LEMMA Appended ==
  ASSUME NEW q \in Seq(Frames), NEW f \in Frames
  PROVE  /\ \A k \in DOMAIN Append(q, f) :
               Append(q, f)[k] = f \/ \E l \in DOMAIN q : Append(q, f)[k] = q[l]
         /\ \A l \in DOMAIN q : l \in DOMAIN Append(q, f) /\ Append(q, f)[l] = q[l]
<1> DEFINE m == Len(q)
           a == Append(q, f)
<1>1. /\ m \in Nat /\ DOMAIN q = 1..m /\ DOMAIN a = 1..m + 1
      /\ a[m + 1] = f /\ \A k \in 1..m : a[k] = q[k]
  OBVIOUS
<1>. HIDE DEF m, a
<1>2. \A k \in 1..m + 1 : k \in 1..m \/ k = m + 1
  BY <1>1
<1>3. \A k \in 1..m : k \in 1..m + 1
  BY <1>1
<1>4. \A k \in DOMAIN a : a[k] = f \/ \E l \in DOMAIN q : a[k] = q[l]
  BY <1>1, <1>2
<1>5. \A l \in DOMAIN q : l \in DOMAIN a /\ a[l] = q[l]
  BY <1>1, <1>3
<1>. QED BY <1>4, <1>5 DEF a

\* Steps in the order of the numbers keep stages, queue and what was published in that
\* order.
LEMMA SequencedKept ==
  ASSUME BroadcastTypeOK, Framed, Sequenced, [BroadcastNext]_broadcastVars, ~crossed'
  PROVE  Sequenced'
<1> USE Parts
<1> DEFINE Nums == \A t \in Senders : num[t] \in Nat
<1>0. BroadcastTypeOK' /\ Nums /\ Nums' /\ seq' \in Nat /\ lastSent' \in Nat /\ viewSeq' \in Nat
  BY BroadcastTypesKept DEF BroadcastTypeOK
<1>1. \A s, t \in Senders : Active(s)' /\ Active(t)' /\ num'[s] < num'[t] =>
         /\ at'[t] = "read" => at'[s] # "drawn"
         /\ at'[t] = "sends" => at'[s] = "sends"
  <2>1. CASE Aside
    BY <2>1, SendersAside DEF Active, Sequenced
  <2>2. ASSUME NEW r \in Senders, Broadcasting(r), NEW s \in Senders, NEW t \in Senders,
               Active(s)', Active(t)', num'[s] < num'[t]
        PROVE  /\ at'[t] = "read" => at'[s] # "drawn"
               /\ at'[t] = "sends" => at'[s] = "sends"
    <3>1. CASE s # r /\ t # r
      BY <2>2, <3>1, SenderSteps DEF Active, Sequenced
    <3>2. CASE s = r /\ t # r
      <4>1. at'[t] = at[t] /\ num'[t] = num[t] /\ Active(t)
        BY <2>2, <3>2, SenderSteps DEF Active
      <4>2. CASE Draw(s)
        <5>1. num'[s] = seq + 1 /\ num[t] <= seq
          BY <4>1, <4>2, SenderSteps DEF Framed
        <5>. QED BY <1>0, <2>2, <4>1, <5>1
      <4>3. CASE ReadStore(s) \/ Publish(s)
        <5>1. num'[s] = num[s] /\ Active(s) /\ at[s] \in {"drawn", "read"} /\ at'[s] # "drawn"
          BY <4>3, SenderSteps DEF Active
        <5>2. at[t] # "sends"
          BY <2>2, <4>1, <5>1 DEF Sequenced
        <5>. QED BY <4>1, <5>1, <5>2
      <4>4. CASE Send(s)
        BY <2>2, <4>4, SenderSteps DEF Active
      <4>. QED BY <2>2, <3>2, <4>2, <4>3, <4>4 DEF Broadcasting
    <3>3. CASE s # r /\ t = r
      <4>1. at'[s] = at[s] /\ num'[s] = num[s] /\ Active(s)
        BY <2>2, <3>3, SenderSteps DEF Active
      <4>2. CASE Draw(t)
        BY <4>2, SenderSteps
      <4>3. CASE ReadStore(t)
        <5>1. num'[t] = num[t] /\ at'[t] = "read" /\ ~Overtakes(t, {"drawn"})
          BY <4>3, SenderSteps, InTurn
        <5>. QED BY <2>2, <4>1, <5>1 DEF Overtakes
      <4>4. CASE Publish(t)
        <5>1. num'[t] = num[t] /\ at'[t] = "sends" /\ ~Overtakes(t, {"drawn", "read"})
          BY <4>4, SenderSteps, InTurn
        <5>. QED BY <2>2, <4>1, <5>1 DEF Overtakes, Active
      <4>5. CASE Send(t)
        BY <2>2, <4>5, SenderSteps DEF Active
      <4>. QED BY <2>2, <3>3, <4>2, <4>3, <4>4, <4>5 DEF Broadcasting
    <3>4. CASE s = r /\ t = r
      BY <1>0, <2>2, <3>4
    <3>. QED BY <3>1, <3>2, <3>3, <3>4
  <2>. QED BY <2>1, <2>2, EitherAside
<1>2. /\ lastSent' >= lastSent
      /\ \A s \in Senders : (at'[s] = "sends" => num'[s] <= lastSent')
                         /\ (at'[s] \in {"drawn", "read"} => num'[s] > lastSent')
  <2>1. CASE Aside
    BY <2>1, SendersAside DEF Sequenced
  <2>2. ASSUME NEW r \in Senders, Broadcasting(r), ~Publish(r)
        PROVE  /\ lastSent' >= lastSent
               /\ \A s \in Senders : (at'[s] = "sends" => num'[s] <= lastSent')
                                  /\ (at'[s] \in {"drawn", "read"} => num'[s] > lastSent')
    <3>1. lastSent' = lastSent /\ lastSent <= seq
      BY <2>2, SenderSteps DEF Broadcasting, BroadcastTypeOK
    <3>2. (at'[r] = "sends" => num'[r] <= lastSent')
          /\ (at'[r] \in {"drawn", "read"} => num'[r] > lastSent')
      <4>1. CASE Draw(r)
        <5>1. at'[r] = "drawn" /\ num'[r] = seq + 1
          BY <4>1, SenderSteps
        <5>. QED BY <3>1, <5>1
      <4>2. CASE ReadStore(r)
        BY <3>1, <4>2, SenderSteps DEF Sequenced
      <4>3. CASE Send(r)
        BY <4>3, SenderSteps
      <4>. QED BY <2>2, <4>1, <4>2, <4>3 DEF Broadcasting
    <3>3. \A s \in Senders : s # r => at'[s] = at[s] /\ num'[s] = num[s]
      BY <2>2, SenderSteps
    <3>. QED BY <3>1, <3>2, <3>3 DEF Sequenced
  <2>3. ASSUME NEW r \in Senders, Publish(r)
        PROVE  /\ lastSent' >= lastSent
               /\ \A s \in Senders : (at'[s] = "sends" => num'[s] <= lastSent')
                                  /\ (at'[s] \in {"drawn", "read"} => num'[s] > lastSent')
    <3>1. at[r] = "read" /\ at'[r] = "sends" /\ num' = num /\ lastSent' = num[r] /\ lastSent < num[r]
      BY <2>3, SenderSteps DEF Sequenced
    <3>2. \A s \in Senders : s # r => at'[s] = at[s]
      BY <2>3, SenderSteps DEF Broadcasting
    <3>3. ~Overtakes(r, {"drawn", "read"})
      BY <2>3, InTurn
    <3>4. ASSUME NEW s \in Senders, s # r, at[s] \in {"drawn", "read"} PROVE num[s] > num[r]
      <4>1. num[s] # num[r]
        BY <3>1, <3>4 DEF Active, Framed
      <4>2. ~(num[s] < num[r])
        BY <3>3, <3>4 DEF Overtakes
      <4>. QED BY <1>0, <4>1, <4>2
    <3>5. ASSUME NEW s \in Senders, at[s] = "sends" PROVE num[s] <= num[r]
      BY <1>0, <3>1, <3>5 DEF Sequenced
    <3>. QED BY <1>0, <3>1, <3>2, <3>4, <3>5
  <2>. QED BY <2>1, <2>2, <2>3, EitherAside
<1>3. lastSent' >= 1 /\ viewSeq' <= lastSent'
  <2>1. lastSent >= 1 /\ viewSeq <= lastSent
    BY DEF Sequenced
  <2>2. viewSeq' <= lastSent
    <3>1. CASE viewSeq' = viewSeq \/ viewSeq' = 0 \/ viewSeq' = lastSent
      BY <2>1, <3>1
    <3>2. CASE TakeFrame
      <4>1. Head(queue).n <= lastSent
        BY <3>2, PendingTaken DEF Sequenced
      <4>2. viewSeq' = viewSeq \/ viewSeq' = Head(queue).n
        BY <3>2 DEF TakeFrame, Apply, ApplySnapshot, ApplyPatch
      <4>. QED BY <2>1, <4>1, <4>2
    <3>3. viewSeq' = viewSeq \/ viewSeq' = 0 \/ viewSeq' = lastSent \/ TakeFrame
      BY DEF BroadcastNext, Changes, Tasks, Connect, Page, Broadcasting, Stream, MergeQuietly,
         Handle, Draw, ReadStore, Publish, Send, Register, Seed, Initialize, SnapshotNumber,
         Snapshot, ApplySnapshot, Full, FirstFetch, Resync, broadcastVars, pages, LastSentSeq
    <3>. QED BY <3>1, <3>2, <3>3
  <2>. QED BY <1>0, <1>2, <2>1, <2>2
<1> DEFINE Bounded(q, l) == \A k \in DOMAIN q : q[k].n <= l
           Sorted(q) == \A k, l \in DOMAIN q : k < l /\ ~q[k].full =>
                           q[k].n <= q[l].n /\ (~q[l].full => q[k].n < q[l].n)
<1>4. Bounded(queue, lastSent) /\ Sorted(queue) /\ \A k \in DOMAIN queue : queue[k].n \in Nat
  BY DEF Sequenced, BroadcastTypeOK
<1>5. ASSUME NEW f \in Frames, queue' = Append(queue, f), f.n <= lastSent, f.n \in Nat,
             \A k \in DOMAIN queue : ~queue[k].full =>
                queue[k].n <= f.n /\ (~f.full => queue[k].n < f.n)
      PROVE  Bounded(queue', lastSent) /\ Sorted(queue')
  <2> DEFINE m == Len(queue)
  <2>1. /\ m \in Nat /\ DOMAIN queue = 1..m /\ DOMAIN queue' = 1..m + 1
        /\ queue'[m + 1] = f /\ \A k \in 1..m : queue'[k] = queue[k]
    BY <1>5 DEF BroadcastTypeOK
  <2>. HIDE DEF m
  <2>2. \A k \in 1..m + 1 : k \in 1..m \/ k = m + 1
    BY <2>1
  <2>3. \A k, l \in 1..m + 1 : k < l => k \in 1..m
    BY <2>1
  <2>4. Bounded(queue', lastSent)
    BY <1>4, <1>5, <2>1, <2>2
  <2>5. Sorted(queue')
    BY <1>4, <1>5, <2>1, <2>2, <2>3
  <2>. QED BY <2>4, <2>5
<1>6. Bounded(queue', lastSent) /\ Sorted(queue')
  <2>1. CASE Seed
    <3> DEFINE f == Full(lastSent)
    <3>1. f \in Frames /\ f.n = lastSent /\ f.full
      BY <2>1, PendingSeeded DEF Full
    <3>2. queue' = Append(queue, f)
      BY <2>1, PendingSeeded
    <3>. HIDE DEF f
    <3>. QED BY <1>4, <1>5, <3>1, <3>2
  <2>2. ASSUME NEW s \in Senders, Send(s), link # "none"
        PROVE  Bounded(queue', lastSent) /\ Sorted(queue')
    <3>1. frame[s] \in Frames /\ queue' = Append(queue, frame[s]) /\ at[s] = "sends"
      BY <2>2, PendingSent
    <3>2. frame[s].n = num[s] /\ num[s] <= lastSent
      BY <3>1 DEF Sequenced, Framed, Computed
    <3>3. \A k \in DOMAIN queue : ~queue[k].full => queue[k].n < num[s]
      BY <3>1 DEF Sequenced, Active
    <3>4. /\ frame[s].n <= lastSent /\ frame[s].n \in Nat
          /\ \A k \in DOMAIN queue : ~queue[k].full =>
                queue[k].n <= frame[s].n /\ (~frame[s].full => queue[k].n < frame[s].n)
      BY <1>0, <1>4, <3>2, <3>3
    <3>. QED BY <1>5, <3>1, <3>4
  <2>3. CASE TakeFrame
    <3> DEFINE m == Len(queue)
    <3>1. /\ m \in Nat /\ DOMAIN queue = 1..m /\ DOMAIN queue' = 1..m - 1
          /\ \A k \in 1..m - 1 : queue'[k] = queue[k + 1] /\ k + 1 \in DOMAIN queue
      BY <2>3, PendingTaken
    <3>. HIDE DEF m
    <3>2. \A k, l \in 1..m - 1 : k < l => k + 1 < l + 1
      BY <3>1
    <3>. QED BY <1>4, <3>1, <3>2
  <2>4. CASE queue' = queue
    BY <1>4, <2>4
  <2>5. Seed \/ (\E s \in Senders : Send(s) /\ link # "none") \/ TakeFrame \/ queue' = queue
    BY DEF BroadcastNext, Changes, Tasks, Connect, Page, Broadcasting, Stream, MergeQuietly,
       Handle, Draw, ReadStore, Publish, Send, Register, Initialize, SnapshotNumber,
       Snapshot, FirstFetch, Resync, broadcastVars
  <2>. QED BY <2>1, <2>2, <2>3, <2>4, <2>5
<1>7. Bounded(queue', lastSent')
  <2>1. \A k \in DOMAIN queue' : queue'[k].n \in Nat
    BY <1>0 DEF BroadcastTypeOK
  <2>. QED BY <1>0, <1>2, <1>6, <2>1
<1>8. \A k \in DOMAIN queue', s \in Senders : ~queue'[k].full /\ Active(s)' => queue'[k].n < num'[s]
  <2>1. CASE Aside
    <3>1. \A k \in DOMAIN queue' : queue'[k].full \/ \E l \in DOMAIN queue : queue'[k] = queue[l]
      <4>1. CASE Seed
        <5> DEFINE f == Full(lastSent)
        <5>1. f \in Frames /\ f.full /\ queue \in Seq(Frames)
          BY <4>1, PendingSeeded DEF Full
        <5>2. queue' = Append(queue, f)
          BY <4>1, PendingSeeded
        <5>. HIDE DEF f
        <5>. QED BY <5>1, <5>2, Appended
      <4>2. CASE TakeFrame
        BY <4>2, PendingTaken
      <4>3. CASE queue' = queue
        BY <4>3
      <4>4. Seed \/ TakeFrame \/ queue' = queue
        BY <2>1 DEF Aside, Changes, Connect, Page, Stream, MergeQuietly, Handle, Register,
           Initialize, SnapshotNumber, Snapshot, FirstFetch, Resync, broadcastVars
      <4>. QED BY <4>1, <4>2, <4>3, <4>4
    <3>. QED BY <2>1, <3>1, SendersAside DEF Sequenced, Active
  <2>2. ASSUME NEW r \in Senders, Draw(r) \/ ReadStore(r) \/ Publish(r)
        PROVE  \A k \in DOMAIN queue', s \in Senders :
                  ~queue'[k].full /\ Active(s)' => queue'[k].n < num'[s]
    <3>1. queue' = queue
      BY <2>2 DEF Draw, ReadStore, Publish
    <3>2. \A s \in Senders : s # r => at'[s] = at[s] /\ num'[s] = num[s]
      BY <2>2, SenderSteps DEF Broadcasting
    <3>3. ASSUME NEW k \in DOMAIN queue, ~queue[k].full PROVE queue[k].n < num'[r]
      <4>1. CASE Draw(r)
        <5>1. num'[r] = seq + 1 /\ queue[k].n <= lastSent /\ lastSent <= seq /\ queue[k].n \in Nat
          BY <1>4, <4>1, SenderSteps DEF BroadcastTypeOK
        <5>. QED BY <5>1
      <4>2. CASE ReadStore(r) \/ Publish(r)
        BY <3>3, <4>2, SenderSteps DEF Sequenced, Active
      <4>. QED BY <2>2, <4>1, <4>2
    <3>. QED BY <3>1, <3>2, <3>3 DEF Sequenced, Active
  <2>3. ASSUME NEW r \in Senders, Send(r),
               NEW k \in DOMAIN queue', NEW s \in Senders, ~queue'[k].full, Active(s)'
        PROVE  queue'[k].n < num'[s]
    <3>1. s # r /\ Active(s) /\ num'[s] = num[s]
      BY <2>3, PendingSent DEF Active
    <3>2. num[r] < num[s]
      <4>1. num[s] # num[r] /\ ~(num[s] < num[r])
        BY <2>3, <3>1, PendingSent, InTurn DEF Overtakes, Active, Framed
      <4>. QED BY <1>0, <4>1
    <3>3. frame[r].n = num[r]
      BY <2>3, PendingSent DEF Framed, Computed
    <3>4. queue'[k] = frame[r] \/ \E l \in DOMAIN queue : queue'[k] = queue[l]
      <4>1. CASE link = "none"
        BY <2>3, <4>1, PendingSent
      <4>2. CASE link # "none"
        <5>1. queue' = Append(queue, frame[r]) /\ queue \in Seq(Frames) /\ frame[r] \in Frames
          BY <2>3, <4>2, PendingSent
        <5>2. k \in DOMAIN Append(queue, frame[r])
          BY <2>3, <5>1
        <5>3. \/ Append(queue, frame[r])[k] = frame[r]
              \/ \E l \in DOMAIN queue : Append(queue, frame[r])[k] = queue[l]
          BY <5>1, <5>2, Appended
        <5>. QED BY <5>1, <5>3
      <4>. QED BY <4>1, <4>2
    <3>. QED BY <2>3, <3>1, <3>2, <3>3, <3>4 DEF Sequenced
  <2>. QED BY <2>1, <2>2, <2>3, EitherAside DEF Broadcasting
<1>. QED BY <1>1, <1>2, <1>3, <1>6, <1>7, <1>8 DEF Sequenced

\* Only reading the store makes a state newer than those before.
LEMMA NewestStays ==
  ASSUME BroadcastTypeOK, Framed, Sequenced, [BroadcastNext]_broadcastVars, ~crossed', NEW n \in Nat
  PROVE  /\ (\A s \in Senders : ~ReadStore(s)) => (Newest(n)' <=> Newest(n))
         /\ \A s \in Senders : ReadStore(s) => (Newest(n)' <=> (Newest(n) /\ n >= num[s]))
<1> USE Parts
<1>0. \A t \in Senders : num[t] \in Nat
  BY DEF BroadcastTypeOK
<1>1. CASE Aside
  <2>1. Newest(n)' <=> Newest(n)
    BY <1>1, SendersAside DEF Newest
  <2>2. \A s \in Senders : ~ReadStore(s)
    BY <1>1, SenderSteps, SendersAside
  <2>. QED BY <2>1, <2>2
<1>2. ASSUME NEW s \in Senders, Draw(s) \/ Send(s) PROVE Newest(n)' <=> Newest(n)
  <2>1. lastSent' = lastSent /\ at[s] # "read" /\ at'[s] # "read"
    BY <1>2, SenderSteps
  <2>2. \A t \in Senders : t # s => at'[t] = at[t] /\ num'[t] = num[t]
    BY <1>2, SenderSteps DEF Broadcasting
  <2>. QED BY <2>1, <2>2 DEF Newest
<1>3. ASSUME NEW s \in Senders, Publish(s) PROVE Newest(n)' <=> Newest(n)
  <2>1. lastSent' = num[s] /\ num[s] > lastSent /\ at[s] = "read" /\ at'[s] # "read" /\ num' = num
    BY <1>3, SenderSteps DEF Sequenced
  <2>2. \A t \in Senders : t # s => at'[t] = at[t]
    BY <1>3, SenderSteps DEF Broadcasting
  <2>. QED BY <1>0, <2>1, <2>2 DEF Newest
<1>4. ASSUME NEW s \in Senders, ReadStore(s) PROVE Newest(n)' <=> (Newest(n) /\ n >= num[s])
  <2>1. lastSent' = lastSent /\ at[s] = "drawn" /\ at'[s] = "read" /\ num' = num
    BY <1>4, SenderSteps
  <2>2. \A t \in Senders : t # s => at'[t] = at[t]
    BY <1>4, SenderSteps DEF Broadcasting
  <2>. QED BY <1>0, <2>1, <2>2 DEF Newest
<1>5. \A s \in Senders : Draw(s) \/ Send(s) \/ Publish(s) =>
         (Newest(n)' <=> Newest(n)) /\ \A t \in Senders : ~ReadStore(t)
  <2>1. ASSUME NEW s \in Senders, Draw(s) \/ Send(s) \/ Publish(s), NEW t \in Senders, ReadStore(t)
        PROVE  FALSE
    <3>1. at[t] = "drawn" /\ at'[t] = "read"
      BY <2>1, SenderSteps
    <3>2. s # t /\ Broadcasting(s)
      BY <2>1, <3>1, SenderSteps DEF Broadcasting
    <3>. QED BY <3>1, <3>2, SenderSteps
  <2>. QED BY <1>2, <1>3, <2>1
<1>. QED BY <1>1, <1>4, <1>5, EitherAside DEF Broadcasting

\* Who reads the store in order has the highest number of all that has been computed.
LEMMA ReaderIsNewest ==
  ASSUME BroadcastTypeOK, Framed, Sequenced, [BroadcastNext]_broadcastVars, ~crossed',
         NEW s \in Senders, ReadStore(s)
  PROVE  /\ Newest(num[s]) /\ viewSeq < num[s] /\ num[s] \in Nat
         /\ \A f \in Pending : f.n < num[s]
         /\ frame'[s].n = num[s] /\ frame'[s] \in Pending' /\ num'[s] = num[s] /\ at'[s] = "read"
<1> USE Parts
<1>1. /\ at[s] = "drawn" /\ num[s] > lastSent /\ frame'[s].n = num[s] /\ num'[s] = num[s]
      /\ at'[s] = "read" /\ Active(s)
  BY SenderSteps DEF Sequenced, Active
<1>2. num[s] \in Nat /\ \A t \in Senders : num[t] \in Nat
  BY DEF BroadcastTypeOK
<1>3. ASSUME NEW t \in Senders, Computed(t) PROVE num[t] < num[s]
  <2>1. t # s /\ Active(t) /\ num[t] # num[s]
    BY <1>1, <1>3 DEF Computed, Active, Framed
  <2>2. ~(num[s] < num[t])
    BY <1>1, <1>3, <2>1 DEF Sequenced, Computed
  <2>. QED BY <1>2, <2>1, <2>2
<1>4. Newest(num[s])
  BY <1>1, <1>2, <1>3 DEF Newest, Computed
<1>5. \A f \in Pending : f.n < num[s]
  <2>1. ASSUME NEW k \in DOMAIN queue PROVE queue[k].n < num[s]
    <3>1. queue[k].n \in Nat /\ queue[k].n <= lastSent
      BY DEF Sequenced, BroadcastTypeOK
    <3>. QED BY <1>1, <1>2, <3>1
  <2>2. ASSUME NEW t \in Senders, Computed(t) PROVE frame[t].n < num[s]
    BY <1>3, <2>2 DEF Framed
  <2>. QED BY <2>1, <2>2 DEF Pending
<1>6. viewSeq < num[s]
  BY <1>1, <1>2 DEF Sequenced
<1>7. frame'[s] \in Pending'
  BY PendingRead
<1>. QED BY <1>1, <1>2, <1>4, <1>5, <1>6, <1>7

\* What the page takes from the queue: it applies what is not old, so that its number
\* does not fall and is at least that of the frame.
LEMMA Takes ==
  ASSUME BroadcastTypeOK, TakeFrame
  PROVE  /\ viewSeq' \in Nat /\ viewSeq' >= viewSeq /\ viewSeq' >= Head(queue).n
         /\ \/ UNCHANGED <<view, shown, viewSeq, owes>> /\ IsOld(Head(queue))
            \/ ~IsOld(Head(queue)) /\ viewSeq' = Head(queue).n /\ shown' = Head(queue).flags
         /\ page = "follows" /\ page' = page
<1> USE Parts
<1> DEFINE f == Head(queue)
<1>1. f.n \in Nat /\ f.full \in BOOLEAN
  BY PendingTaken
<1>2. Apply(f) /\ page = "follows" /\ page' = page
  BY DEF TakeFrame
<1>. HIDE DEF f
<1>3. \/ UNCHANGED <<view, shown, viewSeq, owes>> /\ IsOld(f)
      \/ ~IsOld(f) /\ viewSeq' = f.n /\ shown' = f.flags
  BY <1>2 DEF Apply, ApplySnapshot, ApplyPatch
<1>4. viewSeq' \in Nat /\ viewSeq' >= viewSeq /\ viewSeq' >= f.n
  BY <1>1, <1>3 DEF IsOld
<1>. QED BY <1>2, <1>3, <1>4 DEF f

\* The newest state stays on its way until the page has it.
LEMMA DeliveredKept ==
  ASSUME BroadcastTypeOK, Framed, Sequenced, Delivered, [BroadcastNext]_broadcastVars, ~crossed'
  PROVE  Delivered'
<1> USE Parts
<1>0. /\ BroadcastTypeOK' /\ \A t \in Senders : num[t] \in Nat /\ num'[t] \in Nat
      /\ \A f \in Pending : f.n \in Nat
  BY BroadcastTypesKept, PendingFrames DEF BroadcastTypeOK
<1>1. \/ \A s \in Senders : at'[s] # "read"
      \/ \E s \in Senders : at'[s] = "read" /\ Newest(num[s])'
  <2>1. CASE Aside
    <3>1. \A s \in Senders : at'[s] = "read" <=> at[s] = "read"
      BY <2>1, SendersAside
    <3>2. \A n : Newest(n)' <=> Newest(n)
      BY <2>1, SendersAside DEF Newest
    <3>. QED BY <2>1, <3>1, <3>2, SendersAside DEF Delivered, Newest
  <2>2. ASSUME NEW r \in Senders, ReadStore(r) PROVE at'[r] = "read" /\ Newest(num[r])'
    <3>1. Newest(num[r]) /\ at'[r] = "read" /\ num'[r] = num[r] /\ num[r] \in Nat /\ num' = num
      BY <2>2, ReaderIsNewest, SenderSteps
    <3>2. lastSent' = lastSent /\ \A t \in Senders : t # r => at'[t] = at[t]
      BY <2>2, SenderSteps DEF Broadcasting
    <3>. QED BY <1>0, <3>1, <3>2 DEF Newest
  <2>3. ASSUME NEW r \in Senders, Draw(r) \/ Publish(r) \/ Send(r)
        PROVE  \/ \A s \in Senders : at'[s] # "read"
               \/ \E s \in Senders : at'[s] = "read" /\ Newest(num[s])'
    <3>1. at'[r] # "read" /\ \A t \in Senders : t # r => at'[t] = at[t] /\ num'[t] = num[t]
      BY <2>3, SenderSteps DEF Broadcasting
    <3>2. CASE \A s \in Senders : at[s] # "read"
      BY <3>1, <3>2
    <3>3. ASSUME NEW w \in Senders, at[w] = "read", Newest(num[w]), w # r
          PROVE  at'[w] = "read" /\ Newest(num[w])'
      <4>1. at'[w] = "read" /\ num'[w] = num[w]
        BY <3>1, <3>3
      <4>2. \A t \in Senders : at'[t] = "read" => at[t] = "read" /\ num'[t] = num[t]
        BY <3>1
      <4>3. lastSent' = lastSent \/ (lastSent' = num[r] /\ at[r] = "read")
        BY <2>3, SenderSteps
      <4>. QED BY <1>0, <3>3, <4>1, <4>2, <4>3 DEF Newest
    <3>4. ASSUME at[r] = "read", Newest(num[r]) PROVE \A s \in Senders : at'[s] # "read"
      <4>1. Publish(r)
        BY <2>3, <3>4, SenderSteps
      <4>2. ~Overtakes(r, {"drawn", "read"})
        BY <4>1, InTurn
      <4>3. ASSUME NEW t \in Senders, at[t] = "read", t # r PROVE FALSE
        <5>1. num[t] <= num[r] /\ ~(num[t] < num[r]) /\ num[t] # num[r]
          BY <3>4, <4>2, <4>3 DEF Newest, Overtakes, Framed, Active
        <5>. QED BY <1>0, <5>1
      <4>. QED BY <3>1, <4>3
    <3>. QED BY <3>2, <3>3, <3>4 DEF Delivered
  <2>. QED BY <2>1, <2>2, <2>3, EitherAside DEF Broadcasting
<1>2. ASSUME link' \in {"seeded", "up"}
      PROVE  \/ \E f \in Pending' : Newest(f.n)'
             \/ page' = "follows" /\ Newest(viewSeq)'
  <2>1. CASE Seed
    <3>1. (\A s \in Senders : ~ReadStore(s)) /\ lastSent' = lastSent
      BY <2>1, SenderSteps DEF Seed, senders, broadcaster
    <3>2. Full(lastSent) \in Pending' /\ Pending \subseteq Pending' /\ Full(lastSent).n = lastSent
      BY <2>1, PendingSeeded DEF Full
    <3>3. CASE \A s \in Senders : at[s] # "read"
      <4>1. Newest(lastSent)
        BY <3>3 DEF Newest
      <4>2. \A n \in Nat : Newest(n) => Newest(n)'
        BY <3>1, NewestStays
      <4>. QED BY <3>2, <4>1, <4>2
    <3>4. ASSUME NEW s \in Senders, at[s] = "read", Newest(num[s])
          PROVE  \E f \in Pending' : Newest(f.n)'
      <4>1. frame[s] \in Pending /\ frame[s].n = num[s] /\ num[s] \in Nat
        BY <1>0, <3>4 DEF Pending, Computed, Framed
      <4>2. \A n \in Nat : Newest(n) => Newest(n)'
        BY <3>1, NewestStays
      <4>. QED BY <3>2, <3>4, <4>1, <4>2
    <3>. QED BY <3>3, <3>4 DEF Delivered
  <2>2. ASSUME NEW r \in Senders, ReadStore(r) PROVE \E f \in Pending' : Newest(f.n)'
    <3>1. Newest(num[r]) /\ frame'[r] \in Pending' /\ frame'[r].n = num[r] /\ num[r] \in Nat
      BY <2>2, ReaderIsNewest
    <3>2. \A n \in Nat : Newest(n) /\ n >= num[r] => Newest(n)'
      BY <2>2, NewestStays
    <3>. QED BY <3>1, <3>2
  <2>3. ASSUME ~Seed, \A s \in Senders : ~ReadStore(s)
        PROVE  \/ \E f \in Pending' : Newest(f.n)'
               \/ page' = "follows" /\ Newest(viewSeq)'
    <3>1. link \in {"seeded", "up"}
      BY <1>2, <2>3 DEF BroadcastNext, Changes, Tasks, Connect, Page, Broadcasting, Stream, MergeQuietly,
         Handle, Draw, Publish, Send, Register, Initialize, SnapshotNumber,
         Snapshot, FirstFetch, TakeFrame, Resync, broadcastVars
    <3>2. \A n \in Nat : Newest(n) => Newest(n)'
      BY <2>3, NewestStays
    <3>3. CASE TakeFrame
      <4>1. ASSUME NEW n \in Nat, Newest(n), n <= viewSeq' PROVE page' = "follows" /\ Newest(viewSeq)'
        <5>1. Newest(n)' /\ viewSeq' \in Nat /\ page' = "follows"
          BY <3>2, <3>3, <4>1, Takes
        <5>2. lastSent' \in Nat
          BY <1>0 DEF BroadcastTypeOK
        <5>. QED BY <1>0, <4>1, <5>1, <5>2 DEF Newest
      <4>2. CASE \E f \in Pending : Newest(f.n)
        <5>1. PICK f \in Pending : Newest(f.n)
          BY <4>2
        <5>2. f.n \in Nat /\ (f \in Pending' \/ f = Head(queue))
          BY <1>0, <3>3, PendingTaken
        <5>3. Head(queue).n <= viewSeq'
          BY <3>3, Takes, PendingTaken
        <5>4. CASE f \in Pending'
          BY <3>2, <5>1, <5>2, <5>4
        <5>5. CASE f = Head(queue)
          BY <4>1, <5>1, <5>2, <5>3, <5>5
        <5>. QED BY <5>2, <5>4, <5>5
      <4>3. CASE Newest(viewSeq)
        <5>1. viewSeq <= viewSeq'
          BY <3>3, Takes
        <5>. QED BY <4>1, <4>3, <5>1
      <4>. QED BY <3>1, <4>2, <4>3 DEF Delivered
    <3>4. ASSUME Pending' = Pending, page = "follows" => page' = "follows" /\ viewSeq' = viewSeq
          PROVE  \/ \E f \in Pending' : Newest(f.n)'
                 \/ page' = "follows" /\ Newest(viewSeq)'
      <4>1. CASE \E f \in Pending : Newest(f.n)
        BY <1>0, <3>2, <3>4, <4>1
      <4>2. CASE page = "follows" /\ Newest(viewSeq)
        <5>1. Newest(viewSeq)'
          <6>1. viewSeq' = viewSeq /\ \A n : n = viewSeq => Newest(n)'
            BY <3>2, <3>4, <4>2
          <6>. QED BY <6>1 DEF Newest
        <5>. QED BY <3>4, <4>2, <5>1 DEF Newest
      <4>. QED BY <3>1, <4>1, <4>2 DEF Delivered
    <3>5. CASE Standing
      <4>1. page = "follows" => page' = "follows" /\ viewSeq' = viewSeq
        BY <3>5 DEF Standing, Stream, MergeQuietly, Handle, Draw, Publish, Register, Initialize,
           SnapshotNumber, Snapshot, FirstFetch, Resync, broadcastVars, pages
      <4>. QED BY <3>4, <3>5, <4>1, PendingStands
    <3>6. ASSUME NEW s \in Senders, Send(s)
          PROVE  \/ \E f \in Pending' : Newest(f.n)'
                 \/ page' = "follows" /\ Newest(viewSeq)'
      <4>1. page = "follows" => page' = "follows" /\ viewSeq' = viewSeq
        BY <3>6 DEF Send, pages
      <4>. QED BY <3>1, <3>4, <3>6, <4>1, PendingSent
    <3>. QED BY <2>3, <3>3, <3>5, <3>6 DEF BroadcastNext, Changes, Tasks, Connect, Page,
         Broadcasting, Standing
  <2>. QED BY <2>1, <2>2, <2>3
<1>. QED BY <1>1, <1>2 DEF Delivered, Newest

\* When nobody has to read the store after the step, it was a step that reads it, or one
\* that leaves it to nobody to read.
LEMMA AllReadBefore ==
  ASSUME BroadcastTypeOK, [BroadcastNext]_broadcastVars, AllRead', \A s \in Senders : ~ReadStore(s)
  PROVE  /\ AllRead /\ flags' = flags /\ patch' = patch /\ versions' = versions
         /\ (cards' = cards /\ untold' = untold) \/ untold'
         /\ \/ MergeQuietly \/ Register \/ Seed \/ Page \/ UNCHANGED broadcastVars
            \/ \E s \in Senders : Publish(s) \/ Send(s)
<1>1. ~Stream
  BY DEF Stream, AllRead
<1>2. ASSUME NEW h \in Handlers, Handle(h) \/ Initialize(h) PROVE FALSE
  <2>1. at'[h] = "due" /\ h \in Senders
    BY <1>2 DEF Handle, Initialize, Goes, Senders, BroadcastTypeOK
  <2>. QED BY <2>1 DEF AllRead
<1>3. ASSUME NEW s \in Senders, Draw(s) PROVE FALSE
  BY <1>3, SenderSteps DEF AllRead
<1>4. \/ MergeQuietly \/ Register \/ Seed \/ Page \/ UNCHANGED broadcastVars
      \/ \E s \in Senders : Publish(s) \/ Send(s)
  BY <1>1, <1>2, <1>3 DEF BroadcastNext, Changes, Tasks, Connect, Broadcasting
<1>5. CASE MergeQuietly \/ Register \/ Seed \/ Page \/ UNCHANGED broadcastVars
  <2>1. at' = at /\ dirty' = dirty /\ flags' = flags /\ patch' = patch /\ versions' = versions
    BY <1>5 DEF MergeQuietly, Register, Seed, Page, SnapshotNumber, Snapshot, FirstFetch, TakeFrame,
       Resync, broadcastVars, store, broadcaster, senders
  <2>2. (cards' = cards /\ untold' = untold) \/ untold'
    BY <1>5 DEF MergeQuietly, Register, Seed, Page, SnapshotNumber, Snapshot, FirstFetch, TakeFrame,
       Resync, broadcastVars, store
  <2>3. AllRead
    BY <2>1 DEF AllRead
  <2>. QED BY <1>4, <2>1, <2>2, <2>3
<1>6. ASSUME NEW s \in Senders, Publish(s) \/ Send(s)
      PROVE  /\ AllRead /\ flags' = flags /\ patch' = patch /\ versions' = versions
             /\ cards' = cards /\ untold' = untold
  <2>1. /\ dirty' = dirty /\ flags' = flags /\ patch' = patch /\ versions' = versions
        /\ cards' = cards /\ untold' = untold
    BY <1>6 DEF Publish, Send, store, broadcaster
  <2>2. at[s] \in {"read", "sends"} /\ \A t \in Senders : t # s => at'[t] = at[t]
    BY <1>6, SenderSteps DEF Broadcasting
  <2>. QED BY <2>1, <2>2 DEF AllRead
<1>. QED BY <1>4, <1>5, <1>6

\* When nobody has to read the store any more, the newest state remains that of the store.
LEMMA CurrentKept ==
  ASSUME BroadcastTypeOK, Framed, Sequenced, Current, [BroadcastNext]_broadcastVars, ~crossed'
  PROVE  Current'
<1> USE Parts
<1>0. BroadcastTypeOK' /\ (\A f \in Pending : f.n \in Nat) /\ (\A f \in Pending' : f.n \in Nat)
  <2>1. BroadcastTypeOK'
    BY BroadcastTypesKept
  <2>2. Pending' \subseteq Frames
    BY <2>1 DEF Pending, BroadcastTypeOK
  <2>. QED BY <2>1, <2>2, PendingFrames DEF Frames
<1>1. SUFFICES ASSUME AllRead'
               PROVE  /\ \A f \in Pending' : Newest(f.n)' => f.flags = flags'
                      /\ page' \in {"snapped", "follows"} /\ Newest(viewSeq)' => shown' = flags'
                      /\ patch' /\ ~untold' => versions' = Projected'
  BY DEF Current
<1>2. ASSUME NEW s \in Senders, ReadStore(s)
      PROVE  /\ \A f \in Pending' : Newest(f.n)' => f.flags = flags'
             /\ page' \in {"snapped", "follows"} /\ Newest(viewSeq)' => shown' = flags'
             /\ patch' /\ ~untold' => versions' = Projected'
  <2>1. /\ frame'[s].flags = flags /\ flags' = flags /\ cards' = cards /\ patch' = patch
        /\ viewSeq' = viewSeq /\ (patch => versions' = Projected)
    BY <1>2 DEF ReadStore, store, pages, BroadcastTypeOK
  <2>2. \A n \in Nat : Newest(n)' => n >= num[s]
    BY <1>2, NewestStays
  <2>3. num[s] \in Nat /\ viewSeq < num[s] /\ \A f \in Pending : f.n < num[s]
    BY <1>2, ReaderIsNewest
  <2>4. \A f \in Pending' : f = frame'[s] \/ f \in Pending
    BY <1>2, PendingRead
  <2>5. \A f \in Pending : ~(f.n >= num[s])
    BY <1>0, <2>3
  <2>6. ~Newest(viewSeq)'
    <3>1. \A n : n = viewSeq => ~Newest(n)'
      BY <2>2, <2>3
    <3>. QED BY <2>1, <3>1 DEF Newest
  <2>7. Projected' = Projected
    BY <2>1 DEF Projected
  <2>. QED BY <1>0, <2>1, <2>2, <2>4, <2>5, <2>6, <2>7
<1>3. ASSUME \A s \in Senders : ~ReadStore(s)
      PROVE  /\ \A f \in Pending' : Newest(f.n)' => f.flags = flags'
             /\ page' \in {"snapped", "follows"} /\ Newest(viewSeq)' => shown' = flags'
             /\ patch' /\ ~untold' => versions' = Projected'
  <2>1. /\ AllRead /\ flags' = flags /\ patch' = patch /\ versions' = versions
        /\ (cards' = cards /\ untold' = untold) \/ untold'
        /\ \/ MergeQuietly \/ Register \/ Seed \/ Page \/ UNCHANGED broadcastVars
           \/ \E s \in Senders : Publish(s) \/ Send(s)
    BY <1>1, <1>3, AllReadBefore
  <2>2. \A n \in Nat : Newest(n)' <=> Newest(n)
    BY <1>3, NewestStays
  <2>3. \A f \in Pending' : Newest(f.n)' => f.flags = flags'
    <3>1. \A f \in Pending' : f \in Pending \/ (Seed /\ f = Full(lastSent))
      BY <2>1, PendingStands, PendingSent, PendingSeeded, PendingTaken DEF Standing, Page
    <3>2. Full(lastSent).flags = flags
      BY DEF Full
    <3>. QED BY <1>0, <2>1, <2>2, <3>1, <3>2 DEF Current
  <2>4. page' \in {"snapped", "follows"} /\ Newest(viewSeq)' => shown' = flags'
    <3>1. CASE SnapshotNumber
      BY <3>1 DEF SnapshotNumber
    <3>2. CASE Snapshot
      <4>1. CASE ApplySnapshot(Full(viewSeq))
        BY <2>1, <4>1 DEF ApplySnapshot, Full
      <4>2. CASE viewSeq' = 0
        <5>1. lastSent' >= 1 /\ lastSent' \in Nat
          BY <3>2 DEF Snapshot, broadcaster, Sequenced
        <5>. QED BY <4>2, <5>1 DEF Newest
      <4>. QED BY <3>2, <4>1, <4>2 DEF Snapshot
    <3>3. CASE TakeFrame
      <4>1. CASE UNCHANGED <<view, shown, viewSeq, owes>>
        <5>1. page = "follows" /\ (Newest(viewSeq)' => Newest(viewSeq))
          <6>1. \A n : n = viewSeq => (Newest(n)' <=> Newest(n))
            BY <2>2
          <6>. QED BY <3>3, <4>1, <6>1, Takes DEF Newest
        <5>. QED BY <2>1, <4>1, <5>1 DEF Current
      <4>2. CASE viewSeq' = Head(queue).n /\ shown' = Head(queue).flags
        <5>1. Newest(viewSeq)' => Newest(Head(queue).n)
          <6>1. \A n : n = Head(queue).n => (Newest(n)' <=> Newest(n))
            BY <2>2, <3>3, <1>0, PendingTaken
          <6>2. Head(queue).n \in Nat
            BY <3>3, <1>0, PendingTaken
          <6>3. PICK n \in Nat : n = Head(queue).n
            BY <6>2
          <6>4. viewSeq' = n /\ (Newest(n)' => Newest(n))
            BY <2>2, <4>2, <6>3
          <6>. QED BY <6>3, <6>4 DEF Newest
        <5>. QED BY <2>1, <3>3, <4>2, <5>1, PendingTaken DEF Current
      <4>. QED BY <3>3, <4>1, <4>2, Takes
    <3>4. CASE page' \in {"snapped", "follows"} =>
               page \in {"snapped", "follows"} /\ viewSeq' = viewSeq /\ shown' = shown
      <4>1. viewSeq' = viewSeq => (Newest(viewSeq)' => Newest(viewSeq))
        <5>1. \A n : n = viewSeq => (Newest(n)' <=> Newest(n))
          BY <2>2
        <5>. QED BY <5>1 DEF Newest
      <4>. QED BY <2>1, <3>4, <4>1 DEF Current
    <3>5. \/ SnapshotNumber \/ Snapshot \/ TakeFrame
          \/ page' \in {"snapped", "follows"} =>
                page \in {"snapped", "follows"} /\ viewSeq' = viewSeq /\ shown' = shown
      BY <2>1 DEF MergeQuietly, Register, Seed, Page, FirstFetch, Resync, Publish, Send,
         broadcastVars, pages
    <3>. QED BY <3>1, <3>2, <3>3, <3>4, <3>5
  <2>5. patch' /\ ~untold' => versions' = Projected'
    <3>1. ~untold' => Projected' = Projected
      BY <2>1 DEF Projected
    <3>. QED BY <2>1, <3>1 DEF Current
  <2>. QED BY <2>3, <2>4, <2>5
<1>. QED BY <1>2, <1>3

\* A patch that the page takes is older than everything else on its way.
LEMMA TakenIsFirst ==
  ASSUME BroadcastTypeOK, Framed, Sequenced, TakeFrame, ~Head(queue).full, NEW g \in Pending'
  PROVE  Head(queue).n <= g.n /\ (~g.full => Head(queue).n < g.n)
<1> DEFINE h == Head(queue)
           m == Len(queue)
<1>1. /\ h = queue[1] /\ 1 \in DOMAIN queue /\ m \in Nat /\ ~h.full
      /\ DOMAIN queue = 1..m /\ DOMAIN queue' = 1..m - 1
      /\ \A k \in 1..m - 1 : queue'[k] = queue[k + 1] /\ k + 1 \in DOMAIN queue
  BY PendingTaken
<1>2. h \in Frames /\ h.n \in Nat
  BY PendingTaken, Parts
<1>3. at' = at /\ frame' = frame
  BY DEF TakeFrame, senders
<1>. HIDE DEF h, m
<1>4. ASSUME NEW k \in 1..m - 1, g = queue'[k] PROVE h.n <= g.n /\ (~g.full => h.n < g.n)
  <2>1. g = queue[k + 1] /\ k + 1 \in DOMAIN queue /\ 1 < k + 1
    BY <1>1, <1>4
  <2>. QED BY <1>1, <2>1 DEF Sequenced
<1>5. ASSUME NEW t \in Senders, Computed(t), g = frame[t] PROVE h.n <= g.n /\ (~g.full => h.n < g.n)
  <2>1. g.n = num[t] /\ Active(t) /\ num[t] \in Nat
    BY <1>5 DEF Framed, Computed, Active, BroadcastTypeOK
  <2>2. h.n < num[t]
    BY <1>1, <2>1 DEF Sequenced
  <2>. QED BY <1>2, <2>1, <2>2
<1>6. \/ \E k \in 1..m - 1 : g = queue'[k]
      \/ \E t \in Senders : Computed(t) /\ g = frame[t]
  BY <1>1, <1>3 DEF Pending, Computed
<1>. QED BY <1>4, <1>5, <1>6 DEF h

\* A frame that is sent to nobody, in order, is older than everything on its way.
LEMMA SentIsFirst ==
  ASSUME BroadcastTypeOK, Framed, [BroadcastNext]_broadcastVars, ~crossed',
         NEW s \in Senders, Send(s), link = "none", NEW g \in Pending'
  PROVE  frame[s].n <= g.n
<1>1. queue' = <<>> /\ at'[s] = "idle" /\ frame[s].n = num[s] /\ num[s] \in Nat
  BY PendingSent DEF Framed, Computed, BroadcastTypeOK
<1>2. PICK t \in Senders : Computed(t)' /\ g = frame'[t]
  BY <1>1 DEF Pending
<1>3. t # s /\ at[t] \in {"read", "sends"} /\ g = frame[t]
  BY <1>1, <1>2, PendingSent DEF Computed
<1>4. g.n = num[t] /\ num[t] \in Nat
  BY <1>3 DEF Framed, Computed, BroadcastTypeOK
<1>5. ~(num[t] < num[s])
  BY <1>3, InTurn DEF Overtakes
<1>. QED BY <1>1, <1>4, <1>5

\* A patch that corrects a frame on its way is not gone before the frame.
LEMMA LaterStays ==
  ASSUME BroadcastTypeOK, Framed, Sequenced, [BroadcastNext]_broadcastVars, ~crossed',
         NEW n \in Nat, NEW i \in Cards, Later(n, i)
  PROVE  \/ Later(n, i)'
         \/ TakeFrame /\ ~Head(queue).full /\ Head(queue).n > n
         \/ \E s \in Senders : Send(s) /\ link = "none" /\ frame[s].n > n
<1>1. PICK g \in Pending : ~g.full /\ g.n > n /\ g.cards[i] # Same
  BY DEF Later
<1>2. g \in Pending' \/ (TakeFrame /\ g = Head(queue))
        \/ \E s \in Senders : Send(s) /\ link = "none" /\ g = frame[s]
  BY PendingStands, PendingRead, PendingSent, PendingSeeded, PendingTaken
     DEF BroadcastNext, Changes, Tasks, Connect, Page, Broadcasting, Standing
<1>. QED BY <1>1, <1>2 DEF Later

\* What corrects a frame on its way stays on its way as long as the frame.
LEMMA LaterStaysForFrames ==
  ASSUME BroadcastTypeOK, Framed, Sequenced, [BroadcastNext]_broadcastVars, ~crossed',
         NEW f \in Pending', f.n \in Nat, NEW i \in Cards, Later(f.n, i)
  PROVE  Later(f.n, i)'
<1>1. ~(TakeFrame /\ ~Head(queue).full /\ Head(queue).n > f.n)
  <2>1. TakeFrame /\ ~Head(queue).full => Head(queue).n <= f.n /\ Head(queue).n \in Nat
    BY TakenIsFirst, PendingTaken, Parts
  <2>. QED BY <2>1
<1>2. ASSUME NEW s \in Senders, Send(s), link = "none" PROVE ~(frame[s].n > f.n)
  <2>1. frame[s].n <= f.n /\ frame[s].n \in Nat
    BY <1>2, SentIsFirst, Parts DEF BroadcastTypeOK
  <2>. QED BY <2>1
<1>. QED BY <1>1, <1>2, LaterStays

\* A card that was told stays told, until a patch mentions it.
LEMMA ToldStays ==
  ASSUME BroadcastTypeOK, Framed, [BroadcastNext]_broadcastVars, NEW i \in Cards, NEW e, Told(i, e)
  PROVE  \/ Told(i, e)'
         \/ \E s \in Senders : ReadStore(s) /\ ~frame'[s].full /\ frame'[s].cards[i] # Same
<1> USE Parts
<1>0. /\ cards[i] \in Nat /\ versions[i] \in Nat /\ versions[i] <= ops
      /\ cards \in [Cards -> NoCard..MaxOps]
  BY DEF Framed, CardStates, NoCard, BroadcastTypeOK
<1>1. ASSUME Counted, NEW j \in Cards, Change(j), versions' = versions, unlisted' = unlisted
      PROVE  Told(i, e)'
  <2>1. cards' = [cards EXCEPT ![j] = ops + 1]
    BY <1>1 DEF Change
  <2>2. CASE j = i
    <3>1. cards'[i] = ops + 1 /\ versions'[i] = versions[i]
      BY <1>0, <1>1, <2>1, <2>2
    <3>2. ops + 1 # versions[i]
      BY <1>0
    <3>. QED BY <3>1, <3>2 DEF Told
  <2>3. CASE j # i
    <3>1. cards'[i] = cards[i]
      BY <1>0, <2>1, <2>3
    <3>. QED BY <1>1, <3>1 DEF Told
  <2>. QED BY <2>2, <2>3
<1>2. ASSUME NEW j \in Cards, RemoveCard(j), versions' = versions PROVE Told(i, e)'
  <2>1. /\ cards' = [cards EXCEPT ![j] = NoCard]
        /\ unlisted' = IF versions[j] = NoCard THEN unlisted \cup {j} ELSE unlisted
    BY <1>2 DEF RemoveCard
  <2>2. CASE j = i
    <3>1. cards'[i] = NoCard
      BY <1>0, <2>1, <2>2
    <3>2. versions[i] = NoCard => i \in unlisted'
      BY <2>1, <2>2
    <3>. QED BY <1>2, <3>1, <3>2 DEF Told
  <2>3. CASE j # i
    <3>1. cards'[i] = cards[i] /\ (i \in unlisted => i \in unlisted')
      BY <1>0, <2>1, <2>3
    <3>. QED BY <1>2, <3>1 DEF Told
  <2>. QED BY <2>2, <2>3
<1>3. ASSUME UNCHANGED <<cards, versions, unlisted>> PROVE Told(i, e)'
  BY <1>3 DEF Told
<1>4. CASE Stream \/ MergeQuietly
  BY <1>1, <1>4 DEF Stream, MergeQuietly, broadcaster
<1>5. ASSUME NEW h \in Handlers, Handle(h) PROVE Told(i, e)'
  <2>1. versions' = versions /\ Counted
    BY <1>5 DEF Handle, broadcaster
  <2>. QED BY <1>1, <1>2, <1>3, <1>5, <2>1 DEF Handle, store
<1>6. ASSUME NEW s \in Senders, ReadStore(s), frame'[s].full \/ frame'[s].cards[i] = Same
      PROVE  Told(i, e)'
  <2>1. cards' = cards /\ unlisted' = unlisted
    BY <1>6 DEF ReadStore, store
  <2>2. versions'[i] = versions[i]
    <3>1. CASE ~patch
      BY <1>6, <3>1 DEF ReadStore
    <3>2. CASE patch
      <4>1. frame'[s].cards = Diff(versions) /\ ~frame'[s].full /\ versions' = Projected
        BY <1>6, <3>2 DEF ReadStore, BroadcastTypeOK
      <4>2. Diff(versions)[i] = IF Projected[i] = versions[i] THEN Same ELSE Projected[i]
        BY DEF Diff
      <4>3. Projected[i] # Same
        BY DEF CardStates, NoCard, Same
      <4>. QED BY <1>6, <4>1, <4>2, <4>3
    <3>. QED BY <3>1, <3>2 DEF BroadcastTypeOK
  <2>. QED BY <2>1, <2>2 DEF Told
<1>7. ASSUME NEW s \in Senders, Draw(s) \/ Publish(s) \/ Send(s) PROVE Told(i, e)'
  <2>1. UNCHANGED <<cards, versions, unlisted>>
    BY <1>7 DEF Draw, Publish, Send, store, broadcaster
  <2>. QED BY <1>3, <2>1
<1>8. CASE Connect \/ Page \/ UNCHANGED broadcastVars
  <2>1. UNCHANGED <<cards, versions, unlisted>>
    BY <1>8 DEF Connect, Page, Register, Seed, Initialize, SnapshotNumber, Snapshot, FirstFetch,
       TakeFrame, Resync, broadcastVars, store, broadcaster
  <2>. QED BY <1>3, <2>1
<1>. QED BY <1>4, <1>5, <1>6, <1>7, <1>8 DEF BroadcastNext, Changes, Tasks, Broadcasting

\* What was read of the store was told.
LEMMA FreshIsTold == \A i \in Cards : Told(i, cards[i]) /\ Told(i, cards[i])'
BY DEF Told

\* What a later patch or the next one corrects is corrected after the step as well.
LEMMA CorrectionStays ==
  ASSUME BroadcastTypeOK, Framed, Sequenced, [BroadcastNext]_broadcastVars, ~crossed',
         NEW n \in Nat, NEW i \in Cards, NEW e, Later(n, i) \/ Told(i, e),
         Later(n, i) => Later(n, i)', n <= viewSeq \/ \E f \in Pending : f.n = n
  PROVE  Later(n, i)' \/ Told(i, e)'
<1>1. ASSUME NEW s \in Senders, ReadStore(s), ~frame'[s].full, frame'[s].cards[i] # Same
      PROVE  Later(n, i)'
  <2>1. /\ frame'[s] \in Pending' /\ frame'[s].n = num[s] /\ num[s] \in Nat
        /\ viewSeq < num[s] /\ \A f \in Pending : f.n < num[s]
    BY <1>1, ReaderIsNewest
  <2>2. n < num[s]
    BY <2>1, Parts
  <2>. QED BY <1>1, <2>1, <2>2 DEF Later
<1>. QED BY <1>1, ToldStays

\* Whatever is old in a frame or on the page remains to be corrected, through all fetches
\* that fail but that of a thread that came into view.
LEMMA CorrectedKept ==
  ASSUME BroadcastTypeOK, Framed, Sequenced, Corrected, [BroadcastNext]_broadcastVars, ~crossed'
  PROVE  Corrected'
<1> USE Parts
<1>0. BroadcastTypeOK' /\ (\A f \in Pending : f.n \in Nat) /\ (\A f \in Pending' : f.n \in Nat)
  <2>1. BroadcastTypeOK'
    BY BroadcastTypesKept
  <2>2. Pending' \subseteq Frames
    BY <2>1 DEF Pending, BroadcastTypeOK
  <2>. QED BY <2>1, <2>2, PendingFrames DEF Frames
<1>1. \A f \in Pending' : \/ f \in Pending
                          \/ Seed /\ f = Full(lastSent)
                          \/ \E s \in Senders : ReadStore(s) /\ f = frame'[s]
  BY PendingStands, PendingRead, PendingSent, PendingSeeded, PendingTaken
     DEF BroadcastNext, Changes, Tasks, Connect, Page, Broadcasting, Standing
<1>2. ASSUME NEW f \in Pending', f \in Pending, NEW i \in Cards, NEW e,
             Later(f.n, i) \/ Told(i, e)
      PROVE  Later(f.n, i)' \/ Told(i, e)'
  <2>1. Later(f.n, i) => Later(f.n, i)'
    BY <1>0, <1>2, LaterStaysForFrames
  <2>. QED BY <1>0, <1>2, <2>1, CorrectionStays
<1>3. \A f \in Pending', i \in Cards : ~f.full /\ f.cards[i] # Same =>
         Later(f.n, i)' \/ f.cards[i] = versions'[i]
  <2> SUFFICES ASSUME NEW f \in Pending', NEW i \in Cards, ~f.full, f.cards[i] # Same
               PROVE  Later(f.n, i)' \/ f.cards[i] = versions'[i]
    OBVIOUS
  <2>1. CASE Seed /\ f = Full(lastSent)
    BY <2>1 DEF Full
  <2>2. ASSUME NEW s \in Senders, ReadStore(s), f = frame'[s] PROVE f.cards[i] = versions'[i]
    <3>1. f.full = ~patch /\ (patch => f.cards = Diff(versions) /\ versions' = Projected)
      BY <2>2 DEF ReadStore, BroadcastTypeOK
    <3>2. patch
      BY <3>1 DEF BroadcastTypeOK
    <3>3. f.cards[i] = IF Projected[i] = versions[i] THEN Same ELSE Projected[i]
      BY <3>1, <3>2 DEF Diff
    <3>. QED BY <3>1, <3>2, <3>3
  <2>3. CASE f \in Pending
    <3>1. CASE Later(f.n, i)
      BY <1>0, <3>1, LaterStaysForFrames
    <3>2. ASSUME f.cards[i] = versions[i], versions'[i] # versions[i] PROVE Later(f.n, i)'
      <4>1. PICK s \in Senders : ReadStore(s)
        <5>1. Aside => versions' = versions
          BY SendersAside
        <5>2. \A s \in Senders : Draw(s) \/ Publish(s) \/ Send(s) => versions' = versions
          BY DEF Draw, Publish, Send, broadcaster
        <5>. QED BY <3>2, <5>1, <5>2, EitherAside DEF Broadcasting
      <4>2. patch /\ versions' = Projected /\ frame'[s].cards = Diff(versions) /\ ~frame'[s].full
        BY <3>2, <4>1 DEF ReadStore, BroadcastTypeOK
      <4>3. frame'[s].cards[i] # Same
        <5>1. Diff(versions)[i] = IF Projected[i] = versions[i] THEN Same ELSE Projected[i]
          BY DEF Diff
        <5>2. Projected[i] # Same
          BY DEF CardStates, NoCard, Same
        <5>. QED BY <3>2, <4>2, <5>1, <5>2
      <4>4. frame'[s] \in Pending' /\ f.n < num[s] /\ frame'[s].n = num[s]
        BY <2>3, <4>1, ReaderIsNewest
      <4>. QED BY <1>0, <4>2, <4>3, <4>4 DEF Later
    <3>. QED BY <2>3, <3>1, <3>2 DEF Corrected
  <2>. QED BY <1>1, <2>1, <2>2, <2>3
<1>4. \A f \in Pending', i \in Cards : f.full /\ Projects(f.flags) =>
         Later(f.n, i)' \/ Told(i, f.cards[i])'
  <2> SUFFICES ASSUME NEW f \in Pending', NEW i \in Cards, f.full, Projects(f.flags)
               PROVE  Later(f.n, i)' \/ Told(i, f.cards[i])'
    OBVIOUS
  <2>1. ASSUME f.cards = cards', cards' = cards PROVE Told(i, f.cards[i])'
    <3>1. \A e : e = cards'[i] => Told(i, e)'
      BY DEF Told
    <3>. QED BY <2>1, <3>1
  <2>2. CASE Seed /\ f = Full(lastSent)
    <3>1. cards' = cards
      BY <2>2 DEF Seed, store
    <3>2. f.cards = cards
      BY <2>2 DEF Full, Projected
    <3>. QED BY <2>1, <3>1, <3>2
  <2>3. ASSUME NEW s \in Senders, ReadStore(s), f = frame'[s] PROVE Told(i, f.cards[i])'
    <3>1. /\ cards' = cards /\ f.full = ~patch /\ f.flags = flags
          /\ (~patch => f.cards = Projected)
      BY <2>3 DEF ReadStore, store, BroadcastTypeOK
    <3>2. ~patch
      BY <3>1 DEF BroadcastTypeOK
    <3>3. f.cards = cards
      BY <3>1, <3>2 DEF Projected
    <3>. QED BY <2>1, <3>1, <3>3
  <2>4. CASE f \in Pending
    <3>1. Later(f.n, i) \/ Told(i, f.cards[i])
      BY <2>4 DEF Corrected
    <3>. QED BY <1>2, <2>4, <3>1
  <2>. QED BY <1>1, <2>2, <2>3, <2>4
<1>5. ASSUME link' \in {"seeded", "up"}, page' \in {"snapped", "follows"}, Projects(shown'),
             "now" \notin owes', ~unfetched'
      PROVE  \/ \E f \in Pending' : f.full /\ f.n >= viewSeq'
             \/ \A i \in Cards : \E n \in Nat : \E e :
                   n = viewSeq' /\ e = view'[i] /\ (Later(n, i)' \/ Told(i, e)')
  <2> DEFINE Goal == \/ \E f \in Pending' : f.full /\ f.n >= viewSeq'
                     \/ \A i \in Cards : \E n \in Nat : \E e :
                           n = viewSeq' /\ e = view'[i] /\ (Later(n, i)' \/ Told(i, e)')
             InView == /\ link \in {"seeded", "up"} /\ page \in {"snapped", "follows"}
                       /\ Projects(shown) /\ "now" \notin owes /\ ~unfetched
             Had == \/ \E f \in Pending : f.full /\ f.n >= viewSeq
                    \/ \A i \in Cards : \E n \in Nat : \E e :
                          n = viewSeq /\ e = view[i] /\ (Later(n, i) \/ Told(i, e))
  <2>0. viewSeq' \in Nat
    BY <1>0 DEF BroadcastTypeOK
  <2>1. InView => Had
    <3>1. ASSUME NEW i \in Cards, Later(viewSeq, i) \/ Told(i, view[i])
          PROVE  \E n \in Nat : \E e : n = viewSeq /\ e = view[i] /\ (Later(n, i) \/ Told(i, e))
      BY <3>1
    <3>. QED BY <3>1 DEF Corrected
  <2>2. ASSUME view' = cards' PROVE Goal
    <3>1. \A i \in Cards : \A e : e = cards'[i] => Told(i, e)'
      BY DEF Told
    <3>. QED BY <2>0, <2>2, <3>1
  <2>3. ASSUME InView, Pending \subseteq Pending', view' = view, viewSeq' = viewSeq
        PROVE  Goal
    <3>1. CASE \E f \in Pending : f.full /\ f.n >= viewSeq
      BY <2>3, <3>1
    <3>2. ASSUME NEW i \in Cards, NEW n \in Nat, NEW e, n = viewSeq, e = view[i],
                 Later(n, i) \/ Told(i, e)
          PROVE  Later(n, i)' \/ Told(i, e)'
      <4>1. Later(n, i) => Later(n, i)'
        BY <2>3 DEF Later
      <4>. QED BY <3>2, <4>1, CorrectionStays
    <3>. QED BY <2>1, <2>3, <3>1, <3>2
  <2>4. CASE Seed
    <3>1. Full(lastSent) \in Pending' /\ viewSeq' = viewSeq /\ viewSeq <= lastSent
      BY <2>4, PendingSeeded DEF Seed, pages, Sequenced
    <3>. QED BY <3>1 DEF Full
  <2>5. CASE Register \/ SnapshotNumber
    BY <1>5, <2>5 DEF Register, SnapshotNumber
  <2>6. CASE Snapshot
    <3>1. page = "numbered" /\ cards' = cards
      BY <2>6 DEF Snapshot, store
    <3>2. CASE ApplySnapshot(Full(viewSeq))
      <4>1. shown' = flags /\ view' = cards
        BY <1>5, <3>2 DEF ApplySnapshot, Full, Projected
      <4>. QED BY <2>2, <3>1, <4>1
    <3>3. CASE UNCHANGED <<view, shown, owes>>
      <4>1. shown' = Hidden
        BY <3>1, <3>3 DEF Framed
      <4>. QED BY <1>5, <4>1 DEF Hidden, Projects
    <3>. QED BY <2>6, <3>2, <3>3 DEF Snapshot
  <2>7. CASE FirstFetch
    <3>1. CASE view' = cards
      <4>1. cards' = cards
        BY <2>7 DEF FirstFetch, store
      <4>. QED BY <2>2, <3>1, <4>1
    <3>2. CASE view' = view
      <4>1. InView /\ viewSeq' = viewSeq
        BY <1>5, <2>7 DEF FirstFetch
      <4>2. Pending' = Pending
        BY <2>7, PendingStands DEF Standing
      <4>. QED BY <2>3, <3>2, <4>1, <4>2
    <3>. QED BY <2>7, <3>1, <3>2 DEF FirstFetch, FetchCards
  <2>8. CASE Resync
    <3>1. CASE view' = cards
      <4>1. cards' = cards
        BY <2>8 DEF Resync, store
      <4>. QED BY <2>2, <3>1, <4>1
    <3>2. CASE view' = view /\ unfetched' = (unfetched \/ "now" \in owes)
      <4>1. ~unfetched /\ "now" \notin owes
        BY <1>5, <3>2
      <4>3. InView /\ viewSeq' = viewSeq
        BY <1>5, <2>8, <4>1 DEF Resync
      <4>2. Pending' = Pending
        BY <2>8, PendingStands DEF Standing
      <4>. QED BY <2>3, <3>2, <4>2, <4>3
    <3>. QED BY <2>8, <3>1, <3>2 DEF Resync
  <2>9. CASE TakeFrame
    <3>0. PICK f \in Frames : f = Head(queue)
      BY <2>9, PendingTaken
    <3>1. /\ f \in Pending /\ f \in Frames /\ f.n \in Nat /\ f.full \in BOOLEAN
          /\ Pending \subseteq Pending' \cup {f} /\ Pending' \subseteq Pending
      BY <2>9, <3>0, PendingTaken
    <3>2. Apply(f) /\ link' = link /\ page' = page /\ unfetched' = unfetched /\ "now" \notin owes
          /\ UNCHANGED <<cards, versions, unlisted>>
      BY <2>9, <3>0 DEF TakeFrame, store, broadcaster
    <3>3. ~f.full => \A g \in Pending' : f.n <= g.n /\ (~g.full => f.n < g.n)
      BY <2>9, <3>0, TakenIsFirst
    <3>4. \A i, e : Told(i, e) => Told(i, e)'
      BY <3>2 DEF Told
    <3>5. ASSUME NEW n \in Nat, NEW i \in Cards, Later(n, i), f.full \/ f.n <= n \/ f.cards[i] = Same
          PROVE  Later(n, i)'
      <4>1. PICK g \in Pending : ~g.full /\ g.n > n /\ g.cards[i] # Same
        BY <3>5 DEF Later
      <4>2. g # f
        BY <1>0, <3>5, <4>1
      <4>. QED BY <3>1, <4>1, <4>2 DEF Later
    <3>6. CASE IsOld(f) /\ UNCHANGED <<view, shown, viewSeq, owes>>
      <4>1. InView
        BY <1>5, <3>2, <3>6
      <4>2. CASE \E g \in Pending : g.full /\ g.n >= viewSeq
        <5>1. PICK g \in Pending : g.full /\ g.n >= viewSeq
          BY <4>2
        <5>2. g # f
          BY <1>0, <3>6, <5>1 DEF IsOld
        <5>. QED BY <3>1, <3>6, <5>1, <5>2
      <4>3. ASSUME NEW i \in Cards, NEW n \in Nat, NEW e, n = viewSeq, e = view[i],
                   Later(n, i) \/ Told(i, e)
            PROVE  Later(n, i)' \/ Told(i, e)'
        <5>1. f.full \/ f.n <= n
          BY <3>6, <4>3 DEF IsOld
        <5>. QED BY <3>4, <3>5, <4>3, <5>1
      <4>. QED BY <2>1, <3>6, <4>1, <4>2, <4>3
    <3>7. CASE ~IsOld(f) /\ f.full /\ ApplySnapshot(f)
      <4>1. viewSeq' = f.n /\ Projects(f.flags) /\ view' = f.cards
        BY <1>5, <3>7 DEF ApplySnapshot
      <4>2. ASSUME NEW i \in Cards PROVE Later(f.n, i)' \/ Told(i, f.cards[i])'
        <5>1. Later(f.n, i) \/ Told(i, f.cards[i])
          BY <3>1, <3>7, <4>1 DEF Corrected
        <5>2. \A e : e = f.cards[i] => (Told(i, e) => Told(i, e)')
          BY <3>4
        <5>. QED BY <3>1, <3>5, <3>7, <5>1, <5>2
      <4>. QED BY <3>1, <4>1, <4>2
    <3>8. CASE ~IsOld(f) /\ ~f.full /\ ApplyPatch(f)
      <4>1. /\ viewSeq' = f.n /\ Projects(f.flags) /\ Projects(shown)
            /\ view' = [i \in Cards |-> IF f.cards[i] = Same THEN view[i] ELSE f.cards[i]]
        BY <1>5, <3>8 DEF ApplyPatch
      <4>2. InView
        BY <1>5, <3>2, <4>1
      <4>3. viewSeq < f.n
        BY <3>1, <3>8 DEF IsOld
      <4>4. CASE \E g \in Pending : g.full /\ g.n >= viewSeq
        <5>1. PICK g \in Pending : g.full /\ g.n >= viewSeq
          BY <4>4
        <5>2. g \in Pending'
          BY <3>1, <3>8, <5>1
        <5>. QED BY <1>0, <3>1, <3>3, <3>8, <4>1, <5>1, <5>2
      <4>5. ASSUME NEW i \in Cards, NEW n \in Nat, NEW e, n = viewSeq, e = view[i],
                   Later(n, i) \/ Told(i, e)
            PROVE  \E c : c = view'[i] /\ (Later(f.n, i)' \/ Told(i, c)')
        <5>1. CASE f.cards[i] # Same
          <6>1. view'[i] = f.cards[i]
            BY <4>1, <5>1
          <6>2. CASE Later(f.n, i)
            BY <3>1, <3>5, <6>1, <6>2
          <6>3. CASE f.cards[i] = versions[i]
            <7>1. \A c : c = versions[i] => Told(i, c)'
              BY <3>2 DEF Told
            <7>. QED BY <6>1, <6>3, <7>1
          <6>. QED BY <3>1, <3>8, <5>1, <6>2, <6>3 DEF Corrected
        <5>2. CASE f.cards[i] = Same
          <6>1. view'[i] = view[i]
            BY <4>1, <5>2
          <6>2. ASSUME Later(n, i) PROVE Later(f.n, i)'
            <7>1. PICK g \in Pending : ~g.full /\ g.n > n /\ g.cards[i] # Same
              BY <6>2 DEF Later
            <7>2. g \in Pending'
              BY <3>1, <5>2, <7>1
            <7>. QED BY <1>0, <3>1, <3>3, <3>8, <7>1, <7>2 DEF Later
          <6>. QED BY <3>4, <4>5, <6>1, <6>2
        <5>. QED BY <5>1, <5>2
      <4>. QED BY <2>1, <3>1, <4>1, <4>2, <4>4, <4>5
    <3>. QED BY <3>1, <3>2, <3>6, <3>7, <3>8 DEF Apply
  <2>10. ASSUME NEW s \in Senders, ReadStore(s) \/ Send(s) PROVE Goal
    <3>1. /\ InView /\ view' = view /\ viewSeq' = viewSeq /\ link # "none"
      BY <1>5, <2>10 DEF ReadStore, Send, pages
    <3>2. Pending \subseteq Pending'
      BY <2>10, <3>1, PendingRead, PendingSent
    <3>. QED BY <2>3, <3>1, <3>2
  <2>11. ASSUME \/ Stream \/ MergeQuietly \/ \E h \in Handlers : Handle(h) \/ Initialize(h)
                \/ \E s \in Senders : Draw(s) \/ Publish(s)
                \/ UNCHANGED broadcastVars
         PROVE  Goal
    <3>1. InView /\ view' = view /\ viewSeq' = viewSeq
      BY <1>5, <2>11 DEF Stream, MergeQuietly, Handle, Initialize, Draw, Publish, broadcastVars, pages
    <3>2. Pending' = Pending
      BY <2>11, PendingStands DEF Standing
    <3>. QED BY <2>3, <2>11, <3>1, <3>2
  <2>. QED BY <2>4, <2>5, <2>6, <2>7, <2>8, <2>9, <2>10, <2>11
         DEF BroadcastNext, Changes, Tasks, Connect, Page, Broadcasting
<1>6. link' \in {"seeded", "up"} /\ page' \in {"snapped", "follows"} /\ Projects(shown')
          /\ "now" \notin owes' /\ ~unfetched' =>
       \/ \E f \in Pending' : f.full /\ f.n >= viewSeq'
       \/ \A i \in Cards : Later(viewSeq, i)' \/ Told(i, view[i])'
  <2>1. ASSUME NEW i \in Cards, NEW n \in Nat, NEW e, n = viewSeq', e = view'[i],
               Later(n, i)' \/ Told(i, e)'
        PROVE  Later(viewSeq, i)' \/ Told(i, view[i])'
    BY <2>1 DEF Later, Told
  <2>. QED BY <1>5, <2>1
<1>. QED BY <1>3, <1>4, <1>6 DEF Corrected, Projects

(***************************************************************************)
(* Broadcast: the theorems                                                 *)
(***************************************************************************)

\* The invariant of a host and a page that follows one of its threads: it holds after
\* every change, step of a broadcast and step of the page (emitter.rs:107-197,
\* stream.rs:85-400).
THEOREM BroadcastInvariance == BroadcastSpec => []BroadcastInd
<1>1. BroadcastInd /\ [BroadcastNext]_broadcastVars => BroadcastInd'
  <2> SUFFICES ASSUME BroadcastInd, [BroadcastNext]_broadcastVars PROVE BroadcastInd'
    OBVIOUS
  <2>1. BroadcastTypeOK' /\ Framed'
    BY BroadcastTypesKept, FramedKept DEF BroadcastInd
  <2>2. ASSUME ~crossed' PROVE Sequenced' /\ Delivered' /\ Current' /\ Corrected'
    <3>1. Sequenced /\ Delivered /\ Current /\ Corrected
      BY <2>2, InTurn DEF BroadcastInd
    <3>. QED BY <2>2, <3>1, SequencedKept, DeliveredKept, CurrentKept, CorrectedKept
         DEF BroadcastInd
  <2>. QED BY <2>1, <2>2 DEF BroadcastInd
<1>. QED BY <1>1, BroadcastInitially, PTL DEF BroadcastSpec

\* Every variable of host and page keeps its type, whatever broadcasts overtake.
THEOREM BroadcastTypes == BroadcastSpec => []BroadcastTypeOK
<1>1. BroadcastInd => BroadcastTypeOK
  BY DEF BroadcastInd
<1>. QED BY <1>1, BroadcastInvariance, PTL

\* A page that has nothing more to come shows what the store holds: for any number of
\* handlers, cards and changes, and any interleaving of the two tasks of the page with the
\* broadcasts, as long as these keep to the order of their numbers.
THEOREM QuietPageShowsTheStore == BroadcastSpec => []QuietShowsStore
<1>1. BroadcastInd => QuietShowsStore
  <2> SUFFICES ASSUME BroadcastInd, Quiet, ~crossed, ~untold, ~unfetched PROVE ShowsStore
    BY DEF QuietShowsStore
  <2>1. Framed /\ Sequenced /\ Delivered /\ Current /\ Corrected
    BY DEF BroadcastInd
  <2>2. Pending = {}
    BY DEF Quiet, Pending, Computed
  <2>3. AllRead /\ patch /\ link = "up" /\ page = "follows" /\ owes = {}
    BY <2>1 DEF Quiet, AllRead, Framed
  <2>4. versions = Projected
    BY <2>1, <2>3 DEF Current
  <2>5. shown = flags
    BY <2>1, <2>2, <2>3 DEF Current, Delivered
  <2>6. ASSUME Projects(flags), NEW i \in Cards
        PROVE  view[i] = cards[i] \/ (cards[i] = NoCard /\ i \in unlisted)
    <3>1. Told(i, view[i])
      BY <2>1, <2>2, <2>3, <2>5, <2>6 DEF Corrected, Later
    <3>2. versions[i] = cards[i]
      BY <2>4, <2>6 DEF Projected
    <3>. QED BY <3>1, <3>2 DEF Told
  <2>. QED BY <2>5, <2>6 DEF ShowsStore
<1>. QED BY <1>1, BroadcastInvariance, PTL
=============================================================================
