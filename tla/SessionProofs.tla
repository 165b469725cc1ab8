--------------------------- MODULE SessionProofs ---------------------------
(* One session, its cards and its file.  Compaction holds its invariants for   *)
(* any number of requests, items and lines: the cards show one summary, in     *)
(* front, and while the session runs the newest card whose message is not in   *)
(* the file is the last one until a swap finds it alone.  SessionFile holds its for any number of appends, rewriters *)
(* and crashes: what nothing else at work on the file could cost can be read,  *)
(* and in order.                                                               *)
EXTENDS Compaction, SessionFile, FiniteSetTheorems, SequenceTheorems,
        WellFoundedInduction, TLAPS

(***************************************************************************)
(* Compaction: the inductive invariant                                     *)
(***************************************************************************)

\* What a sync has read is as good as the cards it may replace: a fold begins at
\* the last summary of the file.
ScanFolded ==
    \A n \in DOMAIN scan : \A i \in 1..Len(scan[n]) : scan[n][i].summary => i = 1

\* Only an engine at work has a message to append, so no new turn begins with one;
\* and while the session runs no sync merges: the newest card that waits for its
\* line, as long as it is shown, is the last.
PendingLast ==
    /\ pending # <<>> => AtWork
    /\ pending # <<>> /\ running /\ Newest \in Shown =>
         cards # <<>> /\ cards[Len(cards)] = Newest

Ind == TypeOK /\ OneSummaryFirst /\ ScanFolded /\ PendingLast

(***************************************************************************)
(* Compaction: the operators                                               *)
(***************************************************************************)

\* Numbers that are bounded have a greatest, so Max is what it says.
LEMMA MaxExists ==
    ASSUME NEW S \in SUBSET Nat, S # {}, NEW n \in Nat, \A x \in S : x <= n
    PROVE  Max(S) \in S /\ \A y \in S : Max(S) >= y
<1> DEFINE D == {n - x : x \in S}
<1>1. D \subseteq Nat /\ D # {}
  <2>1. D \subseteq Nat
    OBVIOUS
  <2>2. D # {}
    OBVIOUS
  <2>3. QED
    BY <2>1, <2>2
<1>2. PICK m \in D : \A k \in D : <<k, m>> \notin OpToRel(<, Nat)
  <2> HIDE DEF D
  <2>1. QED
    BY <1>1, NatLessThanWellFounded, WFMin
<1>3. PICK x \in S : m = n - x
  OBVIOUS
<1>4. \A y \in S : x >= y
  <2> SUFFICES ASSUME NEW y \in S PROVE x >= y
    OBVIOUS
  <2>1. n - y \in D
    OBVIOUS
  <2>2. ~(n - y < n - x)
    BY <1>1, <1>2, <1>3, <2>1 DEF OpToRel
  <2>3. QED
    BY <2>2
<1>5. QED
  BY <1>4 DEF Max

\* What a fold shows is a tail of the file, with a summary at most in front.
LEMMA FoldShape ==
    ASSUME NEW lines \in Seq(Record)
    PROVE  \E k \in 1..MaxOf(Len(lines), 1) :
              /\ Fold(lines) = SubSeq(lines, k, Len(lines))
              /\ \A i \in k+1..Len(lines) : ~lines[i].summary
<1> DEFINE I == {i \in 1..Len(lines) : lines[i].summary}
<1>1. Fold(lines) = SubSeq(lines, MaxOf(IF I # {} THEN Max(I) ELSE 0, 1), Len(lines))
  BY DEF Fold, SelectLastInSubSeq
<1>2. CASE I = {}
  <2>1. MaxOf(0, 1) = 1 /\ 1 \in 1..MaxOf(Len(lines), 1)
    BY DEF MaxOf
  <2>2. Fold(lines) = SubSeq(lines, 1, Len(lines))
    BY <1>1, <1>2, <2>1
  <2>3. \A i \in 1+1..Len(lines) : ~lines[i].summary
    BY <1>2
  <2>4. QED
    BY ONLY <2>1, <2>2, <2>3
<1>3. CASE I # {}
  <2>1. Max(I) \in I /\ \A y \in I : Max(I) >= y
    <3>1. I \in SUBSET Nat /\ Len(lines) \in Nat /\ \A x \in I : x <= Len(lines)
      OBVIOUS
    <3> HIDE DEF I
    <3>2. QED
      BY <1>3, <3>1, MaxExists
  <2>2. PICK k \in I : k = Max(I) /\ \A y \in I : k >= y
    BY <2>1
  <2>3. Fold(lines) = SubSeq(lines, MaxOf(k, 1), Len(lines))
    BY <1>1, <1>3, <2>2
  <2>4. k \in 1..Len(lines) /\ MaxOf(k, 1) = k
    BY DEF MaxOf
  <2>5. \A i \in k+1..Len(lines) : ~lines[i].summary
    BY <2>2, <2>4
  <2>6. k \in 1..MaxOf(Len(lines), 1)
    BY <2>4 DEF MaxOf
  <2>7. QED
    BY <2>3, <2>4, <2>5, <2>6
<1>4. QED
  BY <1>2, <1>3

\* What a fold returns is a sequence with at most its first line a summary.
LEMMA FoldGood ==
    ASSUME NEW lines \in Seq(Record)
    PROVE  /\ Fold(lines) \in Seq(Record)
           /\ \A i \in 1..Len(Fold(lines)) : Fold(lines)[i].summary => i = 1
<1>1. PICK k \in 1..MaxOf(Len(lines), 1) :
        /\ Fold(lines) = SubSeq(lines, k, Len(lines))
        /\ \A i \in k+1..Len(lines) : ~lines[i].summary
  BY FoldShape
<1>2. k \in Nat \ {0}
  BY DEF MaxOf
<1> HIDE DEF Fold
<1>3. QED
  BY <1>1, <1>2

\* An item and an answer are records, and no item is a summary.
LEMMA Records ==
    /\ \A i \in Items : Item(i) \in Record
    /\ NoAnswer \in Record
    /\ \A i, j \in Items : Item(i) = Item(j) => i = j
    /\ \A i \in Items : ~Item(i).summary
<1>1. \A i \in Items : {i} \in SUBSET Items
  OBVIOUS
<1>2. QED
  BY <1>1 DEF Item, NoAnswer, Record

\* What cards tell are items.
LEMMA TellsItems ==
    ASSUME NEW s \in Seq(Record), NEW m \in Nat, NEW n \in Nat \ {0}, m <= Len(s)
    PROVE  Tells(SubSeq(s, n, m)) \in SUBSET Items
<1>1. \A i \in n..m : s[i] \in Record
  OBVIOUS
<1>2. SubSeq(s, n, m) \in Seq(Record)
  BY <1>1
<1>3. \A r \in Record : r.tells \in SUBSET Items
  BY DEF Record
<1>4. \A t \in Seq(Record) : \A i \in DOMAIN t : t[i].tells \in SUBSET Items
  BY <1>3
<1>5. QED
  BY <1>2, <1>4 DEF Tells

-----------------------------------------------------------------------------

\* A session begins without a summary and without an item in production.
LEMMA Initially == Init => Ind
<1> SUFFICES ASSUME Init PROVE Ind
  OBVIOUS
<1>1. TypeOK
  <2>1. cards \in Seq(Record) /\ file \in Seq(Record) /\ scan \in Seq(Seq(Record)) /\ Len(scan) <= 1
    BY DEF Init
  <2>2. next \in 1..MaxItems + 1 /\ pending \in Seq(Items)
    BY BoundsAssumption DEF Init
  <2>3. asked \in [Compactions -> SUBSET Items]
    BY DEF Init
  <2>4. QED
    BY <2>1, <2>2, <2>3, Records DEF Init, TypeOK
<1>2. OneSummaryFirst /\ ScanFolded /\ PendingLast
  BY DEF Init, OneSummaryFirst, ScanFolded, PendingLast
<1>3. QED
  BY <1>1, <1>2 DEF Ind

\* Each of the four parts, whatever step is taken.
LEMMA TypesKept == Ind /\ [Next]_vars => TypeOK'
<1> SUFFICES ASSUME Ind, [Next]_vars PROVE TypeOK'
  OBVIOUS
<1> USE BoundsAssumption DEF Ind
<1>a. ASSUME Show
      PROVE  /\ cards' \in Seq(Record) /\ next' \in 1..MaxItems + 1
             /\ <<next>> \in Seq(Items) /\ Append(pending, next) \in Seq(Items)
  <2>1. next \in Items /\ Item(next) \in Record
    BY <1>a, Records DEF TypeOK, Show, Items
  <2>2. QED
    BY <1>a, <2>1 DEF TypeOK, Show, Items
<1>b. ASSUME Line PROVE file' \in Seq(Record) /\ next' \in 1..MaxItems + 1
  BY <1>b, Records DEF TypeOK, Line, Items
<1>c. <<>> \in Seq(Items)
  OBVIOUS
<1>1. CASE Send \/ Produce
  BY <1>1, <1>a DEF TypeOK, Send, Produce, jobs
<1>2. CASE EditAndResend \/ EngineEnds \/ FinishTurn
  BY <1>2, <1>c DEF TypeOK, EditAndResend, EngineEnds, FinishTurn, jobs, session
<1>3. CASE NextRound \/ PersistUnseen \/ Fail \/ GiveUp
  BY <1>3, <1>a, <1>b, <1>c DEF TypeOK, NextRound, PersistUnseen, Fail, GiveUp, jobs
<1>4. CASE Persist
  <2> DEFINE lines == [i \in DOMAIN pending |-> Item(pending[i])]
  <2>1. lines \in Seq(Record)
    <3>1. pending \in Seq(Items) /\ \A i \in DOMAIN pending : Item(pending[i]) \in Record
      BY Records DEF TypeOK
    <3>2. DOMAIN pending = 1..Len(pending) /\ Len(pending) \in Nat
      BY <3>1
    <3>3. QED
      BY <3>1, <3>2
  <2>2. file' = file \o lines
    BY <1>4 DEF Persist
  <2> HIDE DEF lines
  <2>3. file' \in Seq(Record)
    BY <2>1, <2>2 DEF TypeOK
  <2>4. QED
    BY <1>4, <1>c, <2>3 DEF TypeOK, Persist, jobs
<1>d. CASE Abort
  BY <1>d DEF TypeOK, Abort, session
<1>5. ASSUME NEW c \in Compactions, Begin(c) PROVE TypeOK'
  <2>1. Tells(SubSeq(cards, 1, Len(cards) - Preserve(Len(cards)))) \in SUBSET Items
    <3>1. Len(cards) - Preserve(Len(cards)) \in 0..Len(cards)
      BY <1>5 DEF Begin, Preserve, MaxOf, TypeOK
    <3>2. QED
      BY <3>1, TellsItems DEF TypeOK
  <2>2. QED
    BY <1>5, <2>1 DEF TypeOK, Begin, session
<1>6. ASSUME NEW c \in Compactions, Swap(c) PROVE TypeOK'
  <2> DEFINE n == Preserve(Len(cards))
  <2>1. n \in 1..Len(cards)
    BY <1>6 DEF Swap, Preserve, MaxOf, TypeOK
  <2>2. answer' \in [Compactions -> Record] /\ answer'[c] \in Record
    BY <1>6 DEF Swap, TypeOK, Record
  <2>3. Kept(n) \in Seq(Record)
    BY <2>1 DEF Kept, TypeOK
  <2>4. cards' \in Seq(Record)
    BY <1>6, <2>2, <2>3 DEF Swap, TypeOK
  <2>5. QED
    BY <1>6, <2>2, <2>4 DEF Swap, TypeOK, turn
<1>7. ASSUME NEW c \in Compactions, Panic(c) PROVE TypeOK'
  BY <1>7 DEF TypeOK, Panic, session, turn
<1>8. ASSUME NEW c \in Compactions, RecordIt(c) PROVE TypeOK'
  BY <1>8, Records DEF TypeOK, RecordIt, turn
<1>9. CASE Scan
  BY <1>9, FoldGood DEF TypeOK, Scan, session, turn, jobs
<1>10. CASE Merge
  BY <1>10 DEF TypeOK, Merge, turn, jobs
<1>11. CASE UNCHANGED vars
  BY <1>11 DEF TypeOK, vars, session, turn, jobs
<1>12. QED
  BY <1>1, <1>2, <1>3, <1>4, <1>d, <1>5, <1>6, <1>7, <1>8, <1>9, <1>10, <1>11 DEF Next

\* The cards after a swap: a summary and the cards from some place on, the last of
\* them at least where there are two.
LEMMA SwapShape ==
    ASSUME TypeOK, NEW c \in Compactions, Swap(c)
    PROVE  \E n \in 1..Len(cards) :
              /\ Len(cards) > 1 => n < Len(cards)
              /\ cards' \in Seq(Record) /\ Len(cards') = 1 + Len(cards) - n
              /\ cards'[1].summary
              /\ \A i \in 2..Len(cards') : cards'[i] = cards[n + i - 1]
<1> DEFINE n == Preserve(Len(cards))
<1>1. n \in 1..Len(cards) /\ (Len(cards) > 1 => n < Len(cards))
  BY DEF Swap, Preserve, MaxOf, TypeOK
<1>2. /\ Len(Kept(n)) = Len(cards) - n
      /\ \A i \in 1..Len(cards) - n : Kept(n)[i] = cards[n + i]
      /\ Kept(n) \in Seq(Record)
  <2>1. cards \in Seq(Record) /\ Kept(n) = SubSeq(cards, n + 1, Len(cards))
    BY DEF Kept, TypeOK
  <2> HIDE DEF n
  <2>2. Len(cards) \in Nat /\ n \in Nat /\ n + 1 >= 1
    BY <1>1, <2>1
  <2>3. Kept(n) \in Seq(Record) /\ Len(Kept(n)) = Len(cards) - n
    BY <1>1, <2>1, <2>2
  <2>4. \A i \in 1..Len(cards) - n : Kept(n)[i] = cards[n + i]
    BY <1>1, <2>1, <2>2
  <2>5. QED
    BY <2>3, <2>4
<1>3. answer'[c] \in Record /\ answer'[c].summary
  BY DEF Swap, TypeOK, Record
<1>4. cards' = <<answer'[c]>> \o Kept(n)
  BY DEF Swap
<1> DEFINE a == answer'[c]
           k == Kept(n)
<1>5. a \in Record /\ k \in Seq(Record) /\ cards' = <<a>> \o k /\ Len(k) = Len(cards) - n
  BY <1>2, <1>3, <1>4
<1> HIDE DEF a, k
<1>6. /\ cards' \in Seq(Record) /\ Len(cards') = 1 + Len(k) /\ cards'[1] = a
      /\ \A i \in 2..Len(cards') : cards'[i] = k[i - 1]
  BY <1>5
<1> HIDE DEF n
<1>7. \A i \in 2..Len(cards') : cards'[i] = cards[n + i - 1]
  <2> SUFFICES ASSUME NEW i \in 2..Len(cards') PROVE cards'[i] = cards[n + i - 1]
    OBVIOUS
  <2>1. i - 1 \in 1..Len(cards) - n
    BY <1>1, <1>5, <1>6 DEF TypeOK
  <2>2. k[i - 1] = cards[n + (i - 1)] /\ n + (i - 1) = n + i - 1
    BY <1>1, <1>2, <2>1 DEF k
  <2>3. QED
    BY <1>6, <2>2
<1>8. QED
  BY <1>1, <1>3, <1>5, <1>6, <1>7 DEF TypeOK, a

\* Swap and Merge are the steps that could move a summary; neither does.
LEMMA FirstKept == Ind /\ [Next]_vars => OneSummaryFirst'
<1> SUFFICES ASSUME Ind, [Next]_vars PROVE OneSummaryFirst'
  OBVIOUS
<1> USE DEF Ind
<1>a. ASSUME Show PROVE OneSummaryFirst'
  <2>1. next \in Items
    BY <1>a DEF Show, TypeOK, Items
  <2>2. ~Item(next).summary
    BY <2>1, Records
  <2>3. QED
    BY <1>a, <2>2 DEF Show, OneSummaryFirst, TypeOK
<1>1. ASSUME NEW c \in Compactions, Swap(c) PROVE OneSummaryFirst'
  <2>1. PICK n \in 1..Len(cards) :
          /\ cards' \in Seq(Record) /\ Len(cards') = 1 + Len(cards) - n
          /\ \A i \in 2..Len(cards') : cards'[i] = cards[n + i - 1]
    BY <1>1, SwapShape
  <2>2. \A i \in 2..Len(cards') : ~cards'[i].summary
    <3> SUFFICES ASSUME NEW i \in 2..Len(cards') PROVE ~cards'[i].summary
      OBVIOUS
    <3>1. Len(cards) \in Nat
      BY DEF TypeOK
    <3>2. n + i - 1 \in 1..Len(cards) /\ n + i - 1 # 1
      BY <2>1, <3>1
    <3>3. n + i - 1 \in DOMAIN cards
      BY <3>2 DEF TypeOK
    <3>4. ~cards[n + i - 1].summary
      BY <3>2, <3>3 DEF OneSummaryFirst
    <3>5. QED
      BY <2>1, <3>4
  <2>3. QED
    BY <2>1, <2>2 DEF OneSummaryFirst
<1>2. CASE Merge
  <2>1. 1 \in DOMAIN scan /\ scan[1] \in Seq(Record)
    BY <1>2 DEF Merge, TypeOK
  <2>2. \A i \in DOMAIN scan[1] : scan[1][i].summary => i = 1
    BY <2>1 DEF ScanFolded
  <2>3. QED
    BY <1>2, <2>2 DEF Merge, OneSummaryFirst
<1>3. CASE UNCHANGED cards
  BY <1>3 DEF OneSummaryFirst
<1>4. QED
  BY <1>a, <1>1, <1>2, <1>3 DEF Next, Send, EditAndResend, NextRound, Produce, Persist,
     PersistUnseen, EngineEnds, Fail, GiveUp, FinishTurn, Abort, Begin, Panic, RecordIt,
     Scan, vars, session

\* What a sync has read stays what a fold returned.
LEMMA ScanKept == Ind /\ [Next]_vars => ScanFolded'
<1> SUFFICES ASSUME Ind, [Next]_vars PROVE ScanFolded'
  OBVIOUS
<1> USE DEF Ind
<1>1. CASE Scan
  BY <1>1, FoldGood DEF Scan, ScanFolded, TypeOK
<1>2. CASE Merge
  BY <1>2 DEF Merge, ScanFolded
<1>3. CASE UNCHANGED scan
  BY <1>3 DEF ScanFolded
<1>4. QED
  BY <1>1, <1>2, <1>3 DEF Next, Send, EditAndResend, NextRound, Produce, Persist,
     PersistUnseen, EngineEnds, Fail, GiveUp, FinishTurn, Abort, Begin, Swap, Panic,
     RecordIt, vars

\* What a swap does to the last card.
LEMMA SwapKeepsLast ==
    ASSUME TypeOK, NEW c \in Compactions, Swap(c), Len(cards) > 1
    PROVE  cards' # <<>> /\ cards'[Len(cards')] = cards[Len(cards)]
<1>1. PICK n \in 1..Len(cards) :
        /\ n < Len(cards)
        /\ cards' \in Seq(Record) /\ Len(cards') = 1 + Len(cards) - n
        /\ \A i \in 2..Len(cards') : cards'[i] = cards[n + i - 1]
  BY SwapShape
<1>2. Len(cards') \in 2..Len(cards') /\ n + Len(cards') - 1 = Len(cards)
  BY <1>1 DEF TypeOK
<1>3. QED
  BY <1>1, <1>2

\* A swap shows no item that was not shown.
LEMMA SwapAddsNoItem ==
    ASSUME TypeOK, NEW c \in Compactions, Swap(c), NEW i \in Items, Item(i) \in Shown'
    PROVE  Item(i) \in Shown /\ Len(cards) > 1
<1>1. PICK n \in 1..Len(cards) :
        /\ cards' \in Seq(Record) /\ Len(cards') = 1 + Len(cards) - n
        /\ cards'[1].summary
        /\ \A j \in 2..Len(cards') : cards'[j] = cards[n + j - 1]
  BY SwapShape
<1>2. PICK j \in DOMAIN cards' : cards'[j] = Item(i)
  BY DEF Shown
<1>3. j \in 2..Len(cards')
  BY <1>1, <1>2, Records
<1>4. n + j - 1 \in 2..Len(cards) /\ cards[n + j - 1] = Item(i)
  <2>1. Len(cards) \in Nat /\ j \in Nat /\ j >= 2 /\ j <= 1 + Len(cards) - n
    BY <1>1, <1>3 DEF TypeOK
  <2>2. n + j - 1 \in 2..Len(cards)
    BY <2>1
  <2>3. cards'[j] = cards[n + j - 1]
    BY <1>1, <1>3
  <2>4. QED
    BY <1>2, <2>2, <2>3
<1>5. QED
  BY <1>4 DEF Shown, TypeOK

\* The newest card that waits for its line stays the last while the session runs: cards
\* are appended for it only, a swap keeps the latest, and no sync merges.
LEMMA LastKept == Ind /\ [Next]_vars => PendingLast'
<1> SUFFICES ASSUME Ind, [Next]_vars PROVE PendingLast'
  OBVIOUS
<1> USE DEF Ind
<1>a. ASSUME Show
      PROVE  cards' # <<>> /\ cards'[Len(cards')] = Item(next) /\ next \in Items
  <2>1. cards' = Append(cards, Item(next)) /\ Item(next) \in Record /\ next \in Items
    BY <1>a, Records DEF Show, TypeOK, Items
  <2>2. QED
    BY <2>1 DEF TypeOK
<1>1. CASE Send \/ Produce
  <2>1. Show /\ pending' \in {<<next>>, Append(pending, next)} /\ engine' \in {"prompt", "works"}
    BY <1>1 DEF Send, Produce
  <2>2. Last(pending') = next
    <3>1. Append(pending, next)[Len(Append(pending, next))] = next
      BY DEF TypeOK
    <3>2. <<next>>[Len(<<next>>)] = next
      OBVIOUS
    <3>3. QED
      BY <2>1, <3>1, <3>2 DEF Last
  <2>3. QED
    BY <1>a, <2>1, <2>2 DEF PendingLast, AtWork, Newest
<1>2. CASE EditAndResend
  BY <1>2 DEF EditAndResend, Rests, PendingLast, AtWork
<1>3. CASE NextRound
  <2>1. CASE Show /\ pending' = <<next>>
    <3>1. Last(pending') = next
      BY <2>1 DEF Last
    <3>2. QED
      BY <1>3, <1>a, <2>1, <3>1 DEF NextRound, PendingLast, AtWork, Newest
  <2>2. CASE UNCHANGED pending /\ engine = "resumes"
    BY <1>3, <2>2 DEF PendingLast, AtWork
  <2>3. QED
    BY <1>3, <2>1, <2>2 DEF NextRound
<1>4. CASE Persist \/ EngineEnds \/ Fail
  BY <1>4 DEF Persist, EngineEnds, Fail, PendingLast
<1>5. CASE PersistUnseen
  BY <1>5 DEF PersistUnseen, PendingLast
<1>6. CASE GiveUp \/ FinishTurn
  BY <1>6 DEF GiveUp, FinishTurn, PendingLast, AtWork
<1>7. CASE Abort
  BY <1>7 DEF Abort, PendingLast, AtWork
<1>8. CASE \E c \in Compactions : Begin(c)
  BY <1>8 DEF Begin, session, PendingLast, AtWork, Newest, Shown
<1>9. CASE \E c \in Compactions : Swap(c)
  <2>1. PICK c \in Compactions : Swap(c)
    BY <1>9
  <2>2. UNCHANGED <<pending, running, engine>>
    BY <2>1 DEF Swap, turn
  <2>3. ASSUME pending # <<>>, running, Newest' \in Shown'
        PROVE  cards' # <<>> /\ cards'[Len(cards')] = Newest'
    <3>1. Last(pending) \in Items /\ Newest' = Item(Last(pending))
      BY <2>2, <2>3 DEF TypeOK, Last, Newest
    <3>2. Newest \in Shown /\ Len(cards) > 1
      BY <2>1, <2>3, <3>1, SwapAddsNoItem DEF Newest
    <3>3. QED
      BY <2>1, <2>3, <3>1, <3>2, SwapKeepsLast DEF PendingLast, Newest
  <2>4. QED
    BY <2>2, <2>3 DEF PendingLast, AtWork
<1>10. CASE Merge
  BY <1>10 DEF Merge, turn, PendingLast, AtWork, Newest, Shown
<1>11. CASE UNCHANGED <<cards, turn>>
  BY <1>11 DEF turn, PendingLast, AtWork, Newest, Shown
<1>12. QED
  BY <1>1, <1>2, <1>3, <1>4, <1>5, <1>6, <1>7, <1>8, <1>9, <1>10, <1>11
     DEF Next, Panic, RecordIt, Scan, vars, session

(***************************************************************************)
(* Compaction: the theorems                                                *)
(***************************************************************************)

\* The invariant holds in every reachable state, whatever turns, compactions and syncs
\* do to one another (helpers.rs:703-793).
THEOREM Invariance == Spec => []Ind
<1>1. Ind /\ [Next]_vars => Ind'
  BY TypesKept, FirstKept, ScanKept, LastKept DEF Ind
<1>2. QED
  BY Initially, <1>1, PTL DEF Spec

\* Every variable has its type: cards and files are sequences of items.
THEOREM TypeCorrect == Spec => []TypeOK
<1>1. Ind => TypeOK
  BY DEF Ind
<1>2. QED
  BY Invariance, <1>1, PTL

\* Whatever compactions and syncs overlap, the cards hold one summary, and first: the
\* swap takes the old one away, and a sync brings what a fold begins with.
THEOREM SummaryFirst == Spec => []OneSummaryFirst
<1>1. Ind => OneSummaryFirst
  BY DEF Ind
<1>2. QED
  BY Invariance, <1>1, PTL

\* While the session runs, no compaction and no sync takes the newest card that waits
\* for its line from beside other cards.
THEOREM ProductionStays == Spec => PendingStays
<1> DEFINE Stays == pending # <<>> /\ pending' = pending /\ running /\ running'
                      /\ Newest \in Shown /\ Len(cards) > 1
                      => Newest \in Shown'
<1>1. Ind /\ [Next]_vars => [Stays]_vars
  <2> SUFFICES ASSUME Ind, [Next]_vars, pending # <<>>, pending' = pending, running, running',
                      Newest \in Shown, Len(cards) > 1
               PROVE  Newest \in Shown'
    OBVIOUS
  <2> USE DEF Ind
  <2>1. ASSUME NEW c \in Compactions, Swap(c) PROVE Newest \in Shown'
    <3>1. cards' # <<>> /\ cards'[Len(cards')] = Newest
      BY <2>1, SwapKeepsLast DEF PendingLast
    <3>2. cards' \in Seq(Record)
      BY TypesKept DEF TypeOK
    <3>3. QED
      BY <3>1, <3>2 DEF Shown
  <2>2. ASSUME Show PROVE Newest \in Shown'
    BY <2>2 DEF Show, Shown, TypeOK
  <2>3. CASE UNCHANGED cards
    BY <2>3 DEF Shown
  <2>4. CASE Merge
    BY <2>3, <2>4 DEF Merge
  <2>5. QED
    BY <2>1, <2>2, <2>3, <2>4 DEF Next, Send, EditAndResend, NextRound, Produce, Persist,
       PersistUnseen, EngineEnds, Fail, GiveUp, FinishTurn, Abort, Begin, Panic, RecordIt,
       Scan, vars, session
<1>2. QED
  BY Invariance, <1>1, PTL DEF Spec, PendingStays

(***************************************************************************)
(* SessionFile: the inductive invariant                                    *)
(***************************************************************************)

\* t may stand before u: it is older, or two rewrites met over both.
Follows(T, t, u) == t < u \/ {t, u} \subseteq T
InOrder(f) ==
    \A i, j \in DOMAIN f : i < j /\ f[i] >= 0 /\ f[j] >= 0 => Follows(tangled, f[i], f[j])
Busy(r) == stage[r] # "idle"
EndsClosed(f) == \A i \in DOMAIN f : i = Len(f) => f[i] = NL

\* Everybody writes to a file that is there, and only what was numbered.
Places ==
    /\ \A a \in Appenders : adding[a] # 0 => present /\ adding[a] < fresh
    /\ \A r \in Rewriters : stage[r] = "write" => present
    /\ written \subseteq Everything
    /\ \A i \in DOMAIN text : text[i] < fresh
    /\ \A r \in Rewriters : \A i \in DOMAIN output[r] : output[r][i] < fresh

\* What is tangled is older than what is not; where two rewrites meet,
\* everything is exposed, and what they will write is tangled.
Meeting ==
    /\ \A t \in tangled, u \in Everything \ tangled : t < u
    /\ \A r, s \in Rewriters : Busy(r) /\ Busy(s) /\ r # s =>
          /\ Everything \subseteq exposed
          /\ \A i \in DOMAIN output[r] : output[r][i] >= 0 => output[r][i] \in tangled

\* The file and each text that is going to replace it are in order, and what has
\* been appended since the file was truncated follows that text.
Sorted ==
    /\ InOrder(text)
    /\ \A r \in Rewriters : Busy(r) => InOrder(output[r])
    /\ \A r \in Rewriters : stage[r] = "write" =>
          \A i \in DOMAIN output[r], j \in DOMAIN text :
             output[r][i] >= 0 /\ text[j] >= 0 => Follows(tangled, output[r][i], text[j])

\* What nothing could cost is in the file, unless it was truncated, and in the text
\* of every rewrite under way, whose lines all end.
Surviving == Everything \ (exposed \cup cleared)
Survival ==
    /\ (\A r \in Rewriters : stage[r] # "write") => Surviving \subseteq Readable(text)
    /\ \A r \in Rewriters : Busy(r) =>
          Surviving \subseteq Readable(output[r]) /\ EndsClosed(output[r])

FileFacts == Places /\ Meeting /\ Sorted /\ Survival
FileInd == FileTypeOK /\ FileFacts

(***************************************************************************)
(* SessionFile: the places of a text                                       *)
(***************************************************************************)

Below(S, i) == {j \in S : j < i}

\* A set of naturals has a least element.
LEMMA LeastExists ==
  ASSUME NEW S \in SUBSET Nat, S # {}
  PROVE  \E m \in S : \A k \in S : m <= k
<1>1. PICK m \in S : \A k \in S : <<k, m>> \notin OpToRel(<, Nat)
  BY NatLessThanWellFounded, WFMin
<1>2. \A k \in S : ~(k < m)
  BY <1>1 DEF OpToRel
<1>3. \A k \in S : m <= k
  BY <1>2
<1>. QED BY <1>3

\* The greater a member, the more members are below it.
LEMMA BelowSize ==
  ASSUME NEW S \in SUBSET Nat, IsFiniteSet(S)
  PROVE  /\ Cardinality(S) \in Nat
         /\ \A i : IsFiniteSet(Below(S, i)) /\ Cardinality(Below(S, i)) \in Nat
         /\ \A i \in S : Cardinality(Below(S, i)) < Cardinality(S)
         /\ \A i, j \in S : i < j => Cardinality(Below(S, i)) < Cardinality(Below(S, j))
<1>1. Cardinality(S) \in Nat
  BY FS_CardinalityType
<1>2. ASSUME NEW i PROVE IsFiniteSet(Below(S, i)) /\ Cardinality(Below(S, i)) \in Nat
  <2>1. Below(S, i) \in SUBSET S
    BY DEF Below
  <2>2. IsFiniteSet(Below(S, i))
    BY <2>1, FS_Subset
  <2>. QED BY <2>2, FS_CardinalityType
<1>3. ASSUME NEW i \in S, NEW T, IsFiniteSet(T), Cardinality(T) \in Nat, Below(S, i) \cup {i} \in SUBSET T
      PROVE  Cardinality(Below(S, i)) < Cardinality(T)
  <2>1. i \notin Below(S, i)
    BY DEF Below
  <2>2. Cardinality(Below(S, i) \cup {i}) = Cardinality(Below(S, i)) + 1
    BY <1>2, <2>1, FS_AddElement
  <2>3. Cardinality(Below(S, i) \cup {i}) <= Cardinality(T)
    BY <1>3, FS_Subset
  <2>. QED BY <1>2, <1>3, <2>2, <2>3
<1>4. ASSUME NEW i \in S PROVE Cardinality(Below(S, i)) < Cardinality(S)
  <2>1. Below(S, i) \cup {i} \in SUBSET S
    BY DEF Below
  <2>. QED BY <1>1, <1>3, <2>1
<1>5. ASSUME NEW i \in S, NEW j \in S, i < j
      PROVE  Cardinality(Below(S, i)) < Cardinality(Below(S, j))
  <2>1. Below(S, i) \cup {i} \in SUBSET Below(S, j)
    <3>1. ASSUME NEW x \in S, x < i PROVE x < j
      <4>1. x \in Nat /\ i \in Nat /\ j \in Nat
        OBVIOUS
      <4>. QED BY <1>5, <3>1, <4>1
    <3>. QED BY <1>5, <3>1 DEF Below
  <2>. QED BY <1>2, <1>3, <2>1
<1>. QED BY <1>1, <1>2, <1>4, <1>5

\* For every place in the order there is a member.
LEMMA PlaceTaken ==
  ASSUME NEW S \in SUBSET Nat, IsFiniteSet(S)
  PROVE  \A k \in 1..Cardinality(S) : \E i \in S : Cardinality(Below(S, i)) = k - 1
<1>. DEFINE Card(T) == Cardinality(T)
            D == {k \in 1..Cardinality(S) : \A i \in S : Cardinality(Below(S, i)) # k - 1}
<1>1. SUFFICES ASSUME D # {} PROVE FALSE
  OBVIOUS
<1>2. D \in SUBSET Nat
  OBVIOUS
<1>3. PICK k \in D : \A l \in D : k <= l
  <2>. HIDE DEF D
  <2>. QED BY <1>1, <1>2, LeastExists
<1>4. /\ k \in Nat /\ k >= 1 /\ k <= Cardinality(S) /\ Cardinality(S) \in Nat
      /\ \A i \in S : Cardinality(Below(S, i)) # k - 1
  BY BelowSize
<1>5. CASE k = 1
  <2>1. S # {}
    BY <1>4, <1>5, FS_EmptySet
  <2>2. PICK i \in S : \A j \in S : i <= j
    BY <2>1, LeastExists
  <2>3. Below(S, i) = {}
    <3>1. \A j \in S : j \in Nat /\ i \in Nat /\ i <= j
      BY <2>2
    <3>2. \A j \in S : ~(j < i)
      BY <3>1
    <3>. QED BY <3>2 DEF Below
  <2>4. Cardinality(Below(S, i)) = 0
    BY <2>3, FS_EmptySet
  <2>. QED BY <1>4, <1>5, <2>4
<1>6. CASE k # 1
  <2>1. k - 1 \in 1..Cardinality(S) /\ k - 1 \notin D
    BY <1>3, <1>4, <1>6
  <2>2. PICK i \in S : Cardinality(Below(S, i)) = (k - 1) - 1
    BY <2>1
  <2>3. Cardinality(Below(S, i) \cup {i}) = k - 1
    <3>1. i \notin Below(S, i) /\ IsFiniteSet(Below(S, i))
      BY BelowSize DEF Below
    <3>2. Cardinality(Below(S, i) \cup {i}) = Cardinality(Below(S, i)) + 1
      BY <3>1, FS_AddElement
    <3>. QED BY <1>4, <2>2, <3>2
  <2>. DEFINE U == {j \in S : j > i}
  <2>4. U # {}
    <3>1. SUFFICES ASSUME U = {} PROVE FALSE
      OBVIOUS
    <3>2. S = Below(S, i) \cup {i}
      <4>1. \A j \in S : j \in Nat /\ i \in Nat /\ ~(j > i)
        BY <3>1
      <4>2. \A j \in S : j < i \/ j = i
        BY <4>1
      <4>. QED BY <4>2 DEF Below
    <3>3. Cardinality(S) = k - 1
      BY <2>3, <3>2
    <3>. QED BY ONLY <1>4, <3>3
  <2>5. PICK m \in U : \A j \in U : m <= j
    <3>1. U \in SUBSET Nat
      OBVIOUS
    <3>. HIDE DEF U
    <3>. QED BY <2>4, <3>1, LeastExists
  <2>6. Below(S, m) = Below(S, i) \cup {i}
    <3>1. m \in S /\ m > i /\ \A j \in S : j > i => m <= j
      BY <2>5
    <3>2. \A j \in S : j \in Nat /\ m \in Nat /\ i \in Nat
      OBVIOUS
    <3>3. \A j \in S : j < m <=> j < i \/ j = i
      BY <3>1, <3>2
    <3>. QED BY <3>3 DEF Below
  <2>. QED BY <1>4, <2>3, <2>5, <2>6
<1>. QED BY <1>5, <1>6

\* Nth counts a set through, upwards.
LEMMA NthFacts ==
  ASSUME NEW S \in SUBSET Nat, IsFiniteSet(S)
  PROVE  /\ \A k \in 1..Cardinality(S) : Nth(S, k) \in S
         /\ \A k, l \in 1..Cardinality(S) : k < l => Nth(S, k) < Nth(S, l)
         /\ \A i \in S : \E k \in 1..Cardinality(S) : Nth(S, k) = i
<1>1. ASSUME NEW k \in 1..Cardinality(S)
      PROVE  Nth(S, k) \in S /\ Cardinality(Below(S, Nth(S, k))) = k - 1
  <2>1. \E i \in S : Cardinality({j \in S : j < i}) = k - 1
    BY PlaceTaken DEF Below
  <2>. QED BY <2>1 DEF Nth, Below
<1>2. ASSUME NEW k \in 1..Cardinality(S), NEW l \in 1..Cardinality(S), k < l
      PROVE  Nth(S, k) < Nth(S, l)
  <2>. DEFINE p == Nth(S, k)
              q == Nth(S, l)
  <2>1. p \in S /\ q \in S /\ Cardinality(Below(S, p)) = k - 1 /\ Cardinality(Below(S, q)) = l - 1
    BY <1>1
  <2>. HIDE DEF p, q
  <2>2. p \in Nat /\ q \in Nat /\ ~(q < p) /\ p # q
    BY <1>2, <2>1, BelowSize
  <2>3. p < q
    BY <2>2
  <2>. QED BY <2>3 DEF p, q
<1>3. ASSUME NEW i \in S PROVE \E k \in 1..Cardinality(S) : Nth(S, k) = i
  <2>. DEFINE k == Cardinality(Below(S, i)) + 1
              p == Nth(S, k)
  <2>1. k \in 1..Cardinality(S)
    BY BelowSize
  <2>2. p \in S /\ Cardinality(Below(S, p)) = Cardinality(Below(S, i))
    BY <1>1, <2>1, BelowSize
  <2>. HIDE DEF p
  <2>3. p \in Nat /\ i \in Nat /\ ~(p < i) /\ ~(i < p)
    BY <2>2, BelowSize
  <2>4. p = i
    BY <2>3
  <2>. QED BY <2>1, <2>4 DEF p
<1>. QED BY <1>1, <1>2, <1>3

\* PartAt runs through the chosen places upwards and passes none over.
LEMMA PartShape ==
  ASSUME NEW T, NEW g \in Seq(T), NEW S \in SUBSET (DOMAIN g)
  PROVE  \E n \in Nat : \E e \in [1..n -> S] :
            /\ PartAt(g, S) \in Seq(T) /\ Len(PartAt(g, S)) = n
            /\ \A k \in 1..n : PartAt(g, S)[k] = g[e[k]]
            /\ \A k, l \in 1..n : k < l => e[k] < e[l]
            /\ \A i \in S : \E k \in 1..n : e[k] = i
<1>1. S \in SUBSET Nat /\ IsFiniteSet(S)
  <2>1. DOMAIN g = 1..Len(g) /\ Len(g) \in Nat
    BY LenProperties
  <2>2. IsFiniteSet(1..Len(g))
    BY <2>1, FS_Interval
  <2>. QED BY <2>1, <2>2, FS_Subset
<1>. DEFINE n == Cardinality(S)
            e == [k \in 1..n |-> Nth(S, k)]
<1>2. n \in Nat /\ e \in [1..n -> S]
  BY <1>1, BelowSize, NthFacts
<1>3. \A k \in 1..n : e[k] \in S /\ e[k] = Nth(S, k) /\ g[e[k]] \in T
  BY <1>2
<1>4. PartAt(g, S) = [k \in 1..n |-> g[e[k]]]
  BY <1>3 DEF PartAt
<1>5. PartAt(g, S) \in Seq(T) /\ Len(PartAt(g, S)) = n /\ \A k \in 1..n : PartAt(g, S)[k] = g[e[k]]
  <2>. HIDE DEF n, e
  <2>. QED BY <1>2, <1>3, <1>4
<1>6. /\ \A k, l \in 1..n : k < l => e[k] < e[l]
      /\ \A i \in S : \E k \in 1..n : e[k] = i
  BY <1>1, NthFacts
<1>. QED BY <1>2, <1>5, <1>6

\* A newline is nothing else.
LEMMA Tokens ==
  /\ Token \subseteq Int /\ NL \in Token /\ Torn \in Token /\ Header \in Token
  /\ NL = -1 /\ Torn = -2 /\ Header = 0
  /\ \A t \in Entries \cup {Header} : t \in Token /\ t >= 0 /\ t # NL
BY FileBoundsAssumption DEF FileBoundsAssumption, Token, Entries, Header, NL, Torn

\* What a rewrite makes of a file: lines that all end, in the order they had, and
\* every line that could be read unless it is to go.
LEMMA LinesShape ==
  ASSUME NEW f \in Seq(Token), NEW gone \in SUBSET {i \in DOMAIN f : ReadableAt(f, i)}
  PROVE  /\ Lines(f, gone) \in Seq(Token)
         /\ \A k \in DOMAIN Lines(f, gone) : k = Len(Lines(f, gone)) => Lines(f, gone)[k] = NL
         /\ \A i \in DOMAIN f \ gone : ReadableAt(f, i) => f[i] \in Readable(Lines(f, gone))
         /\ \A k \in DOMAIN Lines(f, gone) : Lines(f, gone)[k] >= 0 =>
               \E i \in DOMAIN f : Lines(f, gone)[k] = f[i]
         /\ \A k, l \in DOMAIN Lines(f, gone) :
               k < l /\ Lines(f, gone)[k] >= 0 /\ Lines(f, gone)[l] >= 0 =>
                  \E i, j \in DOMAIN f : i < j /\ Lines(f, gone)[k] = f[i] /\ Lines(f, gone)[l] = f[j]
<1>. DEFINE g == Append(f, NL)
            S == Staying(g, gone)
            m == Len(f)
<1>1. /\ m \in Nat /\ DOMAIN f = 1..m /\ g \in Seq(Token) /\ DOMAIN g = 1..m + 1
      /\ \A i \in 1..m : g[i] = f[i]
      /\ g[m + 1] = NL
  BY Tokens, AppendProperties, LenProperties
<1>2. S \in SUBSET (DOMAIN g)
  <2>1. \A h, R : Staying(h, R) \subseteq DOMAIN h
    BY DEF Staying
  <2>2. S \subseteq DOMAIN g
    BY <2>1
  <2>. HIDE DEF g, S
  <2>. QED BY <2>2
<1>3. PICK n \in Nat :
         \E e \in [1..n -> S] :
            /\ PartAt(g, S) \in Seq(Token) /\ Len(PartAt(g, S)) = n
            /\ \A k \in 1..n : PartAt(g, S)[k] = g[e[k]]
            /\ \A k, l \in 1..n : k < l => e[k] < e[l]
            /\ \A i \in S : \E k \in 1..n : e[k] = i
  <2>1. g \in Seq(Token)
    BY <1>1
  <2>. HIDE DEF g, S, m
  <2>. QED BY ONLY <2>1, <1>2, PartShape
<1>31. PICK e \in [1..n -> S] :
            /\ PartAt(g, S) \in Seq(Token) /\ Len(PartAt(g, S)) = n
            /\ \A k \in 1..n : PartAt(g, S)[k] = g[e[k]]
            /\ \A k, l \in 1..n : k < l => e[k] < e[l]
            /\ \A i \in S : \E k \in 1..n : e[k] = i
  <2>. HIDE DEF g, S
  <2>. QED BY <1>3
<1>. DEFINE L == Lines(f, gone)
<1>4. /\ L \in Seq(Token) /\ Len(L) = n /\ DOMAIN L = 1..n
      /\ \A k \in 1..n : L[k] = g[e[k]] /\ e[k] \in S /\ e[k] \in 1..m + 1
      /\ \A k, l \in 1..n : k < l => e[k] < e[l]
      /\ \A i \in S : \E k \in 1..n : e[k] = i
  <2>1. L = PartAt(g, S)
    BY DEF Lines
  <2>. HIDE DEF L, g, S
  <2>2. L \in Seq(Token) /\ Len(L) = n /\ DOMAIN L = 1..n
    BY <1>31, <2>1, LenProperties
  <2>3. \A k \in 1..n : L[k] = g[e[k]] /\ e[k] \in S /\ e[k] \in 1..m + 1
    BY <1>1, <1>2, <1>31, <2>1
  <2>. QED BY <1>31, <2>2, <2>3
<1>5. /\ gone \in SUBSET (1..m)
      /\ \A i \in gone : f[i] # NL /\ (i > 1 => f[i - 1] = NL) /\ (i < m => f[i + 1] = NL)
  BY <1>1, Tokens DEF ReadableAt
<1>6. /\ \A i \in 1..m \ gone : f[i] # NL => i \in S
      /\ \A i \in 1..m \ gone : f[i] # NL /\ g[i + 1] = NL => i + 1 \in S
      /\ S \in SUBSET (1..m + 1) /\ S \cap gone = {}
  <2>1. \A i \in 1..m \ gone : f[i] # NL => i \in S
    BY <1>1 DEF Staying
  <2>2. ASSUME NEW i \in 1..m \ gone, f[i] # NL, g[i + 1] = NL PROVE i + 1 \in S
    <3>1. i + 1 \in DOMAIN g /\ i + 1 > 1 /\ (i + 1) - 1 = i /\ g[i] # NL
      BY <1>1, <2>2
    <3>2. i + 1 \notin gone
      <4>1. i + 1 \in 1..m => f[i + 1] = NL
        BY <1>1, <2>2
      <4>. QED BY <1>5, <4>1
    <3>. QED BY <2>2, <3>1, <3>2 DEF Staying
  <2>3. S \in SUBSET (1..m + 1) /\ S \cap gone = {}
    BY <1>1 DEF Staying
  <2>. QED BY <2>1, <2>2, <2>3
<1>. HIDE DEF g, S, m, L
\* Behind a token that is no newline comes its newline or the next token.
<1>7. ASSUME NEW k \in 1..n, g[e[k]] # NL
      PROVE  k < n /\ e[k + 1] = e[k] + 1
  <2>1. e[k] \in 1..m /\ e[k] \notin gone /\ f[e[k]] # NL
    <3>1. e[k] \in 1..m + 1 /\ e[k] \in S
      BY <1>4
    <3>2. e[k] # m + 1
      BY <1>1, <1>7
    <3>3. e[k] \in 1..m
      BY <1>1, <3>1, <3>2
    <3>. QED BY <1>1, <1>6, <1>7, <3>1, <3>3
  <2>2. e[k] + 1 \in S
    <3>1. CASE g[e[k] + 1] = NL
      BY <1>6, <2>1, <3>1
    <3>2. CASE g[e[k] + 1] # NL
      <4>1. e[k] + 1 \in 1..m /\ f[e[k] + 1] # NL /\ (e[k] + 1) - 1 = e[k] /\ e[k] + 1 > 1
        <5>1. e[k] # m
          BY <1>1, <3>2
        <5>. QED BY <1>1, <2>1, <3>2, <5>1
      <4>2. e[k] + 1 \notin gone
        BY <1>5, <2>1, <4>1
      <4>. QED BY <1>6, <4>1, <4>2
    <3>. QED BY <3>1, <3>2
  <2>3. PICK l \in 1..n : e[l] = e[k] + 1
    BY <1>4, <2>2
  <2>4. k < l
    <3>1. e[k] \in Nat /\ e[l] \in Nat
      <4>1. m \in Nat /\ e[k] \in 1..m + 1 /\ e[l] \in 1..m + 1
        BY <1>1, <1>4
      <4>. QED BY ONLY <4>1
    <3>2. l < k => e[l] < e[k]
      BY <1>4
    <3>. QED BY <2>3, <3>1, <3>2
  <2>5. k + 1 \in 1..n /\ e[k] < e[k + 1]
    BY <1>4, <2>4
  <2>6. l = k + 1
    <3>1. l > k + 1 => e[k + 1] < e[l]
      BY <1>4, <2>5
    <3>2. e[k] \in Nat /\ e[k + 1] \in Nat
      BY <1>1, <1>4, <2>5
    <3>. QED BY <2>3, <2>4, <2>5, <3>1, <3>2
  <2>. QED BY <2>3, <2>4, <2>6
<1>8. \A k \in DOMAIN L : k = Len(L) => L[k] = NL
  <2>. SUFFICES ASSUME NEW k \in DOMAIN L, k = Len(L), L[k] # NL PROVE FALSE
    OBVIOUS
  <2>1. k \in 1..n /\ k = n /\ g[e[k]] # NL
    BY <1>4
  <2>2. k < n
    BY <1>7, <2>1
  <2>. QED BY <2>1, <2>2
<1>9. ASSUME NEW i \in DOMAIN f \ gone, ReadableAt(f, i) PROVE f[i] \in Readable(L)
  <2>1. /\ i \in 1..m \ gone /\ f[i] \in Entries \cup {Header} /\ f[i] # NL
        /\ (i > 1 => f[i - 1] = NL) /\ g[i] = f[i] /\ g[i + 1] = NL
    BY <1>1, <1>9, Tokens DEF ReadableAt, m
  <2>2. PICK k \in 1..n : e[k] = i
    BY <1>4, <1>6, <2>1
  <2>3. k < n /\ L[k] = f[i] /\ L[k + 1] = NL
    <3>1. k < n /\ e[k + 1] = i + 1
      BY <1>7, <2>1, <2>2
    <3>. QED BY <1>4, <2>1, <2>2, <3>1
  <2>4. ASSUME k > 1 PROVE L[k - 1] = NL
    <3>1. k - 1 \in 1..n /\ (k - 1) + 1 = k
      BY <2>4
    <3>2. CASE g[e[k - 1]] # NL
      <4>1. i = e[k - 1] + 1 /\ e[k - 1] \in 1..m + 1
        BY <1>4, <1>7, <2>2, <3>1, <3>2
      <4>2. i > 1 /\ e[k - 1] = i - 1 /\ i - 1 \in 1..m
        BY <1>1, <2>1, <4>1
      <4>. QED BY <1>1, <2>1, <3>2, <4>2
    <3>. QED BY <1>4, <3>1, <3>2
  <2>5. ReadableAt(L, k)
    BY <1>4, <2>1, <2>3, <2>4 DEF ReadableAt
  <2>. QED BY <1>4, <2>3, <2>5 DEF Readable
<1>10. ASSUME NEW k \in DOMAIN L, L[k] >= 0 PROVE e[k] \in DOMAIN f /\ L[k] = f[e[k]]
  <2>1. k \in 1..n /\ L[k] = g[e[k]] /\ e[k] \in 1..m + 1
    BY <1>4
  <2>2. e[k] # m + 1
    <3>1. NL = -1
      BY Tokens
    <3>. QED BY <1>1, <1>10, <2>1, <3>1
  <2>. QED BY <1>1, <2>1, <2>2
<1>11. \A k \in DOMAIN L : L[k] >= 0 => \E i \in DOMAIN f : L[k] = f[i]
  BY <1>10
<1>12. \A k, l \in DOMAIN L : k < l /\ L[k] >= 0 /\ L[l] >= 0 =>
          \E i, j \in DOMAIN f : i < j /\ L[k] = f[i] /\ L[l] = f[j]
  <2>. SUFFICES ASSUME NEW k \in DOMAIN L, NEW l \in DOMAIN L, k < l, L[k] >= 0, L[l] >= 0
                PROVE  \E i, j \in DOMAIN f : i < j /\ L[k] = f[i] /\ L[l] = f[j]
    OBVIOUS
  <2>1. e[k] < e[l]
    BY <1>4
  <2>. QED BY <1>10, <2>1
<1>. QED BY <1>4, <1>8, <1>9, <1>11, <1>12 DEF L

(***************************************************************************)
(* SessionFile: what can be read in a text                                 *)
(***************************************************************************)

\* The invariant holds of the file that create_session writes.
LEMMA InitFileInd == FileInit => FileInd
<1>. SUFFICES ASSUME FileInit PROVE FileInd
  OBVIOUS
<1>1. /\ text \in Seq(Token) /\ Len(text) = 2 /\ DOMAIN text = 1..2
      /\ text[1] = 0 /\ text[2] = -1 /\ text = <<Header, NL>> /\ fresh = 1
  BY Tokens DEF FileInit
<1>2. FileTypeOK
  BY <1>1, FileBoundsAssumption DEF FileBoundsAssumption, FileInit, FileTypeOK, Entries
<1>3. Places
  BY <1>1 DEF FileInit, Places
<1>4. Meeting
  BY DEF FileInit, Meeting, Busy
<1>5. Sorted
  BY <1>1 DEF FileInit, Sorted, InOrder, Busy
<1>6. Survival
  <2>1. ReadableAt(text, 1)
    BY <1>1, Tokens DEF ReadableAt
  <2>2. 0 \in Readable(text)
    BY <1>1, <2>1 DEF Readable
  <2>3. Everything = {0}
    BY <1>1 DEF Everything
  <2>. QED BY <2>2, <2>3 DEF FileInit, Survival, Surviving, Busy
<1>. QED BY <1>2, <1>3, <1>4, <1>5, <1>6 DEF FileInd, FileFacts

\* What a text is made of.
LEMMA TextFacts ==
  ASSUME NEW f \in Seq(Token)
  PROVE  /\ Len(f) \in Nat /\ DOMAIN f = 1..Len(f)
         /\ \A i \in DOMAIN f : f[i] \in Token /\ f[i] \in Int
<1>1. Len(f) \in Nat /\ DOMAIN f = 1..Len(f)
  BY LenProperties
<1>2. \A i \in 1..Len(f) : f[i] \in Token
  OBVIOUS
<1>3. \A i \in 1..Len(f) : f[i] \in Int
  BY <1>2, Tokens, Zenon
<1>. QED BY <1>1, <1>2, <1>3

\* The facts a step starts from.
LEMMA FileBasics ==
  ASSUME FileTypeOK
  PROVE  /\ text \in Seq(Token) /\ Len(text) \in Nat /\ DOMAIN text = 1..Len(text)
         /\ fresh \in Nat /\ fresh >= 1 /\ Everything = 0..fresh - 1
         /\ \A i \in DOMAIN text : text[i] \in Int
         /\ \A r \in Rewriters : /\ output[r] \in Seq(Token) /\ Len(output[r]) \in Nat
                                 /\ DOMAIN output[r] = 1..Len(output[r])
                                 /\ \A i \in DOMAIN output[r] : output[r][i] \in Int
<1>1. text \in Seq(Token) /\ \A r \in Rewriters : output[r] \in Seq(Token)
  BY DEF FileTypeOK
<1>2. fresh \in Nat /\ fresh >= 1 /\ Everything = 0..fresh - 1
  BY FileBoundsAssumption DEF FileBoundsAssumption, FileTypeOK, Everything
<1>3. Len(text) \in Nat /\ DOMAIN text = 1..Len(text) /\ \A i \in DOMAIN text : text[i] \in Int
  BY <1>1, TextFacts
<1>4. ASSUME NEW r \in Rewriters
      PROVE  /\ Len(output[r]) \in Nat /\ DOMAIN output[r] = 1..Len(output[r])
             /\ \A i \in DOMAIN output[r] : output[r][i] \in Int
  <2>1. output[r] \in Seq(Token)
    BY <1>1
  <2>. QED BY <2>1, TextFacts
<1>. QED BY <1>1, <1>2, <1>3, <1>4

\* One more token costs at most the line it is glued to.
LEMMA ReadableAppend ==
  ASSUME NEW f \in Seq(Token), NEW x \in Token, NEW t \in Readable(f),
         x = NL \/ ~EndsInLine(f) \/ t # Last(f)
  PROVE  t \in Readable(Append(f, x))
<1>. DEFINE g == Append(f, x)
            m == Len(f)
<1>1. /\ m \in Nat /\ DOMAIN f = 1..m /\ DOMAIN g = 1..m + 1 /\ Len(g) = m + 1
      /\ \A k \in 1..m : g[k] = f[k]
      /\ g[m + 1] = x
  BY AppendProperties, LenProperties
<1>2. PICK i \in 1..m : ReadableAt(f, i) /\ t = f[i]
  BY <1>1 DEF Readable
<1>3. i = m => x = NL
  <2>1. i = m => f # <<>> /\ Last(f) = t
    BY <1>1, <1>2 DEF Last
  <2>2. t # NL
    BY <1>2, Tokens DEF ReadableAt
  <2>. QED BY <2>1, <2>2 DEF EndsInLine
<1>. HIDE DEF g
<1>4. ReadableAt(g, i)
  <2>1. g[i] \in Entries \cup {Header} /\ (i > 1 => g[i - 1] = NL)
    BY <1>1, <1>2 DEF ReadableAt
  <2>2. g[i + 1] = NL
    <3>1. i < m => f[i + 1] = NL
      BY <1>2 DEF ReadableAt
    <3>2. i < m => g[i + 1] = f[i + 1]
      <4>1. i < m => i + 1 \in 1..m
        BY <1>1
      <4>. QED BY <1>1, <4>1
    <3>3. CASE i = m
      BY <1>1, <1>3, <3>3
    <3>4. CASE i # m
      <4>1. i < m
        <5>1. m \in Nat /\ i \in 1..m
          BY <1>1
        <5>. HIDE DEF m
        <5>. QED BY ONLY <3>4, <5>1
      <4>. QED BY <3>1, <3>2, <4>1
    <3>. QED BY <3>3, <3>4
  <2>. QED BY <2>1, <2>2 DEF ReadableAt
<1>5. i \in DOMAIN g /\ g[i] = t
  BY <1>1, <1>2
<1>6. t \in Readable(g)
  BY <1>4, <1>5 DEF Readable
<1>. QED BY <1>6 DEF g

\* Behind lines that all end, anything can follow.
LEMMA ReadableConcat ==
  ASSUME NEW f \in Seq(Token), NEW h \in Seq(Token), EndsClosed(f), NEW t \in Readable(f)
  PROVE  t \in Readable(f \o h)
<1>. DEFINE g == f \o h
            m == Len(f)
<1>1. /\ m \in Nat /\ Len(h) \in Nat /\ DOMAIN f = 1..m /\ DOMAIN g = 1..m + Len(h)
      /\ Len(g) = m + Len(h) /\ \A k \in 1..m : g[k] = f[k]
  BY ConcatProperties, LenProperties
<1>2. PICK i \in 1..m : ReadableAt(f, i) /\ t = f[i]
  BY <1>1 DEF Readable
<1>3. i < m
  <2>1. f[i] # NL
    BY <1>2, Tokens DEF ReadableAt
  <2>2. i # m
    <3>1. m \in DOMAIN f => f[m] = NL
      BY DEF EndsClosed
    <3>. QED BY <1>1, <2>1, <3>1
  <2>3. m \in Nat /\ i \in 1..m
    BY <1>1
  <2>. HIDE DEF m
  <2>. QED BY ONLY <2>2, <2>3
<1>. HIDE DEF g
<1>4. ReadableAt(g, i)
  BY <1>1, <1>2, <1>3 DEF ReadableAt
<1>5. i \in DOMAIN g /\ g[i] = t
  BY <1>1, <1>2
<1>6. t \in Readable(g)
  BY <1>4, <1>5 DEF Readable
<1>. QED BY <1>6 DEF g

\* What can be read after a step is what can be read of the next file and texts.
LEMMA Primed ==
  /\ Readable(text)' = Readable(text')
  /\ \A r \in Rewriters : Readable(output[r])' = Readable(output'[r])
<1>1. Readable(text)' = Readable(text')
  BY DEF Readable, ReadableAt
<1>2. \A r \in Rewriters : Readable(output[r])' = Readable(output'[r])
  BY DEF Readable, ReadableAt
<1>. QED BY <1>1, <1>2

\* A longer text: the tokens of its two parts, and only those.
LEMMA AppendFacts ==
  ASSUME NEW f \in Seq(Token), NEW x \in Token
  PROVE  /\ Append(f, x) \in Seq(Token) /\ Len(f) \in Nat /\ DOMAIN f = 1..Len(f)
         /\ Len(Append(f, x)) = Len(f) + 1 /\ DOMAIN Append(f, x) = 1..Len(f) + 1
         /\ \A i \in 1..Len(f) : Append(f, x)[i] = f[i]
         /\ Append(f, x)[Len(f) + 1] = x
BY AppendProperties, LenProperties

\* The types a line written to the file keeps.
LEMMA WriteLineTypes ==
  ASSUME FileTypeOK, NEW a \in Appenders, WriteLine(a)
  PROVE  FileTypeOK'
<1>1. fresh \in Entries /\ fresh \in Token
  BY FileBoundsAssumption DEF FileBoundsAssumption, FileTypeOK, WriteLine, Entries, Token
<1>2. present' = TRUE /\ text' \in Seq(Token)
  BY <1>1, AppendFacts DEF FileTypeOK, WriteLine
<1>3. fresh' \in 1..MaxEntries + 1 /\ notices' \subseteq Entries /\ notices \subseteq notices'
  BY <1>1, FileBoundsAssumption DEF FileBoundsAssumption, FileTypeOK, WriteLine
<1>4. adding' \in [Appenders -> Entries \cup {0}]
  BY <1>1 DEF FileTypeOK, WriteLine
<1>5. exposed' \subseteq Token
  <2>1. EndsInLine(text) => Last(text) \in Token
    <3>1. text \in Seq(Token)
      BY DEF FileTypeOK
    <3>2. text # <<>> => Last(text) \in Token
      BY <3>1 DEF Last
    <3>. QED BY <3>2 DEF EndsInLine
  <2>. QED BY <1>1, <2>1 DEF FileTypeOK, WriteLine
<1>6. tangled' \subseteq Everything'
  <2>1. fresh' = fresh + 1 /\ tangled' = tangled /\ fresh \in Nat
    BY FileBoundsAssumption DEF FileBoundsAssumption, FileTypeOK, WriteLine
  <2>2. Everything \subseteq Everything'
    BY <2>1 DEF Everything
  <2>. QED BY <2>1, <2>2 DEF FileTypeOK
<1>7. UNCHANGED <<stage, output, rewrites, crashes, written, cleared>>
  BY DEF WriteLine, rewriting
<1>. QED BY <1>2, <1>3, <1>4, <1>5, <1>6, <1>7 DEF FileTypeOK

\* The line goes behind everything that is older; it is exposed unless it has a line
\* of its own and nobody rewrites.
LEMMA WriteLineKeeps ==
  ASSUME FileInd, NEW a \in Appenders, WriteLine(a)
  PROVE  FileInd'
<1>. USE DEF FileInd, FileFacts
<1>1. FileTypeOK'
  BY WriteLineTypes
<1>2. /\ fresh' = fresh + 1 /\ adding' = [adding EXCEPT ![a] = fresh]
      /\ text' = Append(text, fresh) /\ present' = TRUE
      /\ UNCHANGED <<stage, output, written, cleared, tangled>>
      /\ exposed \subseteq exposed'
      /\ EndsInLine(text) => Last(text) \in exposed' /\ fresh \in exposed'
      /\ (\E r \in Rewriters : Busy(r)) => fresh \in exposed'
      /\ fresh \in Entries /\ fresh \in Token
      /\ tangled \subseteq Everything
  BY FileBoundsAssumption DEF FileBoundsAssumption, FileTypeOK, WriteLine, rewriting, Rewriting, Busy, Entries, Token
<1>. DEFINE m == Len(text)
<1>3. /\ m \in Nat /\ DOMAIN text = 1..m /\ DOMAIN text' = 1..m + 1 /\ Len(text') = m + 1
      /\ \A i \in 1..m : text'[i] = text[i] /\ text[i] \in Int /\ text[i] < fresh
      /\ text'[m + 1] = fresh
      /\ fresh \in Nat /\ fresh >= 1 /\ fresh' \in Nat
      /\ \A t : t \in Everything' <=> t \in Everything \/ t = fresh
      /\ \A t : t \in Everything <=> t \in Nat /\ t < fresh
  <2>1. /\ m \in Nat /\ DOMAIN text = 1..m /\ DOMAIN text' = 1..m + 1 /\ Len(text') = m + 1
        /\ \A i \in 1..m : text'[i] = text[i]
        /\ text'[m + 1] = fresh
    BY <1>2, FileBasics, AppendFacts
  <2>2. \A i \in 1..m : text[i] \in Int /\ text[i] < fresh
    BY FileBasics, <2>1 DEF Places
  <2>3. fresh \in Nat /\ fresh >= 1 /\ fresh' \in Nat /\ fresh' = fresh + 1
    BY <1>2, FileBasics
  <2>4. \A t : t \in Everything <=> t \in Nat /\ t < fresh
    BY <2>3 DEF Everything
  <2>5. \A t : t \in Everything' <=> t \in Everything \/ t = fresh
    BY <2>3 DEF Everything
  <2>. HIDE DEF m
  <2>. QED BY <2>1, <2>2, <2>3, <2>4, <2>5
<1>. HIDE DEF m
<1>4. Places'
  <2>1. \A b \in Appenders : adding'[b] # 0 => present' /\ adding'[b] < fresh'
    <3>1. \A b \in Appenders : adding'[b] = fresh \/ adding'[b] = adding[b]
      BY <1>2 DEF FileTypeOK
    <3>2. \A b \in Appenders : adding[b] # 0 => adding[b] < fresh /\ adding[b] \in Int
      BY DEF Places, FileTypeOK, Entries
    <3>3. \A b \in Appenders : adding'[b] # 0 => adding'[b] <= fresh /\ adding'[b] \in Int
      BY <1>3, <3>1, <3>2
    <3>. QED BY <1>2, <1>3, <3>3
  <2>2. \A i \in DOMAIN text' : text'[i] < fresh'
    <3>1. \A i \in DOMAIN text' : i \in 1..m \/ i = m + 1
      BY <1>3
    <3>. QED BY <1>2, <1>3, <3>1
  <2>3. \A r \in Rewriters : \A i \in DOMAIN output'[r] : output'[r][i] < fresh'
    <3>1. \A r \in Rewriters : \A i \in DOMAIN output[r] : output[r][i] < fresh /\ output[r][i] \in Int
      BY FileBasics DEF Places
    <3>. QED BY <1>2, <1>3, <3>1
  <2>4. written' \subseteq Everything'
    BY <1>2, <1>3 DEF Places
  <2>. QED BY <1>2, <2>1, <2>2, <2>3, <2>4 DEF Places
<1>5. Meeting'
  <2>1. \A t \in tangled', u \in Everything' \ tangled' : t < u
    <3>1. \A t \in tangled : t \in Everything /\ t < fresh
      BY <1>2, <1>3
    <3>. QED BY <1>2, <1>3, <3>1 DEF Meeting
  <2>2. ASSUME NEW r \in Rewriters, NEW s \in Rewriters, Busy(r)', Busy(s)', r # s
        PROVE  /\ Everything' \subseteq exposed'
               /\ \A i \in DOMAIN output'[r] : output'[r][i] >= 0 => output'[r][i] \in tangled'
    <3>1. Busy(r) /\ Busy(s)
      BY <1>2, <2>2 DEF Busy
    <3>2. /\ Everything \subseteq exposed
          /\ \A i \in DOMAIN output[r] : output[r][i] >= 0 => output[r][i] \in tangled
      BY <2>2, <3>1 DEF Meeting
    <3>. QED BY <1>2, <1>3, <3>1, <3>2
  <2>. QED BY <2>1, <2>2 DEF Meeting
<1>6. Sorted'
  <2>1. ASSUME NEW i \in DOMAIN text', NEW j \in DOMAIN text', i < j, text'[i] >= 0, text'[j] >= 0
        PROVE  Follows(tangled', text'[i], text'[j])
    <3>1. i \in 1..m /\ text'[i] = text[i]
      BY <1>3, <2>1
    <3>2. CASE j = m + 1
      BY <1>3, <3>1, <3>2 DEF Follows
    <3>3. CASE j # m + 1
      <4>1. j \in 1..m /\ text'[j] = text[j]
        BY <1>3, <3>3
      <4>2. Follows(tangled, text[i], text[j])
        BY <1>3, <2>1, <3>1, <4>1 DEF Sorted, InOrder
      <4>. QED BY <1>2, <3>1, <4>1, <4>2 DEF Follows
    <3>. QED BY <3>2, <3>3
  <2>2. InOrder(text)'
    BY <2>1 DEF InOrder, Follows
  <2>3. ASSUME NEW r \in Rewriters, Busy(r)' PROVE InOrder(output[r])'
    <3>1. InOrder(output[r])
      BY <1>2, <2>3 DEF Sorted, Busy
    <3>. QED BY <1>2, <3>1 DEF InOrder, Follows
  <2>4. ASSUME NEW r \in Rewriters, stage'[r] = "write", NEW i \in DOMAIN output'[r], NEW j \in DOMAIN text',
               output'[r][i] >= 0, text'[j] >= 0
        PROVE  Follows(tangled', output'[r][i], text'[j])
    <3>1. i \in DOMAIN output[r] /\ output'[r][i] = output[r][i] /\ output[r][i] < fresh /\ stage[r] = "write"
      BY <1>2, <2>4 DEF Places
    <3>2. CASE j = m + 1
      BY <1>3, <3>1, <3>2 DEF Follows
    <3>3. CASE j # m + 1
      <4>1. j \in 1..m /\ text'[j] = text[j]
        BY <1>3, <3>3
      <4>2. Follows(tangled, output[r][i], text[j])
        BY <1>3, <2>4, <3>1, <4>1 DEF Sorted
      <4>. QED BY <1>2, <3>1, <4>1, <4>2 DEF Follows
    <3>. QED BY <3>2, <3>3
  <2>. QED BY <2>2, <2>3, <2>4 DEF Sorted, Follows
<1>7. Survival'
  <2>1. ASSUME NEW t \in Surviving'
        PROVE  /\ t \in Surviving \/ (t = fresh /\ ~EndsInLine(text) /\ \A r \in Rewriters : ~Busy(r))
               /\ EndsInLine(text) => t # Last(text)
    BY <1>2, <1>3 DEF Surviving
  <2>2. ASSUME \A r \in Rewriters : stage'[r] # "write", NEW t \in Surviving'
        PROVE  t \in Readable(text')
    <3>1. CASE t \in Surviving
      <4>1. t \in Readable(text)
        BY <1>2, <2>2, <3>1 DEF Survival
      <4>2. text \in Seq(Token)
        BY FileBasics
      <4>3. t \in Readable(Append(text, fresh))
        BY <1>2, <2>1, <2>2, <4>1, <4>2, ReadableAppend
      <4>. QED BY <1>2, <4>3
    <3>2. CASE t = fresh /\ ~EndsInLine(text)
      <4>1. m + 1 > 1 => text'[(m + 1) - 1] = NL
        <5>1. m >= 1 => text # <<>> /\ Last(text) = text[m]
          BY <1>3, FileBasics DEF Last, m
        <5>2. m >= 1 => text[m] = NL /\ m \in 1..m
          BY <1>3, <3>2, <5>1 DEF EndsInLine
        <5>. QED BY <1>3, <5>2
      <4>2. ReadableAt(text', m + 1)
        BY <1>2, <1>3, <4>1 DEF ReadableAt
      <4>3. m + 1 \in DOMAIN text' /\ text'[m + 1] = t
        BY <1>3, <3>2
      <4>. QED BY <4>2, <4>3 DEF Readable
    <3>. QED BY <2>1, <2>2, <3>1, <3>2
  <2>3. ASSUME NEW r \in Rewriters, Busy(r)'
        PROVE  /\ \A t \in Surviving' : t \in Readable(output'[r])
               /\ EndsClosed(output[r])'
    <3>1. Busy(r) /\ output'[r] = output[r]
      BY <1>2, <2>3 DEF Busy
    <3>2. Surviving \subseteq Readable(output[r]) /\ EndsClosed(output[r])
      BY <3>1 DEF Survival
    <3>3. \A t \in Surviving' : t \in Surviving
      BY <2>1, <3>1
    <3>4. EndsClosed(output[r])'
      BY <3>1, <3>2 DEF EndsClosed
    <3>. QED BY <3>1, <3>2, <3>3, <3>4
  <2>. QED BY <2>2, <2>3, Primed DEF Survival
<1>. QED BY <1>1, <1>4, <1>5, <1>6, <1>7

\* The newline ends the line; a file somebody is adding to is there.
LEMMA WriteNewlineKeeps ==
  ASSUME FileInd, NEW a \in Appenders, WriteNewline(a)
  PROVE  FileInd'
<1>. USE DEF FileInd, FileFacts
<1>1. /\ adding' = [adding EXCEPT ![a] = 0] /\ adding[a] \in Entries /\ adding[a] # 0
      /\ written' = written \cup {adding[a]} /\ text' = Append(text, NL)
      /\ UNCHANGED <<present, fresh, notices, stage, output, rewrites, crashes, exposed, cleared, tangled>>
      /\ Everything' = Everything /\ NL \in Token
  BY Tokens DEF FileTypeOK, WriteNewline, rewriting, Everything
<1>. DEFINE m == Len(text)
<1>2. /\ m \in Nat /\ DOMAIN text = 1..m /\ DOMAIN text' = 1..m + 1 /\ Len(text') = m + 1
      /\ \A i \in 1..m : text'[i] = text[i] /\ text[i] \in Int
      /\ text'[m + 1] = -1
      /\ fresh \in Nat /\ fresh >= 1
      /\ text' \in Seq(Token)
  <2>1. /\ m \in Nat /\ DOMAIN text = 1..m /\ DOMAIN text' = 1..m + 1 /\ Len(text') = m + 1
        /\ \A i \in 1..m : text'[i] = text[i]
        /\ text'[m + 1] = NL /\ text' \in Seq(Token)
    BY <1>1, FileBasics, AppendFacts
  <2>2. \A i \in 1..m : text[i] \in Int
    BY FileBasics, <2>1
  <2>3. fresh \in Nat /\ fresh >= 1 /\ NL = -1
    BY FileBasics, Tokens
  <2>. HIDE DEF m
  <2>. QED BY <2>1, <2>2, <2>3
<1>. HIDE DEF m
<1>3. FileTypeOK'
  <2>1. present
    BY <1>1 DEF Places
  <2>2. adding' \in [Appenders -> Entries \cup {0}] /\ written' \subseteq Entries
    BY <1>1 DEF FileTypeOK
  <2>. QED BY <1>1, <1>2, <2>1, <2>2 DEF FileTypeOK
<1>4. Places'
  <2>1. \A b \in Appenders : adding'[b] # 0 => present' /\ adding'[b] < fresh'
    <3>1. \A b \in Appenders : adding'[b] = 0 \/ adding'[b] = adding[b]
      BY <1>1 DEF FileTypeOK
    <3>. QED BY <1>1, <3>1 DEF Places
  <2>2. \A i \in DOMAIN text' : text'[i] < fresh'
    <3>1. \A i \in DOMAIN text' : i \in 1..m \/ i = m + 1
      BY <1>2
    <3>2. \A i \in 1..m : text[i] < fresh
      BY <1>2 DEF Places
    <3>3. text'[m + 1] < fresh
      BY <1>2
    <3>. QED BY <1>1, <1>2, <3>1, <3>2, <3>3
  <2>3. written' \subseteq Everything'
    <3>1. adding[a] \in Nat /\ adding[a] < fresh
      BY <1>1 DEF Places, Entries
    <3>2. adding[a] \in Everything
      BY <1>2, <3>1 DEF Everything
    <3>. QED BY <1>1, <3>2 DEF Places
  <2>. QED BY <1>1, <2>1, <2>2, <2>3 DEF Places
<1>5. Meeting'
  BY <1>1 DEF Meeting, Busy
<1>6. Sorted'
  <2>1. \A j \in DOMAIN text' : text'[j] >= 0 => j \in 1..m /\ text'[j] = text[j] /\ j \in DOMAIN text
    <3>1. \A j \in DOMAIN text' : j \in 1..m \/ j = m + 1
      BY <1>2
    <3>. QED BY <1>2, <3>1
  <2>2. InOrder(text)'
    BY <1>1, <2>1 DEF Sorted, InOrder
  <2>3. \A r \in Rewriters : Busy(r)' => InOrder(output[r])'
    BY <1>1 DEF Sorted, InOrder, Busy
  <2>4. \A r \in Rewriters : stage'[r] = "write" =>
          \A i \in DOMAIN output'[r], j \in DOMAIN text' :
             output'[r][i] >= 0 /\ text'[j] >= 0 => Follows(tangled', output'[r][i], text'[j])
    BY <1>1, <2>1 DEF Sorted
  <2>. QED BY <2>2, <2>3, <2>4 DEF Sorted, Follows
<1>7. Survival'
  <2>1. Surviving' = Surviving
    BY <1>1 DEF Surviving
  <2>2. ASSUME \A r \in Rewriters : stage'[r] # "write", NEW t \in Surviving
        PROVE  t \in Readable(text')
    <3>1. t \in Readable(text)
      BY <1>1, <2>2 DEF Survival
    <3>2. text \in Seq(Token)
      BY FileBasics
    <3>. QED BY <1>1, <3>1, <3>2, ReadableAppend
  <2>3. ASSUME NEW r \in Rewriters, Busy(r)'
        PROVE  Surviving \subseteq Readable(output'[r]) /\ EndsClosed(output[r])'
    <3>1. Busy(r) /\ output'[r] = output[r]
      BY <1>1, <2>3 DEF Busy
    <3>2. Surviving \subseteq Readable(output[r]) /\ EndsClosed(output[r])
      BY <3>1 DEF Survival
    <3>. QED BY <3>1, <3>2 DEF EndsClosed
  <2>. QED BY <2>1, <2>2, <2>3, Primed DEF Survival
<1>. QED BY <1>3, <1>4, <1>5, <1>6, <1>7

\* A rewrite takes what it is going to write from the file.  If another is under way,
\* everything is exposed and tangled from here on.
LEMMA ReadFileKeeps ==
  ASSUME FileInd, NEW r \in Rewriters, NEW gone \in SUBSET {i \in DOMAIN text : ReadableAt(text, i)},
         NEW L, L = Lines(text, gone), NEW G, G = {text[i] : i \in gone}, G \subseteq notices,
         ReadFile(r, L, G)
  PROVE  FileInd'
<1>. USE DEF FileInd, FileFacts
<1>1. /\ L \in Seq(Token)
      /\ \A k \in DOMAIN L : k = Len(L) => L[k] = NL
      /\ \A i \in DOMAIN text \ gone : ReadableAt(text, i) => text[i] \in Readable(L)
      /\ \A k \in DOMAIN L : L[k] >= 0 => \E i \in DOMAIN text : L[k] = text[i]
      /\ \A k, l \in DOMAIN L : k < l /\ L[k] >= 0 /\ L[l] >= 0 =>
            \E i, j \in DOMAIN text : i < j /\ L[k] = text[i] /\ L[l] = text[j]
  <2>1. text \in Seq(Token)
    BY FileBasics
  <2>. QED BY <2>1, LinesShape
<1>2. /\ stage[r] = "idle" /\ stage' = [stage EXCEPT ![r] = "truncate"]
      /\ output' = [output EXCEPT ![r] = L] /\ cleared' = cleared \cup G
      /\ exposed \subseteq exposed' /\ tangled \subseteq tangled' /\ tangled' \subseteq Everything
      /\ exposed' \subseteq exposed \cup Everything
      /\ (\A s \in Rewriters : ~Busy(s)) => tangled' = tangled
      /\ (\E s \in Rewriters : Busy(s)) => Everything \subseteq exposed' /\ Everything \subseteq tangled'
      /\ UNCHANGED <<present, text, fresh, notices, adding, crashes, written>>
      /\ Everything' = Everything
  BY DEF FileTypeOK, ReadFile, appends, Rewriting, Busy, Everything
<1>3. /\ output'[r] = L /\ stage'[r] = "truncate"
      /\ \A s \in Rewriters : s # r => output'[s] = output[s] /\ stage'[s] = stage[s]
      /\ \A s \in Rewriters : stage'[s] = "write" => s # r /\ stage[s] = "write"
      /\ \A s \in Rewriters : Busy(s)' <=> s = r \/ Busy(s)
  BY <1>2 DEF FileTypeOK, Busy
<1>4. FileTypeOK'
  <2>1. Everything \subseteq Token
    <3>1. \A t \in Everything : t \in Entries \/ t = Header
      BY FileBasics, FileBoundsAssumption DEF FileBoundsAssumption, FileTypeOK, Everything, Entries, Header
    <3>. QED BY <3>1 DEF Token
  <2>2. exposed' \subseteq Token /\ tangled' \subseteq Everything' /\ cleared' \subseteq notices'
    BY <1>2, <2>1 DEF FileTypeOK
  <2>3. rewrites' \in 0..MaxRewrites
    BY FileBoundsAssumption DEF FileBoundsAssumption, FileTypeOK, ReadFile
  <2>4. output' \in [Rewriters -> Seq(Token)] /\ stage' \in [Rewriters -> {"idle", "truncate", "write"}]
    BY <1>1, <1>2 DEF FileTypeOK
  <2>. QED BY <1>2, <2>2, <2>3, <2>4 DEF FileTypeOK
<1>5. \A k \in DOMAIN L : L[k] \in Int /\ L[k] < fresh /\ (L[k] >= 0 => L[k] \in Everything)
  <2>. SUFFICES ASSUME NEW k \in DOMAIN L
                PROVE  L[k] \in Int /\ L[k] < fresh /\ (L[k] >= 0 => L[k] \in Everything)
    OBVIOUS
  <2>1. L[k] \in Int
    BY <1>1, TextFacts
  <2>2. L[k] >= 0 => L[k] < fresh
    BY <1>1 DEF Places
  <2>3. fresh \in Nat /\ fresh >= 1
    BY FileBasics
  <2>. QED BY <2>1, <2>2, <2>3 DEF Everything
<1>6. Places'
  BY <1>2, <1>3, <1>5 DEF Places
<1>7. Meeting'
  <2>1. \A t \in tangled', u \in Everything' \ tangled' : t < u
    <3>1. CASE \A s \in Rewriters : ~Busy(s)
      BY <1>2, <3>1 DEF Meeting
    <3>2. CASE \E s \in Rewriters : Busy(s)
      BY <1>2, <3>2
    <3>. QED BY <3>1, <3>2
  <2>2. ASSUME NEW p \in Rewriters, NEW q \in Rewriters, Busy(p)', Busy(q)', p # q
        PROVE  /\ Everything' \subseteq exposed'
               /\ \A i \in DOMAIN output'[p] : output'[p][i] >= 0 => output'[p][i] \in tangled'
    <3>1. Busy(p) \/ Busy(q)
      BY <1>3, <2>2
    <3>2. Everything \subseteq exposed' /\ Everything \subseteq tangled'
      BY <1>2, <3>1
    <3>3. CASE p = r
      BY <1>2, <1>3, <1>5, <3>2, <3>3
    <3>4. CASE p # r
      <4>1. \A i \in DOMAIN output[p] : output[p][i] < fresh /\ output[p][i] \in Int
        BY FileBasics DEF Places
      <4>2. \A i \in DOMAIN output[p] : output[p][i] >= 0 => output[p][i] \in Everything
        BY FileBasics, <4>1 DEF Everything
      <4>. QED BY <1>2, <1>3, <3>2, <3>4, <4>2
    <3>. QED BY <3>3, <3>4
  <2>. QED BY <2>1, <2>2 DEF Meeting
<1>8. Sorted'
  <2>1. \A t, u : Follows(tangled, t, u) => Follows(tangled', t, u)
    BY <1>2 DEF Follows
  <2>2. InOrder(text)'
    BY <1>2, <2>1 DEF Sorted, InOrder
  <2>3. ASSUME NEW s \in Rewriters, Busy(s)' PROVE InOrder(output[s])'
    <3>1. CASE s = r
      <4>1. \A k, l \in DOMAIN L : k < l /\ L[k] >= 0 /\ L[l] >= 0 => Follows(tangled', L[k], L[l])
        BY <1>1, <2>1 DEF Sorted, InOrder
      <4>. QED BY <1>3, <3>1, <4>1 DEF InOrder
    <3>2. CASE s # r
      <4>1. InOrder(output[s]) /\ output'[s] = output[s]
        BY <1>3, <2>3, <3>2 DEF Sorted
      <4>. QED BY <2>1, <4>1 DEF InOrder
    <3>. QED BY <3>1, <3>2
  <2>4. \A s \in Rewriters : stage'[s] = "write" =>
          \A i \in DOMAIN output'[s], j \in DOMAIN text' :
             output'[s][i] >= 0 /\ text'[j] >= 0 => Follows(tangled', output'[s][i], text'[j])
    BY <1>2, <1>3, <2>1 DEF Sorted
  <2>. QED BY <2>2, <2>3, <2>4 DEF Sorted, Follows
<1>9. Survival'
  <2>1. Surviving' \subseteq Surviving
    BY <1>2 DEF Surviving
  <2>2. (\A s \in Rewriters : stage'[s] # "write") => Surviving' \subseteq Readable(text')
    <3>1. (\A s \in Rewriters : stage'[s] # "write") => \A s \in Rewriters : stage[s] # "write"
      BY <1>2, <1>3
    <3>. QED BY <1>2, <2>1, <3>1 DEF Survival
  <2>3. ASSUME NEW s \in Rewriters, Busy(s)'
        PROVE  Surviving' \subseteq Readable(output'[s]) /\ EndsClosed(output[s])'
    <3>1. CASE s # r
      <4>1. Busy(s) /\ output'[s] = output[s]
        BY <1>3, <2>3, <3>1
      <4>2. Surviving \subseteq Readable(output[s]) /\ EndsClosed(output[s])
        BY <4>1 DEF Survival
      <4>. QED BY <2>1, <4>1, <4>2 DEF EndsClosed
    <3>2. CASE s = r
      <4>1. EndsClosed(output[s])'
        BY <1>1, <1>3, <3>2 DEF EndsClosed
      <4>2. ASSUME NEW t \in Surviving' PROVE t \in Readable(L)
        <5>1. t \in Surviving /\ t \in Everything /\ t \notin exposed' /\ t \notin G
          BY <1>2, <2>1, <4>2 DEF Surviving
        <5>2. \A p \in Rewriters : ~Busy(p)
          BY <1>2, <5>1
        <5>3. t \in Readable(text)
          BY <5>1, <5>2 DEF Survival, Busy
        <5>4. PICK i \in DOMAIN text : ReadableAt(text, i) /\ t = text[i]
          BY <5>3 DEF Readable
        <5>5. i \notin gone
          BY <5>1, <5>4
        <5>. QED BY <1>1, <5>4, <5>5
      <4>. QED BY <1>3, <3>2, <4>1, <4>2
    <3>. QED BY <3>1, <3>2
  <2>. QED BY <2>2, <2>3, Primed DEF Survival
<1>. QED BY <1>4, <1>6, <1>7, <1>8, <1>9

\* An update of the header keeps every line, clearing the notices every other one.
LEMMA RewriteKeeps ==
  ASSUME FileInd, NEW r \in Rewriters, UpdateHeader(r) \/ ClearNotices(r)
  PROVE  FileInd'
<1>1. CASE UpdateHeader(r)
  <2>1. ReadFile(r, Lines(text, {}), {})
    BY <1>1 DEF UpdateHeader
  <2>2. PICK L : L = Lines(text, {})
    OBVIOUS
  <2>3. ReadFile(r, L, {}) /\ {} = {text[i] : i \in {}}
    BY <2>1, <2>2
  <2>. QED BY <2>2, <2>3, ReadFileKeeps
<1>2. CASE ClearNotices(r)
  <2>1. PICK gone : gone = {i \in DOMAIN text : ReadableAt(text, i) /\ text[i] \in notices}
    OBVIOUS
  <2>2. PICK L : L = Lines(text, gone)
    OBVIOUS
  <2>3. PICK G : G = {text[i] : i \in gone}
    OBVIOUS
  <2>4. ReadFile(r, L, G)
    BY <1>2, <2>1, <2>2, <2>3 DEF ClearNotices
  <2>5. gone \in SUBSET {i \in DOMAIN text : ReadableAt(text, i)} /\ G \subseteq notices
    BY <2>1, <2>3
  <2>. QED BY <2>2, <2>3, <2>4, <2>5, ReadFileKeeps
<1>. QED BY <1>1, <1>2

\* The file is empty, and there; what was in it is in the text to be written.
LEMMA TruncateKeeps ==
  ASSUME FileInd, NEW r \in Rewriters, Truncate(r)
  PROVE  FileInd'
<1>. USE DEF FileInd, FileFacts
<1>1. /\ stage[r] = "truncate" /\ stage' = [stage EXCEPT ![r] = "write"]
      /\ text' = <<>> /\ present' = TRUE /\ DOMAIN text' = {}
      /\ UNCHANGED <<fresh, notices, adding, output, rewrites, crashes, written, exposed, cleared, tangled>>
      /\ Everything' = Everything
  BY DEF Truncate, appends, history, Everything
<1>2. /\ stage'[r] = "write"
      /\ \A s \in Rewriters : Busy(s)' <=> Busy(s)
  BY <1>1 DEF FileTypeOK, Busy
<1>3. FileTypeOK'
  BY <1>1 DEF FileTypeOK
<1>4. Places'
  BY <1>1 DEF Places
<1>5. Meeting'
  BY <1>1, <1>2 DEF Meeting
<1>6. Sorted'
  BY <1>1, <1>2 DEF Sorted, InOrder
<1>7. Survival'
  <2>1. Surviving' = Surviving
    BY <1>1 DEF Surviving
  <2>2. \A s \in Rewriters : Busy(s)' =>
          Surviving \subseteq Readable(output'[s]) /\ EndsClosed(output[s])'
    BY <1>1, <1>2 DEF Survival, EndsClosed
  <2>. QED BY <1>2, <2>1, <2>2, Primed DEF Survival
<1>. QED BY <1>3, <1>4, <1>5, <1>6, <1>7

\* What sticks out behind the text written back is an end of what was there, its first
\* line perhaps torn.
LEMMA WrittenBack ==
  ASSUME FileTypeOK, NEW r \in Rewriters, WriteBack(r)
  PROVE  \E rest \in Seq(Token) :
            /\ text' = output[r] \o rest
            /\ \A j \in DOMAIN rest : rest[j] >= 0 => \E i \in DOMAIN text : rest[j] = text[i]
            /\ \A j, k \in DOMAIN rest : j < k /\ rest[j] >= 0 /\ rest[k] >= 0 =>
                  \E i, l \in DOMAIN text : i < l /\ rest[j] = text[i] /\ rest[k] = text[l]
<1>. DEFINE Good(rest) ==
            /\ rest \in Seq(Token)
            /\ \A j \in DOMAIN rest : rest[j] >= 0 => \E i \in DOMAIN text : rest[j] = text[i]
            /\ \A j, k \in DOMAIN rest : j < k /\ rest[j] >= 0 /\ rest[k] >= 0 =>
                  \E i, l \in DOMAIN text : i < l /\ rest[j] = text[i] /\ rest[k] = text[l]
<1>1. output[r] \in Seq(Token) /\ text \in Seq(Token) /\ Torn \in Token /\ Torn = -2
  BY Tokens DEF FileTypeOK
<1>2. ASSUME text' = output[r] PROVE \E rest : text' = output[r] \o rest /\ Good(rest)
  <2>1. text' = output[r] \o <<>>
    BY <1>1, <1>2, ConcatEmptySeq
  <2>2. <<>> \in Seq(Token) /\ DOMAIN <<>> = {}
    BY EmptySeq
  <2>3. \A e \in Seq(Token) : DOMAIN e = {} => Good(e)
    OBVIOUS
  <2>4. Good(<<>>)
    <3>. HIDE DEF Good
    <3>. QED BY <2>2, <2>3
  <2>. HIDE DEF Good
  <2>. QED BY <2>1, <2>4
<1>3. ASSUME NEW k \in DOMAIN text
      PROVE  /\ Good(SubSeq(text, k + 1, Len(text)))
             /\ Good(<<Torn>> \o SubSeq(text, k + 1, Len(text)))
  <2>. DEFINE m == Len(text)
              q == SubSeq(text, k + 1, m)
              p == <<Torn>> \o q
  <2>1. m \in Nat /\ k \in 1..m /\ DOMAIN text = 1..m
    BY <1>1, TextFacts
  <2>2. /\ q \in Seq(Token) /\ Len(q) = m - k /\ DOMAIN q = 1..m - k
        /\ \A j \in 1..m - k : q[j] = text[k + j] /\ k + j \in DOMAIN text
    <3>1. k + 1 \in 1..m + 1 /\ m \in 0..m
      BY <2>1
    <3>2. q \in Seq(Token) /\ Len(q) = m - k
      BY <1>1, <2>1
    <3>3. DOMAIN q = 1..m - k
      BY <3>2, LenProperties
    <3>4. \A j \in 1..m - k : k + j \in 1..m
      BY <2>1
    <3>5. \A j \in 1..m - k : q[j] = text[k + j]
      BY <1>1, <2>1
    <3>. QED BY <2>1, <3>2, <3>3, <3>4, <3>5
  <2>3. Good(q)
    <3>1. \A i, j \in 1..m - k : i < j => k + i < k + j
      BY <2>1
    <3>. HIDE DEF q, m
    <3>. QED BY <2>2, <3>1
  <2>4. /\ p \in Seq(Token) /\ DOMAIN p = 1..(m - k) + 1 /\ p[1] = -2
        /\ \A j \in 1..(m - k) + 1 : j # 1 => p[j] = q[j - 1] /\ j - 1 \in 1..m - k
    <3>1. <<Torn>> \in Seq(Token) /\ Len(<<Torn>>) = 1 /\ <<Torn>>[1] = -2
      BY <1>1
    <3>. DEFINE o == <<Torn>>
                n == m - k
    <3>2. n \in Nat /\ q \in Seq(Token) /\ Len(q) = n
      BY <2>1, <2>2
    <3>. HIDE DEF q, m, o, n
    <3>3. /\ o \o q \in Seq(Token) /\ Len(o \o q) = 1 + n
          /\ \A i \in 1..Len(o \o q) : (o \o q)[i] = IF i <= 1 THEN o[i] ELSE q[i - 1]
      BY <3>1, <3>2, ConcatProperties DEF o
    <3>4. DOMAIN (o \o q) = 1..n + 1
      BY <3>2, <3>3, LenProperties
    <3>5. (o \o q)[1] = -2
      BY <3>1, <3>2, <3>3 DEF o
    <3>6. \A j \in 1..n + 1 : j # 1 => (o \o q)[j] = q[j - 1] /\ j - 1 \in 1..n
      BY <3>2, <3>3
    <3>. QED BY <3>3, <3>4, <3>5, <3>6 DEF o, n
  <2>5. Good(p)
    <3>. HIDE DEF p, q, m
    <3>. DEFINE n == m - k
    <3>1. n \in Nat
      BY <2>1
    <3>2. \A j \in DOMAIN p : p[j] >= 0 => j # 1 /\ j \in 1..n + 1 /\ p[j] = q[j - 1] /\ j - 1 \in DOMAIN q
      BY <2>2, <2>4
    <3>3. /\ \A j \in DOMAIN q : q[j] >= 0 => \E i \in DOMAIN text : q[j] = text[i]
          /\ \A i, j \in DOMAIN q : i < j /\ q[i] >= 0 /\ q[j] >= 0 =>
                \E x, y \in DOMAIN text : x < y /\ q[i] = text[x] /\ q[j] = text[y]
      BY <2>3
    <3>. HIDE DEF n
    <3>4. \A i, j \in DOMAIN p : i < j /\ p[i] >= 0 /\ p[j] >= 0 =>
             i - 1 < j - 1 /\ i - 1 \in DOMAIN q /\ j - 1 \in DOMAIN q /\ p[i] = q[i - 1] /\ p[j] = q[j - 1]
      BY <3>1, <3>2
    <3>5. \A i, j \in DOMAIN p : i < j /\ p[i] >= 0 /\ p[j] >= 0 =>
                \E x, y \in DOMAIN text : x < y /\ p[i] = text[x] /\ p[j] = text[y]
      BY <3>3, <3>4
    <3>6. \A j \in DOMAIN p : p[j] >= 0 => \E i \in DOMAIN text : p[j] = text[i]
      BY <3>2, <3>3
    <3>. QED BY <2>4, <3>5, <3>6
  <2>. QED BY <2>3, <2>5
<1>4. \/ text' = output[r]
      \/ \E k \in DOMAIN text :
            \/ text' = output[r] \o SubSeq(text, k + 1, Len(text))
            \/ text' = output[r] \o (<<Torn>> \o SubSeq(text, k + 1, Len(text)))
  <2>1. ASSUME NEW k \in DOMAIN text, text' = output[r] \o <<Torn>> \o SubSeq(text, k + 1, Len(text))
        PROVE  text' = output[r] \o (<<Torn>> \o SubSeq(text, k + 1, Len(text)))
    <3>. DEFINE o == output[r]
                t == <<Torn>>
                q == SubSeq(text, k + 1, Len(text))
    <3>1. o \in Seq(Token) /\ q \in Seq(Token) /\ t \in Seq(Token)
      BY <1>1, <1>3
    <3>. HIDE DEF o, t, q
    <3>2. (o \o t) \o q = o \o (t \o q)
      BY ONLY <3>1, ConcatAssociative
    <3>. QED BY <2>1, <3>2 DEF o, t, q
  <2>. QED BY <2>1 DEF WriteBack
<1>5. \E rest : text' = output[r] \o rest /\ Good(rest)
  <2>. HIDE DEF Good
  <2>1. CASE text' = output[r]
    BY <1>2, <2>1
  <2>2. CASE \E k \in DOMAIN text : text' = output[r] \o SubSeq(text, k + 1, Len(text))
    BY <1>3, <2>2
  <2>3. CASE \E k \in DOMAIN text : text' = output[r] \o (<<Torn>> \o SubSeq(text, k + 1, Len(text)))
    BY <1>3, <2>3
  <2>. QED BY <1>4, <2>1, <2>2, <2>3
<1>. QED BY <1>5

\* The text is in the file again, in front of what was appended since.
LEMMA WriteBackKeeps ==
  ASSUME FileInd, NEW r \in Rewriters, WriteBack(r)
  PROVE  FileInd'
<1>. USE DEF FileInd, FileFacts
<1>1. /\ stage[r] = "write" /\ stage' = [stage EXCEPT ![r] = "idle"]
      /\ output' = [output EXCEPT ![r] = <<>>]
      /\ UNCHANGED <<present, fresh, notices, adding, rewrites, crashes, written, exposed, cleared, tangled>>
      /\ Everything' = Everything
  BY DEF WriteBack, appends, history, Everything
<1>2. /\ stage'[r] = "idle"
      /\ \A s \in Rewriters : Busy(s)' => s # r /\ Busy(s) /\ output'[s] = output[s]
      /\ \A s \in Rewriters : stage'[s] = "write" => s # r /\ stage[s] = "write" /\ Busy(s)'
      /\ Busy(r)
      /\ output'[r] = <<>> /\ DOMAIN output'[r] = {}
      /\ \A s \in Rewriters : s # r => output'[s] = output[s]
  BY <1>1 DEF FileTypeOK, Busy
<1>3. PICK o \in Seq(Token) : o = output[r]
  BY DEF FileTypeOK
<1>4. PICK rest \in Seq(Token) :
            /\ text' = o \o rest
            /\ \A j \in DOMAIN rest : rest[j] >= 0 => \E i \in DOMAIN text : rest[j] = text[i]
            /\ \A j, k \in DOMAIN rest : j < k /\ rest[j] >= 0 /\ rest[k] >= 0 =>
                  \E i, l \in DOMAIN text : i < l /\ rest[j] = text[i] /\ rest[k] = text[l]
  BY <1>3, WrittenBack
<1>. DEFINE m == Len(o)
            n == Len(rest)
<1>5. /\ m \in Nat /\ n \in Nat /\ DOMAIN o = 1..m /\ DOMAIN rest = 1..n
      /\ text' \in Seq(Token) /\ DOMAIN text' = 1..m + n
      /\ \A i \in 1..m : text'[i] = o[i]
      /\ \A i \in 1..m + n : i \notin 1..m => i - m \in 1..n /\ text'[i] = rest[i - m]
  <2>1. m \in Nat /\ n \in Nat /\ DOMAIN o = 1..m /\ DOMAIN rest = 1..n
    BY LenProperties
  <2>2. /\ o \o rest \in Seq(Token) /\ Len(o \o rest) = m + n
        /\ \A i \in 1..Len(o \o rest) : (o \o rest)[i] = IF i <= m THEN o[i] ELSE rest[i - m]
    BY ConcatProperties
  <2>3. DOMAIN (o \o rest) = 1..m + n
    BY <2>2, LenProperties
  <2>4. /\ \A i \in 1..m : i \in 1..m + n /\ i <= m
        /\ \A i \in 1..m + n : i \notin 1..m => i - m \in 1..n /\ ~(i <= m)
    BY <2>1
  <2>. HIDE DEF m, n
  <2>. QED BY <1>4, <2>1, <2>2, <2>3, <2>4
<1>. HIDE DEF m, n
<1>6. FileTypeOK'
  <2>1. present
    BY <1>1 DEF Places
  <2>2. stage' \in [Rewriters -> {"idle", "truncate", "write"}] /\ output' \in [Rewriters -> Seq(Token)]
    <3>1. <<>> \in Seq(Token)
      OBVIOUS
    <3>. QED BY <1>1, <3>1 DEF FileTypeOK
  <2>. QED BY <1>1, <1>5, <2>1, <2>2 DEF FileTypeOK
<1>7. Places'
  <2>1. fresh \in Nat /\ fresh >= 1
    BY FileBasics
  <2>2. \A i \in 1..m : o[i] < fresh
    BY <1>3, <1>5 DEF Places
  <2>3. \A i \in 1..n : rest[i] < fresh
    <3>1. \A i \in 1..n : rest[i] \in Int
      BY <1>5, TextFacts
    <3>2. \A i \in 1..n : rest[i] >= 0 => rest[i] < fresh
      BY <1>4, <1>5 DEF Places
    <3>. QED BY <2>1, <3>1, <3>2
  <2>4. \A i \in DOMAIN text' : text'[i] < fresh'
    BY <1>1, <1>5, <2>2, <2>3
  <2>5. \A s \in Rewriters : \A i \in DOMAIN output'[s] : output'[s][i] < fresh'
    BY <1>1, <1>2 DEF Places
  <2>. QED BY <1>1, <1>2, <2>4, <2>5 DEF Places
<1>8. Meeting'
  BY <1>1, <1>2 DEF Meeting
<1>9. Sorted'
  <2>1. \A i, j \in 1..m : i < j /\ o[i] >= 0 /\ o[j] >= 0 => Follows(tangled, o[i], o[j])
    BY <1>2, <1>3, <1>5 DEF Sorted, InOrder
  <2>2. \A j, k \in 1..n : j < k /\ rest[j] >= 0 /\ rest[k] >= 0 => Follows(tangled, rest[j], rest[k])
    <3>1. \A i, l \in DOMAIN text : i < l /\ text[i] >= 0 /\ text[l] >= 0 => Follows(tangled, text[i], text[l])
      BY DEF Sorted, InOrder
    <3>. SUFFICES ASSUME NEW j \in 1..n, NEW k \in 1..n, j < k, rest[j] >= 0, rest[k] >= 0
                  PROVE  Follows(tangled, rest[j], rest[k])
      OBVIOUS
    <3>2. j \in DOMAIN rest /\ k \in DOMAIN rest
      BY <1>5
    <3>3. PICK i \in DOMAIN text, l \in DOMAIN text : i < l /\ rest[j] = text[i] /\ rest[k] = text[l]
      BY <1>4, <3>2
    <3>. QED BY <3>1, <3>3
  <2>3. \A i \in 1..m, j \in 1..n : o[i] >= 0 /\ rest[j] >= 0 => Follows(tangled, o[i], rest[j])
    <3>1. \A i \in 1..m, j \in DOMAIN text : o[i] >= 0 /\ text[j] >= 0 => Follows(tangled, o[i], text[j])
      BY <1>1, <1>3, <1>5 DEF Sorted
    <3>. QED BY <1>4, <1>5, <3>1
  <2>4. InOrder(text)'
    <3>1. ASSUME NEW i \in 1..m + n, NEW j \in 1..m + n, i < j, text'[i] >= 0, text'[j] >= 0
          PROVE  Follows(tangled, text'[i], text'[j])
      <4>1. CASE j \in 1..m
        <5>1. i \in 1..m
          BY <1>5, <3>1, <4>1
        <5>. QED BY <1>5, <2>1, <3>1, <4>1, <5>1
      <4>2. CASE i \in 1..m /\ j \notin 1..m
        BY <1>5, <2>3, <3>1, <4>2
      <4>3. CASE i \notin 1..m /\ j \notin 1..m
        <5>1. i - m < j - m
          BY <1>5, <3>1
        <5>. QED BY <1>5, <2>2, <3>1, <4>3, <5>1
      <4>. QED BY <4>1, <4>2, <4>3
    <3>. QED BY <1>1, <1>5, <3>1 DEF InOrder
  <2>5. \A s \in Rewriters : Busy(s)' => InOrder(output[s])'
    BY <1>1, <1>2 DEF Sorted, InOrder
  <2>6. ASSUME NEW s \in Rewriters, stage'[s] = "write", NEW i \in DOMAIN output'[s], NEW j \in DOMAIN text',
               output'[s][i] >= 0, text'[j] >= 0
        PROVE  Follows(tangled, output'[s][i], text'[j])
    <3>1. s # r /\ stage[s] = "write" /\ Busy(s) /\ output'[s] = output[s] /\ Busy(r)
      BY <1>2, <2>6
    <3>2. CASE j \in 1..m
      <4>1. text'[j] = output[r][j] /\ j \in DOMAIN output[r]
        BY <1>3, <1>5, <3>2
      <4>2. text'[j] \in tangled
        BY <2>6, <3>1, <4>1 DEF Meeting
      <4>3. output'[s][i] \in tangled
        BY <2>6, <3>1 DEF Meeting
      <4>. QED BY <4>2, <4>3 DEF Follows
    <3>3. CASE j \notin 1..m
      <4>1. PICK l \in DOMAIN text : text'[j] = text[l]
        BY <1>4, <1>5, <2>6, <3>3
      <4>. QED BY <2>6, <3>1, <4>1 DEF Sorted
    <3>. QED BY <3>2, <3>3
  <2>. QED BY <1>1, <2>4, <2>5, <2>6 DEF Sorted, Follows
<1>10. Survival'
  <2>1. Surviving' = Surviving
    BY <1>1 DEF Surviving
  <2>2. Surviving \subseteq Readable(text')
    <3>1. Surviving \subseteq Readable(o) /\ EndsClosed(o)
      BY <1>2, <1>3 DEF Survival
    <3>. QED BY <1>4, <3>1, ReadableConcat
  <2>3. ASSUME NEW s \in Rewriters, Busy(s)'
        PROVE  Surviving \subseteq Readable(output'[s]) /\ EndsClosed(output[s])'
    <3>1. Busy(s) /\ output'[s] = output[s]
      BY <1>2, <2>3
    <3>2. Surviving \subseteq Readable(output[s]) /\ EndsClosed(output[s])
      BY <3>1 DEF Survival
    <3>. QED BY <3>1, <3>2 DEF EndsClosed
  <2>. QED BY <2>1, <2>2, <2>3, Primed DEF Survival
<1>. QED BY <1>6, <1>7, <1>8, <1>9, <1>10

\* A number below the next entry's is a token.
LEMMA EverythingTokens ==
  ASSUME FileTypeOK
  PROVE  Everything \subseteq Token
<1>1. \A t \in Everything : t \in Entries \/ t = Header
  BY FileBasics, FileBoundsAssumption DEF FileBoundsAssumption, FileTypeOK, Everything, Entries, Header
<1>. QED BY <1>1 DEF Token

\* A session that is deleted exposes everything; nobody writes to its file any more.
LEMMA DeleteKeeps ==
  ASSUME FileInd, Delete
  PROVE  FileInd'
<1>. USE DEF FileInd, FileFacts
<1>1. /\ present' = FALSE /\ text' = <<>> /\ DOMAIN text' = {}
      /\ exposed' = exposed \cup Everything /\ adding' = [a \in Appenders |-> 0]
      /\ stage' = [r \in Rewriters |-> IF stage[r] = "write" THEN "idle" ELSE stage[r]]
      /\ UNCHANGED <<fresh, notices, output, rewrites, crashes, written, cleared, tangled>>
      /\ Everything' = Everything
  BY DEF Delete, Everything
<1>2. /\ \A r \in Rewriters : Busy(r)' => Busy(r)
      /\ \A r \in Rewriters : stage'[r] # "write"
  BY <1>1 DEF FileTypeOK, Busy
<1>3. FileTypeOK'
  <2>1. exposed' \subseteq Token
    BY <1>1, EverythingTokens DEF FileTypeOK
  <2>2. stage' \in [Rewriters -> {"idle", "truncate", "write"}]
    BY <1>1 DEF FileTypeOK
  <2>3. text' \in Seq(Token) /\ (~present' => text' = <<>>) /\ present' \in BOOLEAN
    <3>1. <<>> \in Seq(Token)
      OBVIOUS
    <3>. QED BY <1>1, <3>1
  <2>4. adding' \in [Appenders -> Entries \cup {0}]
    BY <1>1
  <2>5. tangled' \subseteq Everything' /\ cleared' \subseteq notices'
    BY <1>1 DEF FileTypeOK
  <2>. QED BY <1>1, <2>1, <2>2, <2>3, <2>4, <2>5 DEF FileTypeOK
<1>4. Places'
  BY <1>1, <1>2 DEF Places
<1>5. Meeting'
  BY <1>1, <1>2 DEF Meeting
<1>6. Sorted'
  BY <1>1, <1>2 DEF Sorted, InOrder
<1>7. Survival'
  <2>1. Surviving' = {}
    BY <1>1 DEF Surviving
  <2>2. \A r \in Rewriters : Busy(r)' => EndsClosed(output[r])'
    BY <1>1, <1>2 DEF Survival, EndsClosed
  <2>. QED BY <2>1, <2>2 DEF Survival
<1>. QED BY <1>3, <1>4, <1>5, <1>6, <1>7

\* A crash leaves the file, with a torn line at most, unless it was truncated.
LEMMA CrashKeeps ==
  ASSUME FileInd, Crash
  PROVE  FileInd'
<1>. USE DEF FileInd, FileFacts
<1>1. /\ text' \in {text, Append(text, Torn)} /\ present' = (present \/ text' # text)
      /\ exposed \subseteq exposed'
      /\ EndsInLine(text) /\ text' # text => Last(text) \in exposed'
      /\ (\E r \in Rewriters : stage[r] = "write") => Everything \subseteq exposed'
      /\ stage' = [r \in Rewriters |-> "idle"] /\ output' = [r \in Rewriters |-> <<>>]
      /\ adding' = [a \in Appenders |-> 0]
      /\ UNCHANGED <<fresh, notices, rewrites, written, cleared, tangled>>
      /\ Everything' = Everything
  BY DEF Crash, Everything
<1>2. \A r \in Rewriters : ~Busy(r)' /\ stage'[r] # "write" /\ DOMAIN output'[r] = {}
  BY <1>1 DEF Busy
<1>. DEFINE m == Len(text)
<1>3. /\ m \in Nat /\ DOMAIN text = 1..m /\ Torn \in Token /\ Torn = -2
      /\ text' = text \/ /\ DOMAIN text' = 1..m + 1 /\ text'[m + 1] = -2
                         /\ \A i \in 1..m : text'[i] = text[i]
      /\ text' \in Seq(Token)
      /\ fresh \in Nat
  <2>1. text \in Seq(Token) /\ Torn \in Token /\ Torn = -2 /\ fresh \in Nat
    BY FileBasics, Tokens
  <2>2. /\ m \in Nat /\ DOMAIN text = 1..m
        /\ DOMAIN Append(text, Torn) = 1..m + 1 /\ Append(text, Torn)[m + 1] = Torn
        /\ \A i \in 1..m : Append(text, Torn)[i] = text[i]
        /\ Append(text, Torn) \in Seq(Token)
    BY <2>1, AppendFacts
  <2>. HIDE DEF m
  <2>3. CASE text' = text
    BY <2>1, <2>2, <2>3
  <2>4. CASE text' = Append(text, Torn)
    BY <2>1, <2>2, <2>4
  <2>. QED BY <1>1, <2>3, <2>4
<1>. HIDE DEF m
<1>4. FileTypeOK'
  <2>1. exposed' \subseteq Token
    <3>1. EndsInLine(text) => Last(text) \in Token
      <4>1. text # <<>> => Last(text) \in Token
        BY FileBasics DEF Last
      <4>. QED BY <4>1 DEF EndsInLine
    <3>2. exposed' \subseteq exposed \cup (IF EndsInLine(text) THEN {Last(text)} ELSE {}) \cup Everything
      BY DEF Crash
    <3>. QED BY <3>1, <3>2, EverythingTokens DEF FileTypeOK
  <2>2. ~present' => text' = <<>>
    BY <1>1 DEF FileTypeOK
  <2>3. crashes' \in 0..MaxCrashes
    BY FileBoundsAssumption DEF FileBoundsAssumption, FileTypeOK, Crash
  <2>4. output' \in [Rewriters -> Seq(Token)]
    <3>1. <<>> \in Seq(Token)
      OBVIOUS
    <3>. QED BY <1>1, <3>1
  <2>5. present' \in BOOLEAN
    BY <1>1 DEF FileTypeOK
  <2>. QED BY <1>1, <1>3, <2>1, <2>2, <2>3, <2>4, <2>5 DEF FileTypeOK
<1>5. Places'
  <2>1. \A i \in DOMAIN text' : text'[i] < fresh'
    <3>1. CASE text' = text
      BY <1>1, <3>1 DEF Places
    <3>2. CASE text' # text
      <4>1. \A i \in DOMAIN text' : i \in 1..m \/ i = m + 1
        BY <1>3, <3>2
      <4>2. \A i \in 1..m : text[i] < fresh
        BY <1>3 DEF Places
      <4>3. -2 < fresh
        BY <1>3
      <4>. QED BY <1>1, <1>3, <3>2, <4>1, <4>2, <4>3
    <3>. QED BY <3>1, <3>2
  <2>. QED BY <1>1, <1>2, <2>1 DEF Places
<1>6. Meeting'
  BY <1>1, <1>2 DEF Meeting
<1>7. Sorted'
  <2>1. \A j \in DOMAIN text' : text'[j] >= 0 => text'[j] = text[j] /\ j \in DOMAIN text
    <3>1. CASE text' = text
      BY <3>1
    <3>2. CASE text' # text
      <4>1. \A i \in DOMAIN text' : i \in 1..m \/ i = m + 1
        BY <1>3, <3>2
      <4>. QED BY <1>3, <3>2, <4>1
    <3>. QED BY <3>1, <3>2
  <2>2. InOrder(text)'
    BY <1>1, <2>1 DEF Sorted, InOrder
  <2>. QED BY <1>2, <2>2 DEF Sorted
<1>8. Survival'
  <2>1. Surviving' \subseteq Surviving
    BY <1>1 DEF Surviving
  <2>2. ASSUME NEW t \in Surviving' PROVE t \in Readable(text')
    <3>1. \A r \in Rewriters : stage[r] # "write"
      BY <1>1, <2>2 DEF Surviving
    <3>2. t \in Readable(text)
      BY <2>1, <2>2, <3>1 DEF Survival
    <3>3. CASE text' = text
      BY <3>2, <3>3
    <3>4. CASE text' # text
      <4>1. text' = Append(text, Torn) /\ text \in Seq(Token)
        BY <1>1, <3>4, FileBasics
      <4>2. EndsInLine(text) => t # Last(text)
        BY <1>1, <2>2, <3>4 DEF Surviving
      <4>3. t \in Readable(Append(text, Torn))
        BY <1>3, <3>2, <4>1, <4>2, ReadableAppend
      <4>. QED BY <4>1, <4>3
    <3>. QED BY <3>3, <3>4
  <2>. QED BY <1>2, <2>2, Primed DEF Survival
<1>. QED BY <1>4, <1>5, <1>6, <1>7, <1>8

\* A step that changes nothing.
LEMMA FileStutter ==
  ASSUME FileInd, UNCHANGED fileVars
  PROVE  FileInd'
<1>1. UNCHANGED <<present, text, fresh, notices, adding, stage, output, rewrites, crashes,
                  written, exposed, cleared, tangled>>
  BY DEF fileVars, appends, rewriting, history
<1>2. Everything' = Everything /\ Surviving' = Surviving /\ \A r \in Rewriters : Busy(r)' <=> Busy(r)
  BY <1>1 DEF Everything, Surviving, Busy
<1>. USE DEF FileInd, FileFacts
<1>3. FileTypeOK'
  BY <1>1, <1>2 DEF FileTypeOK
<1>4. Places' /\ Meeting'
  BY <1>1, <1>2 DEF Places, Meeting
<1>5. Sorted'
  BY <1>1, <1>2 DEF Sorted, InOrder
<1>6. Survival'
  <2>1. \A r \in Rewriters : EndsClosed(output[r])' <=> EndsClosed(output[r])
    BY <1>1 DEF EndsClosed
  <2>. QED BY <1>1, <1>2, <2>1, Primed DEF Survival
<1>. QED BY <1>3, <1>4, <1>5, <1>6

(***************************************************************************)
(* SessionFile: the theorems                                               *)
(***************************************************************************)

\* The invariant of the session file holds after every append, rewrite, deletion and
\* crash, however they are interleaved (jsonl.rs:44-57, manager.rs:387-422 and 487-523).
THEOREM FileInvariance == FileSpec => []FileInd
<1>1. FileInit => FileInd
  BY InitFileInd
<1>2. FileInd /\ [FileNext]_fileVars => FileInd'
  <2>. SUFFICES ASSUME FileInd, [FileNext]_fileVars PROVE FileInd'
    OBVIOUS
  <2>1. CASE \E a \in Appenders : WriteLine(a) \/ WriteNewline(a)
    BY <2>1, WriteLineKeeps, WriteNewlineKeeps
  <2>2. CASE \E r \in Rewriters : UpdateHeader(r) \/ ClearNotices(r) \/ Truncate(r) \/ WriteBack(r)
    BY <2>2, RewriteKeeps, TruncateKeeps, WriteBackKeeps
  <2>3. CASE Delete
    BY <2>3, DeleteKeeps
  <2>4. CASE Crash
    BY <2>4, CrashKeeps
  <2>5. CASE UNCHANGED fileVars
    BY <2>5, FileStutter
  <2>. QED BY <2>1, <2>2, <2>3, <2>4, <2>5 DEF FileNext
<1>. QED BY <1>1, <1>2, PTL DEF FileSpec

\* Every variable of the session file keeps its type; a file that is gone holds nothing
\* until somebody writes it anew.
THEOREM FileTypes == FileSpec => []FileTypeOK
<1>1. FileInd => FileTypeOK
  BY DEF FileInd
<1>. QED BY <1>1, FileInvariance, PTL

\* An entry appended with nothing else at work on the file can be read for ever unless it
\* is cleared, the session deleted or the process killed within a rewrite, and entries are
\* read in the order of their appends, but where two rewrites met.
THEOREM FileSurvives == FileSpec => []UnexposedSurvives
<1>1. FileInd => UnexposedSurvives
  <2>. SUFFICES ASSUME FileInd PROVE UnexposedSurvives
    OBVIOUS
  <2>. USE DEF FileInd, FileFacts
  <2>1. ASSUME NEW t \in ({Header} \cup written) \ (exposed \cup cleared)
        PROVE  \/ t \in Readable(text)
               \/ \E r \in Rewriters : stage[r] = "write" /\ t \in Readable(output[r])
    <3>1. t \in Everything
      <4>1. Header \in Everything
        BY FileBasics, Tokens
      <4>. QED BY <2>1, <4>1 DEF Places
    <3>2. t \in Surviving
      BY <2>1, <3>1 DEF Surviving
    <3>. QED BY <3>2 DEF Survival, Busy
  <2>2. ASSUME NEW i \in DOMAIN text, NEW j \in DOMAIN text, i < j, ReadableAt(text, i), ReadableAt(text, j)
        PROVE  text[i] < text[j] \/ {text[i], text[j]} \subseteq tangled
    <3>1. text[i] >= 0 /\ text[j] >= 0
      BY <2>2, Tokens DEF ReadableAt
    <3>. QED BY <2>2, <3>1 DEF Sorted, InOrder, Follows
  <2>. QED BY <2>1, <2>2 DEF UnexposedSurvives
<1>. QED BY <1>1, FileInvariance, PTL
=============================================================================
