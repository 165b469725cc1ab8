---------------------------- MODULE SessionFile ----------------------------
(***************************************************************************)
(* The lines of one session file.  An append is two writes at the end of   *)
(* the file, the line and its newline.  Updating the header and clearing   *)
(* the notices read the file, truncate it and write it back, from its      *)
(* start.  No lock is held across these steps, so tasks that write the     *)
(* same file interleave, and the process may die between any two.          *)
(*                                                                         *)
(* The file is a sequence of tokens: the header, entries (numbered in      *)
(* the order in which they were appended), newlines, and torn text that is *)
(* no JSON.                                                                *)
(***************************************************************************)
EXTENDS Integers, FiniteSets, SequencesExt

CONSTANTS
    Appenders,   \* engines, drain loop, manual compaction
    Rewriters,   \* thread.retry, mode and model changes, titles healed by a sync
    MaxEntries,  \* bound: appends
    MaxRewrites, \* bound: rewrites
    MaxCrashes   \* bound: deaths of the process

ASSUME FileBoundsAssumption == MaxEntries \in Nat /\ MaxRewrites \in Nat /\ MaxCrashes \in Nat

Entries == 1..MaxEntries
Header == 0
NL == -1
Torn == -2
Token == Entries \cup {Header, NL, Torn}

VARIABLES
    present,  \* the file exists
    text,     \* its tokens
    fresh,    \* the next entry
    notices,  \* the entries that are notices
    adding,   \* the entry whose line each appender wrote, its newline not yet, or 0
    stage,    \* of each rewriter: "idle", "truncate", "write"
    output,   \* what it is going to write
    rewrites, \* rewrites begun
    crashes,  \* deaths of the process
    written,  \* history: entries whose append has returned
    exposed,  \* history: entries that something else at work on the file can cost
    cleared,  \* history: notices that a rewrite left out
    tangled   \* history: entries that two rewrites at once can double or misplace

appends == <<fresh, notices, adding>>
rewriting == <<stage, output, rewrites>>
history == <<written, exposed, cleared, tangled>>
fileVars == <<present, text, appends, rewriting, crashes, history>>

\* create_session has written the header.
FileInit ==
    /\ present = TRUE /\ text = <<Header, NL>>
    /\ fresh = 1 /\ notices = {}
    /\ adding = [a \in Appenders |-> 0]
    /\ stage = [r \in Rewriters |-> "idle"] /\ output = [r \in Rewriters |-> <<>>]
    /\ rewrites = 0 /\ crashes = 0
    /\ written = {} /\ exposed = {} /\ cleared = {} /\ tangled = {}

\* A line is readable if it is one token, the last one with or without newline.
ReadableAt(f, i) ==
    /\ f[i] \in Entries \cup {Header}
    /\ i > 1 => f[i - 1] = NL
    /\ i < Len(f) => f[i + 1] = NL

Readable(f) == {f[i] : i \in {j \in DOMAIN f : ReadableAt(f, j)}}
Headed(f) == f # <<>> /\ f[1] = Header /\ ReadableAt(f, 1)
EndsInLine(f) == f # <<>> /\ Last(f) # NL
Everything == 0..fresh - 1
Rewriting == {r \in Rewriters : stage[r] # "idle"}

-----------------------------------------------------------------------------
(* append_serialized: writeln! on an unbuffered file opened for appending   *)

\* The line goes to the end of whatever is there, a file of its own if nothing is.
WriteLine(a) ==
    /\ adding[a] = 0 /\ fresh <= MaxEntries /\ fresh' = fresh + 1
    /\ adding' = [adding EXCEPT ![a] = fresh] /\ notices' \in {notices, notices \cup {fresh}}
    /\ text' = Append(text, fresh) /\ present' = TRUE
    /\ exposed' = exposed \cup (IF EndsInLine(text) THEN {Last(text), fresh} ELSE {})
                          \cup (IF Rewriting # {} THEN {fresh} ELSE {})
    /\ UNCHANGED <<rewriting, crashes, written, cleared, tangled>>

WriteNewline(a) ==
    /\ adding[a] # 0 /\ adding' = [adding EXCEPT ![a] = 0]
    /\ text' = Append(text, NL) /\ written' = written \cup {adding[a]}
    /\ UNCHANGED <<present, fresh, notices, rewriting, crashes, exposed, cleared,
                   tangled>>

-----------------------------------------------------------------------------
(* update_header and clear_notice_entries                                   *)

\* The k-th smallest number of S, and the part of g at the places S.
Nth(S, k) == CHOOSE i \in S : Cardinality({j \in S : j < i}) = k - 1
PartAt(g, S) == [k \in 1..Cardinality(S) |-> g[Nth(S, k)]]

\* A newline stays if the token before it does, other tokens stay unless gone.
Staying(g, gone) ==
    {i \in DOMAIN g \ gone : g[i] = NL => i > 1 /\ g[i - 1] # NL /\ i - 1 \notin gone}

LinesTerminated(f, gone) ==  \* mutant: a line without its newline is not a line
    PartAt(f, {i \in Staying(f, gone) : f[i] = NL \/ i < Len(f)})

\* The lines of f, each with its newline, but the blank ones and those at gone.
Lines(f, gone) == LET g == Append(f, NL) IN PartAt(g, Staying(g, gone))

\* A rewrite that begins while another is under way puts everything at risk.
ReadFile(r, lines, gone) ==
    LET risked == IF Rewriting # {} THEN Everything ELSE {} IN
    /\ stage[r] = "idle" /\ present /\ rewrites < MaxRewrites
    /\ rewrites' = rewrites + 1 /\ stage' = [stage EXCEPT ![r] = "truncate"]
    /\ output' = [output EXCEPT ![r] = lines] /\ cleared' = cleared \cup gone
    /\ exposed' = exposed \cup risked /\ tangled' = tangled \cup risked
    /\ UNCHANGED <<present, text, appends, crashes, written>>

\* The first line is replaced, the others are copied; no header, no update.
UpdateHeader(r) == Headed(text) /\ ReadFile(r, Lines(text, {}), {})

\* Lines that parse as a notice go; none, no rewrite.
ClearNotices(r) ==
    LET gone == {i \in DOMAIN text : ReadableAt(text, i) /\ text[i] \in notices} IN
    gone # {} /\ ReadFile(r, Lines(text, gone), {text[i] : i \in gone})

TruncateOnly(r) ==  \* mutant: a file that is gone is not created
    /\ stage[r] = "truncate" /\ stage' = [stage EXCEPT ![r] = "write"]
    /\ text' = <<>> /\ present' = present
    /\ UNCHANGED <<appends, output, rewrites, crashes, history>>

\* fs::write truncates, or creates, the file ...
Truncate(r) ==
    /\ stage[r] = "truncate" /\ stage' = [stage EXCEPT ![r] = "write"]
    /\ text' = <<>> /\ present' = TRUE
    /\ UNCHANGED <<appends, output, rewrites, crashes, history>>

\* ... and writes from its start: over what was appended meanwhile, of which an
\* end may stick out.
WriteBack(r) ==
    /\ stage[r] = "write" /\ stage' = [stage EXCEPT ![r] = "idle"]
    /\ \/ text' = output[r]
       \/ \E k \in DOMAIN text :
             \/ text' = output[r] \o SubSeq(text, k + 1, Len(text))
             \/ text[k] # NL /\ text' = output[r] \o <<Torn>> \o SubSeq(text, k + 1, Len(text))
    /\ output' = [output EXCEPT ![r] = <<>>]
    /\ UNCHANGED <<present, appends, rewrites, crashes, history>>

-----------------------------------------------------------------------------
(* Deletion and death                                                       *)

\* delete_session.  Who holds the file open writes the rest to no one.
Delete ==
    /\ present /\ present' = FALSE /\ text' = <<>> /\ exposed' = exposed \cup Everything
    /\ adding' = [a \in Appenders |-> 0]
    /\ stage' = [r \in Rewriters |-> IF stage[r] = "write" THEN "idle" ELSE stage[r]]
    /\ UNCHANGED <<fresh, notices, output, rewrites, crashes, written, cleared, tangled>>

\* The process dies and starts again.  A line on its way may be torn; a file that
\* was truncated and not written back is lost.
Crash ==
    /\ crashes < MaxCrashes /\ crashes' = crashes + 1
    /\ text' \in {text, Append(text, Torn)} /\ present' = (present \/ text' # text)
    /\ exposed' = exposed \cup (IF EndsInLine(text) /\ text' # text THEN {Last(text)} ELSE {})
                          \cup (IF \E r \in Rewriters : stage[r] = "write" THEN Everything ELSE {})
    /\ adding' = [a \in Appenders |-> 0]
    /\ stage' = [r \in Rewriters |-> "idle"] /\ output' = [r \in Rewriters |-> <<>>]
    /\ UNCHANGED <<fresh, notices, rewrites, written, cleared, tangled>>

FileNext ==
    \/ \E a \in Appenders : WriteLine(a) \/ WriteNewline(a)
    \/ \E r \in Rewriters : UpdateHeader(r) \/ ClearNotices(r) \/ Truncate(r) \/ WriteBack(r)
    \/ Delete \/ Crash

FileSpec == FileInit /\ [][FileNext]_fileVars

-----------------------------------------------------------------------------
(* Properties                                                               *)

\* Every variable has its type.
FileTypeOK ==
    /\ present \in BOOLEAN /\ text \in Seq(Token) /\ (~present => text = <<>>)
    /\ fresh \in 1..MaxEntries + 1 /\ notices \subseteq Entries
    /\ adding \in [Appenders -> Entries \cup {0}]
    /\ stage \in [Rewriters -> {"idle", "truncate", "write"}]
    /\ output \in [Rewriters -> Seq(Token)]
    /\ rewrites \in 0..MaxRewrites /\ crashes \in 0..MaxCrashes
    /\ written \subseteq Entries /\ cleared \subseteq notices
    /\ exposed \subseteq Token /\ tangled \subseteq Everything

\* Only what overlaps is at risk: the header, and an entry that got a line of
\* its own with no rewrite under way, can be read for ever, through every later
\* append, rewrite and crash but one in the middle of a rewrite, unless the
\* entry was cleared or the session deleted.  (Without its header a session is
\* not restored.)  And what is read is read in the order in which it was written,
\* nothing twice, exposed or not, but for what was there when two rewrites met.
UnexposedSurvives ==
    /\ \A t \in ({Header} \cup written) \ (exposed \cup cleared) :
         \/ t \in Readable(text)
         \/ \E r \in Rewriters : stage[r] = "write" /\ t \in Readable(output[r])
    /\ \A i, j \in DOMAIN text :
         i < j /\ ReadableAt(text, i) /\ ReadableAt(text, j) =>
            text[i] < text[j] \/ {text[i], text[j]} \subseteq tangled

=============================================================================
