------------------------------ MODULE LogFiles ------------------------------
\* The operational log of a daemon on disk (log-lifecycle.ts): lines become
\* entries of segments, which are rotated, expire, and give way to newer
\* ones.  Who may write is DataDirectory's; here there is one writer at a
\* time, whose writes, maintenance and end wait for each other.  A clean-up
\* removes one file after another, and the process may die in between.
\*
\* A segment is as long as it has entries, and time goes by in days, none
\* of them in the middle of a clean-up.
EXTENDS Integers, FiniteSets

CONSTANTS
    File,           \* the names of segments
    NoName,         \* no segment's
    SegmentLimit,   \* entries of a segment
    TotalLimit,     \* entries of all segments
    MaxOwned,       \* segments the directory may hold
    Rotation,       \* a segment this old is closed
    Retention       \* one not written to for so long is removed

VARIABLES
    segment,        \* the files of the directory
    writer,         \* the stream: its open segment, and what a clean-up under way is for
    line,           \* how many entries the line it is in has come to, and how many the one before
    answer          \* the last export

vars == <<segment, writer, line, answer>>

Off == [on |-> FALSE, file |-> NoName, age |-> 0, pending |-> FALSE, discard |-> FALSE, task |-> "NONE"]
NoFile == [there |-> FALSE, size |-> 0, age |-> 0, torn |-> FALSE]
New == [NoFile EXCEPT !.there = TRUE]
NoLine == [now |-> 0, last |-> 1]

Segment == [there : BOOLEAN, size : 0 .. SegmentLimit, age : 0 .. Retention, torn : BOOLEAN]

TypeOK ==
    /\ segment \in [File -> Segment] /\ \A f \in File : ~segment[f].there => segment[f] = NoFile
    /\ writer \in [on : BOOLEAN, file : File \cup {NoName}, age : 0 .. Rotation, pending : BOOLEAN, discard : BOOLEAN,
                   task : {"NONE", "START", "WRITE", "MAINTAIN", "CLOSE"}]
    /\ line \in [now : 0 .. 2, last : 0 .. 2]
    /\ answer \in {"NONE", "WHOLE", "INVALID"}

Names == {f \in File : segment[f].there}

\* The entries of some segments.
SizeOf(names) == Cardinality({entry \in names \X (1 .. SegmentLimit) : entry[2] <= segment[entry[1]].size})

----
(* cleanupSegments: the expired ones, then the oldest while too much is kept *)

\* Mutant: all of the total may be taken before the next segment is opened.
CapacityTarget_Total == TotalLimit

\* A segment may yet be filled.
CapacityTarget == TotalLimit - SegmentLimit

\* Mutant: the open segment is cleaned up with the others.
OpenOne_None == {}

\* What a clean-up leaves alone.
OpenOne == {writer.file} \ {NoName}

\* What it removes next.
Removable ==
    LET listed == Names \ OpenOne
        expired == {f \in listed : segment[f].age = Retention}
    IN  IF expired # {} THEN expired
        ELSE {f \in listed : SizeOf(Names) > CapacityTarget /\ \A g \in listed : segment[g].age <= segment[f].age}

Free == CHOOSE f \in File : ~segment[f].there

\* An entry at the end of a segment.
Put(f, torn) == [segment EXCEPT ![f] = [there |-> TRUE, size |-> @.size + 1, age |-> 0, torn |-> torn]]

Dead == writer' = Off /\ line' = NoLine

Listed == Cardinality(Names) <= MaxOwned

CleanOne ==
    /\ writer.task # "NONE" /\ Listed
    /\ \E f \in Removable : segment' = [segment EXCEPT ![f] = NoFile]
    /\ UNCHANGED <<writer, line, answer>>

\* What the clean-up was for: a new segment for the entry that is written, or for the next.
CleanEnds ==
    /\ writer.task # "NONE" /\ Listed
    /\ Removable = {} /\ SizeOf(Names) <= CapacityTarget
    /\ \/ /\ writer.task = "START" \/ (writer.task = "MAINTAIN" /\ writer.file # NoName)
          /\ writer' = [writer EXCEPT !.task = "NONE"]
          /\ UNCHANGED <<segment, line>>
       \/ /\ writer.task = "MAINTAIN" /\ writer.file = NoName
          /\ segment' = [segment EXCEPT ![Free] = New]
          /\ writer' = [writer EXCEPT !.file = Free, !.age = 0, !.task = "NONE"]
          /\ UNCHANGED line
       \/ /\ writer.task = "WRITE"
          /\ segment' = Put(Free, FALSE)
          /\ writer' = [writer EXCEPT !.file = Free, !.age = 0, !.task = "NONE"]
          /\ UNCHANGED line
       \/ /\ writer.task = "CLOSE"
          /\ segment' = Put(Free, FALSE)
          /\ Dead
    /\ UNCHANGED answer

\* It refuses: the stream fails, and the daemon ends with it.
CleanFails ==
    /\ writer.task # "NONE"
    /\ ~Listed \/ (Removable = {} /\ SizeOf(Names) > CapacityTarget)
    /\ Dead
    /\ UNCHANGED <<segment, answer>>

----
(* The stream *)

\* openLocalLogWriter: cleaned up once; the first segment is made by the first write.
Start ==
    /\ ~writer.on
    /\ writer' = [Off EXCEPT !.on = TRUE, !.task = "START"]
    /\ UNCHANGED <<segment, line, answer>>

Idle == writer.on /\ writer.task = "NONE"

\* The next entry goes to another segment.
MustRotate ==
    /\ writer.file # NoName /\ segment[writer.file].size > 0
    /\ segment[writer.file].size = SegmentLimit \/ writer.age = Rotation

\* Where it goes when it does not.
Target == IF writer.file # NoName THEN writer.file ELSE Free

\* Mutant: the rest of a line too long is a line.
DiscardsRest_Never == FALSE

DiscardsRest == TRUE

\* What a chunk of text comes to: an entry or none, and where in a line it leaves the stream.
Consumed(chunk) ==
    IF writer.discard
    THEN [entry |-> FALSE, pending |-> FALSE, discard |-> chunk # "END"]
    ELSE CASE chunk = "END" -> [entry |-> TRUE, pending |-> FALSE, discard |-> FALSE]
           [] chunk = "PART" -> [entry |-> FALSE, pending |-> TRUE, discard |-> FALSE]
           [] chunk = "LONG" -> [entry |-> TRUE, pending |-> FALSE, discard |-> DiscardsRest]

Chunk == {"END", "PART", "LONG"}

\* #consume of text up to the end of a line, of some of one, or of more than a line may have.
Write(chunk) ==
    LET c == Consumed(chunk)
        rests == [writer EXCEPT !.pending = c.pending, !.discard = c.discard]
        entries == line.now + (IF c.entry THEN 1 ELSE 0)
    IN  /\ Idle /\ line.now < 2
        /\ line' = IF chunk = "END" THEN [now |-> 0, last |-> entries] ELSE [line EXCEPT !.now = entries]
        /\ \/ ~c.entry /\ segment' = segment /\ writer' = rests
           \/ /\ c.entry /\ MustRotate
              /\ segment' = segment /\ writer' = [rests EXCEPT !.file = NoName, !.task = "WRITE"]
           \/ /\ c.entry /\ ~MustRotate
              /\ segment' = Put(Target, FALSE)
              /\ writer' = [rests EXCEPT !.file = Target, !.age = IF writer.file = NoName THEN 0 ELSE @]
        /\ UNCHANGED answer

\* maintain, once an hour: an old segment is closed, and after the clean-up one is open.
Maintain ==
    LET closes == writer.file # NoName /\ segment[writer.file].size > 0 /\ writer.age = Rotation IN
    /\ Idle
    /\ writer' = [writer EXCEPT !.file = IF closes THEN NoName ELSE @, !.task = "MAINTAIN"]
    /\ UNCHANGED <<segment, line, answer>>

\* close: what there is of a line becomes an entry.
Close ==
    LET entry == writer.pending /\ ~writer.discard IN
    /\ Idle
    /\ \/ ~entry /\ Dead /\ UNCHANGED segment
       \/ entry /\ ~MustRotate /\ Dead /\ segment' = Put(Target, FALSE)
       \/ /\ entry /\ MustRotate
          /\ writer' = [writer EXCEPT !.file = NoName, !.task = "CLOSE"]
          /\ UNCHANGED <<segment, line>>
    /\ UNCHANGED answer

\* The process dies: between two entries or two removals, or in the middle of an entry.
Die ==
    /\ writer.on
    /\ UNCHANGED segment \/ (Idle /\ ~MustRotate /\ segment' = Put(Target, TRUE))
    /\ Dead
    /\ UNCHANGED answer

----
(* The others *)

Day ==
    /\ writer.task = "NONE"
    /\ segment' = [f \in File |-> IF segment[f].there /\ segment[f].age < Retention
                                  THEN [segment[f] EXCEPT !.age = @ + 1] ELSE segment[f]]
    /\ writer' = [writer EXCEPT !.age = IF writer.file # NoName /\ @ < Rotation THEN @ + 1 ELSE @]
    /\ UNCHANGED <<line, answer>>

\* `logs export` and `logs delete`, of a directory no daemon writes to; the files are deleted one
\* after another.
Export ==
    /\ ~writer.on
    /\ answer' = IF Listed /\ SizeOf(Names) <= TotalLimit /\ \A f \in Names : ~segment[f].torn
                 THEN "WHOLE" ELSE "INVALID"
    /\ UNCHANGED <<segment, writer, line>>

Delete(f) ==
    /\ ~writer.on /\ Listed /\ segment[f].there
    /\ segment' = [segment EXCEPT ![f] = NoFile]
    /\ UNCHANGED <<writer, line, answer>>

----

Init == segment = [f \in File |-> NoFile] /\ writer = Off /\ line = NoLine /\ answer = "NONE"

Next ==
    \/ CleanOne \/ CleanEnds \/ CleanFails \/ Start \/ Maintain \/ Close \/ Die \/ Day \/ Export
    \/ \E chunk \in Chunk : Write(chunk)
    \/ \E f \in File : Delete(f)

Spec == Init /\ [][Next]_vars

----

\* The log on disk never takes more than it may, however its segments fill, age and are rotated.
WithinTotal == SizeOf(Names) <= TotalLimit

\* The segment the stream writes to is in the directory: a clean-up never removes it under the
\* writer, not even one that has stayed empty for as long as segments are kept.
WrittenIsFound == writer.file # NoName => segment[writer.file].there

\* A line becomes one entry, in however many chunks it comes and however long it is.
OneEntryPerLine == line.now <= 1 /\ line.last = 1
=============================================================================
