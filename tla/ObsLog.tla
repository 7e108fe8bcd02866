--------------------------------- MODULE ObsLog ---------------------------------
(***************************************************************************)
(* The observability log of one project (obs/store.go): writers number a   *)
(* line and queue it, the flush loop and every reader take what is queued  *)
(* and append it to the file, which is rotated to one backup, and a reader *)
(* tails the two files by line number.                                     *)
(***************************************************************************)
EXTENDS Integers, SequencesExt, FiniteSetsExt

CONSTANTS
  Writer,
  MaxLines,    \* bound on the lines of all writers
  ChanCap,     \* lines the channel holds (1024)
  FileCap,     \* lines after which the file is rotated (4 MB)
  TailLimit,   \* lines a tail returns at most (200)
  MaxStops     \* bound on restarts and deletes

ASSUME ObsAssumption ==
  /\ MaxLines \in Nat /\ MaxStops \in Nat
  /\ ChanCap \in Nat \ {0} /\ FileCap \in Nat \ {0} /\ TailLimit \in Nat \ {0}

VARIABLES
  counter,     \* the number of the last line, once a writer has asked for one
  numbered,    \* the line a writer has numbered and not yet queued
  channel,     \* queued lines
  batch,       \* what a flush has taken and not yet written
  active,      \* the file,
  backup,      \*   and the one that was rotated away
  tailing,     \* the reader: "idle", "flush" or "scan"
  cursor,      \* the number after which it reads on
  seen,        \* (history) the lines it has been given
  overtaken,   \* (history) lines that were on their way when a newer one was written
  strayed,     \* (history) a line that was numbered before a delete was written after it
  reused,      \* (history) numbers that the tail has passed will be given again
  age,         \* (history) how many deletes there were
  taken, stops

ovars == <<counter, numbered, channel, batch, active, backup, tailing, cursor, seen,
           overtaken, strayed, reused, age, taken, stops>>

Flusher == {"loop", "reader"}
Unknown == -1
NoLine == [no |-> 0, age |-> 0]
Numbers(ls) == {l.no : l \in ToSet(ls)}

ObsInit ==
  /\ counter = Unknown
  /\ numbered = [w \in Writer |-> NoLine]
  /\ channel = <<>> /\ batch = [f \in Flusher |-> <<>>]
  /\ active = <<>> /\ backup = <<>>
  /\ tailing = "idle" /\ cursor = 0
  /\ seen = {} /\ overtaken = {} /\ strayed = FALSE /\ reused = FALSE
  /\ age = 0 /\ taken = 0 /\ stops = 0

tail == <<tailing, cursor, seen>>
history == <<overtaken, strayed, reused, age>>

\* The highest number in either file.
MaxSeq == Max({0} \cup Numbers(backup) \cup Numbers(active))

\* append: counter(project).Add(1).
Number(w) ==
  /\ taken < MaxLines
  /\ numbered[w] = NoLine
  /\ counter' = (IF counter = Unknown THEN MaxSeq ELSE counter) + 1
  /\ numbered' = [numbered EXCEPT ![w] = [no |-> counter', age |-> age]]
  /\ taken' = taken + 1
  /\ UNCHANGED <<channel, batch, active, backup, tail, history, stops>>

\* A full channel drops the line.
Queue(w) ==
  /\ numbered[w] # NoLine
  /\ channel' = IF Len(channel) < ChanCap THEN Append(channel, numbered[w]) ELSE channel
  /\ numbered' = [numbered EXCEPT ![w] = NoLine]
  /\ UNCHANGED <<counter, batch, active, backup, tail, history, taken, stops>>

\* The channel is drained before the write lock is asked for.
Drain(f) ==
  /\ batch[f] = <<>> /\ channel # <<>>
  /\ batch' = [batch EXCEPT ![f] = channel]
  /\ channel' = <<>>
  /\ UNCHANGED <<counter, numbered, active, backup, history, taken, stops>>

LoopDrains == Drain("loop") /\ UNCHANGED tail

InFlight(f) ==
  {numbered[w] : w \in Writer} \cup ToSet(channel)
  \cup UNION {ToSet(batch[g]) : g \in Flusher \ {f}}

\* Under the write lock; past its cap the file becomes the backup. A disk that
\* fails loses lines.
Flush(f) ==
  LET written == active \o batch[f]
      newest == Max(Numbers(batch[f]))
  IN
  /\ batch[f] # <<>>
  /\ \/ /\ IF Len(written) > FileCap
           THEN active' = <<>> /\ backup' = written
           ELSE active' = written /\ UNCHANGED backup
        /\ overtaken' = overtaken \cup {l \in InFlight(f) : l # NoLine /\ l.no < newest}
        /\ strayed' = (strayed \/ \E l \in ToSet(batch[f]) : l.age < age)
     \/ UNCHANGED <<active, backup, overtaken, strayed>>
  /\ batch' = [batch EXCEPT ![f] = <<>>]
  /\ UNCHANGED <<counter, numbered, channel, reused, age, taken, stops>>

LoopFlushes == Flush("loop") /\ UNCHANGED tail

-----------------------------------------------------------------------------
(* The reader                                                              *)

\* Read: first its own flush.
TailFlushes ==
  \/ /\ tailing = "idle" /\ Drain("reader")
     /\ tailing' = "flush" /\ UNCHANGED <<cursor, seen>>
  \/ /\ tailing = "idle" /\ channel = <<>>
     /\ tailing' = "scan"
     /\ UNCHANGED <<counter, numbered, channel, batch, active, backup, cursor, seen, history, taken, stops>>
  \/ /\ tailing = "flush" /\ Flush("reader")
     /\ tailing' = "scan" /\ UNCHANGED <<cursor, seen>>

\* What is returned of more lines than the limit: the newest, or the first.
NewestLines(ns) == {n \in ns : Cardinality({m \in ns : m > n}) < TailLimit}
FirstLines(ns) == {n \in ns : Cardinality({m \in ns : m < n}) < TailLimit}

\* The scan holds the write lock. A first tail takes the newest lines, the next
\* ones what follows.
Scan ==
  LET all == Numbers(backup) \cup Numbers(active)
      got == IF cursor = 0 THEN NewestLines(all) ELSE FirstLines({n \in all : n > cursor})
  IN
  /\ tailing = "scan"
  /\ tailing' = "idle"
  /\ seen' = seen \cup (IF cursor = 0 THEN all ELSE got)
  /\ cursor' = Max({cursor} \cup got)
  /\ UNCHANGED <<counter, numbered, channel, batch, active, backup, history, taken, stops>>

-----------------------------------------------------------------------------
\* What was on its way is lost; the numbers go on from the files, of which the lines
\* with the highest ones may have been rotated away before older ones came.
Restart ==
  /\ stops < MaxStops
  /\ stops' = stops + 1
  /\ counter' = Unknown
  /\ numbered' = [w \in Writer |-> NoLine]
  /\ channel' = <<>> /\ batch' = [f \in Flusher |-> <<>>]
  /\ tailing' = "idle"
  /\ overtaken' = overtaken \cap (ToSet(active) \cup ToSet(backup))
  /\ reused' = (reused \/ MaxSeq < cursor)
  /\ UNCHANGED <<active, backup, cursor, seen, strayed, age, taken>>

\* DeleteProject, of which the flush has been done: files and numbers go, lines
\* on their way stay. Nobody goes on with a tail of the deleted log.
DeleteLog ==
  /\ stops < MaxStops /\ tailing = "idle"
  /\ stops' = stops + 1
  /\ counter' = Unknown
  /\ active' = <<>> /\ backup' = <<>>
  /\ cursor' = 0 /\ seen' = {}
  /\ overtaken' = {} /\ reused' = FALSE
  /\ age' = age + 1
  /\ UNCHANGED <<numbered, channel, batch, tailing, strayed, taken>>

ObsNext ==
  \/ \E w \in Writer : Number(w) \/ Queue(w)
  \/ LoopDrains \/ LoopFlushes
  \/ TailFlushes \/ Scan
  \/ Restart \/ DeleteLog

ObsSpec == ObsInit /\ [][ObsNext]_ovars

-----------------------------------------------------------------------------
(* Properties                                                              *)

\* Read: "a tail can neither miss nor double-count across a racing rotation". A line
\* in the files behind the tail's cursor is older than its first page or was returned
\* by it, unless it was still on its way when a newer one was written: numbering,
\* queueing, draining and writing are four steps, and only the last is under the lock.
\* Or unless the server restarted when such lines were all that was left: then it goes
\* on with numbers that the tail has passed. And no two lines of the files have one
\* number, also after a restart that had only the rotated file to go on from. (A line
\* that outlived a delete of the log has a number of the old one.)
TailIsExact ==
  LET lines == backup \o active IN
  ~strayed =>
    /\ ~reused =>
         \A l \in ToSet(lines) : l.no <= cursor => l.no \in seen \/ l \in overtaken
    /\ \A i, j \in DOMAIN lines : lines[i].no = lines[j].no => i = j
=============================================================================
