--------------------------------- MODULE EventLog --------------------------------
(***************************************************************************)
(* The audit log (events/events.go): one JSON line per event, numbered     *)
(* from the last line of the file when the server starts, read by clients  *)
(* that ask for what follows the last event they know.                     *)
(***************************************************************************)
EXTENDS Naturals, SequencesExt, FiniteSetsExt

CONSTANTS
  MaxEvents,   \* bound on appends
  PageLimit,   \* events of one read at most (100)
  MaxTears     \* bound on crashes and failed writes

ASSUME EventAssumption ==
  MaxEvents \in Nat /\ MaxTears \in Nat /\ PageLimit \in Nat \ {0}

VARIABLES
  log,        \* the lines of the file: an event's id, or 0 for what does not parse
  open,       \* the last line has no newline yet
  lastId,     \* the id in memory
  follower,   \* a client: the last event it knows, and those it was given
  reset,      \* (history) the log was truncated under the client
  bare,       \* (history) a line was written whole but for its newline
  appended, tears

evars == <<log, open, lastId, follower, reset, bare, appended, tears>>

EventInit ==
  /\ log = <<>> /\ open = FALSE /\ lastId = 0
  /\ follower = [after |-> 0, given |-> {}]
  /\ reset = FALSE /\ bare = FALSE /\ appended = 0 /\ tears = 0

\* The lines that parse, by their place in the file.
Parsed == {i \in DOMAIN log : log[i] # 0}

\* The number of events, which is the last id as long as no line was torn.
CountedId == Cardinality(Parsed)

\* lastID: that of the last line that parses.
StoredId == IF Parsed = {} THEN 0 ELSE log[Max(Parsed)]

\* A line that follows a torn one is one line with it, and does not parse.
AppendEvent ==
  /\ appended < MaxEvents
  /\ appended' = appended + 1
  /\ lastId' = lastId + 1
  /\ log' = IF open THEN Append(Front(log), 0) ELSE Append(log, lastId + 1)
  /\ open' = FALSE
  /\ UNCHANGED <<follower, reset, bare, tears>>

\* What a write may leave that does not end: nothing, a part of the line, or all of
\* it but the newline.
Tear(id) ==
  \/ UNCHANGED <<log, open, bare>>
  \/ /\ log' = IF open THEN Append(Front(log), 0) ELSE Append(log, 0)
     /\ open' = TRUE /\ UNCHANGED bare
  \/ /\ ~open
     /\ log' = Append(log, id)
     /\ open' = TRUE /\ bare' = TRUE

\* A disk that is full: the append fails, and its id is used up.
AppendTorn ==
  /\ appended < MaxEvents /\ tears < MaxTears
  /\ appended' = appended + 1 /\ tears' = tears + 1
  /\ lastId' = lastId + 1
  /\ Tear(lastId + 1)
  /\ UNCHANGED <<follower, reset>>

\* A crash and Open; a crash in an append is AppendTorn and then this.
ReopenLog ==
  /\ tears < MaxTears
  /\ tears' = tears + 1
  /\ lastId' = StoredId
  /\ UNCHANGED <<log, open, follower, reset, bare, appended>>

ResetLog ==
  /\ log # <<>>
  /\ log' = <<>> /\ open' = FALSE
  /\ lastId' = 0
  /\ reset' = TRUE
  /\ UNCHANGED <<follower, bare, appended, tears>>

\* The first events in file order after the one that the client knows.
ReadEvents ==
  LET later == {i \in Parsed : log[i] > follower.after}
      page == {i \in later : Cardinality({j \in later : j < i}) < PageLimit}
  IN
  /\ page # {}
  /\ follower' = [after |-> log[Max(page)], given |-> follower.given \cup {log[i] : i \in page}]
  /\ UNCHANGED <<log, open, lastId, reset, bare, appended, tears>>

EventNext == AppendEvent \/ AppendTorn \/ ReopenLog \/ ResetLog \/ ReadEvents

EventSpec == EventInit /\ [][EventNext]_evars

-----------------------------------------------------------------------------
(* Properties                                                              *)

\* Open: ids "stay monotonic across restarts", torn lines and failed writes included,
\* so that a client that asks for what follows the last event it knows is given every
\* event of the file once, until the log is reset. Only a line that was written whole
\* but for its newline, and is then lost to the line glued to it, gives its id back.
FollowerMissesNothing ==
  ~bare =>
  /\ \A i, j \in Parsed : i < j => log[i] < log[j]
  /\ ~reset => \A i \in Parsed : log[i] <= follower.after => log[i] \in follower.given
=============================================================================
