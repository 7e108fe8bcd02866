----------------------------- MODULE TurnRequests -----------------------------
(***************************************************************************)
(* The request machinery the two chat products share (httpapi/turns.go and *)
(* the handlers built on it).  A request is a goroutine; it shares nothing *)
(* with the others but the store and the tracker, and each of its steps is *)
(* one call into one of them, so the other requests may run in between.    *)
(* A turn's run is the same goroutine in the model: the handler hands the  *)
(* reserved turn, and the slot with it, to a detached goroutine.           *)
(***************************************************************************)
EXTENDS ThreadStore, RunTracker

CONSTANTS
  Request,    \* the requests that may be in flight at once
  MaxTurns,   \* bound: a follow-up is only sent to a thread with fewer turns
  MaxFaults   \* bound: crashes and failed file writes of a behaviour

ASSUME RequestAssumption == MaxTurns \in Nat /\ MaxFaults \in Nat

VARIABLES
  req,     \* [Request -> RequestState]
  faults   \* how many crashes and failed writes there were

requestVars == <<turns, minted, cards, slots, req, faults>>

\* Where a request stands that holds the slot of its scope.
Holding ==
  {"taken", "reserved", "running", "release",    \* a turn
   "retaken", "rechecked",                       \* a retry
   "applying", "found", "foundResolved",         \* a confirm card being applied
   "executing", "resolving"}

PC == Holding \cup {"idle", "checked", "deleting", "discarding"}

RequestState ==
  [pc: PC, key: Scope \cup {Blank}, thr: Thread \cup {Blank}, n: Nat,
   card: Card \cup {Blank}]

IdleRequest ==
  [pc |-> "idle", key |-> Blank, thr |-> Blank, n |-> 0, card |-> Blank]

RequestsTypeOK ==
  /\ StoreTypeOK
  /\ TrackerTypeOK
  /\ req \in [Request -> RequestState]
  /\ faults \in 0..MaxFaults

RequestsInit ==
  /\ EmptyStore
  /\ NewRunTracker
  /\ req = [r \in Request |-> IdleRequest]
  /\ faults = 0

At(r, p) == req[r].pc = p

GoTo(r, p) == req' = [req EXCEPT ![r].pc = p]

Begin(r, p, k, t, c) ==
  req' = [req EXCEPT ![r] = [pc |-> p, key |-> k, thr |-> t, n |-> 0, card |-> c]]

Reply(r) == req' = [req EXCEPT ![r] = IdleRequest]

\* The request found that an operation of the store failed on the disk.
Fault == faults < MaxFaults /\ faults' = faults + 1

-----------------------------------------------------------------------------
(* The turn: reserve a placeholder, point the slot at it, run, settle,      *)
(* release                                                                  *)

\* A prompt for thread t, or for a new thread when t is Blank.  The slot is
\* taken under the name the handler knows at that point.  A held slot, a bad
\* prompt and a missing model answer 4xx and change nothing.
TakeForTurn(r, k, t, name) ==
  /\ At(r, "idle")
  /\ IF t = Blank
     THEN \E u \in Thread \ minted : ScopeOf[u] = k
     ELSE t \in minted /\ ScopeOf[t] = k /\ Len(turns[t]) < MaxTurns
  /\ take(k, name)
  /\ Begin(r, "taken", k, t, Blank)
  /\ UNCHANGED <<storeVars, faults>>

ReserveNew(r) ==
  /\ At(r, "taken")
  /\ req[r].thr = Blank
  /\ \E t \in Thread :
       /\ ScopeOf[t] = req[r].key
       /\ ReserveNewThread(t)
       /\ req' = [req EXCEPT ![r].pc = "reserved", ![r].thr = t, ![r].n = 1]
  /\ UNCHANGED <<slots, faults>>

\* next is where the handler goes on: to point the slot at the thread, or
\* straight to the run when the slot has named it since it was taken.
ReserveNext(r, next) ==
  /\ At(r, "taken")
  /\ req[r].thr # Blank
  /\ ReserveFollowup(req[r].thr)
  /\ req' = [req EXCEPT ![r].pc = next, ![r].n = Len(turns[req[r].thr]) + 1]
  /\ UNCHANGED <<slots, faults>>

\* The failed reserve is answered without giving the slot back.
ReserveRefusedKeepsSlot(r) ==
  /\ At(r, "taken")
  /\ req[r].thr # Blank
  /\ ~FollowupAccepted(req[r].thr)
  /\ Reply(r)
  /\ UNCHANGED <<storeVars, slots, faults>>

\* The thread is gone or a card is pending: the handler gives the slot back.
ReserveRefused(r) ==
  /\ At(r, "taken")
  /\ req[r].thr # Blank
  /\ ~FollowupAccepted(req[r].thr)
  /\ GoTo(r, "release")
  /\ UNCHANGED <<storeVars, slots, faults>>

\* The placeholder cannot be written; a half-made new folder is removed.
ReserveFails(r) ==
  /\ At(r, "taken")
  /\ Fault
  /\ GoTo(r, "release")
  /\ UNCHANGED <<storeVars, slots>>

\* The slot keeps the Blank it was taken under.
RepointSkipped(r) ==
  /\ At(r, "reserved")
  /\ GoTo(r, "running")
  /\ UNCHANGED <<storeVars, slots, faults>>

Repoint(r) ==
  /\ At(r, "reserved")
  /\ set(req[r].key, req[r].thr)
  /\ GoTo(r, "running")
  /\ UNCHANGED <<storeVars, faults>>

\* A retry: the last turn of the thread becomes a placeholder again.
Rewrite(r, next) ==
  /\ BeginRetry(req[r].thr)
  /\ req' = [req EXCEPT ![r].pc = next, ![r].n = Len(turns[req[r].thr])]
  /\ UNCHANGED <<slots, faults>>

\* The thread is gone, or its last turn cannot be rewritten.
RewriteFails(r) ==
  /\ \/ ~Exists(req[r].thr) /\ UNCHANGED faults
     \/ Fault
  /\ GoTo(r, "release")
  /\ UNCHANGED <<storeVars, slots>>

\* The run is over; its outcome overwrites the placeholder it reserved.
Settle(r) ==
  /\ At(r, "running")
  /\ \E outcome \in {"answered", "failed"} :
       CompleteTurn(req[r].thr, req[r].n, outcome)
  /\ GoTo(r, "release")
  /\ UNCHANGED <<slots, faults>>

\* CompleteTurn fails: its error is logged at most and the turn stays as it is.
SettleFails(r) ==
  /\ At(r, "running")
  /\ \/ ~HasTurn(req[r].thr, req[r].n) /\ UNCHANGED faults
     \/ Fault
  /\ GoTo(r, "release")
  /\ UNCHANGED <<storeVars, slots>>

\* The handler's, or the run's deferred, done.
Release(r) ==
  /\ At(r, "release")
  /\ done(req[r].key)
  /\ Reply(r)
  /\ UNCHANGED <<storeVars, faults>>

-----------------------------------------------------------------------------
(* Deleting a thread: look at the slot, then remove the folder.  The slot   *)
(* is never taken.                                                          *)

deleteBlocked(t) == runningFor(ScopeOf[t], t)

DeleteCheck(r, t) ==
  /\ At(r, "idle")
  /\ t \in minted
  /\ ~deleteBlocked(t)
  /\ Begin(r, "deleting", ScopeOf[t], t, Blank)
  /\ UNCHANGED <<storeVars, slots, faults>>

DeleteFolder(r) ==
  /\ At(r, "deleting")
  /\ Delete(req[r].thr)
  /\ Reply(r)
  /\ UNCHANGED <<slots, faults>>

-----------------------------------------------------------------------------
(* The server dies and comes back: the folders stay, the tracker is new.    *)

Restart ==
  /\ Fault
  /\ slots' = [k \in Scope |-> Free]
  /\ req' = [r \in Request |-> IdleRequest]
  /\ UNCHANGED storeVars

-----------------------------------------------------------------------------
(* Thread status (httpapi/thread_status.go): running > awaiting > failed >   *)
(* ready.                                                                   *)

threadStatus(t) ==
  IF runningFor(ScopeOf[t], t) THEN "running"
  ELSE IF pendingApprovals(t) # {} THEN "awaiting"
  ELSE IF LastTurn(t) = "failed" THEN "failed"
  ELSE "ready"

-----------------------------------------------------------------------------
(* What the slot promises                                                   *)

\* The turns being worked on, as SerialChat sees them: a turn is open from its
\* reservation until its outcome is stored.
openTurns ==
  [k \in Scope |->
     {<<req[r].thr, req[r].n>> :
        r \in {q \in Request : req[q].key = k /\ req[q].pc \in {"reserved", "running"}}}]

Holder(r) == req[r].pc \in Holding

\* The slot of a scope is held exactly while one request of that scope is
\* between its take and its done, and no two requests ever are: the deferred
\* done of one run can never free the slot of another (runs.go).
SlotHasOneHolder ==
  /\ \A r, s \in Request :
       Holder(r) /\ Holder(s) /\ req[r].key = req[s].key => r = s
  /\ \A k \in Scope : Held(k) <=> \E r \in Request : Holder(r) /\ req[r].key = k

\* A run owns the turn it reserved: as long as the folder is there, that turn
\* is still the last one, still a bare placeholder, and the slot names its
\* thread, so a follow-up, a retry or an answer cannot slip under it and the
\* row of the thread shows as running (executeButlerTurn, runCodemapTurn).
RunOwnsItsTurn ==
  \A r \in Request : At(r, "running") =>
    /\ slots[req[r].key] = req[r].thr
    /\ Exists(req[r].thr) =>
         /\ req[r].n = Len(turns[req[r].thr])
         /\ LastTurn(req[r].thr) = "reserved"

\* An answer the user has been given stays: no step of any request takes an
\* answered turn back while its thread exists ("retry only failed turns").
AnswersSurvive ==
  [][\A t \in Thread : turns'[t] # <<>> =>
       \A i \in 1..Len(turns[t]) :
         turns[t][i] = "answered" => turns'[t][i] = "answered"]_turns

\* A delete that has passed its check is not aimed at the thread of a run: the
\* reserved thread "cannot be" the target of a delete that saw an unnamed slot
\* (deleteBlocked, turns.go).
DeleteSparesTheRun ==
  \A r, s \in Request :
    At(r, "deleting") /\ req[s].pc \in {"reserved", "running"}
      => req[r].thr # req[s].thr
=============================================================================
