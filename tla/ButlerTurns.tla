------------------------------ MODULE ButlerTurns ------------------------------
(***************************************************************************)
(* Butler (httpapi/butler.go, butler_confirms.go): one assistant for the   *)
(* whole instance, hence one scope and one slot.  Its write tools never     *)
(* write: they propose an approval on the thread, and the user applies or  *)
(* discards it.  Applying holds the slot, discarding and deleting do not,   *)
(* and a retry looks at the thread before it takes the slot.               *)
(***************************************************************************)
EXTENDS TurnRequests

ASSUME ButlerAssumption == Scope = {Blank}

butlerRunKey == Blank

VARIABLE executed  \* [Card -> Nat]: how often the write of a card has run

vars == <<turns, minted, cards, slots, req, faults, executed>>

TypeOK == RequestsTypeOK /\ executed \in [Card -> Nat]

Init == RequestsInit /\ executed = [c \in Card |-> 0]

-----------------------------------------------------------------------------
(* POST /butler: a new thread or a follow-up                                *)

Turn(r, t) == TakeForTurn(r, butlerRunKey, t, Blank) /\ UNCHANGED executed

Reserve(r) ==
  /\ \/ ReserveNew(r)
     \/ ReserveNext(r, "reserved")
     \/ ReserveRefused(r)
     \/ ReserveFails(r)
  /\ UNCHANGED executed

PointSlot(r) == Repoint(r) /\ UNCHANGED executed

\* A write tool of the run stores its approval under the turn of the run; a
\* folder that is gone makes the tool fail, and the model is told so.
Propose(r, c) ==
  /\ At(r, "running")
  /\ AddApproval(req[r].thr, req[r].n, c)
  /\ UNCHANGED <<slots, req, faults, executed>>

Complete(r) == (Settle(r) \/ SettleFails(r)) /\ UNCHANGED executed

Done(r) == Release(r) /\ UNCHANGED executed

-----------------------------------------------------------------------------
(* POST /butler/threads/{tid}/retry: check, then take, then rewrite          *)

RetryAccepts(t) ==
  /\ Exists(t)
  /\ LastTurn(t) = "failed"
  /\ pendingApprovals(t) = {}

RetryCheck(r, t) ==
  /\ At(r, "idle")
  /\ RetryAccepts(t)
  /\ Begin(r, "checked", butlerRunKey, t, Blank)
  /\ UNCHANGED <<storeVars, slots, faults, executed>>

RetryTake(r) ==
  /\ At(r, "checked")
  /\ \/ take(req[r].key, Blank) /\ GoTo(r, "retaken")
     \/ Held(req[r].key) /\ Reply(r) /\ UNCHANGED slots
  /\ UNCHANGED <<storeVars, faults, executed>>

RetryRewrite(r) ==
  /\ At(r, "retaken")
  /\ Rewrite(r, "reserved") \/ RewriteFails(r)
  /\ UNCHANGED executed

-----------------------------------------------------------------------------
(* POST /butler/confirm/{id}/apply: the slot is held until the reply         *)

Apply(r, c) ==
  /\ At(r, "idle")
  /\ cards[c].status # "unminted"
  /\ take(butlerRunKey, Blank)
  /\ Begin(r, "applying", butlerRunKey, Blank, c)
  /\ UNCHANGED <<storeVars, faults, executed>>

\* The card is read once; what it says then decides whether the write runs.
ApplyFind(r) ==
  LET c == req[r].card
      next == IF Resolvable(c) THEN "found" ELSE "foundResolved"
  IN /\ At(r, "applying")
     /\ \/ /\ FindApproval(c)
           /\ req' = [req EXCEPT ![r].pc = next, ![r].thr = cards[c].thread]
        \/ ~FindApproval(c) /\ GoTo(r, "release")
     /\ UNCHANGED <<storeVars, slots, faults, executed>>

\* The status the card was found with is not looked at.
ApplyPointIgnoresStatus(r) ==
  /\ req[r].pc \in {"found", "foundResolved"}
  /\ set(req[r].key, req[r].thr)
  /\ GoTo(r, "executing")
  /\ UNCHANGED <<storeVars, faults, executed>>

ApplyPoint(r) ==
  /\ req[r].pc \in {"found", "foundResolved"}
  /\ set(req[r].key, req[r].thr)
  /\ GoTo(r, IF At(r, "found") THEN "executing" ELSE "release")
  /\ UNCHANGED <<storeVars, faults, executed>>

\* The write itself.  An error (502) leaves the card pending.
ApplyExec(r) ==
  /\ At(r, "executing")
  /\ \/ /\ GoTo(r, "resolving")
        /\ executed' = [executed EXCEPT ![req[r].card] = @ + 1]
     \/ GoTo(r, "release") /\ UNCHANGED executed
  /\ UNCHANGED <<storeVars, slots, faults>>

\* The card is marked approved, unless it was resolved or deleted meanwhile,
\* or approvals.json cannot be written: the reply is then a 409.
ApplyResolve(r) ==
  LET c == req[r].card
  IN /\ At(r, "resolving")
     /\ \/ ResolveApproval(c, "approved") /\ UNCHANGED faults
        \/ /\ \/ ~Resolvable(c) /\ UNCHANGED faults
              \/ Fault
           /\ UNCHANGED storeVars
     /\ GoTo(r, "release")
     /\ UNCHANGED <<slots, executed>>

-----------------------------------------------------------------------------
(* POST /butler/confirm/{id}/discard: no slot; look at the card, resolve it  *)

DiscardFind(r, c) ==
  /\ At(r, "idle")
  /\ Resolvable(c)
  /\ Begin(r, "discarding", butlerRunKey, cards[c].thread, c)
  /\ UNCHANGED <<storeVars, slots, faults, executed>>

DiscardResolve(r) ==
  LET c == req[r].card
  IN /\ At(r, "discarding")
     /\ \/ ResolveApproval(c, "discarded") /\ UNCHANGED faults
        \/ /\ \/ ~Resolvable(c) /\ UNCHANGED faults
              \/ Fault
           /\ UNCHANGED storeVars
     /\ Reply(r)
     /\ UNCHANGED <<slots, executed>>

-----------------------------------------------------------------------------
(* Deletes, the settings wipe, and the death of the process                 *)

ThreadDelete(r, t) == DeleteCheck(r, t) /\ UNCHANGED executed

ThreadRemove(r) == DeleteFolder(r) /\ UNCHANGED executed

Wipe ==
  /\ minted # {}
  /\ Purge
  /\ UNCHANGED <<slots, req, faults, executed>>

Crash == Restart /\ UNCHANGED executed

-----------------------------------------------------------------------------

\* The steps of a request the server has accepted.
Advance(r) ==
  \/ Reserve(r)
  \/ PointSlot(r)
  \/ \E c \in Card : Propose(r, c)
  \/ Complete(r)
  \/ Done(r)
  \/ RetryTake(r)
  \/ RetryRewrite(r)
  \/ ApplyFind(r)
  \/ ApplyPoint(r)
  \/ ApplyExec(r)
  \/ ApplyResolve(r)
  \/ DiscardResolve(r)
  \/ ThreadRemove(r)

\* What the clients may send.
Client(r) ==
  \/ \E t \in Thread \cup {Blank} : Turn(r, t)
  \/ \E t \in Thread : RetryCheck(r, t)
  \/ \E c \in Card : Apply(r, c)
  \/ \E c \in Card : DiscardFind(r, c)
  \/ \E t \in Thread : ThreadDelete(r, t)

Next ==
  \/ \E r \in Request : Client(r) \/ Advance(r)
  \/ Wipe
  \/ Crash

Spec == Init /\ [][Next]_vars

\* Goroutines are scheduled, and no step of one waits for another: a model
\* call ends within stepTimeout, a run within its MaxSteps rounds.
FairSpec == Spec /\ \A r \in Request : WF_vars(Advance(r))

-----------------------------------------------------------------------------
(* What Butler promises                                                     *)

\* Butler is a serial chat: turns open one at a time in the whole instance, and
\* each outcome lands on the turn it was produced for, whatever requests race
\* and whenever the server dies.  Its retry may reopen any last turn.
Serial == INSTANCE SerialChat WITH open <- openTurns, Reopenable <- TurnState

RefinesSerialChat == Serial!Spec

\* A card is shown under the newest turn of its thread for as long as it waits
\* for the user: a thread with a pending card takes no follow-up, so no turn
\* can bury it (ErrPendingApproval, threads.go).
PendingCardOnLastTurn ==
  \A c \in Card : cards[c].status = "pending" =>
    /\ Exists(cards[c].thread)
    /\ cards[c].turn = Len(turns[cards[c].thread])

\* "Hold the same slot as turns for the entire apply" (butler_confirms.go): the
\* write of a card runs at most once, and once more per crash or failed write
\* of approvals.json that hit between the write and its bookkeeping.  A card
\* that reads approved did run.
ExecutedAtMostOnce ==
  \A c \in Card :
    /\ executed[c] <= 1 + faults
    /\ cards[c].status = "approved" => executed[c] >= 1

\* "dropping a proposal is always safe": a card that reads discarded never ran.
DiscardedNeverRan ==
  \A c \in Card : cards[c].status = "discarded" => executed[c] = 0

\* "failures persist as retryable turns": when nobody holds the slot, a thread
\* whose last turn has no answer can be retried, unless a card awaits the user.
UnansweredIsRetryable ==
  \A t \in Thread :
    Exists(t) /\ ~Held(ScopeOf[t]) /\ LastTurn(t) # "answered"
      => RetryAccepts(t) \/ threadStatus(t) = "awaiting"

\* A held slot is given back: Butler is never busy for good.
SlotComesFree == \A k \in Scope : Held(k) ~> ~Held(k)
=============================================================================
