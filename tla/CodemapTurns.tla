------------------------------ MODULE CodemapTurns ------------------------------
(***************************************************************************)
(* CodeMap chats (httpapi/codemap.go, codemap_threads.go): one slot and one *)
(* folder of chats per project.  Unlike Butler's, a retry here takes the    *)
(* slot before it looks at the thread, and a slot names an existing thread  *)
(* from the moment it is taken.  There are no approvals: Card is empty.     *)
(* Projects can be deleted, chats and all, while a run is in flight.        *)
(***************************************************************************)
EXTENDS TurnRequests

TypeOK == RequestsTypeOK

Init == RequestsInit

-----------------------------------------------------------------------------
(* POST /projects/{id}/codemap: a new thread or a follow-up                  *)

\* The slot is taken before the thread is parsed, as Butler does.
TurnUnderBlank(r, k, t) == TakeForTurn(r, k, t, Blank)

Turn(r, k, t) == TakeForTurn(r, k, t, t)

Reserve(r) ==
  \/ ReserveNew(r)
  \/ ReserveNext(r, "running")
  \/ ReserveRefused(r)
  \/ ReserveFails(r)

\* Only a new thread, whose id was not known at take, repoints the slot.
PointSlot(r) == Repoint(r)

Complete(r) == Settle(r) \/ SettleFails(r)

Done(r) == Release(r)

-----------------------------------------------------------------------------
(* POST .../codemap/threads/{tid}/retry: take, then check, then rewrite      *)

\* A failed turn, or a bare placeholder a crash left behind.
RetryAccepts(t) == Exists(t) /\ LastTurn(t) # "answered"

RetryTake(r, t) ==
  LET k == ScopeOf[t]
  IN /\ At(r, "idle")
     /\ t \in minted
     /\ take(k, t)
     /\ Begin(r, "retaken", k, t, Blank)
     /\ UNCHANGED <<storeVars, faults>>

\* The turn is rewritten whatever it holds.
RetryCheckOnlyExists(r) ==
  /\ At(r, "retaken")
  /\ GoTo(r, IF Exists(req[r].thr) THEN "rechecked" ELSE "release")
  /\ UNCHANGED <<storeVars, slots, faults>>

\* The refusal returns without giving the slot back.
RetryRefusalKeepsSlot(r) ==
  /\ At(r, "retaken")
  /\ IF RetryAccepts(req[r].thr) THEN GoTo(r, "rechecked") ELSE Reply(r)
  /\ UNCHANGED <<storeVars, slots, faults>>

RetryCheck(r) ==
  /\ At(r, "retaken")
  /\ GoTo(r, IF RetryAccepts(req[r].thr) THEN "rechecked" ELSE "release")
  /\ UNCHANGED <<storeVars, slots, faults>>

RetryRewrite(r) ==
  /\ At(r, "rechecked")
  /\ Rewrite(r, "running") \/ RewriteFails(r)

-----------------------------------------------------------------------------
(* Deletes: of one chat, of a project with its chats, of everything          *)

ThreadDelete(r, t) == DeleteCheck(r, t)

ThreadRemove(r) == DeleteFolder(r)

\* project.Service.Delete drops the scope whether or not a run is in flight.
ProjectDelete(k) ==
  /\ \E t \in minted : ScopeOf[t] = k
  /\ DeleteScope(k)
  /\ UNCHANGED <<slots, req, faults>>

Wipe ==
  /\ minted # {}
  /\ Purge
  /\ UNCHANGED <<slots, req, faults>>

Crash == Restart

-----------------------------------------------------------------------------

\* The steps of a request the server has accepted.
Advance(r) ==
  \/ Reserve(r)
  \/ PointSlot(r)
  \/ Complete(r)
  \/ Done(r)
  \/ RetryCheck(r)
  \/ RetryRewrite(r)
  \/ ThreadRemove(r)

\* What the clients may send.
Client(r) ==
  \/ \E k \in Scope, t \in Thread \cup {Blank} : Turn(r, k, t)
  \/ \E t \in Thread : RetryTake(r, t)
  \/ \E t \in Thread : ThreadDelete(r, t)

Next ==
  \/ \E r \in Request : Client(r) \/ Advance(r)
  \/ \E k \in Scope : ProjectDelete(k)
  \/ Wipe
  \/ Crash

Spec == Init /\ [][Next]_requestVars

\* Goroutines are scheduled, and a run ends: its context has a 10 minute limit.
FairSpec == Spec /\ \A r \in Request : WF_requestVars(Advance(r))

-----------------------------------------------------------------------------
(* What CodeMap promises                                                    *)

\* Each project is a serial chat whose answered turns are final: only a turn
\* without an answer is ever reopened ("retry only failed turns").
Serial == INSTANCE SerialChat
            WITH open <- openTurns, Reopenable <- TurnState \ {"answered"}

RefinesSerialChat == Serial!Spec

\* A thread with a run in flight shows as running from the moment the slot is
\* taken for it, so its row cannot be deleted by a request that looks later.
BusyThreadIsBlocked ==
  \A r \in Request :
    Holder(r) /\ ~At(r, "release") /\ req[r].thr # Blank /\ ~At(r, "reserved")
      => deleteBlocked(req[r].thr)

\* A held slot is given back: a project's CodeMap is never busy for good.
SlotComesFree == \A k \in Scope : Held(k) ~> ~Held(k)
=============================================================================
