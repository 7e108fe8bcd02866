----------------------------- MODULE CodemapProofs -----------------------------
(***************************************************************************)
(* CodeMap's invariants, for any number of projects, threads and requests.  *)
(* On top of the shared invariant: the slot names its thread from the take  *)
(* on, and a retry that has passed its check still may rewrite.            *)
(***************************************************************************)
EXTENDS CodemapTurns, TurnRequestsProofs

-----------------------------------------------------------------------------
(* The inductive invariant                                                 *)

\* CodeMap has no approvals, hence no request that applies one.
OnlyTurnsAndRetries ==
  \A r \in Request :
    req[r].pc \in {"idle", "taken", "reserved", "running", "release", "retaken", "rechecked", "deleting"}

\* The slot is taken in the name of the thread, once there is one.
SlotNamesThread ==
  \A r \in Request :
    req[r].pc \in {"taken", "retaken", "rechecked"} /\ req[r].thr # Blank
      => slots[req[r].key] = req[r].thr

\* What the retry saw under the slot cannot have changed.
RetryStillAccepted ==
  \A r \in Request : At(r, "rechecked") /\ Exists(req[r].thr) => LastTurn(req[r].thr) # "answered"

CodemapInv == SharedInv /\ OnlyTurnsAndRetries /\ SlotNamesThread /\ RetryStillAccepted

-----------------------------------------------------------------------------
(* The shared part                                                         *)

LEMMA CodemapShared ==
  ASSUME CodemapInv, Next
  PROVE  SharedInv'
<1> USE DEF CodemapInv
<1>1. CASE Wipe
  BY <1>1, RemoveKeeps DEF Wipe, Purge
<1>2. CASE Crash
  BY <1>2, RestartKeeps DEF Crash
<1>3. ASSUME NEW k \in Scope, ProjectDelete(k) PROVE SharedInv'
  BY <1>3, RemoveKeeps DEF ProjectDelete, DeleteScope
<1>4. ASSUME NEW r \in Request, NEW k \in Scope, NEW t \in Thread \cup {Blank}, Turn(r, k, t)
      PROVE  SharedInv'
  BY <1>4, TakeForTurnKeeps DEF Turn
<1>5. ASSUME NEW r \in Request, NEW t \in Thread, RetryTake(r, t) PROVE SharedInv'
  <2> DEFINE x == [pc |-> "retaken", key |-> ScopeOf[t], thr |-> t, n |-> 0, card |-> Blank]
  <2>1. x \in RequestState /\ ScopeOf[t] \in Scope
    BY IdAssumption DEF RequestState, PC, Holding
  <2>2. /\ ~Holder(r) /\ take(ScopeOf[t], t) /\ req' = [req EXCEPT ![r] = x]
        /\ UNCHANGED <<storeVars, faults>>
    BY <1>5 DEF RetryTake, Begin, At, Holder, Holding
  <2> QED
    BY <2>1, <2>2, TakeKeeps
<1>6. ASSUME NEW r \in Request, NEW t \in Thread, ThreadDelete(r, t) PROVE SharedInv'
  BY <1>6, DeleteCheckKeeps DEF ThreadDelete
<1>7. ASSUME NEW r \in Request, Holder(r), GoTo(r, "release"), UNCHANGED <<storeVars, slots>>,
             Fault \/ UNCHANGED faults
      PROVE  SharedInv'
  <2>1. cards' \in [Card -> CardState] /\ faults' \in 0..MaxFaults /\ UNCHANGED <<turns, minted, slots>>
    BY <1>7, FaultBound DEF SharedInv, RequestsTypeOK, StoreTypeOK, storeVars
  <2> QED
    BY <1>7, <2>1, GiveUpKeeps
<1>8. ASSUME NEW r \in Request, Reserve(r) PROVE SharedInv'
  <2>1. CASE ReserveNew(r)
    BY <2>1, ReserveNewKeeps
  <2>2. CASE ReserveNext(r, "running")
    <3>1. slots[req[r].key] = req[r].thr
      BY <2>2 DEF ReserveNext, At, SlotNamesThread
    <3> QED
      BY <2>2, <3>1, ReserveNextKeeps
  <2>3. CASE ReserveRefused(r) \/ ReserveFails(r)
    BY <1>7, <2>3 DEF ReserveRefused, ReserveFails, Holder, Holding, At
  <2> QED
    BY <1>8, <2>1, <2>2, <2>3 DEF Reserve
<1>9. ASSUME NEW r \in Request, PointSlot(r) PROVE SharedInv'
  BY <1>9, RepointKeeps DEF PointSlot
<1>10. ASSUME NEW r \in Request, Complete(r) PROVE SharedInv'
  <2>1. CASE Settle(r)
    BY <2>1, SettleKeeps
  <2>2. CASE SettleFails(r)
    BY <1>7, <2>2 DEF SettleFails, Holder, Holding, At
  <2> QED
    BY <1>10, <2>1, <2>2 DEF Complete
<1>11. ASSUME NEW r \in Request, Done(r) PROVE SharedInv'
  BY <1>11, ReleaseKeeps DEF Done
<1>12. ASSUME NEW r \in Request, RetryCheck(r) PROVE SharedInv'
  <2>1. Holder(r) /\ req[r] \in RequestState /\ UNCHANGED <<turns, minted, slots, cards, faults>>
    BY <1>12 DEF RetryCheck, At, Holder, Holding, storeVars, SharedInv, RequestsTypeOK
  <2>2. CASE GoTo(r, "release")
    BY <1>7, <1>12, <2>1, <2>2 DEF RetryCheck
  <2>3. CASE GoTo(r, "rechecked")
    <3> DEFINE x == [req[r] EXCEPT !.pc = "rechecked"]
    <3>1. /\ req' = [req EXCEPT ![r] = x] /\ x \in RequestState
          /\ x.pc = "rechecked" /\ x.key = req[r].key /\ x.thr = req[r].thr
      BY <2>1, <2>3 DEF GoTo, RequestState, PC, Holding
    <3>2. x.thr \in Thread /\ x.key \in Scope /\ ScopeOf[x.thr] = x.key
      BY <1>12, <3>1 DEF RetryCheck, At, SharedInv, Targets
    <3>3. cards' \in [Card -> CardState] /\ faults' \in 0..MaxFaults
      BY <2>1 DEF SharedInv, RequestsTypeOK, StoreTypeOK
    <3> HIDE DEF x
    <3>4. req'[r] = x
      BY <3>1 DEF SharedInv, RequestsTypeOK
    <3>5. Holder(r)'
      BY <3>1, <3>4 DEF Holder, Holding
    <3> QED
      BY <2>1, <3>1, <3>2, <3>3, <3>5, WalkKeeps
  <2> QED
    BY <1>12, <2>2, <2>3 DEF RetryCheck
<1>13. ASSUME NEW r \in Request, RetryRewrite(r) PROVE SharedInv'
  <2>1. CASE Rewrite(r, "running")
    <3>1. slots[req[r].key] = req[r].thr
      BY <1>13, IdAssumption DEF RetryRewrite, At, SlotNamesThread, SharedInv, Targets
    <3> QED
      BY <1>13, <2>1, <3>1, RewriteKeeps DEF RetryRewrite, At
  <2>2. CASE RewriteFails(r)
    BY <1>7, <1>13, <2>2 DEF RetryRewrite, RewriteFails, Holder, Holding, At
  <2> QED
    BY <1>13, <2>1, <2>2 DEF RetryRewrite
<1>14. ASSUME NEW r \in Request, ThreadRemove(r) PROVE SharedInv'
  BY <1>14, RemoveKeeps DEF ThreadRemove, DeleteFolder, Delete
<1> QED
  BY <1>1, <1>2, <1>3, <1>4, <1>5, <1>6, <1>8, <1>9, <1>10, <1>11, <1>12, <1>13, <1>14
     DEF Next, Client, Advance

-----------------------------------------------------------------------------
(* The slot and the retry                                                  *)

\* A step of r that leaves the other requests and the slots they hold alone.
LEMMA NamesFrame ==
  ASSUME SharedInv, SlotNamesThread, NEW r \in Request, NEW k \in Scope,
         \A q \in Request : q # r => req'[q] = req[q],
         \A j \in Scope : j # k => slots'[j] = slots[j],
         UNCHANGED slots \/ \A q \in Request : q # r /\ Holder(q) => req[q].key # k,
         req'[r].pc \in {"taken", "retaken", "rechecked"} /\ req'[r].thr # Blank
           => slots'[req'[r].key] = req'[r].thr
  PROVE  SlotNamesThread'
<1>1. \A q \in Request : q # r /\ req[q].pc \in {"taken", "retaken", "rechecked"} =>
        req[q].key \in Scope /\ (UNCHANGED slots \/ req[q].key # k)
  BY DEF SharedInv, Targets, At, Holder, Holding
<1> QED
  BY <1>1 DEF SlotNamesThread

\* Writing one thread of its own scope, a holder disturbs nobody's retry.
LEMMA RetriesFrame ==
  ASSUME SharedInv, RetryStillAccepted, NEW r \in Request, NEW t \in Thread,
         Holder(r), ScopeOf[t] = req[r].key,
         \A q \in Request : q # r => req'[q] = req[q],
         req'[r].pc # "rechecked",
         \A u \in Thread : u # t => turns'[u] = turns[u]
  PROVE  RetryStillAccepted'
<1>1. \A q \in Request : q # r /\ At(q, "rechecked") => req[q].thr \in Thread /\ req[q].thr # t
  BY DEF SharedInv, SlotHasOneHolder, Holder, Holding, At, Targets
<1> QED
  BY <1>1 DEF RetryStillAccepted, At, Exists, LastTurn

\* Where no turn changes, a retry that was accepted stays accepted.
LEMMA RetriesStay ==
  ASSUME SharedInv, RetryStillAccepted,
         \A t \in Thread : turns'[t] = turns[t] \/ turns'[t] = <<>>,
         \A q \in Request : req'[q].pc = "rechecked" =>
           /\ req'[q].thr = req[q].thr /\ req[q].thr \in Thread
           /\ At(q, "rechecked") \/ LastTurn(req[q].thr) # "answered"
  PROVE  RetryStillAccepted'
BY DEF RetryStillAccepted, At, Exists, LastTurn

LEMMA CodemapOwn ==
  ASSUME CodemapInv, Next
  PROVE  OnlyTurnsAndRetries' /\ SlotNamesThread' /\ RetryStillAccepted'
<1> USE DEF CodemapInv
<1>0. /\ req \in [Request -> RequestState] /\ slots \in [Scope -> Thread \cup {Blank, Free}]
      /\ StoreTypeOK /\ IdleRequest.pc = "idle"
      /\ \A q \in Request : At(q, "rechecked") => req[q].thr \in Thread
  BY DEF SharedInv, RequestsTypeOK, TrackerTypeOK, IdleRequest, Targets, At
<1>1. CASE Wipe \/ \E k \in Scope : ProjectDelete(k)
  <2>1. /\ UNCHANGED <<req, slots>>
        /\ \A t \in Thread : turns'[t] = turns[t] \/ turns'[t] = <<>>
    BY <1>1 DEF Wipe, Purge, ProjectDelete, DeleteScope, RemoveFolders
  <2>2. RetryStillAccepted'
    BY <1>0, <2>1, RetriesStay DEF At
  <2> QED
    BY <2>1, <2>2 DEF OnlyTurnsAndRetries, SlotNamesThread
<1>2. CASE Crash
  <2>1. \A q \in Request : req'[q].pc = "idle"
    BY <1>0, <1>2 DEF Crash, Restart
  <2> QED
    BY <2>1 DEF OnlyTurnsAndRetries, SlotNamesThread, RetryStillAccepted, At
<1>3. ASSUME NEW r \in Request, NEW k \in Scope, NEW name \in Thread \cup {Blank}, take(k, name),
             \A q \in Request : q # r => req'[q] = req[q], UNCHANGED turns,
             req'[r].pc \in {"taken", "retaken"}, req'[r].key = k,
             req'[r].thr # Blank => req'[r].thr = name
      PROVE  OnlyTurnsAndRetries' /\ SlotNamesThread' /\ RetryStillAccepted'
  <2>1. slots' = [slots EXCEPT ![k] = name] /\ ~Held(k)
    BY <1>3 DEF take
  <2>2. /\ \A j \in Scope : j # k => slots'[j] = slots[j]
        /\ slots'[k] = name
        /\ \A q \in Request : q # r /\ Holder(q) => req[q].key # k
    BY <1>0, <2>1 DEF SharedInv, SlotHasOneHolder
  <2>3. SlotNamesThread'
    BY <1>3, <2>2, NamesFrame
  <2>4. RetryStillAccepted'
    BY <1>0, <1>3, RetriesStay DEF At
  <2> QED
    BY <1>3, <2>3, <2>4 DEF OnlyTurnsAndRetries
<1>4. ASSUME NEW r \in Request, NEW k \in Scope, NEW t \in Thread \cup {Blank}, Turn(r, k, t)
      PROVE  OnlyTurnsAndRetries' /\ SlotNamesThread' /\ RetryStillAccepted'
  <2>1. /\ take(k, t) /\ \A q \in Request : q # r => req'[q] = req[q]
        /\ UNCHANGED turns
        /\ req'[r].pc = "taken" /\ req'[r].key = k /\ req'[r].thr = t
    BY <1>0, <1>4 DEF Turn, TakeForTurn, Begin, storeVars
  <2> QED
    BY <1>3, <2>1
<1>5. ASSUME NEW r \in Request, NEW t \in Thread, RetryTake(r, t)
      PROVE  OnlyTurnsAndRetries' /\ SlotNamesThread' /\ RetryStillAccepted'
  <2>1. /\ take(ScopeOf[t], t) /\ \A q \in Request : q # r => req'[q] = req[q]
        /\ UNCHANGED turns /\ ScopeOf[t] \in Scope
        /\ req'[r].pc = "retaken" /\ req'[r].key = ScopeOf[t] /\ req'[r].thr = t
    BY <1>0, <1>5, IdAssumption DEF RetryTake, Begin, storeVars
  <2> QED
    BY <1>3, <2>1
<1>6. ASSUME NEW r \in Request, UNCHANGED <<turns, slots>>, Scope # {},
             \A q \in Request : q # r => req'[q] = req[q],
             req'[r].pc \in {"idle", "release", "deleting"}
      PROVE  OnlyTurnsAndRetries' /\ SlotNamesThread' /\ RetryStillAccepted'
  <2>1. SlotNamesThread'
    BY <1>6, NamesFrame
  <2>2. RetryStillAccepted'
    BY <1>0, <1>6, RetriesStay DEF At
  <2> QED
    BY <1>6, <2>1, <2>2 DEF OnlyTurnsAndRetries
<1>7. ASSUME NEW r \in Request, NEW t \in Thread, ThreadDelete(r, t)
      PROVE  OnlyTurnsAndRetries' /\ SlotNamesThread' /\ RetryStillAccepted'
  <2>1. /\ UNCHANGED <<turns, slots>> /\ Scope # {}
        /\ \A q \in Request : q # r => req'[q] = req[q]
        /\ req'[r].pc = "deleting"
    BY <1>0, <1>7, IdAssumption DEF ThreadDelete, DeleteCheck, Begin, storeVars
  <2> QED
    BY <1>6, <2>1
<1>8. ASSUME NEW r \in Request, ReserveRefused(r) \/ ReserveFails(r) \/ SettleFails(r) \/ RewriteFails(r),
             ~At(r, "idle")
      PROVE  OnlyTurnsAndRetries' /\ SlotNamesThread' /\ RetryStillAccepted'
  <2>1. /\ UNCHANGED <<turns, slots>> /\ GoTo(r, "release")
        /\ req[r].key \in Scope
    BY <1>8 DEF ReserveRefused, ReserveFails, SettleFails, RewriteFails, storeVars, SharedInv, Targets
  <2>2. /\ \A q \in Request : q # r => req'[q] = req[q]
        /\ req'[r].pc = "release"
    BY <1>0, <2>1 DEF GoTo, RequestState
  <2> QED
    BY <1>6, <2>1, <2>2
<1>9. ASSUME NEW r \in Request, NEW t \in Thread, Holder(r), ScopeOf[t] = req[r].key,
             \A q \in Request : q # r => req'[q] = req[q],
             req'[r].pc \in {"reserved", "running", "release"}, UNCHANGED slots,
             \A u \in Thread : u # t => turns'[u] = turns[u]
      PROVE  OnlyTurnsAndRetries' /\ SlotNamesThread' /\ RetryStillAccepted'
  <2>1. RetryStillAccepted'
    BY <1>9, RetriesFrame
  <2>2. ScopeOf[t] \in Scope
    BY IdAssumption
  <2>3. SlotNamesThread'
    BY <1>9, <2>2, NamesFrame
  <2> QED
    BY <1>9, <2>1, <2>3 DEF OnlyTurnsAndRetries
<1>10. ASSUME NEW r \in Request, Reserve(r)
       PROVE  OnlyTurnsAndRetries' /\ SlotNamesThread' /\ RetryStillAccepted'
  <2>1. Holder(r)
    BY <1>10 DEF Reserve, ReserveNew, ReserveNext, ReserveRefused, ReserveFails, At, Holder, Holding
  <2>2. CASE ReserveNew(r)
    <3>1. PICK t \in Thread : /\ ScopeOf[t] = req[r].key /\ ReserveNewThread(t)
                             /\ req' = [req EXCEPT ![r].pc = "reserved", ![r].thr = t, ![r].n = 1]
                             /\ UNCHANGED slots
      BY <2>2 DEF ReserveNew
    <3>2. /\ \A q \in Request : q # r => req'[q] = req[q]
          /\ req'[r].pc = "reserved"
          /\ \A u \in Thread : u # t => turns'[u] = turns[u]
      BY <1>0, <3>1 DEF ReserveNewThread, StoreTypeOK, RequestState
    <3> QED
      BY <1>9, <2>1, <3>1, <3>2
  <2>3. CASE ReserveNext(r, "running")
    <3>1. PICK t \in Thread : t = req[r].thr /\ ScopeOf[t] = req[r].key
      BY <1>0, <2>3 DEF ReserveNext, RequestState, SharedInv, Targets
    <3>2. /\ \A q \in Request : q # r => req'[q] = req[q]
          /\ req'[r].pc = "running" /\ UNCHANGED slots
          /\ \A u \in Thread : u # t => turns'[u] = turns[u]
      BY <1>0, <2>3, <3>1 DEF ReserveNext, ReserveFollowup, StoreTypeOK, RequestState
    <3> QED
      BY <1>9, <2>1, <3>1, <3>2
  <2>4. CASE ReserveRefused(r) \/ ReserveFails(r)
    BY <1>8, <2>4 DEF ReserveRefused, ReserveFails, At
  <2> QED
    BY <1>10, <2>2, <2>3, <2>4 DEF Reserve
<1>11. ASSUME NEW r \in Request, PointSlot(r) \/ Done(r)
       PROVE  OnlyTurnsAndRetries' /\ SlotNamesThread' /\ RetryStillAccepted'
  <2>1. PICK k \in Scope : k = req[r].key
    BY <1>11 DEF PointSlot, Repoint, Done, Release, SharedInv, Targets, At
  <2>2. /\ \A q \in Request : q # r => req'[q] = req[q]
        /\ req'[r].pc \in {"running", "idle"}
        /\ UNCHANGED turns
        /\ \A j \in Scope : j # k => slots'[j] = slots[j]
    BY <1>0, <1>11, <2>1 DEF PointSlot, Repoint, set, Done, Release, done, GoTo, Reply, storeVars, RequestState
  <2>3. \A q \in Request : q # r /\ Holder(q) => req[q].key # k
    BY <1>11, <2>1 DEF PointSlot, Repoint, Done, Release, SharedInv, SlotHasOneHolder, Holder, Holding, At
  <2>4. SlotNamesThread'
    BY <2>2, <2>3, NamesFrame
  <2>5. RetryStillAccepted'
    BY <1>0, <2>2, RetriesStay DEF At
  <2> QED
    BY <2>2, <2>4, <2>5 DEF OnlyTurnsAndRetries
<1>12. ASSUME NEW r \in Request, Complete(r)
       PROVE  OnlyTurnsAndRetries' /\ SlotNamesThread' /\ RetryStillAccepted'
  <2>1. CASE Settle(r)
    <3>1. PICK t \in Thread : t = req[r].thr /\ ScopeOf[t] = req[r].key
      BY <2>1 DEF Settle, At, SharedInv, Targets
    <3>2. /\ \A q \in Request : q # r => req'[q] = req[q]
          /\ req'[r].pc = "release" /\ UNCHANGED slots /\ Holder(r)
          /\ \A u \in Thread : u # t => turns'[u] = turns[u]
      BY <1>0, <2>1, <3>1 DEF Settle, CompleteTurn, GoTo, At, Holder, Holding, StoreTypeOK, RequestState
    <3> QED
      BY <1>9, <3>1, <3>2
  <2>2. CASE SettleFails(r)
    BY <1>8, <2>2 DEF SettleFails, At
  <2> QED
    BY <1>12, <2>1, <2>2 DEF Complete
<1>13. ASSUME NEW r \in Request, RetryCheck(r)
       PROVE  OnlyTurnsAndRetries' /\ SlotNamesThread' /\ RetryStillAccepted'
  <2>1. /\ At(r, "retaken") /\ req[r].thr \in Thread /\ UNCHANGED <<turns, slots>>
        /\ GoTo(r, IF RetryAccepts(req[r].thr) THEN "rechecked" ELSE "release")
    BY <1>13 DEF RetryCheck, At, SharedInv, Targets, storeVars
  <2>2. /\ \A q \in Request : q # r => req'[q] = req[q]
        /\ req'[r].pc = IF RetryAccepts(req[r].thr) THEN "rechecked" ELSE "release"
        /\ req'[r].key = req[r].key /\ req'[r].thr = req[r].thr
    BY <1>0, <2>1 DEF GoTo, RequestState
  <2>3. req[r].key \in Scope /\ slots[req[r].key] = req[r].thr
    BY <2>1, IdAssumption DEF At, SharedInv, Targets, SlotNamesThread
  <2>4. SlotNamesThread'
    BY <2>1, <2>2, <2>3, NamesFrame
  <2>5. RetryStillAccepted'
    BY <1>0, <2>1, <2>2, RetriesStay DEF At, RetryAccepts
  <2> QED
    BY <2>2, <2>4, <2>5 DEF OnlyTurnsAndRetries
<1>14. ASSUME NEW r \in Request, RetryRewrite(r)
       PROVE  OnlyTurnsAndRetries' /\ SlotNamesThread' /\ RetryStillAccepted'
  <2>1. CASE Rewrite(r, "running")
    <3>1. PICK t \in Thread : t = req[r].thr /\ ScopeOf[t] = req[r].key
      BY <1>14 DEF RetryRewrite, At, SharedInv, Targets
    <3>2. /\ \A q \in Request : q # r => req'[q] = req[q]
          /\ req'[r].pc = "running" /\ UNCHANGED slots /\ Holder(r)
          /\ \A u \in Thread : u # t => turns'[u] = turns[u]
      BY <1>0, <1>14, <2>1, <3>1
         DEF RetryRewrite, Rewrite, BeginRetry, At, Holder, Holding, StoreTypeOK, RequestState
    <3> QED
      BY <1>9, <3>1, <3>2
  <2>2. CASE RewriteFails(r)
    BY <1>8, <1>14, <2>2 DEF RetryRewrite, At
  <2> QED
    BY <1>14, <2>1, <2>2 DEF RetryRewrite
<1>15. ASSUME NEW r \in Request, ThreadRemove(r)
       PROVE  OnlyTurnsAndRetries' /\ SlotNamesThread' /\ RetryStillAccepted'
  <2>1. /\ \A q \in Request : q # r => req'[q] = req[q]
        /\ req'[r].pc = "idle" /\ UNCHANGED slots
        /\ \A t \in Thread : turns'[t] = turns[t] \/ turns'[t] = <<>>
    BY <1>0, <1>15 DEF ThreadRemove, DeleteFolder, Delete, RemoveFolders, Reply
  <2>2. SlotNamesThread'
    BY <2>1 DEF SlotNamesThread
  <2>3. RetryStillAccepted'
    BY <1>0, <2>1, RetriesStay DEF At
  <2> QED
    BY <2>1, <2>2, <2>3 DEF OnlyTurnsAndRetries
<1> QED
  BY <1>1, <1>2, <1>4, <1>5, <1>7, <1>10, <1>11, <1>12, <1>13, <1>14, <1>15
     DEF Next, Client, Advance

-----------------------------------------------------------------------------
(* The invariant, and what it gives                                        *)

\* CodeMap starts in the invariant.
LEMMA CodemapInit ==
  ASSUME Init
  PROVE  CodemapInv
<1>1. SharedInv /\ \A r \in Request : req[r].pc = "idle"
  BY SharedInit DEF Init, RequestsInit, IdleRequest
<1> QED
  BY <1>1 DEF CodemapInv, OnlyTurnsAndRetries, SlotNamesThread, RetryStillAccepted, At

\* No step leaves it.
LEMMA CodemapStep ==
  ASSUME CodemapInv, [Next]_requestVars
  PROVE  CodemapInv'
<1>1. CASE Next
  BY <1>1, CodemapShared, CodemapOwn DEF CodemapInv
<1>2. CASE UNCHANGED requestVars
  BY <1>2, SharedStutter
     DEF requestVars, CodemapInv, OnlyTurnsAndRetries, SlotNamesThread, RetryStillAccepted,
         At, Exists, LastTurn
<1> QED
  BY <1>1, <1>2

\* The inductive invariant of the CodeMap handlers.
THEOREM CodemapInvariant == Spec => []CodemapInv
BY CodemapInit, CodemapStep, PTL DEF Spec

\* Every variable keeps its type, in every project.
THEOREM CodemapTypeOK == Spec => []TypeOK
<1>1. CodemapInv => TypeOK
  BY DEF CodemapInv, SharedInv, TypeOK
<1> QED
  BY <1>1, CodemapInvariant, PTL

\* One slot per project, one holder per slot.
THEOREM CodemapSlotHasOneHolder == Spec => []SlotHasOneHolder
<1>1. CodemapInv => SlotHasOneHolder
  BY DEF CodemapInv, SharedInv
<1> QED
  BY <1>1, CodemapInvariant, PTL

\* A running turn is the last of its thread, bare, and named by the slot.
THEOREM CodemapRunOwnsItsTurn == Spec => []RunOwnsItsTurn
<1>1. CodemapInv => RunOwnsItsTurn
  BY SharedImplies DEF CodemapInv
<1> QED
  BY <1>1, CodemapInvariant, PTL

\* From the take of its slot to its outcome, a run on a known thread keeps a
\* delete of that thread from passing its check (deleteBlocked).
THEOREM CodemapBusyThreadIsBlocked == Spec => []BusyThreadIsBlocked
<1>1. CodemapInv => BusyThreadIsBlocked
  <2> SUFFICES ASSUME CodemapInv, NEW r \in Request, Holder(r), ~At(r, "release"),
                      req[r].thr # Blank, ~At(r, "reserved")
               PROVE  slots[ScopeOf[req[r].thr]] = req[r].thr
    BY DEF BusyThreadIsBlocked, deleteBlocked, runningFor
  <2>1. req[r].thr \in Thread /\ ScopeOf[req[r].thr] = req[r].key
    BY DEF CodemapInv, SharedInv, RequestsTypeOK, RequestState, Targets
  <2>2. slots[req[r].key] = req[r].thr
    BY DEF CodemapInv, OnlyTurnsAndRetries, SlotNamesThread, SharedInv, SlotNamesRun, Holder, Holding, At
  <2> QED
    BY <2>1, <2>2
<1> QED
  BY <1>1, CodemapInvariant, PTL

-----------------------------------------------------------------------------
(* A project's CodeMap is a serial chat whose answers are final             *)

ChatStep == Serial!Next \/ UNCHANGED <<turns, openTurns>>

\* A step that leaves the turns alone and opens or settles nothing.
LEMMA QuietStep ==
  ASSUME NEW r \in Request, UNCHANGED turns,
         \A q \in Request : q # r => req'[q] = req[q],
         \/ req'[r].key = req[r].key /\ req'[r].thr = req[r].thr /\ req'[r].n = req[r].n
            /\ (req'[r].pc \in OpenPC <=> req[r].pc \in OpenPC)
         \/ req[r].pc \notin OpenPC /\ req'[r].pc \notin OpenPC
  PROVE  ChatStep
<1>1. UNCHANGED openTurns
  BY OpenTurnsSame
<1> QED
  BY <1>1 DEF ChatStep

\* Removing folders is Remove.
LEMMA RemoveStep ==
  ASSUME SharedInv, NEW S, RemoveFolders(S),
         UNCHANGED req \/ \E r \in Request : At(r, "deleting") /\ Reply(r)
  PROVE  ChatStep
BY RemoveRemoves DEF ChatStep, Serial!Next, Serial!Remove

LEMMA CodemapSimulates ==
  ASSUME CodemapInv, [Next]_requestVars
  PROVE  ChatStep
<1> USE DEF CodemapInv
<1>0. req \in [Request -> RequestState] /\ IdleRequest.pc = "idle"
  BY DEF SharedInv, RequestsTypeOK, IdleRequest
<1>1. CASE UNCHANGED requestVars
  BY <1>1, OpenTurnsSame DEF requestVars, ChatStep
<1>2. CASE Wipe \/ \E k \in Scope : ProjectDelete(k)
  BY <1>2, RemoveStep DEF Wipe, Purge, ProjectDelete, DeleteScope
<1>3. CASE Crash
  BY <1>3, RestartAbandons DEF Crash, ChatStep, Serial!Next, Serial!AbandonAll
<1>4. ASSUME NEW r \in Request, Client(r) PROVE ChatStep
  <2>1. /\ UNCHANGED turns /\ At(r, "idle")
        /\ \A q \in Request : q # r => req'[q] = req[q]
        /\ req'[r].pc \in {"taken", "retaken", "deleting"}
    BY <1>0, <1>4 DEF Client, Turn, TakeForTurn, RetryTake, ThreadDelete, DeleteCheck, Begin, storeVars
  <2> QED
    BY <2>1, QuietStep DEF At, OpenPC
<1>5. ASSUME NEW r \in Request, Reserve(r) PROVE ChatStep
  <2>1. CASE ReserveNew(r) \/ ReserveNext(r, "running")
    BY <2>1, ReserveOpens DEF OpenPC, ChatStep, Serial!Next, Serial!Open
  <2>2. CASE ReserveRefused(r) \/ ReserveFails(r)
    <3>1. /\ UNCHANGED turns /\ At(r, "taken") /\ req'[r].pc = "release"
          /\ \A q \in Request : q # r => req'[q] = req[q]
      BY <1>0, <2>2 DEF ReserveRefused, ReserveFails, GoTo, At, storeVars, RequestState
    <3> QED
      BY <3>1, QuietStep DEF At, OpenPC
  <2> QED
    BY <1>5, <2>1, <2>2 DEF Reserve
<1>6. ASSUME NEW r \in Request, PointSlot(r) PROVE ChatStep
  <2>1. /\ UNCHANGED turns /\ At(r, "reserved") /\ req'[r].pc = "running"
        /\ req'[r].key = req[r].key /\ req'[r].thr = req[r].thr /\ req'[r].n = req[r].n
        /\ \A q \in Request : q # r => req'[q] = req[q]
    BY <1>0, <1>6 DEF PointSlot, Repoint, GoTo, storeVars, RequestState
  <2> QED
    BY <2>1, QuietStep DEF At, OpenPC
<1>7. ASSUME NEW r \in Request, Complete(r) PROVE ChatStep
  <2>1. CASE Settle(r)
    BY <2>1, SettleCloses DEF ChatStep, Serial!Next, Serial!Close
  <2>2. CASE SettleFails(r)
    BY <2>2, SettleFailsAbandons DEF ChatStep, Serial!Next, Serial!Abandon
  <2> QED
    BY <1>7, <2>1, <2>2 DEF Complete
<1>8. ASSUME NEW r \in Request, RetryRewrite(r) PROVE ChatStep
  <2>1. CASE Rewrite(r, "running")
    <3>1. PICK k \in Scope, t \in Thread :
            /\ t = req[r].thr /\ openTurns[k] = {} /\ ScopeOf[t] = k
            /\ turns[t] # <<>> /\ turns[t][Len(turns[t])] \in TurnState
            /\ turns' = [turns EXCEPT ![t][Len(turns[t])] = "reserved"]
            /\ openTurns' = [openTurns EXCEPT ![k] = {<<t, Len(turns[t])>>}]
      BY <1>8, <2>1, RewriteReopens DEF RetryRewrite, At, OpenPC
    <3>2. turns[t][Len(turns[t])] # "answered"
      BY <1>8, <3>1 DEF RetryRewrite, RetryStillAccepted, Exists, LastTurn
    <3> QED
      BY <3>1, <3>2 DEF ChatStep, Serial!Next, Serial!Reopen
  <2>2. CASE RewriteFails(r)
    <3>1. /\ UNCHANGED turns /\ At(r, "rechecked") /\ req'[r].pc = "release"
          /\ \A q \in Request : q # r => req'[q] = req[q]
      BY <1>0, <1>8, <2>2 DEF RetryRewrite, RewriteFails, GoTo, storeVars, RequestState
    <3> QED
      BY <3>1, QuietStep DEF At, OpenPC
  <2> QED
    BY <1>8, <2>1, <2>2 DEF RetryRewrite
<1>9. ASSUME NEW r \in Request, ThreadRemove(r) PROVE ChatStep
  BY <1>9, RemoveStep DEF ThreadRemove, DeleteFolder, Delete
<1>10. ASSUME NEW r \in Request, Done(r) \/ RetryCheck(r) PROVE ChatStep
  <2>1. /\ UNCHANGED turns
        /\ \A q \in Request : q # r => req'[q] = req[q]
        /\ req[r].pc \in {"release", "retaken"}
        /\ req'[r].pc \in {"idle", "rechecked", "release"}
    BY <1>0, <1>10 DEF Done, Release, RetryCheck, Reply, GoTo, At, storeVars, RequestState
  <2> QED
    BY <2>1, QuietStep DEF OpenPC
<1> QED
  BY <1>1, <1>2, <1>3, <1>4, <1>5, <1>6, <1>7, <1>8, <1>9, <1>10 DEF Next, Advance

\* CodeMap implements SerialChat with final answers: each outcome lands on the
\* turn it was produced for and no retry takes an answer back, for any number
\* of projects, threads, requests and crashes.
THEOREM CodemapRefinesSerialChat == Spec => RefinesSerialChat
<1>1. Init => Serial!Init
  BY NothingOpenAtFirst DEF Init, Serial!Init
<1>2. CodemapInv /\ [Next]_requestVars => [Serial!Next]_(Serial!chatVars)
  BY CodemapSimulates DEF ChatStep, Serial!chatVars
<1> QED
  BY <1>1, <1>2, CodemapInvariant, PTL DEF Spec, RefinesSerialChat, Serial!Spec

=============================================================================
