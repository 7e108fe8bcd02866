----------------------------- MODULE ButlerProofs -----------------------------
(***************************************************************************)
(* Butler's invariants, for any number of threads, cards and requests.      *)
(* The shared part of the invariant is TurnRequestsProofs'; this module     *)
(* adds the cards and what the apply handler knows of the one it works on.  *)
(***************************************************************************)
EXTENDS ButlerTurns, TurnRequestsProofs

-----------------------------------------------------------------------------
(* The inductive invariant                                                 *)

WithCard == {"applying", "found", "foundResolved", "executing", "resolving"}

\* A request that applies a card names one that was proposed.
AppliesACard ==
  \A r \in Request : req[r].pc \in WithCard =>
    req[r].card \in Card /\ cards[req[r].card].status # "unminted"

\* A request that discards a card names one.
DiscardsACard == \A r \in Request : At(r, "discarding") => req[r].card \in Card

UnmintedNeverRan == \A c \in Card : cards[c].status = "unminted" => executed[c] = 0

\* A pending card nobody is about to mark has run once per fault at most: each
\* run that left it pending lost its bookkeeping to a crash or a failed write.
PendingMayRun ==
  \A c \in Card :
    cards[c].status = "pending" /\ (\A r \in Request : ~(At(r, "resolving") /\ req[r].card = c))
      => executed[c] <= faults

\* What the handler read when it found the card pending still holds.
AboutToRun ==
  \A r \in Request : req[r].pc \in {"found", "executing"} => executed[req[r].card] <= faults

HasRun == \A r \in Request : At(r, "resolving") => executed[req[r].card] >= 1

ExecInv ==
  /\ executed \in [Card -> Nat]
  /\ AppliesACard
  /\ DiscardsACard
  /\ UnmintedNeverRan
  /\ PendingMayRun
  /\ AboutToRun
  /\ HasRun
  /\ ExecutedAtMostOnce

PendingHasThread == \A c \in Card : cards[c].status = "pending" => cards[c].thread \in Thread

CardInv == PendingHasThread /\ PendingCardOnLastTurn

ButlerInv == SharedInv /\ CardInv /\ ExecInv

-----------------------------------------------------------------------------
(* The shared part                                                         *)

\* A resolved card has the state of a card.
LEMMA ResolvedTypes ==
  ASSUME cards \in [Card -> CardState], NEW c, NEW status \in {"approved", "discarded"},
         ResolveApproval(c, status)
  PROVE  cards' \in [Card -> CardState]
<1>1. status \in CardStatus
  BY DEF CardStatus
<1>2. ASSUME c \in Card
      PROVE  [cards[c] EXCEPT !.status = status] \in CardState
  <2>1. cards[c] \in CardState
    BY <1>2
  <2> QED
    BY <1>1, <2>1 DEF CardState
<1> QED
  BY <1>2 DEF ResolveApproval

LEMMA ButlerShared ==
  ASSUME SharedInv, ExecInv, Next
  PROVE  SharedInv'
<1> SUFFICES ASSUME NEW r \in Request, Client(r) \/ Advance(r)
             PROVE  SharedInv'
  <2>1. CASE Wipe
    BY <2>1, RemoveKeeps DEF Wipe, Purge
  <2>2. CASE Crash
    BY <2>2, RestartKeeps DEF Crash
  <2> QED
    BY <2>1, <2>2 DEF Next
<1>0. Blank \in Scope /\ Blank \in Thread \cup {Blank}
  BY ButlerAssumption
<1>1. ASSUME NEW t \in Thread \cup {Blank}, Turn(r, t) PROVE SharedInv'
  BY <1>0, <1>1, TakeForTurnKeeps DEF Turn, butlerRunKey
<1>2. ASSUME NEW t \in Thread, RetryCheck(r, t) PROVE SharedInv'
  <2> DEFINE x == [pc |-> "checked", key |-> Blank, thr |-> t, n |-> 0, card |-> Blank]
  <2>1. x \in RequestState /\ ScopeOf[t] = Blank
    BY IdAssumption, ButlerAssumption DEF RequestState, PC
  <2>2. /\ ~Holder(r) /\ req' = [req EXCEPT ![r] = x]
        /\ UNCHANGED <<turns, minted, slots, cards, faults>>
    BY <1>2 DEF RetryCheck, Begin, At, Holder, Holding, storeVars, butlerRunKey
  <2>3. req'[r] = x /\ cards' \in [Card -> CardState] /\ faults' \in 0..MaxFaults
    BY <2>2 DEF SharedInv, RequestsTypeOK, StoreTypeOK
  <2>4. ~Holder(r)'
    BY <2>3 DEF Holder, Holding
  <2> QED
    BY <1>0, <2>1, <2>2, <2>3, <2>4, WalkKeeps
<1>3. ASSUME NEW c \in Card, Apply(r, c) PROVE SharedInv'
  <2> DEFINE x == [pc |-> "applying", key |-> Blank, thr |-> Blank, n |-> 0, card |-> c]
  <2>1. x \in RequestState /\ x.thr \notin Thread
    BY IdAssumption DEF RequestState, PC, Holding
  <2>2. /\ ~Holder(r) /\ take(Blank, Blank) /\ req' = [req EXCEPT ![r] = x]
        /\ UNCHANGED <<storeVars, faults>>
    BY <1>3 DEF Apply, Begin, At, Holder, Holding, butlerRunKey
  <2> QED
    BY <1>0, <2>1, <2>2, TakeKeeps
<1>4. ASSUME NEW c \in Card, DiscardFind(r, c) PROVE SharedInv'
  <2> DEFINE x == [pc |-> "discarding", key |-> Blank, thr |-> cards[c].thread, n |-> 0, card |-> c]
  <2>1. x \in RequestState /\ (x.thr \in Thread => ScopeOf[x.thr] = Blank)
    BY IdAssumption, ButlerAssumption
       DEF RequestState, PC, SharedInv, RequestsTypeOK, StoreTypeOK, CardState
  <2>2. /\ ~Holder(r) /\ req' = [req EXCEPT ![r] = x]
        /\ UNCHANGED <<turns, minted, slots, cards, faults>>
    BY <1>4 DEF DiscardFind, Begin, At, Holder, Holding, storeVars, butlerRunKey
  <2>3. req'[r] = x /\ cards' \in [Card -> CardState] /\ faults' \in 0..MaxFaults
    BY <2>2 DEF SharedInv, RequestsTypeOK, StoreTypeOK
  <2>4. ~Holder(r)'
    BY <2>3 DEF Holder, Holding
  <2> QED
    BY <1>0, <2>1, <2>2, <2>3, <2>4, WalkKeeps
<1>5. ASSUME NEW t \in Thread, ThreadDelete(r, t) PROVE SharedInv'
  BY <1>5, DeleteCheckKeeps DEF ThreadDelete
<1>6. ASSUME Reserve(r) PROVE SharedInv'
  <2>1. CASE ReserveNew(r)
    BY <2>1, ReserveNewKeeps
  <2>2. CASE ReserveNext(r, "reserved")
    BY <2>2, ReserveNextKeeps
  <2>3. CASE ReserveRefused(r) \/ ReserveFails(r)
    <3>1. /\ Holder(r) /\ GoTo(r, "release") /\ UNCHANGED <<turns, minted, slots, cards>>
          /\ Fault \/ UNCHANGED faults
      BY <2>3 DEF ReserveRefused, ReserveFails, Holder, Holding, At, storeVars
    <3>2. cards' \in [Card -> CardState] /\ faults' \in 0..MaxFaults
      BY <3>1, FaultBound DEF SharedInv, RequestsTypeOK, StoreTypeOK
    <3> QED
      BY <3>1, <3>2, GiveUpKeeps
  <2> QED
    BY <1>6, <2>1, <2>2, <2>3 DEF Reserve
<1>7. ASSUME PointSlot(r) PROVE SharedInv'
  BY <1>7, RepointKeeps DEF PointSlot
<1>8. ASSUME NEW c \in Card, Propose(r, c) PROVE SharedInv'
  <2>1. req[r].thr \in Thread /\ req[r].n \in Nat /\ UNCHANGED <<turns, minted, slots, req, faults>>
    BY <1>8 DEF Propose, AddApproval, At, SharedInv, Targets, RequestsTypeOK, RequestState
  <2>2. cards' \in [Card -> CardState]
    BY <1>8, <2>1 DEF Propose, AddApproval, SharedInv, RequestsTypeOK, StoreTypeOK, CardState, CardStatus
  <2> QED
    BY <2>1, <2>2 DEF SharedInv, RequestsTypeOK, StoreTypeOK, TrackerTypeOK, SlotHasOneHolder,
          Holder, Held, Targets, At, OpenTurnIsBare, Exists, LastTurn, SlotNamesRun, FoldersAreMinted
<1>9. ASSUME Complete(r) PROVE SharedInv'
  <2>1. CASE Settle(r)
    BY <2>1, SettleKeeps
  <2>2. CASE SettleFails(r)
    <3>1. /\ Holder(r) /\ GoTo(r, "release") /\ UNCHANGED <<turns, minted, slots, cards>>
          /\ Fault \/ UNCHANGED faults
      BY <2>2 DEF SettleFails, Holder, Holding, At, storeVars
    <3>2. cards' \in [Card -> CardState] /\ faults' \in 0..MaxFaults
      BY <3>1, FaultBound DEF SharedInv, RequestsTypeOK, StoreTypeOK
    <3> QED
      BY <3>1, <3>2, GiveUpKeeps
  <2> QED
    BY <1>9, <2>1, <2>2 DEF Complete
<1>10. ASSUME Done(r) PROVE SharedInv'
  BY <1>10, ReleaseKeeps DEF Done
<1>11. ASSUME RetryTake(r) PROVE SharedInv'
  <2> DEFINE x == [req[r] EXCEPT !.pc = "retaken"]
  <2>1. /\ At(r, "checked") /\ ~Holder(r) /\ req[r] \in RequestState
        /\ req[r].key \in Scope /\ req[r].thr \in Thread /\ ScopeOf[req[r].thr] = req[r].key
        /\ UNCHANGED <<storeVars, faults>>
    BY <1>11 DEF RetryTake, At, Holder, Holding, SharedInv, Targets, RequestsTypeOK
  <2>2. CASE take(req[r].key, Blank) /\ GoTo(r, "retaken")
    <3>1. PICK k \in Scope : k = req[r].key
      BY <2>1
    <3>2. req' = [req EXCEPT ![r] = x] /\ take(k, Blank)
      BY <2>2, <3>1 DEF GoTo
    <3>3. x \in RequestState /\ x.pc = "retaken" /\ x.key = k /\ x.thr = req[r].thr
      BY <2>1, <3>1 DEF RequestState, PC, Holding
    <3> HIDE DEF x
    <3> QED
      BY <1>0, <2>1, <3>1, <3>2, <3>3, TakeKeeps
  <2>3. CASE Reply(r) /\ UNCHANGED slots
    <3>1. IdleRequest \in RequestState /\ IdleRequest.pc = "idle" /\ IdleRequest.thr \notin Thread
      BY IdAssumption DEF IdleRequest, RequestState, PC, Blank
    <3>2. req'[r] = IdleRequest /\ cards' \in [Card -> CardState] /\ faults' \in 0..MaxFaults
      BY <2>1, <2>3, <3>1 DEF Reply, SharedInv, RequestsTypeOK, StoreTypeOK, storeVars
    <3>3. ~Holder(r)'
      BY <3>1, <3>2 DEF Holder, Holding
    <3> QED
      BY <2>1, <2>3, <3>1, <3>2, <3>3, WalkKeeps DEF Reply, storeVars
  <2> QED
    BY <1>11, <2>2, <2>3 DEF RetryTake
<1>12. ASSUME RetryRewrite(r) PROVE SharedInv'
  <2>1. CASE Rewrite(r, "reserved")
    BY <1>12, <2>1, RewriteKeeps DEF RetryRewrite, At
  <2>2. CASE RewriteFails(r)
    <3>1. /\ Holder(r) /\ GoTo(r, "release") /\ UNCHANGED <<turns, minted, slots, cards>>
          /\ Fault \/ UNCHANGED faults
      BY <1>12, <2>2 DEF RetryRewrite, RewriteFails, At, Holder, Holding, storeVars
    <3>2. cards' \in [Card -> CardState] /\ faults' \in 0..MaxFaults
      BY <3>1, FaultBound DEF SharedInv, RequestsTypeOK, StoreTypeOK
    <3> QED
      BY <3>1, <3>2, GiveUpKeeps
  <2> QED
    BY <1>12, <2>1, <2>2 DEF RetryRewrite
<1>13. ASSUME ApplyFind(r) PROVE SharedInv'
  <2>1. /\ At(r, "applying") /\ Holder(r) /\ req[r] \in RequestState
        /\ req[r].card \in Card /\ req[r].key = Blank
        /\ UNCHANGED <<turns, minted, slots, cards, faults>>
    BY <1>13, ButlerAssumption
       DEF ApplyFind, At, Holder, Holding, ExecInv, AppliesACard, WithCard, SharedInv,
           RequestsTypeOK, Targets, storeVars
  <2>2. cards' \in [Card -> CardState] /\ faults' \in 0..MaxFaults
    BY <2>1 DEF SharedInv, RequestsTypeOK, StoreTypeOK
  <2>3. CASE \E p \in {"found", "foundResolved"} :
               req' = [req EXCEPT ![r].pc = p, ![r].thr = cards[req[r].card].thread]
    <3>1. PICK p \in {"found", "foundResolved"} :
               req' = [req EXCEPT ![r].pc = p, ![r].thr = cards[req[r].card].thread]
      BY <2>3
    <3>2. PICK u \in Thread \cup {Blank} : u = cards[req[r].card].thread
      BY <2>1 DEF SharedInv, RequestsTypeOK, StoreTypeOK, CardState
    <3> DEFINE x == [req[r] EXCEPT !.pc = p, !.thr = u]
    <3>3. req' = [req EXCEPT ![r] = x]
      BY <2>1, <3>1, <3>2 DEF SharedInv, RequestsTypeOK
    <3>4. x \in RequestState /\ x.pc = p /\ x.key = Blank /\ x.thr = u
      BY <2>1 DEF RequestState, PC, Holding
    <3>5. x.thr \in Thread => ScopeOf[x.thr] = x.key
      BY <3>4, IdAssumption, ButlerAssumption
    <3> HIDE DEF x
    <3>6. req'[r] = x
      BY <3>3, <3>4 DEF SharedInv, RequestsTypeOK
    <3>7. Holder(r)'
      BY <3>4, <3>6 DEF Holder, Holding
    <3> QED
      BY <1>0, <2>1, <2>2, <3>3, <3>4, <3>5, <3>7, WalkKeeps
  <2>4. CASE GoTo(r, "release")
    BY <2>1, <2>2, <2>4, GiveUpKeeps
  <2> QED
    BY <1>13, <2>3, <2>4 DEF ApplyFind
<1>14. ASSUME ApplyPoint(r) PROVE SharedInv'
  BY <1>14, PointKeeps DEF ApplyPoint, Holder, Holding, At
<1>15. ASSUME ApplyExec(r) PROVE SharedInv'
  <2>1. /\ Holder(r) /\ req[r] \in RequestState
        /\ UNCHANGED <<turns, minted, slots, cards, faults>>
        /\ req[r].key = Blank
    BY <1>15, ButlerAssumption
       DEF ApplyExec, At, Holder, Holding, storeVars, SharedInv, Targets, RequestsTypeOK
  <2>2. cards' \in [Card -> CardState] /\ faults' \in 0..MaxFaults
    BY <2>1 DEF SharedInv, RequestsTypeOK, StoreTypeOK
  <2>3. CASE GoTo(r, "resolving")
    <3> DEFINE x == [req[r] EXCEPT !.pc = "resolving"]
    <3>1. /\ x \in RequestState /\ x.pc = "resolving" /\ x.key = req[r].key /\ x.thr = req[r].thr
          /\ req' = [req EXCEPT ![r] = x]
      BY <2>1, <2>3 DEF RequestState, PC, Holding, GoTo
    <3>2. x.thr \in Thread => ScopeOf[x.thr] = x.key
      BY <3>1 DEF SharedInv, Targets
    <3> HIDE DEF x
    <3>3. req'[r] = x
      BY <3>1 DEF SharedInv, RequestsTypeOK
    <3>4. Holder(r)'
      BY <3>1, <3>3 DEF Holder, Holding
    <3> QED
      BY <1>0, <2>1, <2>2, <3>1, <3>2, <3>4, WalkKeeps
  <2>4. CASE GoTo(r, "release")
    BY <2>1, <2>2, <2>4, GiveUpKeeps
  <2> QED
    BY <1>15, <2>3, <2>4 DEF ApplyExec
<1>16. ASSUME ApplyResolve(r) PROVE SharedInv'
  <2>1. /\ Holder(r) /\ GoTo(r, "release") /\ UNCHANGED <<turns, minted, slots>>
        /\ Fault \/ UNCHANGED faults
    BY <1>16 DEF ApplyResolve, ResolveApproval, At, Holder, Holding, storeVars
  <2>2. cards' \in [Card -> CardState]
    BY <1>16, ResolvedTypes DEF ApplyResolve, storeVars, SharedInv, RequestsTypeOK, StoreTypeOK
  <2> QED
    BY <2>1, <2>2, FaultBound, GiveUpKeeps
<1>17. ASSUME DiscardResolve(r) PROVE SharedInv'
  <2>1. /\ ~Holder(r) /\ Reply(r) /\ UNCHANGED <<turns, minted, slots>>
        /\ Fault \/ UNCHANGED faults
    BY <1>17 DEF DiscardResolve, ResolveApproval, At, Holder, Holding, storeVars
  <2>2. cards' \in [Card -> CardState] /\ faults' \in 0..MaxFaults
    <3>1. faults' \in 0..MaxFaults
      BY <2>1, FaultBound
    <3> QED
      BY <1>17, <3>1, ResolvedTypes
         DEF DiscardResolve, storeVars, SharedInv, RequestsTypeOK, StoreTypeOK
  <2>3. IdleRequest \in RequestState /\ IdleRequest.pc = "idle" /\ IdleRequest.thr \notin Thread
    BY IdAssumption DEF IdleRequest, RequestState, PC, Blank
  <2>4. req'[r] = IdleRequest
    BY <2>1, <2>3 DEF Reply, SharedInv, RequestsTypeOK
  <2>5. ~Holder(r)'
    BY <2>3, <2>4 DEF Holder, Holding
  <2> QED
    BY <2>1, <2>2, <2>3, <2>5, WalkKeeps DEF Reply
<1>18. ASSUME ThreadRemove(r) PROVE SharedInv'
  BY <1>18, RemoveKeeps DEF ThreadRemove, DeleteFolder, Delete
<1> QED
  BY <1>1, <1>2, <1>3, <1>4, <1>5, <1>6, <1>7, <1>8, <1>9, <1>10, <1>11, <1>12,
     <1>13, <1>14, <1>15, <1>16, <1>17, <1>18 DEF Client, Advance

-----------------------------------------------------------------------------
(* A pending card stays on the last turn of its thread                     *)

\* Nothing becomes pending, and the threads with a pending card keep their
\* number of turns.
LEMMA CardFrame ==
  ASSUME CardInv,
         \A c \in Card : cards'[c].status = "pending" =>
           /\ cards[c].status = "pending"
           /\ cards'[c].thread = cards[c].thread
           /\ cards'[c].turn = cards[c].turn
           /\ turns'[cards[c].thread] # <<>>
           /\ Len(turns'[cards[c].thread]) = Len(turns[cards[c].thread])
  PROVE  CardInv'
BY DEF CardInv, PendingHasThread, PendingCardOnLastTurn, Exists

LEMMA CardsStay ==
  ASSUME CardInv, UNCHANGED <<turns, cards>>
  PROVE  CardInv'
BY DEF CardInv, PendingHasThread, PendingCardOnLastTurn, Exists

\* Marking a card, or failing to, makes no card pending.
LEMMA ResolveCards ==
  ASSUME SharedInv, CardInv, NEW c \in Card, NEW s \in {"approved", "discarded"},
         ResolveApproval(c, s) \/ UNCHANGED storeVars
  PROVE  CardInv'
<1>1. CASE ResolveApproval(c, s)
  <2>1. \A d \in Card : cards'[d].status = "pending" => d # c /\ cards'[d] = cards[d]
    BY <1>1 DEF ResolveApproval, SharedInv, RequestsTypeOK, StoreTypeOK, CardState
  <2>2. UNCHANGED turns
    BY <1>1 DEF ResolveApproval
  <2> QED
    BY <2>1, <2>2 DEF CardInv, PendingHasThread, PendingCardOnLastTurn, Exists
<1>2. CASE UNCHANGED storeVars
  BY <1>2, CardsStay DEF storeVars
<1> QED
  BY <1>1, <1>2

\* Removing folders removes their cards.
LEMMA RemoveCards ==
  ASSUME SharedInv, CardInv, NEW S, RemoveFolders(S)
  PROVE  CardInv'
<1>1. \A c \in Card : cards'[c].status = "pending" =>
        cards[c].thread \notin S /\ cards'[c] = cards[c]
  BY DEF RemoveFolders, SharedInv, RequestsTypeOK, StoreTypeOK, CardState
<1>2. \A t \in Thread : t \notin S => turns'[t] = turns[t]
  BY DEF RemoveFolders
<1> QED
  BY <1>1, <1>2 DEF CardInv, PendingHasThread, PendingCardOnLastTurn, Exists

LEMMA ButlerCards ==
  ASSUME ButlerInv, Next
  PROVE  CardInv'
<1> USE DEF ButlerInv
<1>0. StoreTypeOK
  BY DEF SharedInv, RequestsTypeOK
<1>1. CASE Wipe
  BY <1>1, RemoveCards DEF Wipe, Purge
<1>2. CASE Crash
  BY <1>2, CardsStay DEF Crash, Restart, storeVars
<1>3. ASSUME NEW r \in Request, Client(r) PROVE CardInv'
  <2>1. UNCHANGED <<turns, cards>>
    BY <1>3 DEF Client, Turn, TakeForTurn, RetryCheck, Apply, DiscardFind, ThreadDelete,
                DeleteCheck, storeVars
  <2> QED
    BY <2>1, CardsStay
<1>4. ASSUME NEW r \in Request, Reserve(r) PROVE CardInv'
  <2>1. CASE ReserveNew(r)
    <3>1. PICK t \in Thread : t \notin minted /\ turns' = [turns EXCEPT ![t] = <<"reserved">>]
                             /\ UNCHANGED cards
      BY <2>1 DEF ReserveNew, ReserveNewThread
    <3>2. \A c \in Card : cards[c].status = "pending" => cards[c].thread \in Thread \ {t}
      BY <3>1 DEF CardInv, PendingHasThread, PendingCardOnLastTurn, SharedInv, FoldersAreMinted
    <3>3. \A u \in Thread \ {t} : turns'[u] = turns[u]
      BY <3>1, <1>0 DEF StoreTypeOK
    <3> QED
      BY <3>1, <3>2, <3>3, CardFrame DEF CardInv, PendingCardOnLastTurn, Exists
  <2>2. CASE ReserveNext(r, "reserved")
    <3>1. PICK t \in Thread : t = req[r].thr /\ ReserveFollowup(t)
      BY <2>2 DEF ReserveNext, At, SharedInv, RequestsTypeOK, RequestState
    <3>2. \A c \in Card : cards[c].status = "pending" => cards[c].thread \in Thread \ {t}
      BY <3>1 DEF ReserveFollowup, FollowupAccepted, pendingApprovals, CardInv, PendingHasThread
    <3>3. /\ \A u \in Thread \ {t} : turns'[u] = turns[u]
          /\ UNCHANGED cards
      BY <3>1, <1>0 DEF ReserveFollowup, StoreTypeOK
    <3> QED
      BY <3>2, <3>3, CardFrame DEF CardInv, PendingCardOnLastTurn, Exists
  <2>3. CASE ReserveRefused(r) \/ ReserveFails(r)
    BY <2>3, CardsStay DEF ReserveRefused, ReserveFails, storeVars
  <2> QED
    BY <1>4, <2>1, <2>2, <2>3 DEF Reserve
<1>5. ASSUME NEW r \in Request, NEW c \in Card, Propose(r, c) PROVE CardInv'
  <2>1. /\ req[r].thr \in Thread /\ Exists(req[r].thr) /\ req[r].n = Len(turns[req[r].thr])
        /\ UNCHANGED turns
    BY <1>5 DEF Propose, AddApproval, At, SharedInv, Targets, OpenTurnIsBare
  <2>2. /\ cards'[c] = [status |-> "pending", thread |-> req[r].thr, turn |-> req[r].n]
        /\ \A d \in Card : d # c => cards'[d] = cards[d]
    BY <1>5, <1>0 DEF Propose, AddApproval, StoreTypeOK
  <2> QED
    BY <2>1, <2>2 DEF CardInv, PendingHasThread, PendingCardOnLastTurn, Exists
<1>6. ASSUME NEW t \in Thread, NEW n \in Nat, NEW x \in TurnState, CompleteTurn(t, n, x)
      PROVE  CardInv'
  <2>1. /\ \A u \in Thread : u # t => turns'[u] = turns[u]
        /\ Len(turns'[t]) = Len(turns[t]) /\ turns'[t] # <<>>
        /\ UNCHANGED cards
    BY <1>0, <1>6, OverwriteTurn DEF CompleteTurn
  <2> QED
    BY <2>1, CardFrame DEF CardInv, PendingHasThread, PendingCardOnLastTurn, Exists
<1>7. ASSUME NEW r \in Request, Complete(r) PROVE CardInv'
  <2>1. CASE Settle(r)
    <3>1. PICK t \in Thread : t = req[r].thr
      BY <2>1 DEF Settle, At, SharedInv, Targets
    <3>2. PICK n \in Nat : n = req[r].n
      BY DEF SharedInv, RequestsTypeOK, RequestState
    <3>3. \E x \in TurnState : CompleteTurn(t, n, x)
      BY <2>1, <3>1, <3>2 DEF Settle, TurnState
    <3> QED
      BY <3>3, <1>6
  <2>2. CASE SettleFails(r)
    BY <2>2, CardsStay DEF SettleFails, storeVars
  <2> QED
    BY <1>7, <2>1, <2>2 DEF Complete
<1>8. ASSUME NEW r \in Request, RetryRewrite(r) PROVE CardInv'
  <2>1. CASE Rewrite(r, "reserved")
    <3>1. PICK t \in Thread : t = req[r].thr
      BY <1>8 DEF RetryRewrite, At, SharedInv, Targets
    <3>2. Len(turns[t]) \in Nat /\ CompleteTurn(t, Len(turns[t]), "reserved") /\ "reserved" \in TurnState
      BY <2>1, <3>1, <1>0, LastIsATurn DEF Rewrite, BeginRetry, CompleteTurn, HasTurn, TurnState
    <3> QED
      BY <3>2, <1>6
  <2>2. CASE RewriteFails(r)
    BY <2>2, CardsStay DEF RewriteFails, storeVars
  <2> QED
    BY <1>8, <2>1, <2>2 DEF RetryRewrite
<1>9. ASSUME NEW r \in Request, ApplyResolve(r) PROVE CardInv'
  BY <1>9, ResolveCards DEF ApplyResolve, At, ExecInv, AppliesACard, WithCard
<1>10. ASSUME NEW r \in Request, DiscardResolve(r) PROVE CardInv'
  BY <1>10, ResolveCards DEF DiscardResolve, ExecInv, DiscardsACard
<1>11. ASSUME NEW r \in Request, ThreadRemove(r) PROVE CardInv'
  BY <1>11, RemoveCards DEF ThreadRemove, DeleteFolder, Delete
<1>12. ASSUME NEW r \in Request,
              PointSlot(r) \/ Done(r) \/ RetryTake(r) \/ ApplyFind(r) \/ ApplyPoint(r) \/ ApplyExec(r)
       PROVE CardInv'
  <2>1. UNCHANGED <<turns, cards>>
    BY <1>12 DEF PointSlot, Repoint, Done, Release, RetryTake, ApplyFind, ApplyPoint, ApplyExec, storeVars
  <2> QED
    BY <2>1, CardsStay
<1> QED
  BY <1>1, <1>2, <1>3, <1>4, <1>5, <1>7, <1>8, <1>9, <1>10, <1>11, <1>12 DEF Next, Advance

-----------------------------------------------------------------------------
(* How often a card runs                                                   *)

\* What a step leaves of a card it does not run: its status moves on from
\* "unminted" to "pending" and never to "approved", except by its own handler.
StatusMoves(c) ==
  /\ cards'[c].status = "unminted" => cards[c].status = "unminted"
  /\ cards'[c].status = "pending" => cards[c].status \in {"unminted", "pending"}
  /\ cards'[c].status = "approved" => cards[c].status = "approved"

\* A step that runs no card and takes no request further in applying one.
LEMMA ExecFrame ==
  ASSUME ExecInv, faults \in Nat, faults' \in Nat, faults' >= faults, UNCHANGED executed,
         \A c \in Card : StatusMoves(c),
         \A r \in Request : req'[r].pc \in WithCard \cup {"discarding"} =>
           req'[r].pc = req[r].pc /\ req'[r].card = req[r].card,
         \A r \in Request : At(r, "resolving") => req'[r] = req[r] \/ faults' = faults + 1
  PROVE  ExecInv'
<1> USE DEF ExecInv
<1>1. AppliesACard' /\ DiscardsACard'
  BY DEF AppliesACard, DiscardsACard, WithCard, At, StatusMoves
<1>2. UnmintedNeverRan'
  BY DEF UnmintedNeverRan, StatusMoves
<1>3. ExecutedAtMostOnce'
  <2>1. \A c \in Card : executed[c] \in Nat
    OBVIOUS
  <2> QED
    BY <2>1 DEF ExecutedAtMostOnce, StatusMoves
<1>4. PendingMayRun'
  <2> SUFFICES ASSUME NEW c \in Card, cards'[c].status = "pending",
                      \A r \in Request : ~(req'[r].pc = "resolving" /\ req'[r].card = c)
               PROVE  executed[c] <= faults'
    BY DEF PendingMayRun, At
  <2>0. executed[c] \in Nat
    OBVIOUS
  <2>1. CASE cards[c].status = "unminted"
    BY <2>0, <2>1 DEF UnmintedNeverRan
  <2>2. CASE cards[c].status = "pending" /\ faults' = faults + 1
    BY <2>0, <2>2 DEF ExecutedAtMostOnce
  <2>3. CASE cards[c].status = "pending" /\ faults' # faults + 1
    <3>1. \A r \in Request : ~(At(r, "resolving") /\ req[r].card = c)
      BY <2>3 DEF At
    <3> QED
      BY <2>0, <2>3, <3>1 DEF PendingMayRun
  <2> QED
    BY <2>1, <2>2, <2>3 DEF StatusMoves
<1>5. AboutToRun'
  <2>1. \A r \in Request : req'[r].pc \in {"found", "executing"} =>
          /\ req'[r].card = req[r].card /\ req[r].card \in Card
          /\ executed[req[r].card] <= faults
    BY DEF AboutToRun, AppliesACard, WithCard
  <2> QED
    BY <2>1 DEF AboutToRun
<1>6. HasRun'
  BY DEF HasRun, At, WithCard
<1> QED
  BY <1>1, <1>2, <1>3, <1>4, <1>5, <1>6

LEMMA ButlerExec ==
  ASSUME ButlerInv, Next
  PROVE  ExecInv'
<1> USE DEF ButlerInv
<1>0. /\ faults \in Nat /\ IdleRequest.pc = "idle"
      /\ cards \in [Card -> CardState] /\ req \in [Request -> RequestState]
  BY RequestAssumption DEF IdleRequest, SharedInv, RequestsTypeOK, StoreTypeOK
<1>1. CASE Wipe
  <2>1. /\ \A c \in Card : StatusMoves(c)
        /\ UNCHANGED <<req, faults, executed>>
    BY <1>0, <1>1 DEF Wipe, Purge, RemoveFolders, StatusMoves, CardState
  <2> QED
    BY <1>0, <2>1, ExecFrame
<1>2. CASE Crash
  <2>1. /\ UNCHANGED <<cards, executed>> /\ faults' = faults + 1
        /\ \A r \in Request : req'[r].pc = "idle"
    BY <1>0, <1>2 DEF Crash, Restart, storeVars, Fault
  <2> QED
    BY <1>0, <2>1, ExecFrame DEF StatusMoves, WithCard
<1>3. ASSUME NEW r \in Request, UNCHANGED executed,
             \A c \in Card : StatusMoves(c),
             ~At(r, "resolving"),
             \A q \in Request : q # r => req'[q] = req[q],
             req'[r].pc \notin WithCard \cup {"discarding"},
             Fault \/ UNCHANGED faults
      PROVE  ExecInv'
  <2>1. faults' \in Nat /\ faults' >= faults
    BY <1>0, <1>3 DEF Fault
  <2>2. \A q \in Request : /\ req'[q].pc \in WithCard \cup {"discarding"} => req'[q] = req[q]
                           /\ At(q, "resolving") => req'[q] = req[q]
    BY <1>3
  <2> QED
    BY <1>0, <1>3, <2>1, <2>2, ExecFrame
<1>4. ASSUME NEW r \in Request, Client(r) PROVE ExecInv'
  <2>1. CASE \/ \E t \in Thread \cup {Blank} : Turn(r, t)
             \/ \E t \in Thread : RetryCheck(r, t)
             \/ \E t \in Thread : ThreadDelete(r, t)
    <3>1. /\ UNCHANGED <<executed, cards, faults>> /\ At(r, "idle")
          /\ \A q \in Request : q # r => req'[q] = req[q]
          /\ req'[r].pc \in {"taken", "checked", "deleting"}
      BY <1>0, <2>1 DEF Turn, TakeForTurn, RetryCheck, ThreadDelete, DeleteCheck, Begin, storeVars
    <3> QED
      BY <3>1, <1>3 DEF StatusMoves, WithCard, At
  <2>2. ASSUME NEW c \in Card, Apply(r, c) \/ DiscardFind(r, c) PROVE ExecInv'
    <3>1. /\ UNCHANGED <<executed, cards, faults>> /\ At(r, "idle")
          /\ \A q \in Request : q # r => req'[q] = req[q]
          /\ req'[r].pc \in {"applying", "discarding"} /\ req'[r].card = c
          /\ cards[c].status # "unminted"
      BY <1>0, <2>2 DEF Apply, DiscardFind, Begin, storeVars, Resolvable
    <3>2. AppliesACard' /\ DiscardsACard'
      BY <3>1 DEF ExecInv, AppliesACard, DiscardsACard, At
    <3>3. PendingMayRun'
      <4>1. \A q \in Request : At(q, "resolving") => At(q, "resolving")' /\ req'[q].card = req[q].card
        BY <3>1 DEF At
      <4> QED
        BY <3>1, <4>1 DEF ExecInv, PendingMayRun
    <3>4. AboutToRun' /\ HasRun'
      BY <3>1 DEF ExecInv, AboutToRun, HasRun, At
    <3>5. ExecutedAtMostOnce' /\ UnmintedNeverRan'
      BY <3>1 DEF ExecInv, ExecutedAtMostOnce, UnmintedNeverRan
    <3> QED
      BY <3>1, <3>2, <3>3, <3>4, <3>5 DEF ExecInv
  <2> QED
    BY <1>4, <2>1, <2>2 DEF Client
<1>5. ASSUME NEW r \in Request, Reserve(r) \/ PointSlot(r) \/ Complete(r) \/ Done(r) \/ RetryTake(r)
                                \/ RetryRewrite(r) \/ ThreadRemove(r)
      PROVE  ExecInv'
  <2>1. /\ UNCHANGED executed /\ (Fault \/ UNCHANGED faults)
        /\ req[r].pc \in {"taken", "reserved", "running", "release", "checked", "retaken", "deleting"}
        /\ \A q \in Request : q # r => req'[q] = req[q]
        /\ req'[r].pc \in {"reserved", "running", "release", "idle", "retaken"}
    <3>1. CASE Reserve(r)
      <4>1. CASE ReserveNew(r)
        <5>1. req[r].pc = "taken" /\ UNCHANGED <<executed, faults>>
          BY <3>1, <4>1 DEF Reserve, ReserveNew, At
        <5>2. \E t \in Thread :
                req' = [req EXCEPT ![r].pc = "reserved", ![r].thr = t, ![r].n = 1]
          BY <4>1 DEF ReserveNew
        <5>3. req'[r].pc = "reserved" /\ \A q \in Request : q # r => req'[q] = req[q]
          BY <1>0, <5>2 DEF RequestState
        <5> QED
          BY <5>1, <5>3
      <4>2. CASE ReserveNext(r, "reserved")
        BY <1>0, <3>1, <4>2 DEF Reserve, ReserveNext, At, RequestState
      <4>3. CASE ReserveRefused(r) \/ ReserveFails(r)
        BY <1>0, <3>1, <4>3 DEF Reserve, ReserveRefused, ReserveFails, At, GoTo, RequestState
      <4> QED
        BY <3>1, <4>1, <4>2, <4>3 DEF Reserve
    <3>2. CASE PointSlot(r) \/ Complete(r) \/ Done(r)
      BY <1>0, <3>2 DEF PointSlot, Repoint, Complete, Settle, SettleFails, Done, Release, At, GoTo,
                        Reply, RequestState
    <3>3. CASE RetryTake(r) \/ RetryRewrite(r) \/ ThreadRemove(r)
      BY <1>0, <3>3 DEF RetryTake, RetryRewrite, Rewrite, RewriteFails, ThreadRemove, DeleteFolder, At, GoTo, Reply, RequestState
    <3> QED
      BY <1>5, <3>1, <3>2, <3>3
  <2>2. \A c \in Card : StatusMoves(c)
    <3>1. CASE ThreadRemove(r)
      BY <1>0, <3>1 DEF ThreadRemove, DeleteFolder, Delete, RemoveFolders, StatusMoves, CardState
    <3>2. CASE ~ThreadRemove(r)
      <4>1. UNCHANGED cards
        BY <1>5, <3>2 DEF Reserve, ReserveNew, ReserveNewThread, ReserveNext, ReserveFollowup,
             ReserveRefused, ReserveFails, PointSlot, Repoint, Complete, Settle, CompleteTurn,
             SettleFails, Done, Release, RetryTake, RetryRewrite, Rewrite, RewriteFails,
             BeginRetry, storeVars
      <4> QED
        BY <4>1 DEF StatusMoves
    <3> QED
      BY <3>1, <3>2
  <2> QED
    BY <1>3, <2>1, <2>2 DEF WithCard, At
<1>6. ASSUME NEW r \in Request, NEW c \in Card, Propose(r, c) PROVE ExecInv'
  <2>1. /\ UNCHANGED <<executed, faults, req>> /\ At(r, "running")
        /\ \A d \in Card : StatusMoves(d)
    BY <1>0, <1>6 DEF Propose, AddApproval, StatusMoves, CardState
  <2> QED
    BY <2>1, <1>3 DEF At, WithCard
<1>7. ASSUME NEW r \in Request, DiscardResolve(r) PROVE ExecInv'
  <2>1. /\ UNCHANGED executed /\ (Fault \/ UNCHANGED faults)
        /\ At(r, "discarding") /\ req'[r].pc = "idle"
        /\ \A q \in Request : q # r => req'[q] = req[q]
    BY <1>0, <1>7 DEF DiscardResolve, Reply
  <2>2. \A d \in Card : StatusMoves(d)
    BY <1>0, <1>7 DEF DiscardResolve, ResolveApproval, Resolvable, StatusMoves, CardState, storeVars
  <2> QED
    BY <1>3, <2>1, <2>2 DEF WithCard, At
<1>8. \A r, q \in Request : req[r].pc \in WithCard /\ req[q].pc \in WithCard => r = q
  BY ButlerAssumption DEF SharedInv, SlotHasOneHolder, Holder, Holding, WithCard, Targets, At
<1>9. ASSUME NEW r \in Request, ApplyFind(r) PROVE ExecInv'
  <2>1. /\ UNCHANGED <<executed, cards, faults>> /\ At(r, "applying")
        /\ \A q \in Request : q # r => req'[q] = req[q]
        /\ req'[r].pc \in {"found", "foundResolved", "release"} /\ req'[r].card = req[r].card
        /\ req'[r].pc = "found" => cards[req[r].card].status = "pending"
    BY <1>0, <1>9 DEF ApplyFind, At, GoTo, Resolvable, RequestState, storeVars
  <2>2. req[r].card \in Card /\ cards[req[r].card].status # "unminted"
    BY <2>1 DEF ExecInv, AppliesACard, WithCard, At
  <2>3. \A q \in Request : ~At(q, "resolving")
    BY <1>8, <2>1 DEF WithCard, At
  <2>4. req'[r].pc = "found" => executed[req[r].card] <= faults
    BY <2>1, <2>2, <2>3 DEF ExecInv, PendingMayRun
  <2>5. AppliesACard' /\ DiscardsACard'
    BY <2>1, <2>2 DEF ExecInv, AppliesACard, DiscardsACard, At
  <2>6. PendingMayRun'
    BY <2>1, <2>3 DEF ExecInv, PendingMayRun
  <2>7. AboutToRun' /\ HasRun'
    BY <2>1, <2>4 DEF ExecInv, AboutToRun, HasRun, At
  <2>8. ExecutedAtMostOnce' /\ UnmintedNeverRan'
    BY <2>1 DEF ExecInv, ExecutedAtMostOnce, UnmintedNeverRan
  <2> QED
    BY <2>1, <2>5, <2>6, <2>7, <2>8 DEF ExecInv
<1>10. ASSUME NEW r \in Request, ApplyPoint(r) PROVE ExecInv'
  <2>1. /\ UNCHANGED <<executed, cards, faults>> /\ req[r].pc \in {"found", "foundResolved"}
        /\ \A q \in Request : q # r => req'[q] = req[q]
        /\ req'[r].pc = IF At(r, "found") THEN "executing" ELSE "release"
        /\ req'[r].card = req[r].card
    BY <1>0, <1>10 DEF ApplyPoint, GoTo, RequestState, storeVars
  <2>2. AppliesACard' /\ DiscardsACard'
    BY <2>1 DEF ExecInv, AppliesACard, DiscardsACard, At, WithCard
  <2>3. PendingMayRun'
    BY <2>1 DEF ExecInv, PendingMayRun, At
  <2>4. AboutToRun' /\ HasRun'
    BY <2>1 DEF ExecInv, AboutToRun, HasRun, At
  <2>5. ExecutedAtMostOnce' /\ UnmintedNeverRan'
    BY <2>1 DEF ExecInv, ExecutedAtMostOnce, UnmintedNeverRan
  <2> QED
    BY <2>1, <2>2, <2>3, <2>4, <2>5 DEF ExecInv
<1>11. ASSUME NEW r \in Request, ApplyExec(r) PROVE ExecInv'
  <2>1. /\ UNCHANGED <<cards, faults>> /\ At(r, "executing")
        /\ \A q \in Request : q # r => req'[q] = req[q]
        /\ req'[r].card = req[r].card
        /\ \/ req'[r].pc = "resolving" /\ executed' = [executed EXCEPT ![req[r].card] = @ + 1]
           \/ req'[r].pc = "release" /\ UNCHANGED executed
    BY <1>0, <1>11 DEF ApplyExec, At, GoTo, RequestState, storeVars
  <2>2. PICK c \in Card : c = req[r].card /\ cards[c].status # "unminted"
    BY <2>1 DEF ExecInv, AppliesACard, WithCard, At
  <2>3. executed[c] \in Nat /\ executed[c] <= faults
    BY <2>1, <2>2 DEF ExecInv, AboutToRun, At
  <2>4. \A q \in Request : q # r => req[q].pc \notin WithCard
    BY <1>8, <2>1 DEF WithCard, At
  <2>5. /\ executed' \in [Card -> Nat]
        /\ \A d \in Card : d # c => executed'[d] = executed[d]
        /\ executed'[c] = executed[c] \/ (executed'[c] = executed[c] + 1 /\ req'[r].pc = "resolving")
        /\ req'[r].pc = "resolving" => executed'[c] = executed[c] + 1
    BY <2>1, <2>2, <2>3 DEF ExecInv
  <2>6. AppliesACard' /\ DiscardsACard'
    BY <2>1, <2>2 DEF ExecInv, AppliesACard, DiscardsACard, At, WithCard
  <2>7. PendingMayRun'
    <3>1. \A q \in Request : ~At(q, "resolving")
      BY <2>1, <2>4 DEF WithCard, At
    <3> SUFFICES ASSUME NEW d \in Card, cards[d].status = "pending",
                        ~(req'[r].pc = "resolving" /\ req'[r].card = d)
                 PROVE  executed'[d] <= faults
      BY <2>1 DEF PendingMayRun, At
    <3>2. executed[d] <= faults
      BY <3>1 DEF ExecInv, PendingMayRun
    <3> QED
      BY <2>1, <2>2, <2>5, <3>2
  <2>8. AboutToRun' /\ HasRun'
    <3>1. \A q \in Request : q # r => req'[q].pc \notin {"found", "executing", "resolving"}
      BY <2>1, <2>4 DEF WithCard
    <3> QED
      BY <2>1, <2>2, <2>3, <2>5, <3>1 DEF AboutToRun, HasRun, At
  <2>9. ExecutedAtMostOnce'
    <3> SUFFICES ASSUME NEW d \in Card
                 PROVE  /\ executed'[d] <= 1 + faults
                        /\ cards[d].status = "approved" => executed'[d] >= 1
      BY <2>1 DEF ExecutedAtMostOnce
    <3>1. /\ executed[d] \in Nat /\ executed[d] <= 1 + faults
          /\ cards[d].status = "approved" => executed[d] >= 1
      BY DEF ExecInv, ExecutedAtMostOnce
    <3>2. CASE d = c
      BY <1>0, <2>3, <2>5, <3>1, <3>2
    <3>3. CASE d # c
      BY <2>5, <3>1, <3>3
    <3> QED
      BY <3>2, <3>3
  <2>10. UnmintedNeverRan'
    BY <2>1, <2>2, <2>5 DEF ExecInv, UnmintedNeverRan
  <2> QED
    BY <2>5, <2>6, <2>7, <2>8, <2>9, <2>10 DEF ExecInv
<1>12. ASSUME NEW r \in Request, ApplyResolve(r) PROVE ExecInv'
  <2>1. /\ UNCHANGED executed /\ At(r, "resolving")
        /\ \A q \in Request : q # r => req'[q] = req[q]
        /\ req'[r].pc = "release"
    BY <1>0, <1>12 DEF ApplyResolve, At, GoTo, RequestState
  <2>2. PICK c \in Card : c = req[r].card /\ cards[c].status # "unminted"
    BY <2>1 DEF ExecInv, AppliesACard, WithCard, At
  <2>3. executed \in [Card -> Nat] /\ executed[c] >= 1 /\ executed[c] <= 1 + faults
    BY <2>1, <2>2 DEF ExecInv, HasRun, ExecutedAtMostOnce
  <2>4. \A q \in Request : q # r => req[q].pc \notin WithCard
    BY <1>8, <2>1 DEF WithCard, At
  <2>5. /\ \A d \in Card : d # c => cards'[d] = cards[d]
        /\ \/ cards'[c].status = "approved" /\ UNCHANGED faults
           \/ cards'[c] = cards[c] /\ (cards[c].status # "pending" \/ faults' = faults + 1)
        /\ faults' \in Nat /\ faults' >= faults
    BY <1>0, <1>12, <2>2
       DEF ApplyResolve, ResolveApproval, Resolvable, Fault, storeVars, CardState
  <2>6. AppliesACard' /\ DiscardsACard'
    BY <2>1, <2>4, <2>5 DEF ExecInv, AppliesACard, DiscardsACard, At, WithCard
  <2>7. PendingMayRun'
    <3> SUFFICES ASSUME NEW d \in Card, cards'[d].status = "pending"
                 PROVE  executed[d] <= faults'
      BY <2>1 DEF PendingMayRun
    <3>1. CASE d = c
      BY <1>0, <2>3, <2>5, <3>1
    <3>2. CASE d # c
      <4>1. \A q \in Request : ~(At(q, "resolving") /\ req[q].card = d)
        BY <2>1, <2>2, <2>4, <3>2 DEF At, WithCard
      <4>2. executed[d] \in Nat /\ executed[d] <= faults
        BY <2>3, <2>5, <3>2, <4>1 DEF ExecInv, PendingMayRun
      <4> QED
        BY <1>0, <2>5, <4>2
    <3> QED
      BY <3>1, <3>2
  <2>8. AboutToRun' /\ HasRun'
    <3>1. \A q \in Request : req'[q].pc \notin {"found", "executing", "resolving"}
      BY <2>1, <2>4 DEF WithCard
    <3> QED
      BY <3>1 DEF AboutToRun, HasRun, At
  <2>9. ExecutedAtMostOnce'
    <3>1. \A d \in Card : executed[d] \in Nat /\ executed[d] <= 1 + faults
      BY <2>3 DEF ExecInv, ExecutedAtMostOnce
    <3>2. \A d \in Card : cards'[d].status = "approved" => executed[d] >= 1
      BY <2>3, <2>5 DEF ExecInv, ExecutedAtMostOnce
    <3> QED
      BY <1>0, <2>1, <2>5, <3>1, <3>2 DEF ExecutedAtMostOnce
  <2>10. UnmintedNeverRan'
    BY <2>1, <2>2, <2>5 DEF ExecInv, UnmintedNeverRan
  <2> QED
    BY <2>1, <2>3, <2>6, <2>7, <2>8, <2>9, <2>10 DEF ExecInv
<1> QED
  BY <1>1, <1>2, <1>4, <1>5, <1>6, <1>7, <1>9, <1>10, <1>11, <1>12 DEF Next, Advance

-----------------------------------------------------------------------------
(* The invariant, and what it gives                                        *)

\* Butler starts in the invariant: no folders, no cards, a free slot.
LEMMA ButlerInit ==
  ASSUME Init
  PROVE  ButlerInv
<1>1. SharedInv
  BY SharedInit DEF Init
<1>2. \A c \in Card : cards[c].status = "unminted" /\ executed[c] = 0
  BY DEF Init, RequestsInit, EmptyStore, NoCard
<1>3. \A r \in Request : req[r].pc = "idle"
  BY DEF Init, RequestsInit, IdleRequest
<1>4. faults = 0 /\ executed \in [Card -> Nat]
  BY DEF Init, RequestsInit
<1>5. CardInv
  BY <1>2 DEF CardInv, PendingHasThread, PendingCardOnLastTurn
<1>6. ExecInv
  BY <1>2, <1>3, <1>4 DEF ExecInv, AppliesACard, DiscardsACard, UnmintedNeverRan, PendingMayRun,
                          AboutToRun, HasRun, ExecutedAtMostOnce, At, WithCard
<1> QED
  BY <1>1, <1>5, <1>6 DEF ButlerInv

\* No step of the server, of a client or of the disk leaves the invariant.
LEMMA ButlerStep ==
  ASSUME ButlerInv, [Next]_vars
  PROVE  ButlerInv'
<1>1. CASE Next
  BY <1>1, ButlerShared, ButlerCards, ButlerExec DEF ButlerInv
<1>2. CASE UNCHANGED vars
  <2>1. SharedInv' /\ CardInv'
    BY <1>2, SharedStutter, CardsStay DEF vars, requestVars, ButlerInv
  <2>2. ExecInv'
    BY <1>2 DEF vars, ButlerInv, ExecInv, AppliesACard, DiscardsACard, UnmintedNeverRan,
                PendingMayRun, AboutToRun, HasRun, ExecutedAtMostOnce, At
  <2> QED
    BY <2>1, <2>2 DEF ButlerInv
<1> QED
  BY <1>1, <1>2

\* The inductive invariant of the Butler handlers.
THEOREM ButlerInvariant == Spec => []ButlerInv
BY ButlerInit, ButlerStep, PTL DEF Spec

\* Every variable keeps its type: the slot, the folders, the cards, the requests.
THEOREM ButlerTypeOK == Spec => []TypeOK
<1>1. ButlerInv => TypeOK
  BY DEF ButlerInv, SharedInv, ExecInv, TypeOK
<1> QED
  BY <1>1, ButlerInvariant, PTL

\* One slot, one holder (runTracker take and done): for any number of requests,
\* the deferred done of one of them never frees the slot of another.
THEOREM ButlerSlotHasOneHolder == Spec => []SlotHasOneHolder
<1>1. ButlerInv => SlotHasOneHolder
  BY DEF ButlerInv, SharedInv
<1> QED
  BY <1>1, ButlerInvariant, PTL

\* A running turn is the last of its thread, bare, and named by the slot, so its
\* CompleteTurn lands on the placeholder it reserved (executeButlerTurn).
THEOREM ButlerRunOwnsItsTurn == Spec => []RunOwnsItsTurn
<1>1. ButlerInv => RunOwnsItsTurn
  BY SharedImplies DEF ButlerInv
<1> QED
  BY <1>1, ButlerInvariant, PTL

\* A pending card hangs on the newest turn of a thread that is there: what
\* ErrPendingApproval in ReserveFollowup is for.
THEOREM ButlerPendingCardOnLastTurn == Spec => []PendingCardOnLastTurn
<1>1. ButlerInv => PendingCardOnLastTurn
  BY DEF ButlerInv, CardInv
<1> QED
  BY <1>1, ButlerInvariant, PTL

\* The write of a card runs once, and once more per crash or failed write at
\* most: holding the slot over find, execute and resolve is enough for that.
THEOREM ButlerExecutedAtMostOnce == Spec => []ExecutedAtMostOnce
<1>1. ButlerInv => ExecutedAtMostOnce
  BY DEF ButlerInv, ExecInv
<1> QED
  BY <1>1, ButlerInvariant, PTL

-----------------------------------------------------------------------------
(* Butler is a serial chat                                                 *)

ChatStep == Serial!Next \/ UNCHANGED <<turns, openTurns>>

\* A step of a client, or of a request, that leaves the turns alone.
LEMMA QuietStep ==
  ASSUME UNCHANGED turns,
         \A q \in Request :
           \/ req'[q].key = req[q].key /\ req'[q].thr = req[q].thr /\ req'[q].n = req[q].n
              /\ (req'[q].pc \in OpenPC <=> req[q].pc \in OpenPC)
           \/ req[q].pc \notin OpenPC /\ req'[q].pc \notin OpenPC
  PROVE  ChatStep
BY OpenTurnsSame DEF ChatStep

\* Removing folders is Remove.
LEMMA RemoveStep ==
  ASSUME SharedInv, NEW S, RemoveFolders(S),
         UNCHANGED req \/ \E r \in Request : At(r, "deleting") /\ Reply(r)
  PROVE  ChatStep
BY RemoveRemoves DEF ChatStep, Serial!Next, Serial!Remove

LEMMA ButlerSimulates ==
  ASSUME ButlerInv, [Next]_vars
  PROVE  ChatStep
<1> USE DEF ButlerInv
<1>0. req \in [Request -> RequestState] /\ IdleRequest.pc = "idle"
  BY DEF SharedInv, RequestsTypeOK, IdleRequest
<1>1. CASE UNCHANGED vars
  BY <1>1, QuietStep DEF vars
<1>2. CASE Wipe
  BY <1>2, RemoveStep DEF Wipe, Purge
<1>3. CASE Crash
  BY <1>3, RestartAbandons DEF Crash, ChatStep, Serial!Next, Serial!AbandonAll
<1>4. ASSUME NEW r \in Request, UNCHANGED turns,
             \A q \in Request : q # r => req'[q] = req[q],
             req[r].pc \notin OpenPC, req'[r].pc \notin OpenPC
      PROVE  ChatStep
  BY <1>4, QuietStep
<1>5. ASSUME NEW r \in Request, Client(r) PROVE ChatStep
  <2>1. /\ UNCHANGED turns /\ At(r, "idle")
        /\ \A q \in Request : q # r => req'[q] = req[q]
        /\ req'[r].pc \in {"taken", "checked", "applying", "discarding", "deleting"}
    BY <1>0, <1>5 DEF Client, Turn, TakeForTurn, RetryCheck, Apply, DiscardFind, ThreadDelete,
                DeleteCheck, Begin, storeVars
  <2> QED
    BY <1>4, <2>1 DEF At, OpenPC
<1>6. ASSUME NEW r \in Request, Reserve(r) PROVE ChatStep
  <2>1. CASE ReserveNew(r) \/ ReserveNext(r, "reserved")
    BY <2>1, ReserveOpens DEF OpenPC, ChatStep, Serial!Next, Serial!Open
  <2>2. CASE ReserveRefused(r) \/ ReserveFails(r)
    <3>1. /\ UNCHANGED turns /\ At(r, "taken") /\ req'[r].pc = "release"
          /\ \A q \in Request : q # r => req'[q] = req[q]
      BY <1>0, <2>2 DEF ReserveRefused, ReserveFails, GoTo, At, storeVars, RequestState
    <3> QED
      BY <1>4, <3>1 DEF At, OpenPC
  <2> QED
    BY <1>6, <2>1, <2>2 DEF Reserve
<1>7. ASSUME NEW r \in Request, PointSlot(r) PROVE ChatStep
  <2>1. /\ UNCHANGED turns /\ At(r, "reserved") /\ req'[r].pc = "running"
        /\ req'[r].key = req[r].key /\ req'[r].thr = req[r].thr /\ req'[r].n = req[r].n
        /\ \A q \in Request : q # r => req'[q] = req[q]
    BY <1>0, <1>7 DEF PointSlot, Repoint, GoTo, storeVars, RequestState
  <2> QED
    BY <2>1, QuietStep DEF At, OpenPC
<1>8. ASSUME NEW r \in Request, NEW c \in Card, Propose(r, c) PROVE ChatStep
  BY <1>8, QuietStep DEF Propose, AddApproval
<1>9. ASSUME NEW r \in Request, Complete(r) PROVE ChatStep
  <2>1. CASE Settle(r)
    BY <2>1, SettleCloses DEF ChatStep, Serial!Next, Serial!Close
  <2>2. CASE SettleFails(r)
    BY <2>2, SettleFailsAbandons DEF ChatStep, Serial!Next, Serial!Abandon
  <2> QED
    BY <1>9, <2>1, <2>2 DEF Complete
<1>10. ASSUME NEW r \in Request, RetryRewrite(r) PROVE ChatStep
  <2>1. CASE Rewrite(r, "reserved")
    BY <1>10, <2>1, RewriteReopens DEF RetryRewrite, At, OpenPC, ChatStep, Serial!Next, Serial!Reopen
  <2>2. CASE RewriteFails(r)
    <3>1. /\ UNCHANGED turns /\ At(r, "retaken") /\ req'[r].pc = "release"
          /\ \A q \in Request : q # r => req'[q] = req[q]
      BY <1>0, <1>10, <2>2 DEF RetryRewrite, RewriteFails, GoTo, storeVars, RequestState
    <3> QED
      BY <1>4, <3>1 DEF At, OpenPC
  <2> QED
    BY <1>10, <2>1, <2>2 DEF RetryRewrite
<1>11. ASSUME NEW r \in Request, ThreadRemove(r) PROVE ChatStep
  BY <1>11, RemoveStep DEF ThreadRemove, DeleteFolder, Delete
<1>12. ASSUME NEW r \in Request,
              Done(r) \/ RetryTake(r) \/ ApplyFind(r) \/ ApplyPoint(r) \/ ApplyExec(r)
                \/ ApplyResolve(r) \/ DiscardResolve(r)
       PROVE  ChatStep
  <2>1. /\ UNCHANGED turns
        /\ \A q \in Request : q # r => req'[q] = req[q]
        /\ req[r].pc \in {"release", "checked", "applying", "found", "foundResolved", "executing",
                         "resolving", "discarding"}
        /\ req'[r].pc \in {"idle", "retaken", "found", "foundResolved", "executing", "resolving",
                          "release"}
    <3>1. CASE Done(r) \/ RetryTake(r) \/ DiscardResolve(r)
      BY <1>0, <3>1 DEF Done, Release, RetryTake, DiscardResolve, ResolveApproval, Reply, GoTo, At,
                        storeVars, RequestState
    <3>2. CASE ApplyFind(r) \/ ApplyPoint(r)
      BY <1>0, <3>2 DEF ApplyFind, ApplyPoint, GoTo, At, storeVars, RequestState
    <3>3. CASE ApplyExec(r) \/ ApplyResolve(r)
      BY <1>0, <3>3 DEF ApplyExec, ApplyResolve, ResolveApproval, GoTo, At, storeVars, RequestState
    <3> QED
      BY <1>12, <3>1, <3>2, <3>3
  <2> QED
    BY <1>4, <2>1 DEF OpenPC
<1> QED
  BY <1>1, <1>2, <1>3, <1>5, <1>6, <1>7, <1>8, <1>9, <1>10, <1>11, <1>12 DEF Next, Advance

\* Butler implements SerialChat: turns of the instance open one at a time, and
\* each outcome lands on the turn it was produced for, for any number of
\* threads and requests and any number of crashes.
THEOREM ButlerRefinesSerialChat == Spec => RefinesSerialChat
<1>1. Init => Serial!Init
  BY NothingOpenAtFirst DEF Init, Serial!Init
<1>2. ButlerInv /\ [Next]_vars => [Serial!Next]_(Serial!chatVars)
  BY ButlerSimulates DEF ChatStep, Serial!chatVars
<1> QED
  BY <1>1, <1>2, ButlerInvariant, PTL DEF Spec, RefinesSerialChat, Serial!Spec

=============================================================================
