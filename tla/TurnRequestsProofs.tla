-------------------------- MODULE TurnRequestsProofs --------------------------
(***************************************************************************)
(* The invariant both chat products rest on, and the lemma that each step   *)
(* they share preserves it.  ButlerProofs and CodemapProofs add the steps   *)
(* of their own and conclude.                                              *)
(***************************************************************************)
EXTENDS TurnRequests, SequenceTheorems, TLAPS

-----------------------------------------------------------------------------
(* The inductive invariant                                                 *)

\* Requests know their scope, and the thread they were aimed at is of it.
Targets ==
  /\ \A r \in Request : ~At(r, "idle") => req[r].key \in Scope
  /\ \A r \in Request :
       req[r].pc \in {"reserved", "running", "checked", "retaken", "rechecked", "deleting"}
         => req[r].thr \in Thread
  /\ \A r \in Request :
       req[r].thr \in Thread => ScopeOf[req[r].thr] = req[r].key

\* The turn a request has open is the last of its thread and still bare.
OpenTurnIsBare ==
  \A r \in Request :
    req[r].pc \in {"reserved", "running"} /\ Exists(req[r].thr) =>
      /\ req[r].n = Len(turns[req[r].thr])
      /\ LastTurn(req[r].thr) = "reserved"

\* A running request has its thread in the slot.
SlotNamesRun ==
  \A r \in Request : At(r, "running") => slots[req[r].key] = req[r].thr

\* Only minted ids have folders.
FoldersAreMinted == \A t \in Thread : Exists(t) => t \in minted

SharedInv ==
  /\ RequestsTypeOK
  /\ SlotHasOneHolder
  /\ Targets
  /\ OpenTurnIsBare
  /\ SlotNamesRun
  /\ FoldersAreMinted

-----------------------------------------------------------------------------
(* What the writers of the store do to a thread                            *)

\* Overwriting a turn that is there changes that turn and nothing else.
LEMMA OverwriteTurn ==
  ASSUME StoreTypeOK, NEW t \in Thread, NEW n \in Nat, NEW x \in TurnState,
         CompleteTurn(t, n, x)
  PROVE  /\ turns' \in [Thread -> Seq(TurnState)]
         /\ \A u \in Thread : u # t => turns'[u] = turns[u]
         /\ Len(turns'[t]) = Len(turns[t])
         /\ turns'[t] # <<>>
         /\ turns'[t][n] = x
         /\ \A i \in 1..Len(turns[t]) : i # n => turns'[t][i] = turns[t][i]
<1>1. turns[t] \in Seq(TurnState) /\ n \in 1..Len(turns[t])
  BY DEF StoreTypeOK, CompleteTurn, HasTurn
<1>2. turns'[t] = [turns[t] EXCEPT ![n] = x]
  BY DEF StoreTypeOK, CompleteTurn
<1>3. /\ turns'[t] \in Seq(TurnState)
      /\ Len(turns'[t]) = Len(turns[t])
      /\ \A i \in 1..Len(turns[t]) :
           turns'[t][i] = IF i = n THEN x ELSE turns[t][i]
  BY <1>1, <1>2, ExceptSeq
<1>4. turns'[t] # <<>>
  BY <1>1, <1>3
<1>5. /\ turns' \in [Thread -> Seq(TurnState)]
      /\ \A u \in Thread : u # t => turns'[u] = turns[u]
  BY <1>2, <1>3 DEF StoreTypeOK, CompleteTurn
<1> QED
  BY <1>1, <1>3, <1>4, <1>5

\* Appending a placeholder keeps the turns there were.
LEMMA AppendTurn ==
  ASSUME StoreTypeOK, NEW t \in Thread,
         turns' = [turns EXCEPT ![t] = Append(@, "reserved")]
  PROVE  /\ turns' \in [Thread -> Seq(TurnState)]
         /\ \A u \in Thread : u # t => turns'[u] = turns[u]
         /\ Len(turns'[t]) = Len(turns[t]) + 1
         /\ turns'[t] # <<>>
         /\ turns'[t][Len(turns'[t])] = "reserved"
         /\ \A i \in 1..Len(turns[t]) : turns'[t][i] = turns[t][i]
<1>1. turns[t] \in Seq(TurnState) /\ "reserved" \in TurnState
  BY DEF StoreTypeOK, TurnState
<1>2. turns'[t] = Append(turns[t], "reserved")
  BY DEF StoreTypeOK
<1>3. /\ turns'[t] \in Seq(TurnState)
      /\ Len(turns'[t]) = Len(turns[t]) + 1
      /\ \A i \in 1..Len(turns[t]) : turns'[t][i] = turns[t][i]
      /\ turns'[t][Len(turns[t]) + 1] = "reserved"
      /\ turns'[t] # <<>>
  BY <1>1, <1>2, AppendProperties
<1> QED
  BY <1>3 DEF StoreTypeOK

\* A folder that is there has a last turn.
LEMMA LastIsATurn ==
  ASSUME StoreTypeOK, NEW t \in Thread, Exists(t)
  PROVE  Len(turns[t]) \in 1..Len(turns[t]) /\ Len(turns[t]) \in Nat
<1>1. turns[t] \in Seq(TurnState) /\ turns[t] # <<>>
  BY DEF StoreTypeOK, Exists
<1> QED
  BY <1>1, EmptySeq, LenProperties

-----------------------------------------------------------------------------
(* What a step of one request leaves of the others                          *)

\* A request that holds the slot before and after its step, or neither before
\* nor after, disturbs nobody as long as no slot is taken or given back.
LEMMA HoldersKept ==
  ASSUME RequestsTypeOK, SlotHasOneHolder, NEW r \in Request,
         \A q \in Request : q # r => req'[q] = req[q],
         Holder(r)' <=> Holder(r),
         Holder(r) => req'[r].key = req[r].key,
         \A k \in Scope : Held(k)' <=> Held(k)
  PROVE  SlotHasOneHolder'
<1>1. \A q \in Request : Holder(q)' <=> Holder(q)
  BY DEF Holder
<1>2. \A q \in Request : Holder(q) => req'[q].key = req[q].key
  OBVIOUS
<1> QED
  BY <1>1, <1>2 DEF SlotHasOneHolder

\* Taking a free slot makes its taker the one holder.
LEMMA TakenByOne ==
  ASSUME RequestsTypeOK, SlotHasOneHolder, NEW r \in Request, NEW k \in Scope,
         NEW name \in Thread \cup {Blank}, take(k, name),
         \A q \in Request : q # r => req'[q] = req[q],
         ~Holder(r), Holder(r)', req'[r].key = k
  PROVE  SlotHasOneHolder' /\ TrackerTypeOK'
<1>1. ~Held(k) /\ Held(k)' /\ \A j \in Scope : j # k => (Held(j)' <=> Held(j))
  BY IdAssumption DEF take, Held, RequestsTypeOK, TrackerTypeOK, Blank, Free
<1>2. \A q \in Request : q # r => (Holder(q)' <=> Holder(q)) /\ req'[q].key = req[q].key
  BY DEF Holder
<1>3. \A q \in Request : Holder(q) => req[q].key # k
  BY <1>1 DEF SlotHasOneHolder
<1>4. TrackerTypeOK'
  BY DEF take, RequestsTypeOK, TrackerTypeOK
<1>5. \A q, s \in Request :
        Holder(q)' /\ Holder(s)' /\ req'[q].key = req'[s].key => q = s
  BY <1>2, <1>3 DEF SlotHasOneHolder
<1>6. \A j \in Scope :
        Held(j)' <=> \E q \in Request : Holder(q)' /\ req'[q].key = j
  BY <1>1, <1>2 DEF SlotHasOneHolder
<1> QED
  BY <1>4, <1>5, <1>6 DEF SlotHasOneHolder

\* Giving a slot back leaves it with nobody.
LEMMA ReleasedByOne ==
  ASSUME RequestsTypeOK, SlotHasOneHolder, NEW r \in Request, Holder(r),
         NEW k \in Scope, req[r].key = k, done(k),
         \A q \in Request : q # r => req'[q] = req[q],
         ~Holder(r)'
  PROVE  SlotHasOneHolder' /\ TrackerTypeOK'
<1>1. ~Held(k)' /\ \A j \in Scope : j # k => (Held(j)' <=> Held(j))
  BY DEF done, Held, RequestsTypeOK, TrackerTypeOK
<1>2. \A q \in Request : q # r => (Holder(q)' <=> Holder(q)) /\ req'[q].key = req[q].key
  BY DEF Holder
<1>3. \A q \in Request : Holder(q) /\ req[q].key = k => q = r
  BY DEF SlotHasOneHolder
<1>4. TrackerTypeOK'
  BY DEF done, RequestsTypeOK, TrackerTypeOK
<1>5. \A j \in Scope :
        Held(j)' <=> \E q \in Request : Holder(q)' /\ req'[q].key = j
  BY <1>1, <1>2, <1>3 DEF SlotHasOneHolder
<1> QED
  BY <1>2, <1>4, <1>5 DEF SlotHasOneHolder

\* Nobody else has a turn open in the scope of a request that holds the slot.
LEMMA NobodyElseOpen ==
  ASSUME SlotHasOneHolder, Targets, NEW r \in Request, Holder(r),
         NEW q \in Request, req[q].pc \in {"reserved", "running"},
         ScopeOf[req[q].thr] = req[r].key
  PROVE  q = r
<1>1. Holder(q) /\ req[q].key = req[r].key
  BY DEF Holder, Holding, Targets
<1> QED
  BY <1>1 DEF SlotHasOneHolder

-----------------------------------------------------------------------------
(* The shared steps preserve the invariant                                 *)

\* A step that changes one request and cards at most.
LEMMA WalkKeeps ==
  ASSUME SharedInv, NEW r \in Request, NEW x \in RequestState,
         req' = [req EXCEPT ![r] = x], UNCHANGED <<turns, minted, slots>>,
         cards' \in [Card -> CardState],
         faults' \in 0..MaxFaults,
         Holder(r)' <=> Holder(r),
         Holder(r) => x.key = req[r].key,
         x.pc # "idle" => x.key \in Scope,
         x.pc \in {"checked", "retaken", "rechecked", "deleting"} => x.thr \in Thread,
         x.thr \in Thread => ScopeOf[x.thr] = x.key,
         x.pc \notin {"reserved", "running"}
  PROVE  SharedInv'
<1> USE DEF SharedInv
<1>1. /\ req' \in [Request -> RequestState]
      /\ req'[r] = x
      /\ \A q \in Request : q # r => req'[q] = req[q]
  BY DEF RequestsTypeOK
<1>2. RequestsTypeOK'
  BY <1>1 DEF RequestsTypeOK, StoreTypeOK, TrackerTypeOK
<1>3. SlotHasOneHolder'
  <2>1. \A k \in Scope : Held(k)' <=> Held(k)
    BY DEF Held
  <2> QED
    BY <1>1, <2>1, HoldersKept
<1>4. Targets'
  BY <1>1 DEF Targets, At
<1>5. OpenTurnIsBare'
  BY <1>1 DEF OpenTurnIsBare, Exists, LastTurn
<1>6. SlotNamesRun'
  BY <1>1 DEF SlotNamesRun, At
<1>7. FoldersAreMinted'
  BY DEF FoldersAreMinted, Exists
<1> QED
  BY <1>2, <1>3, <1>4, <1>5, <1>6, <1>7

\* A step that takes a slot and changes one request.
LEMMA TakeKeeps ==
  ASSUME SharedInv, NEW r \in Request, NEW x \in RequestState, NEW k \in Scope,
         NEW name \in Thread \cup {Blank}, take(k, name),
         req' = [req EXCEPT ![r] = x], UNCHANGED <<storeVars, faults>>,
         ~Holder(r), x.pc \in {"taken", "retaken", "applying"}, x.key = k,
         x.pc = "retaken" => x.thr \in Thread,
         x.thr \in Thread => ScopeOf[x.thr] = k
  PROVE  SharedInv'
<1> USE DEF SharedInv
<1>1. /\ req' \in [Request -> RequestState]
      /\ req'[r] = x
      /\ \A q \in Request : q # r => req'[q] = req[q]
  BY DEF RequestsTypeOK
<1>2. SlotHasOneHolder' /\ TrackerTypeOK'
  <2>1. Holder(r)'
    BY <1>1 DEF Holder, Holding
  <2> QED
    BY <1>1, <2>1, TakenByOne
<1>3. RequestsTypeOK'
  BY <1>1, <1>2 DEF RequestsTypeOK, StoreTypeOK, storeVars
<1>4. Targets'
  BY <1>1 DEF Targets, At
<1>5. OpenTurnIsBare'
  BY <1>1 DEF OpenTurnIsBare, Exists, LastTurn, storeVars
<1>6. SlotNamesRun'
  <2>1. \A q \in Request : At(q, "running") => req[q].key \in Scope /\ req[q].key # k
    <3>1. ~Held(k)
      BY DEF take
    <3> QED
      BY <3>1 DEF SlotHasOneHolder, Holder, Holding, At, Targets
  <2>2. \A q \in Request : At(q, "running")' => At(q, "running") /\ req'[q].key = req[q].key
                                               /\ req'[q].thr = req[q].thr
    BY <1>1 DEF At
  <2>3. \A j \in Scope : j # k => slots'[j] = slots[j]
    BY DEF take, RequestsTypeOK, TrackerTypeOK
  <2> QED
    BY <2>1, <2>2, <2>3 DEF SlotNamesRun
<1>7. FoldersAreMinted'
  BY DEF FoldersAreMinted, Exists, storeVars
<1> QED
  BY <1>2, <1>3, <1>4, <1>5, <1>6, <1>7

\* A step of the holder of a slot that writes one thread of its own scope.
LEMMA OwnThreadKeeps ==
  ASSUME SharedInv, NEW r \in Request, NEW x \in RequestState, NEW t \in Thread,
         Holder(r), x.pc \in Holding, x.key = req[r].key, x.thr = t,
         ScopeOf[t] = req[r].key,
         req' = [req EXCEPT ![r] = x], UNCHANGED <<slots, faults, cards>>,
         turns' \in [Thread -> Seq(TurnState)],
         \A u \in Thread : u # t => turns'[u] = turns[u],
         minted' \in SUBSET Thread, minted \subseteq minted', t \in minted',
         x.pc \in {"reserved", "running"} =>
           x.n = Len(turns'[t]) /\ turns'[t][Len(turns'[t])] = "reserved",
         x.pc = "running" => slots[x.key] = t
  PROVE  SharedInv'
<1> USE DEF SharedInv
<1>1. /\ req' \in [Request -> RequestState]
      /\ req'[r] = x
      /\ \A q \in Request : q # r => req'[q] = req[q]
  BY DEF RequestsTypeOK
<1>2. RequestsTypeOK'
  BY <1>1 DEF RequestsTypeOK, StoreTypeOK, TrackerTypeOK
<1>3. SlotHasOneHolder'
  <2>1. \A k \in Scope : Held(k)' <=> Held(k)
    BY DEF Held
  <2>2. Holder(r)'
    BY <1>1 DEF Holder
  <2> QED
    BY <1>1, <2>1, <2>2, HoldersKept
<1>4. Targets'
  <2>1. req[r].key \in Scope
    BY DEF Targets, Holder, Holding, At
  <2> QED
    BY <1>1, <2>1 DEF Targets, At
<1>5. OpenTurnIsBare'
  <2> SUFFICES ASSUME NEW q \in Request, req'[q].pc \in {"reserved", "running"},
                      turns'[req'[q].thr] # <<>>
               PROVE  /\ req'[q].n = Len(turns'[req'[q].thr])
                      /\ turns'[req'[q].thr][Len(turns'[req'[q].thr])] = "reserved"
    BY DEF OpenTurnIsBare, LastTurn, Exists
  <2>1. CASE q = r
    BY <1>1, <2>1
  <2>2. CASE q # r
    <3>1. req'[q] = req[q] /\ req[q].thr \in Thread /\ req[q].thr # t
      BY <1>1, <2>2, NobodyElseOpen DEF Targets
    <3> QED
      BY <3>1 DEF OpenTurnIsBare, Exists, LastTurn
  <2> QED
    BY <2>1, <2>2
<1>6. SlotNamesRun'
  BY <1>1 DEF SlotNamesRun, At
<1>7. FoldersAreMinted'
  BY DEF FoldersAreMinted, Exists
<1> QED
  BY <1>2, <1>3, <1>4, <1>5, <1>6, <1>7

\* POST of a prompt: the slot is taken under a name that may be Blank.
LEMMA TakeForTurnKeeps ==
  ASSUME SharedInv, NEW r \in Request, NEW k \in Scope,
         NEW t \in Thread \cup {Blank}, NEW name \in Thread \cup {Blank},
         TakeForTurn(r, k, t, name)
  PROVE  SharedInv'
<1> DEFINE x == [pc |-> "taken", key |-> k, thr |-> t, n |-> 0, card |-> Blank]
<1>1. x \in RequestState
  BY DEF RequestState, PC, Holding
<1>2. ~Holder(r)
  BY DEF TakeForTurn, At, Holder, Holding
<1>3. t \in Thread => ScopeOf[t] = k
  BY IdAssumption DEF TakeForTurn, Blank
<1>4. take(k, name) /\ req' = [req EXCEPT ![r] = x] /\ UNCHANGED <<storeVars, faults>>
  BY DEF TakeForTurn, Begin
<1> QED
  BY <1>1, <1>2, <1>3, <1>4, TakeKeeps

\* The first turn of a new thread.
LEMMA ReserveNewKeeps ==
  ASSUME SharedInv, NEW r \in Request, ReserveNew(r)
  PROVE  SharedInv'
<1>1. PICK t \in Thread :
        /\ ScopeOf[t] = req[r].key
        /\ ReserveNewThread(t)
        /\ req' = [req EXCEPT ![r].pc = "reserved", ![r].thr = t, ![r].n = 1]
  BY DEF ReserveNew
<1> DEFINE x == [req[r] EXCEPT !.pc = "reserved", !.thr = t, !.n = 1]
<1>2. Holder(r) /\ req[r] \in RequestState
  BY DEF ReserveNew, At, Holder, Holding, SharedInv, RequestsTypeOK
<1>3. x \in RequestState /\ req' = [req EXCEPT ![r] = x]
  BY <1>1, <1>2 DEF RequestState, PC, Holding, SharedInv, RequestsTypeOK
<1>4. x.pc = "reserved" /\ x.thr = t /\ x.n = 1 /\ x.key = req[r].key
  BY <1>2 DEF RequestState
<1>5. /\ turns' \in [Thread -> Seq(TurnState)]
      /\ \A u \in Thread : u # t => turns'[u] = turns[u]
      /\ turns'[t] = <<"reserved">>
      /\ minted' = minted \cup {t}
  BY <1>1 DEF ReserveNewThread, SharedInv, RequestsTypeOK, StoreTypeOK, TurnState
<1>6. Len(turns'[t]) = 1 /\ turns'[t][1] = "reserved"
  BY <1>5
<1>7. minted' \in SUBSET Thread /\ minted \subseteq minted' /\ t \in minted'
  BY <1>5 DEF SharedInv, RequestsTypeOK, StoreTypeOK
<1>8. UNCHANGED <<slots, faults, cards>>
  BY <1>1 DEF ReserveNew, ReserveNewThread
<1>9. x.pc \in Holding
  BY <1>4 DEF Holding
<1> HIDE DEF x
<1> QED
  BY <1>1, <1>2, <1>3, <1>4, <1>5, <1>6, <1>7, <1>8, <1>9, OwnThreadKeeps

\* A follow-up; where the run starts at once, the slot names the thread already.
LEMMA ReserveNextKeeps ==
  ASSUME SharedInv, NEW r \in Request, NEW next \in {"reserved", "running"},
         ReserveNext(r, next),
         next = "running" => slots[req[r].key] = req[r].thr
  PROVE  SharedInv'
<1> DEFINE t == req[r].thr
           n == Len(turns[t]) + 1
           x == [req[r] EXCEPT !.pc = next, !.n = n]
<1>1. /\ Holder(r) /\ req[r] \in RequestState /\ At(r, "taken")
      /\ t # Blank /\ ReserveFollowup(t) /\ req' = [req EXCEPT ![r] = x]
      /\ UNCHANGED <<slots, faults, cards, minted>>
  BY DEF ReserveNext, ReserveFollowup, At, Holder, Holding, SharedInv, RequestsTypeOK
<1>2. t \in Thread /\ ScopeOf[t] = req[r].key
  BY <1>1 DEF RequestState, SharedInv, Targets
<1>3. StoreTypeOK /\ t \in minted /\ minted \subseteq Thread
  BY <1>1, <1>2 DEF SharedInv, RequestsTypeOK, StoreTypeOK, FoldersAreMinted,
                    ReserveFollowup, FollowupAccepted
<1>4. /\ turns' \in [Thread -> Seq(TurnState)]
      /\ \A u \in Thread : u # t => turns'[u] = turns[u]
      /\ n = Len(turns'[t]) /\ turns'[t][Len(turns'[t])] = "reserved"
  BY <1>1, <1>2, <1>3, AppendTurn DEF ReserveFollowup
<1>5. n \in Nat
  BY <1>2, <1>3, LenProperties DEF StoreTypeOK
<1> HIDE DEF t, n
<1>6. x \in RequestState /\ x.pc = next /\ x.key = req[r].key /\ x.thr = req[r].thr /\ x.n = n
  BY <1>1, <1>5 DEF RequestState, PC, Holding
<1>7. x.pc \in Holding
  BY <1>6 DEF Holding
<1>8. x.pc = "running" => slots[x.key] = t
  BY <1>6 DEF t
<1>9. x.thr = t
  BY <1>6 DEF t
<1> HIDE DEF x
<1> QED
  BY <1>1, <1>2, <1>3, <1>4, <1>6, <1>7, <1>8, <1>9, OwnThreadKeeps

\* A retry rewrites the last turn of the thread as a bare placeholder.
LEMMA RewriteKeeps ==
  ASSUME SharedInv, NEW r \in Request, NEW next \in {"reserved", "running"},
         req[r].pc \in {"retaken", "rechecked"}, Rewrite(r, next),
         next = "running" => slots[req[r].key] = req[r].thr
  PROVE  SharedInv'
<1>1. PICK t \in Thread : t = req[r].thr
  BY DEF SharedInv, Targets
<1>2. ScopeOf[t] = req[r].key
  BY <1>1 DEF SharedInv, Targets
<1>3. StoreTypeOK /\ Exists(t) /\ t \in minted /\ minted \subseteq Thread
  BY <1>1 DEF SharedInv, RequestsTypeOK, StoreTypeOK, FoldersAreMinted, Rewrite, BeginRetry
<1>4. PICK n \in Nat : n = Len(turns[t]) /\ n \in 1..Len(turns[t])
  BY <1>3, LastIsATurn
<1>5. CompleteTurn(t, n, "reserved") /\ "reserved" \in TurnState
  BY <1>1, <1>4 DEF Rewrite, BeginRetry, CompleteTurn, HasTurn, TurnState
<1>6. /\ turns' \in [Thread -> Seq(TurnState)]
      /\ \A u \in Thread : u # t => turns'[u] = turns[u]
      /\ Len(turns'[t]) = Len(turns[t]) /\ turns'[t][n] = "reserved"
  BY <1>3, <1>5, OverwriteTurn
<1> DEFINE x == [req[r] EXCEPT !.pc = next, !.n = n]
<1>7. /\ Holder(r) /\ req[r] \in RequestState /\ req' = [req EXCEPT ![r] = x]
      /\ UNCHANGED <<cards, minted, slots, faults>>
  BY <1>1, <1>4 DEF Rewrite, BeginRetry, Holder, Holding, SharedInv, RequestsTypeOK
<1>8. x \in RequestState /\ x.pc = next /\ x.key = req[r].key /\ x.thr = t /\ x.n = n
  BY <1>1, <1>4, <1>7 DEF RequestState, PC, Holding
<1>9. x.pc \in Holding /\ (x.pc = "running" => slots[x.key] = t)
  BY <1>1, <1>8 DEF Holding
<1> HIDE DEF x
<1>10. /\ x.key = req[r].key /\ ScopeOf[t] = req[r].key
       /\ UNCHANGED <<slots, faults, cards>>
       /\ minted' \in SUBSET Thread /\ minted \subseteq minted' /\ t \in minted'
       /\ x.n = Len(turns'[t]) /\ turns'[t][Len(turns'[t])] = "reserved"
  BY <1>2, <1>3, <1>4, <1>6, <1>7, <1>8
<1> QED
  BY <1>6, <1>7, <1>8, <1>9, <1>10, OwnThreadKeeps

\* set points a held slot at the thread of its holder.
LEMMA PointKeeps ==
  ASSUME SharedInv, NEW r \in Request, Holder(r),
         NEW p \in {"running", "executing", "release"}, p = "running" => At(r, "reserved"),
         set(req[r].key, req[r].thr), GoTo(r, p), UNCHANGED <<storeVars, faults>>
  PROVE  SharedInv'
<1> USE DEF SharedInv
<1>1. PICK k \in Scope : k = req[r].key
  BY DEF Holder, Holding, At, Targets
<1>2. Held(k) /\ req[r].thr \in Thread \cup {Blank} /\ (At(r, "reserved") => req[r].thr \in Thread)
  BY <1>1 DEF At, SlotHasOneHolder, Targets, RequestsTypeOK, RequestState
<1>3. slots' = [slots EXCEPT ![k] = req[r].thr]
  BY <1>1, <1>2 DEF set
<1>4. /\ req' \in [Request -> RequestState]
      /\ req'[r].pc = p /\ req'[r].key = k
      /\ req'[r].thr = req[r].thr /\ req'[r].n = req[r].n
      /\ \A q \in Request : q # r => req'[q] = req[q]
  <2>1. p \in PC /\ req[r] \in RequestState
    BY DEF PC, Holding, RequestsTypeOK
  <2> QED
    BY <1>1, <2>1 DEF GoTo, RequestsTypeOK, RequestState
<1>5. UNCHANGED <<turns, minted, cards, faults>>
  BY DEF storeVars
<1>6. RequestsTypeOK'
  BY <1>2, <1>3, <1>4, <1>5 DEF RequestsTypeOK, StoreTypeOK, TrackerTypeOK
<1>7. SlotHasOneHolder'
  <2>1. \A j \in Scope : Held(j)' <=> Held(j)
    BY <1>2, <1>3, IdAssumption DEF Held, RequestsTypeOK, TrackerTypeOK, Blank, Free
  <2>2. Holder(r)'
    BY <1>4 DEF Holder, Holding
  <2> QED
    BY <1>1, <1>2, <1>4, <2>1, <2>2, HoldersKept
<1>8. Targets'
  BY <1>1, <1>2, <1>4 DEF Targets, At
<1>9. OpenTurnIsBare'
  <2>1. \A q \in Request :
          /\ req'[q].thr = req[q].thr /\ req'[q].n = req[q].n
          /\ req'[q].pc \in {"reserved", "running"} => req[q].pc \in {"reserved", "running"}
    BY <1>2, <1>4 DEF At
  <2> QED
    BY <2>1, <1>5 DEF OpenTurnIsBare, Exists, LastTurn
<1>10. SlotNamesRun'
  <2>1. \A q \in Request : q # r /\ At(q, "running") => req[q].key # k
    BY <1>1 DEF SlotHasOneHolder, Holder, Holding, At
  <2>2. \A q \in Request : At(q, "running") => req[q].key \in Scope
    BY DEF Targets, At
  <2> QED
    BY <1>3, <1>4, <2>1, <2>2 DEF SlotNamesRun, At, RequestsTypeOK, TrackerTypeOK
<1>11. FoldersAreMinted'
  BY <1>5 DEF FoldersAreMinted, Exists
<1> QED
  BY <1>6, <1>7, <1>8, <1>9, <1>10, <1>11

LEMMA RepointKeeps ==
  ASSUME SharedInv, NEW r \in Request, Repoint(r)
  PROVE  SharedInv'
BY PointKeeps DEF Repoint, At, Holder, Holding

\* CompleteTurn writes the outcome over the turn the run reserved.
LEMMA SettleKeeps ==
  ASSUME SharedInv, NEW r \in Request, Settle(r)
  PROVE  SharedInv'
<1>1. PICK t \in Thread : t = req[r].thr
  BY DEF SharedInv, Targets, Settle, At
<1>2. PICK n \in Nat : n = req[r].n
  BY DEF SharedInv, RequestsTypeOK, RequestState
<1>3. PICK x \in {"answered", "failed"} : CompleteTurn(t, n, x)
  BY <1>1, <1>2 DEF Settle
<1>4. StoreTypeOK /\ x \in TurnState /\ ScopeOf[t] = req[r].key
  BY <1>1 DEF SharedInv, RequestsTypeOK, TurnState, Targets
<1>5. /\ turns' \in [Thread -> Seq(TurnState)]
      /\ \A u \in Thread : u # t => turns'[u] = turns[u]
  BY <1>3, <1>4, OverwriteTurn
<1> DEFINE y == [req[r] EXCEPT !.pc = "release"]
<1>6. /\ Holder(r) /\ req[r] \in RequestState /\ req' = [req EXCEPT ![r] = y]
      /\ UNCHANGED <<slots, faults, cards, minted>>
  BY <1>3 DEF Settle, GoTo, CompleteTurn, Holder, Holding, At, SharedInv, RequestsTypeOK
<1>7. y \in RequestState /\ y.pc = "release" /\ y.key = req[r].key /\ y.thr = t
  BY <1>1, <1>6 DEF RequestState, PC, Holding
<1>8. y.pc \in Holding
  BY <1>7 DEF Holding
<1> HIDE DEF y
<1>9. minted' \in SUBSET Thread /\ minted \subseteq minted' /\ t \in minted'
  BY <1>3, <1>4, <1>6 DEF SharedInv, FoldersAreMinted, CompleteTurn, HasTurn, StoreTypeOK
<1> QED
  BY <1>4, <1>5, <1>6, <1>7, <1>8, <1>9, OwnThreadKeeps

\* Steps that move a holder on to its deferred done and change cards at most.
LEMMA GiveUpKeeps ==
  ASSUME SharedInv, NEW r \in Request, Holder(r), GoTo(r, "release"),
         UNCHANGED <<turns, minted, slots>>,
         cards' \in [Card -> CardState], faults' \in 0..MaxFaults
  PROVE  SharedInv'
<1> DEFINE x == [req[r] EXCEPT !.pc = "release"]
<1>1. req[r] \in RequestState /\ req' = [req EXCEPT ![r] = x] /\ req[r].key \in Scope
  BY DEF GoTo, Holder, Holding, At, SharedInv, RequestsTypeOK, Targets
<1>2. x \in RequestState /\ x.pc = "release" /\ x.key = req[r].key /\ x.thr = req[r].thr
  BY <1>1 DEF RequestState, PC, Holding
<1>3. x.thr \in Thread => ScopeOf[x.thr] = x.key
  BY <1>2 DEF SharedInv, Targets
<1>4. req'[r] = x
  BY <1>1 DEF SharedInv, RequestsTypeOK
<1> HIDE DEF x
<1>5. Holder(r)'
  BY <1>2, <1>4 DEF Holder, Holding
<1> QED
  BY <1>1, <1>2, <1>3, <1>5, WalkKeeps

\* A fault stays within its bound.
LEMMA FaultBound ==
  ASSUME SharedInv, Fault \/ UNCHANGED faults
  PROVE  faults' \in 0..MaxFaults
BY RequestAssumption DEF SharedInv, RequestsTypeOK, Fault

\* The deferred done gives the slot back and ends the request.
LEMMA ReleaseKeeps ==
  ASSUME SharedInv, NEW r \in Request, Release(r)
  PROVE  SharedInv'
<1> USE DEF SharedInv
<1>1. PICK k \in Scope : k = req[r].key
  BY DEF Release, At, Targets
<1>2. Holder(r) /\ done(k) /\ UNCHANGED <<turns, minted, cards, faults>>
  BY <1>1 DEF Release, Holder, Holding, At, storeVars
<1>3. IdleRequest \in RequestState /\ IdleRequest.pc = "idle" /\ IdleRequest.thr \notin Thread
  BY IdAssumption DEF IdleRequest, RequestState, PC, Blank
<1>4. /\ req' \in [Request -> RequestState]
      /\ req'[r] = IdleRequest
      /\ \A q \in Request : q # r => req'[q] = req[q]
  BY <1>3 DEF Release, Reply, RequestsTypeOK
<1>5. SlotHasOneHolder' /\ TrackerTypeOK'
  <2>1. ~Holder(r)'
    BY <1>3, <1>4 DEF Holder, Holding
  <2> QED
    BY <1>1, <1>2, <1>4, <2>1, ReleasedByOne
<1>6. RequestsTypeOK'
  BY <1>2, <1>4, <1>5 DEF RequestsTypeOK, StoreTypeOK
<1>7. Targets'
  BY <1>3, <1>4 DEF Targets, At
<1>8. OpenTurnIsBare'
  BY <1>2, <1>3, <1>4 DEF OpenTurnIsBare, Exists, LastTurn
<1>9. SlotNamesRun'
  <2>1. \A q \in Request : q # r /\ At(q, "running") => req[q].key # k /\ req[q].key \in Scope
    BY <1>1, <1>2 DEF SlotHasOneHolder, Holder, Holding, At, Targets
  <2>2. \A j \in Scope : j # k => slots'[j] = slots[j]
    BY <1>2 DEF done, RequestsTypeOK, TrackerTypeOK
  <2> QED
    BY <1>3, <1>4, <2>1, <2>2 DEF SlotNamesRun, At
<1>10. FoldersAreMinted'
  BY <1>2 DEF FoldersAreMinted, Exists
<1> QED
  BY <1>5, <1>6, <1>7, <1>8, <1>9, <1>10

\* Removing folders; the request that asked for it, if any, is answered.
LEMMA RemoveKeeps ==
  ASSUME SharedInv, NEW S, RemoveFolders(S), UNCHANGED <<slots, faults>>,
         \/ UNCHANGED req
         \/ \E r \in Request : At(r, "deleting") /\ Reply(r)
  PROVE  SharedInv'
<1> USE DEF SharedInv
<1>1. /\ turns' \in [Thread -> Seq(TurnState)]
      /\ \A t \in Thread : turns'[t] = turns[t] \/ turns'[t] = <<>>
      /\ cards' \in [Card -> CardState]
      /\ minted' = minted
  <2>1. turns' \in [Thread -> Seq(TurnState)]
    BY DEF RemoveFolders, RequestsTypeOK, StoreTypeOK
  <2>2. cards' \in [Card -> CardState]
    BY DEF RemoveFolders, RequestsTypeOK, StoreTypeOK, CardState, CardStatus
  <2> QED
    BY <2>1, <2>2 DEF RemoveFolders
<1>2. IdleRequest \in RequestState /\ IdleRequest.pc = "idle" /\ IdleRequest.thr \notin Thread
  BY IdAssumption DEF IdleRequest, RequestState, PC, Blank
<1>3. /\ req' \in [Request -> RequestState]
      /\ \A q \in Request : req'[q] = req[q] \/ (At(q, "deleting") /\ req'[q] = IdleRequest)
  BY <1>2 DEF Reply, RequestsTypeOK
<1>4. RequestsTypeOK'
  BY <1>1, <1>3 DEF RequestsTypeOK, StoreTypeOK, TrackerTypeOK
<1>5. SlotHasOneHolder'
  <2>1. \A q \in Request : (Holder(q)' <=> Holder(q)) /\ (Holder(q) => req'[q] = req[q])
    BY <1>2, <1>3 DEF Holder, Holding, At
  <2>2. \A k \in Scope : Held(k)' <=> Held(k)
    BY DEF Held
  <2> QED
    BY <2>1, <2>2 DEF SlotHasOneHolder
<1>6. Targets'
  BY <1>2, <1>3 DEF Targets, At
<1>7. OpenTurnIsBare'
  <2>1. \A q \in Request : req'[q].pc \in {"reserved", "running"} =>
          req'[q] = req[q] /\ req[q].thr \in Thread
    BY <1>2, <1>3 DEF Targets
  <2> QED
    BY <1>1, <2>1 DEF OpenTurnIsBare, Exists, LastTurn
<1>8. SlotNamesRun'
  BY <1>2, <1>3 DEF SlotNamesRun, At
<1>9. FoldersAreMinted'
  BY <1>1 DEF FoldersAreMinted, Exists
<1> QED
  BY <1>4, <1>5, <1>6, <1>7, <1>8, <1>9

\* After a restart nobody holds anything.
LEMMA RestartKeeps ==
  ASSUME SharedInv, Restart
  PROVE  SharedInv'
<1> USE DEF SharedInv
<1>1. IdleRequest \in RequestState /\ IdleRequest.pc = "idle" /\ IdleRequest.thr \notin Thread
  BY IdAssumption DEF IdleRequest, RequestState, PC, Blank
<1>2. req' \in [Request -> RequestState] /\ \A q \in Request : req'[q] = IdleRequest
  BY <1>1 DEF Restart
<1>3. RequestsTypeOK'
  BY <1>2, FaultBound DEF Restart, storeVars, RequestsTypeOK, StoreTypeOK, TrackerTypeOK
<1>4. SlotHasOneHolder'
  <2>1. \A q \in Request : ~Holder(q)'
    BY <1>1, <1>2 DEF Holder, Holding
  <2>2. \A k \in Scope : ~Held(k)'
    BY DEF Restart, Held
  <2> QED
    BY <2>1, <2>2 DEF SlotHasOneHolder
<1>5. Targets' /\ OpenTurnIsBare' /\ SlotNamesRun'
  BY <1>1, <1>2 DEF Targets, OpenTurnIsBare, SlotNamesRun, At
<1>6. FoldersAreMinted'
  BY DEF Restart, storeVars, FoldersAreMinted, Exists
<1> QED
  BY <1>3, <1>4, <1>5, <1>6

\* A delete that has passed its check.
LEMMA DeleteCheckKeeps ==
  ASSUME SharedInv, NEW r \in Request, NEW t \in Thread, DeleteCheck(r, t)
  PROVE  SharedInv'
<1> DEFINE x == [pc |-> "deleting", key |-> ScopeOf[t], thr |-> t, n |-> 0, card |-> Blank]
<1>1. x \in RequestState /\ ScopeOf[t] \in Scope
  BY IdAssumption DEF RequestState, PC, Holding
<1>2. ~Holder(r) /\ req' = [req EXCEPT ![r] = x] /\ UNCHANGED <<turns, minted, slots, cards, faults>>
  BY DEF DeleteCheck, Begin, At, Holder, Holding, storeVars
<1>3. req'[r] = x
  BY <1>2 DEF SharedInv, RequestsTypeOK
<1>4. ~Holder(r)'
  BY <1>3 DEF Holder, Holding
<1>5. cards' \in [Card -> CardState] /\ faults' \in 0..MaxFaults
  BY <1>2 DEF SharedInv, RequestsTypeOK, StoreTypeOK
<1> QED
  BY <1>1, <1>2, <1>4, <1>5, WalkKeeps

\* The initial states satisfy the invariant.
LEMMA SharedInit ==
  ASSUME RequestsInit
  PROVE  SharedInv
<1>1. IdleRequest \in RequestState /\ IdleRequest.pc = "idle" /\ IdleRequest.thr \notin Thread
  BY IdAssumption DEF IdleRequest, RequestState, PC, Blank
<1>2. NoCard \in CardState /\ \A t \in Thread : turns[t] = <<>>
  BY DEF NoCard, CardState, CardStatus, RequestsInit, EmptyStore
<1>3. RequestsTypeOK
  BY <1>1, <1>2, RequestAssumption
     DEF RequestsInit, EmptyStore, NewRunTracker, RequestsTypeOK, StoreTypeOK, TrackerTypeOK
<1>4. SlotHasOneHolder
  BY <1>1 DEF RequestsInit, NewRunTracker, SlotHasOneHolder, Holder, Holding, Held
<1>5. Targets /\ OpenTurnIsBare /\ SlotNamesRun
  BY <1>1 DEF RequestsInit, Targets, OpenTurnIsBare, SlotNamesRun, At
<1>6. FoldersAreMinted
  BY <1>2 DEF FoldersAreMinted, Exists
<1> QED
  BY <1>3, <1>4, <1>5, <1>6 DEF SharedInv

\* The invariant gives what the runs check of a run and its turn.
LEMMA SharedImplies ==
  ASSUME SharedInv
  PROVE  RequestsTypeOK /\ SlotHasOneHolder /\ RunOwnsItsTurn
BY DEF SharedInv, SlotNamesRun, OpenTurnIsBare, RunOwnsItsTurn, At

\* A step of nobody.
LEMMA SharedStutter ==
  ASSUME SharedInv, UNCHANGED requestVars
  PROVE  SharedInv'
BY DEF SharedInv, requestVars, RequestsTypeOK, StoreTypeOK, TrackerTypeOK, SlotHasOneHolder,
       Holder, Held, Targets, At, OpenTurnIsBare, Exists, LastTurn, SlotNamesRun, FoldersAreMinted

-----------------------------------------------------------------------------
(* The open turns of SerialChat                                            *)

OpenPC == {"reserved", "running"}

\* What a scope has open, spelled out.
LEMMA OpenTurnsOf ==
  ASSUME NEW k \in Scope, NEW p
  PROVE  p \in openTurns[k] <=>
           \E r \in Request : req[r].key = k /\ req[r].pc \in OpenPC /\ p = <<req[r].thr, req[r].n>>
BY DEF openTurns, OpenPC

LEMMA OpenTurnsOfNext ==
  ASSUME NEW k \in Scope, NEW p
  PROVE  p \in openTurns'[k] <=>
           \E r \in Request : req'[r].key = k /\ req'[r].pc \in OpenPC /\ p = <<req'[r].thr, req'[r].n>>
BY DEF openTurns, OpenPC

\* Two functions on Scope that have the same members everywhere are the same.
LEMMA OpenTurnsEqual ==
  ASSUME NEW f, f = [k \in Scope |-> f[k]],
         \A k \in Scope : \A p : p \in openTurns'[k] <=> p \in f[k]
  PROVE  openTurns' = f
<1>1. openTurns' = [k \in Scope |-> openTurns'[k]]
  BY DEF openTurns
<1>2. \A k \in Scope : openTurns'[k] = f[k]
  OBVIOUS
<1> QED
  BY <1>1, <1>2

\* Requests that open nothing and settle nothing.
LEMMA OpenTurnsSame ==
  ASSUME \A r \in Request :
           \/ req'[r].key = req[r].key /\ req'[r].thr = req[r].thr /\ req'[r].n = req[r].n
              /\ (req'[r].pc \in OpenPC <=> req[r].pc \in OpenPC)
           \/ req[r].pc \notin OpenPC /\ req'[r].pc \notin OpenPC
  PROVE  UNCHANGED openTurns
<1>1. openTurns = [k \in Scope |-> openTurns[k]]
  BY DEF openTurns
<1>2. ASSUME NEW k \in Scope, NEW p PROVE p \in openTurns'[k] <=> p \in openTurns[k]
  BY OpenTurnsOf, OpenTurnsOfNext
<1> QED
  BY <1>1, <1>2, OpenTurnsEqual

\* A holder that opens turn n of t: nothing was open in its scope.
LEMMA OpenTurnsStart ==
  ASSUME SharedInv, NEW r \in Request, NEW k \in Scope, NEW t, NEW n,
         Holder(r), req[r].key = k, req[r].pc \notin OpenPC,
         req'[r].pc \in OpenPC, req'[r].key = k, req'[r].thr = t, req'[r].n = n,
         \A q \in Request : q # r => req'[q] = req[q]
  PROVE  openTurns[k] = {} /\ openTurns' = [openTurns EXCEPT ![k] = {<<t, n>>}]
<1>1. \A q \in Request : q # r /\ req[q].pc \in OpenPC => req[q].key # k
  BY DEF SharedInv, SlotHasOneHolder, Holder, Holding, OpenPC
<1>2. openTurns[k] = {}
  BY <1>1, OpenTurnsOf
<1> DEFINE f == [openTurns EXCEPT ![k] = {<<t, n>>}]
<1>3. /\ f = [j \in Scope |-> f[j]] /\ f[k] = {<<t, n>>}
      /\ \A j \in Scope : j # k => f[j] = openTurns[j]
  BY DEF openTurns
<1> HIDE DEF f
<1>4. ASSUME NEW j \in Scope, NEW p PROVE p \in openTurns'[j] <=> p \in f[j]
  <2>1. CASE j = k
    BY <1>1, <1>3, <2>1, OpenTurnsOfNext
  <2>2. CASE j # k
    BY <1>3, <2>2, OpenTurnsOf, OpenTurnsOfNext
  <2> QED
    BY <2>1, <2>2
<1>5. openTurns' = f
  BY <1>3, <1>4, OpenTurnsEqual
<1> QED
  BY <1>2, <1>5 DEF f

\* A holder that settles its turn leaves its scope with nothing open.
LEMMA OpenTurnsEnd ==
  ASSUME SharedInv, NEW r \in Request, NEW k \in Scope,
         req[r].key = k, req[r].pc \in OpenPC, req'[r].pc \notin OpenPC,
         \A q \in Request : q # r => req'[q] = req[q]
  PROVE  /\ openTurns[k] = {<<req[r].thr, req[r].n>>}
         /\ openTurns' = [openTurns EXCEPT ![k] = {}]
<1>1. \A q \in Request : q # r /\ req[q].pc \in OpenPC => req[q].key # k
  BY DEF SharedInv, SlotHasOneHolder, Holder, Holding, OpenPC
<1>2. openTurns[k] = {<<req[r].thr, req[r].n>>}
  BY <1>1, OpenTurnsOf
<1> DEFINE f == [openTurns EXCEPT ![k] = {}]
<1>3. /\ f = [j \in Scope |-> f[j]] /\ f[k] = {}
      /\ \A j \in Scope : j # k => f[j] = openTurns[j]
  BY DEF openTurns
<1> HIDE DEF f
<1>4. ASSUME NEW j \in Scope, NEW p PROVE p \in openTurns'[j] <=> p \in f[j]
  <2>1. CASE j = k
    BY <1>1, <1>3, <2>1, OpenTurnsOfNext
  <2>2. CASE j # k
    BY <1>3, <2>2, OpenTurnsOf, OpenTurnsOfNext
  <2> QED
    BY <2>1, <2>2
<1>5. openTurns' = f
  BY <1>3, <1>4, OpenTurnsEqual
<1> QED
  BY <1>2, <1>5 DEF f

\* A reservation, of a first turn or a follow-up, opens a turn.
LEMMA ReserveOpens ==
  ASSUME SharedInv, NEW r \in Request, NEW next \in OpenPC,
         ReserveNew(r) \/ ReserveNext(r, next)
  PROVE  \E k \in Scope, t \in Thread :
           /\ openTurns[k] = {}
           /\ ScopeOf[t] = k
           /\ turns' = [turns EXCEPT ![t] = Append(@, "reserved")]
           /\ openTurns' = [openTurns EXCEPT ![k] = {<<t, Len(turns[t]) + 1>>}]
<1>1. PICK k \in Scope : k = req[r].key
  BY DEF ReserveNew, ReserveNext, At, SharedInv, Targets
<1>2. Holder(r) /\ req[r].pc \notin OpenPC /\ req[r] \in RequestState
  BY DEF ReserveNew, ReserveNext, At, Holder, Holding, OpenPC, SharedInv, RequestsTypeOK
<1>3. \A q \in Request : q # r => req'[q] = req[q]
  BY DEF ReserveNew, ReserveNext, SharedInv, RequestsTypeOK
<1>4. CASE ReserveNew(r)
  <2>1. PICK t \in Thread :
          /\ ScopeOf[t] = k
          /\ t \notin minted
          /\ turns' = [turns EXCEPT ![t] = <<"reserved">>]
          /\ req' = [req EXCEPT ![r].pc = "reserved", ![r].thr = t, ![r].n = 1]
    BY <1>1, <1>4 DEF ReserveNew, ReserveNewThread
  <2>2. turns[t] = <<>>
    BY <2>1 DEF SharedInv, FoldersAreMinted, Exists
  <2>3. Len(turns[t]) + 1 = 1 /\ Append(turns[t], "reserved") = <<"reserved">>
    BY <2>2
  <2>4. turns' = [turns EXCEPT ![t] = Append(@, "reserved")]
    BY <2>1, <2>3
  <2>5. req'[r].pc = "reserved" /\ req'[r].key = k /\ req'[r].thr = t /\ req'[r].n = 1
    BY <1>1, <1>2, <2>1 DEF SharedInv, RequestsTypeOK, RequestState
  <2>6. openTurns[k] = {} /\ openTurns' = [openTurns EXCEPT ![k] = {<<t, 1>>}]
    BY <1>1, <1>2, <1>3, <2>5, OpenTurnsStart DEF OpenPC
  <2> QED
    BY <2>1, <2>3, <2>4, <2>6
<1>5. CASE ReserveNext(r, next)
  <2>1. PICK t \in Thread : t = req[r].thr /\ ScopeOf[t] = k
    BY <1>1, <1>2, <1>5 DEF ReserveNext, RequestState, SharedInv, Targets
  <2>2. /\ turns' = [turns EXCEPT ![t] = Append(@, "reserved")]
        /\ req' = [req EXCEPT ![r].pc = next, ![r].n = Len(turns[t]) + 1]
    BY <1>5, <2>1 DEF ReserveNext, ReserveFollowup
  <2>3. PICK n : n = Len(turns[t]) + 1
    OBVIOUS
  <2>4. req'[r].pc = next /\ req'[r].key = k /\ req'[r].thr = t /\ req'[r].n = n
    BY <1>1, <1>2, <2>1, <2>2, <2>3 DEF SharedInv, RequestsTypeOK, RequestState
  <2>5. openTurns[k] = {} /\ openTurns' = [openTurns EXCEPT ![k] = {<<t, n>>}]
    BY <1>1, <1>2, <1>3, <2>4, OpenTurnsStart
  <2> QED
    BY <2>1, <2>2, <2>3, <2>5
<1> QED
  BY <1>4, <1>5

\* A retry that rewrites the last turn opens it again.
LEMMA RewriteReopens ==
  ASSUME SharedInv, NEW r \in Request, NEW next \in OpenPC,
         req[r].pc \in {"retaken", "rechecked"}, Rewrite(r, next)
  PROVE  \E k \in Scope, t \in Thread :
           /\ t = req[r].thr
           /\ openTurns[k] = {}
           /\ ScopeOf[t] = k
           /\ turns[t] # <<>>
           /\ turns[t][Len(turns[t])] \in TurnState
           /\ turns' = [turns EXCEPT ![t][Len(turns[t])] = "reserved"]
           /\ openTurns' = [openTurns EXCEPT ![k] = {<<t, Len(turns[t])>>}]
<1>1. PICK k \in Scope : k = req[r].key
  BY DEF At, SharedInv, Targets
<1>2. PICK t \in Thread : t = req[r].thr /\ ScopeOf[t] = k
  BY <1>1 DEF SharedInv, Targets
<1>3. Holder(r) /\ req[r].pc \notin OpenPC /\ req[r] \in RequestState
  BY DEF Holder, Holding, OpenPC, SharedInv, RequestsTypeOK
<1>4. \A q \in Request : q # r => req'[q] = req[q]
  BY DEF Rewrite, SharedInv, RequestsTypeOK
<1>5. turns[t] # <<>> /\ turns' = [turns EXCEPT ![t][Len(turns[t])] = "reserved"]
  BY <1>2 DEF Rewrite, BeginRetry, Exists
<1>6. turns[t][Len(turns[t])] \in TurnState
  <2>1. turns[t] \in Seq(TurnState) /\ Len(turns[t]) \in 1..Len(turns[t])
    BY <1>5, LastIsATurn DEF SharedInv, RequestsTypeOK, StoreTypeOK, Exists
  <2> QED
    BY <2>1, ElementOfSeq
<1>7. PICK n : n = Len(turns[t])
  OBVIOUS
<1>8. req'[r].pc \in OpenPC /\ req'[r].key = k /\ req'[r].thr = t /\ req'[r].n = n
  BY <1>1, <1>2, <1>3, <1>7 DEF Rewrite, SharedInv, RequestsTypeOK, RequestState
<1>9. openTurns[k] = {} /\ openTurns' = [openTurns EXCEPT ![k] = {<<t, n>>}]
  BY <1>1, <1>3, <1>4, <1>8, OpenTurnsStart
<1> QED
  BY <1>2, <1>5, <1>6, <1>7, <1>9

\* The outcome of a run closes the turn that was opened.
LEMMA SettleCloses ==
  ASSUME SharedInv, NEW r \in Request, Settle(r)
  PROVE  \E k \in Scope, t \in Thread :
           /\ <<t, Len(turns[t])>> \in openTurns[k]
           /\ turns[t] # <<>>
           /\ turns[t][Len(turns[t])] = "reserved"
           /\ \E outcome \in {"answered", "failed"} :
                turns' = [turns EXCEPT ![t][Len(turns[t])] = outcome]
           /\ openTurns' = [openTurns EXCEPT ![k] = {}]
<1>1. PICK k \in Scope : k = req[r].key
  BY DEF Settle, At, SharedInv, Targets
<1>2. PICK t \in Thread : t = req[r].thr
  BY DEF Settle, At, SharedInv, Targets
<1>3. req[r].pc \in OpenPC /\ At(r, "running")
  BY DEF Settle, At, OpenPC
<1>4. /\ \A q \in Request : q # r => req'[q] = req[q]
      /\ req'[r].pc \notin OpenPC
  BY DEF Settle, GoTo, OpenPC, SharedInv, RequestsTypeOK, RequestState
<1>5. /\ Exists(t) /\ req[r].n = Len(turns[t]) /\ turns[t][Len(turns[t])] = "reserved"
  <2>1. Exists(t)
    BY <1>2 DEF Settle, CompleteTurn, HasTurn
  <2> QED
    BY <1>2, <1>3, <2>1 DEF SharedInv, OpenTurnIsBare, LastTurn, OpenPC
<1>6. \E outcome \in {"answered", "failed"} :
        turns' = [turns EXCEPT ![t][Len(turns[t])] = outcome]
  BY <1>2, <1>5 DEF Settle, CompleteTurn
<1>7. /\ openTurns[k] = {<<t, Len(turns[t])>>}
      /\ openTurns' = [openTurns EXCEPT ![k] = {}]
  BY <1>1, <1>2, <1>3, <1>4, <1>5, OpenTurnsEnd
<1> QED
  BY <1>5, <1>6, <1>7 DEF Exists

\* A run whose outcome cannot be stored gives its turn up.
LEMMA SettleFailsAbandons ==
  ASSUME SharedInv, NEW r \in Request, SettleFails(r)
  PROVE  UNCHANGED turns /\ \E k \in Scope :
           openTurns[k] # {} /\ openTurns' = [openTurns EXCEPT ![k] = {}]
<1>1. PICK k \in Scope : k = req[r].key
  BY DEF SettleFails, At, SharedInv, Targets
<1>2. /\ req[r].pc \in OpenPC
      /\ \A q \in Request : q # r => req'[q] = req[q]
      /\ req'[r].pc \notin OpenPC
  BY DEF SettleFails, At, GoTo, OpenPC, SharedInv, RequestsTypeOK, RequestState
<1>3. req[r].key = k
  BY <1>1
<1> HIDE <1>1
<1>4. /\ openTurns[k] = {<<req[r].thr, req[r].n>>}
      /\ openTurns' = [openTurns EXCEPT ![k] = {}]
  BY <1>2, <1>3, OpenTurnsEnd
<1>5. openTurns[k] # {} /\ openTurns' = [openTurns EXCEPT ![k] = {}]
  BY <1>4
<1> QED
  BY <1>5 DEF SettleFails, storeVars

\* After a restart nothing is open.
LEMMA RestartAbandons ==
  ASSUME SharedInv, Restart
  PROVE  UNCHANGED turns /\ openTurns' = [k \in Scope |-> {}]
<1>1. \A r \in Request : req'[r].pc = "idle"
  BY DEF Restart, IdleRequest
<1> DEFINE f == [k \in Scope |-> {}]
<1>2. ASSUME NEW k \in Scope, NEW p PROVE p \in openTurns'[k] <=> p \in f[k]
  BY <1>1, OpenTurnsOfNext DEF OpenPC
<1>3. openTurns' = f
  BY <1>2, OpenTurnsEqual
<1> QED
  BY <1>3 DEF Restart, storeVars

\* At the start nothing is open.
LEMMA NothingOpenAtFirst ==
  ASSUME RequestsInit
  PROVE  turns = [t \in Thread |-> <<>>] /\ openTurns = [k \in Scope |-> {}]
<1>1. \A r \in Request : req[r].pc = "idle"
  BY DEF RequestsInit, IdleRequest
<1>2. \A k \in Scope : openTurns[k] = {}
  BY <1>1, OpenTurnsOf DEF OpenPC
<1> QED
  BY <1>2 DEF RequestsInit, EmptyStore, openTurns

\* Removing folders is Remove, whatever is open.
LEMMA RemoveRemoves ==
  ASSUME SharedInv, NEW S, RemoveFolders(S),
         UNCHANGED req \/ \E r \in Request : At(r, "deleting") /\ Reply(r)
  PROVE  /\ UNCHANGED openTurns
         /\ \E U \in SUBSET Thread :
              turns' = [t \in Thread |-> IF t \in U THEN <<>> ELSE turns[t]]
<1>1. \A q \in Request :
        req'[q] = req[q] \/ (req[q].pc \notin OpenPC /\ req'[q].pc \notin OpenPC)
  BY DEF Reply, At, IdleRequest, OpenPC, SharedInv, RequestsTypeOK
<1>2. UNCHANGED openTurns
  BY <1>1, OpenTurnsSame
<1>3. PICK U \in SUBSET Thread : U = S \cap Thread
  OBVIOUS
<1>4. turns' = [t \in Thread |-> IF t \in U THEN <<>> ELSE turns[t]]
  BY <1>3 DEF RemoveFolders
<1> QED
  BY <1>2, <1>4

=============================================================================
