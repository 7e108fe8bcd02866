------------------------------ MODULE ServicesProofs ------------------------------
(***************************************************************************)
(* The smaller components, each for every value of its constants: the      *)
(* input channel and the frames of a terminal bridge, the two files of the *)
(* push store, the events that a follower of the audit log is given, the   *)
(* lines that a tail of the observability log is given, the requests and   *)
(* transcripts of the agent loop, and the lines that references are given. *)
(***************************************************************************)
EXTENDS MCServices, FiniteSetTheorems, SequenceTheorems, WellFoundedInduction, TLAPS

-----------------------------------------------------------------------------
(* Bounded sets of numbers                                                 *)

\* The greatest of a bounded set of numbers is its Max.
LEMMA MaxIs ==
  ASSUME NEW b \in Nat, NEW S \in SUBSET (0..b), S # {}
  PROVE  Max(S) \in S /\ \A y \in S : y <= Max(S)
<1> DEFINE T == {n \in Nat : \E x \in S : n = b - x}
<1>1. T \subseteq Nat /\ T # {}
  <2>1. PICK x \in S : TRUE
    OBVIOUS
  <2>2. b - x \in T
    BY <2>1
  <2> QED
    BY <2>2
<1>2. PICK n \in T : \A k \in T : ~(<<k, n>> \in OpToRel(<, Nat))
  BY <1>1, NatLessThanWellFounded, WFMin
<1>3. \A k \in T : ~(k < n)
  BY <1>2 DEF OpToRel
<1>4. PICK x \in S : n = b - x
  BY <1>2
<1>5. \A y \in S : x >= y
  <2>1. TAKE y \in S
  <2>2. b - y \in T
    OBVIOUS
  <2> QED
    BY <1>3, <1>4, <2>2
<1> QED
  BY <1>5 DEF Max

\* The least of a set of numbers is its Min.
LEMMA MinIs ==
  ASSUME NEW S \in SUBSET Nat, S # {}
  PROVE  Min(S) \in S /\ \A y \in S : Min(S) <= y
<1>1. PICK x \in S : \A k \in S : ~(<<k, x>> \in OpToRel(<, Nat))
  BY NatLessThanWellFounded, WFMin
<1>2. \A y \in S : x <= y
  <2>1. TAKE y \in S
  <2>2. x \in Nat /\ y \in Nat
    OBVIOUS
  <2>3. ~(y < x)
    BY <1>1, <2>2 DEF OpToRel
  <2> QED
    BY <2>2, <2>3
<1> QED
  BY <1>2 DEF Min

Below(S, n) == {m \in S : m < n}

\* A page of the first elements of a set has no gap.
LEMMA FirstOnes ==
  ASSUME NEW b \in Nat, NEW S \in SUBSET (0..b), NEW n \in S, NEW k \in S, k <= n,
         NEW limit \in Nat, Cardinality(Below(S, n)) < limit
  PROVE  Cardinality(Below(S, k)) < limit
<1>1. Below(S, n) \subseteq 0..b /\ IsFiniteSet(0..b)
  <2>1. \A m \in S : m \in 0..b
    OBVIOUS
  <2>2. IsFiniteSet(0..b)
    BY FS_Interval
  <2> QED
    BY <2>1, <2>2 DEF Below
<1>2. IsFiniteSet(Below(S, n))
  BY <1>1, FS_Subset
<1>3. Below(S, k) \in SUBSET Below(S, n)
  <2>1. n \in Nat /\ k \in Nat /\ \A m \in S : m \in Nat
    OBVIOUS
  <2>2. \A m \in S : m < k => m < n
    BY <2>1
  <2> QED
    BY <2>2 DEF Below
<1>4. IsFiniteSet(Below(S, k)) /\ Cardinality(Below(S, k)) <= Cardinality(Below(S, n))
  BY <1>2, <1>3, FS_Subset
<1>5. Cardinality(Below(S, k)) \in Nat /\ Cardinality(Below(S, n)) \in Nat
  BY <1>2, <1>4, FS_CardinalityType
<1> QED
  BY <1>4, <1>5

-----------------------------------------------------------------------------
(* Recursion over the places of a sequence                                 *)

\* What holds of 0 and goes on from n to n + 1 holds up to any number.
LEMMA UpTo ==
  ASSUME NEW b \in Nat, NEW S, 0 \in S, \A n \in 1..b : n - 1 \in S => n \in S
  PROVE  \A n \in 0..b : n \in S
<1> DEFINE T == {n \in Nat : n <= b /\ n \notin S}
<1>1. SUFFICES ASSUME T # {} PROVE FALSE
  OBVIOUS
<1>2. PICK n \in T : \A k \in T : ~(<<k, n>> \in OpToRel(<, Nat))
  <2>1. T \subseteq Nat
    OBVIOUS
  <2> HIDE DEF T
  <2> QED
    BY <1>1, <2>1, NatLessThanWellFounded, WFMin
<1>3. n \in Nat /\ n <= b /\ n \notin S /\ n # 0
  BY <1>2
<1>4. n - 1 \in Nat /\ n - 1 <= b /\ n - 1 < n /\ n \in 1..b
  BY <1>3
<1>5. n - 1 \in T
  BY <1>3, <1>4
<1>6. <<n - 1, n>> \in OpToRel(<, Nat)
  BY <1>3, <1>4 DEF OpToRel
<1> QED
  BY <1>2, <1>5, <1>6

\* A function that begins with a and goes on by F.
Unrolls(g, b, a, F) == g = [n \in 0..b |-> IF n = 0 THEN a ELSE F[n][g[n - 1]]]

\* It exists, where F leads from each set to the next.
LEMMA Recursion ==
  ASSUME NEW b \in Nat, NEW A, NEW a \in A[0], NEW F,
         \A n \in 1..b : \A x \in A[n - 1] : F[n][x] \in A[n]
  PROVE  \E g : Unrolls(g, b, a, F) /\ \A n \in 0..b : g[n] \in A[n]
<1> DEFINE Step(g, m) == /\ g = [n \in 0..m |-> IF n = 0 THEN a ELSE F[n][g[n - 1]]]
                         /\ \A n \in 0..m : g[n] \in A[n]
           S == {m \in 0..b : \E g : Step(g, m)}
<1>1. 0 \in S
  <2> DEFINE g == [n \in 0..0 |-> a]
  <2>1. \A n \in 0..0 : n = 0
    OBVIOUS
  <2>2. g = [n \in 0..0 |-> IF n = 0 THEN a ELSE F[n][g[n - 1]]]
    BY <2>1
  <2>3. \A n \in 0..0 : g[n] \in A[n]
    BY <2>1
  <2>4. Step(g, 0)
    BY <2>2, <2>3
  <2> HIDE DEF Step, g
  <2> QED
    BY <2>4
<1>2. ASSUME NEW m \in 1..b, m - 1 \in S PROVE m \in S
  <2>1. PICK h : Step(h, m - 1)
    BY <1>2
  <2>2. m \in Nat /\ m - 1 \in 0..(m - 1) /\ 0 \in 0..(m - 1)
    OBVIOUS
  <2>3. h[m - 1] \in A[m - 1]
    BY <2>1, <2>2
  <2> DEFINE g == [n \in 0..m |-> IF n < m THEN h[n] ELSE F[m][h[m - 1]]]
  <2>4. ASSUME NEW n \in 0..m
        PROVE  g[n] = (IF n = 0 THEN a ELSE F[n][g[n - 1]]) /\ g[n] \in A[n]
    <3>1. CASE n = m
      <4>1. n # 0 /\ ~(n < m) /\ n - 1 \in 0..m /\ n - 1 < m
        BY <2>2, <3>1
      <4>2. g[n] = F[m][h[m - 1]] /\ g[n - 1] = h[m - 1]
        BY <3>1, <4>1
      <4> QED
        BY <2>3, <3>1, <4>1, <4>2
    <3>2. CASE n = 0
      <4>1. 0 < m
        BY <2>2
      <4>2. g[0] = h[0] /\ h[0] = a
        BY <2>1, <2>2, <4>1
      <4> QED
        BY <3>2, <4>2
    <3>3. CASE n # 0 /\ n # m
      <4>1. n \in 0..(m - 1) /\ n < m /\ n - 1 \in 0..m /\ n - 1 < m
        BY <2>2, <3>3
      <4>2. g[n] = h[n] /\ g[n - 1] = h[n - 1]
        BY <4>1
      <4>3. h[n] = F[n][h[n - 1]] /\ h[n] \in A[n]
        BY <2>1, <3>3, <4>1
      <4> QED
        BY <3>3, <4>2, <4>3
    <3> QED
      BY <3>1, <3>2, <3>3
  <2>5. g = [n \in 0..m |-> g[n]]
    OBVIOUS
  <2> HIDE DEF g
  <2>6. Step(g, m)
    BY <2>4, <2>5
  <2> HIDE DEF Step
  <2> QED
    BY <2>6
<1>3. b \in S
  <2> HIDE DEF S
  <2>1. \A n \in 0..b : n \in S
    BY <1>1, <1>2, UpTo
  <2> QED
    BY <2>1
<1> QED
  BY <1>3 DEF Unrolls

-----------------------------------------------------------------------------
(* Sequences, place by place                                               *)

\* The places of two sequences, one after the other.
LEMMA ConcatAt ==
  ASSUME NEW S, NEW s \in Seq(S), NEW t \in Seq(S)
  PROVE  /\ s \o t \in Seq(S) /\ Len(s \o t) = Len(s) + Len(t)
         /\ \A i \in 1..Len(s) : (s \o t)[i] = s[i]
         /\ \A j \in 1..Len(t) : (s \o t)[Len(s) + j] = t[j]
<1>1. Len(s) \in Nat /\ Len(t) \in Nat
  OBVIOUS
<1>2. ASSUME NEW i \in 1..Len(s) PROVE (s \o t)[i] = s[i]
  <2>1. i \in 1..(Len(s) + Len(t)) /\ i <= Len(s)
    BY <1>1
  <2> QED
    BY <2>1, ConcatProperties
<1>3. ASSUME NEW j \in 1..Len(t) PROVE (s \o t)[Len(s) + j] = t[j]
  <2>1. Len(s) + j \in 1..(Len(s) + Len(t)) /\ ~(Len(s) + j <= Len(s)) /\ Len(s) + j - Len(s) = j
    BY <1>1
  <2>2. (s \o t)[Len(s) + j] = t[Len(s) + j - Len(s)]
    BY <2>1, ConcatProperties
  <2> QED
    BY <2>1, <2>2
<1> QED
  BY <1>2, <1>3, ConcatProperties

LEMMA AppendAt ==
  ASSUME NEW S, NEW s \in Seq(S), NEW e \in S
  PROVE  /\ Append(s, e) \in Seq(S) /\ Len(Append(s, e)) = Len(s) + 1
         /\ Append(s, e)[Len(s) + 1] = e
         /\ \A i \in 1..Len(s) : Append(s, e)[i] = s[i]
BY AppendProperties

LEMMA ConcatAppend ==
  ASSUME NEW S, NEW s \in Seq(S), NEW p \in Seq(S), NEW c \in S
  PROVE  s \o Append(p, c) = Append(s \o p, c)
<1> DEFINE q == Append(p, c)
           l == s \o q
           sp == s \o p
           r == Append(sp, c)
<1>1. q \in Seq(S) /\ Len(q) = Len(p) + 1 /\ q[Len(p) + 1] = c /\ \A i \in 1..Len(p) : q[i] = p[i]
  BY AppendAt
<1> HIDE DEF q
<1>2. /\ l \in Seq(S) /\ Len(l) = Len(s) + Len(q)
      /\ \A i \in 1..Len(s) : l[i] = s[i]
      /\ \A j \in 1..Len(q) : l[Len(s) + j] = q[j]
  <2>1. q \in Seq(S)
    BY <1>1
  <2> QED
    BY <2>1, ConcatAt
<1>3. /\ sp \in Seq(S) /\ Len(sp) = Len(s) + Len(p)
      /\ \A i \in 1..Len(s) : sp[i] = s[i]
      /\ \A j \in 1..Len(p) : sp[Len(s) + j] = p[j]
  BY ConcatAt
<1> HIDE DEF l, sp
<1>4. /\ r \in Seq(S) /\ Len(r) = Len(sp) + 1 /\ r[Len(sp) + 1] = c
      /\ \A i \in 1..Len(sp) : r[i] = sp[i]
  BY <1>3, AppendAt
<1> HIDE DEF r
<1>5. Len(s) \in Nat /\ Len(p) \in Nat
  OBVIOUS
<1>6. \A i \in 1..Len(l) : l[i] = r[i]
  <2>1. TAKE i \in 1..Len(l)
  <2>2. CASE i <= Len(s)
    <3>1. i \in 1..Len(s) /\ i \in 1..Len(sp)
      BY <1>1, <1>2, <1>3, <1>5, <2>2
    <3> QED
      BY <1>2, <1>3, <1>4, <3>1
  <2>3. CASE i > Len(s) /\ i <= Len(s) + Len(p)
    <3> DEFINE j == i - Len(s)
    <3>1. j \in 1..Len(p) /\ j \in 1..Len(q) /\ i \in 1..Len(sp) /\ i = Len(s) + j
      BY <1>1, <1>2, <1>3, <1>5, <2>3
    <3> HIDE DEF j
    <3> QED
      BY <1>1, <1>2, <1>3, <1>4, <3>1
  <2>4. CASE i = Len(s) + Len(p) + 1
    <3> DEFINE j == Len(p) + 1
    <3>1. j \in 1..Len(q) /\ i = Len(s) + j /\ i = Len(sp) + 1 /\ j = Len(p) + 1
      BY <1>1, <1>2, <1>3, <1>5, <2>4
    <3> HIDE DEF j
    <3> QED
      BY <1>1, <1>2, <1>4, <3>1
  <2>5. i <= Len(s) \/ (i > Len(s) /\ i <= Len(s) + Len(p)) \/ i = Len(s) + Len(p) + 1
    <3>1. Len(l) = Len(s) + Len(p) + 1
      BY <1>1, <1>2, <1>5
    <3>2. i \in 1..(Len(s) + Len(p) + 1)
      BY <3>1
    <3> QED
      BY <1>5, <3>2
  <2> QED
    BY <2>2, <2>3, <2>4, <2>5
<1>7. l = r
  <2>1. Len(l) = Len(r)
    BY <1>1, <1>2, <1>3, <1>4, <1>5
  <2> QED
    BY <1>2, <1>4, <1>6, <2>1, SeqEqual
<1> QED
  BY <1>7 DEF l, r, q, sp

-----------------------------------------------------------------------------
(* The terminal bridge                                                     *)

\* What the channel holds fits.
QueueFits == queued \in 0..QueueCap

\* The pump leaves only behind the last input.
PumpLeavesLast == pump = "done" => inputs = "closed" /\ queued = 0

BridgeInv == QueueFits /\ NoSendAfterClose /\ PumpLeavesLast

LEMMA BridgeInvInit == TerminalInit => BridgeInv
BY TerminalAssumption
   DEF TerminalInit, BridgeInv, QueueFits, NoSendAfterClose, PumpLeavesLast

\* The reader sends only before it ends, so before the channel is closed: no pump is
\* done then.
LEMMA ReaderKeeps ==
  ASSUME BridgeInv, ReadFrame \/ ReaderStep
  PROVE  BridgeInv'
<1> USE TerminalAssumption DEF BridgeInv, QueueFits, NoSendAfterClose, PumpLeavesLast
<1>1. CASE ReadFrame
  BY <1>1 DEF ReadFrame
<1>2. CASE Enqueue
  BY <1>2 DEF Enqueue
<1>3. CASE ReaderEnds
  BY <1>3 DEF ReaderEnds
<1> QED
  BY <1>1, <1>2, <1>3 DEF ReaderStep

LEMMA PumpKeeps ==
  ASSUME BridgeInv, PumpStep \/ PumpWrites
  PROVE  BridgeInv'
<1> USE TerminalAssumption DEF BridgeInv, QueueFits, NoSendAfterClose, PumpLeavesLast
<1>1. CASE PumpTakes
  BY <1>1 DEF PumpTakes
<1>2. CASE PumpWrites
  BY <1>2 DEF PumpWrites
<1>3. CASE PumpFails
  BY <1>3 DEF PumpFails
<1>4. CASE PumpEnds
  BY <1>4 DEF PumpEnds
<1> QED
  BY <1>1, <1>2, <1>3, <1>4 DEF PumpStep

\* The handler closes the channel when the reader has ended, and then only.
LEMMA HandlerKeeps ==
  ASSUME BridgeInv, AttachStarts \/ HandlerStep
  PROVE  BridgeInv'
<1> USE DEF BridgeInv, QueueFits, NoSendAfterClose, PumpLeavesLast
<1>1. CASE AttachStarts
  BY <1>1 DEF AttachStarts
<1>2. CASE SelectDone
  BY <1>2 DEF SelectDone
<1>3. CASE SelectClosed
  BY <1>3 DEF SelectClosed
<1>4. CASE CloseInputs
  BY <1>4 DEF CloseInputs
<1>5. CASE Return
  BY <1>5 DEF Return
<1> QED
  BY <1>1, <1>2, <1>3, <1>4, <1>5 DEF HandlerStep

LEMMA BridgeInvStep ==
  ASSUME BridgeInv, [TerminalNext]_bvars
  PROVE  BridgeInv'
<1> USE DEF BridgeInv, QueueFits, NoSendAfterClose, PumpLeavesLast
<1>1. CASE ReadFrame \/ ReaderStep
  BY <1>1, ReaderKeeps
<1>2. CASE PumpStep \/ PumpWrites
  BY <1>2, PumpKeeps
<1>3. CASE AttachStarts \/ HandlerStep
  BY <1>3, HandlerKeeps
<1>4. CASE BrowserLeaves
  BY <1>4 DEF BrowserLeaves
<1>5. CASE SessionEndsThere
  BY <1>5 DEF SessionEndsThere
<1>6. ASSUME NEW k \in 1..4, Output(k) PROVE BridgeInv'
  BY <1>6 DEF Output, bridge
<1>7. CASE UNCHANGED bvars
  BY <1>7 DEF bvars, bridge
<1> QED
  BY <1>1, <1>2, <1>3, <1>4, <1>5, <1>6, <1>7 DEF TerminalNext

\* runTerminal: the reader never sends on a closed channel, which would panic, however
\* the browser, the session, the pump and the handler end.
THEOREM ChannelClosedByLastSender == TerminalSpec => []NoSendAfterClose
<1>1. BridgeInv => NoSendAfterClose
  BY DEF BridgeInv
<1> QED
  BY <1>1, BridgeInvInit, BridgeInvStep, PTL DEF TerminalSpec

\* Where a frame may end.
CharEnds(st) == {e \in 0..Len(st) : e < Len(st) => st[e + 1] \notin Continuation}

\* The code's size of a byte is that of the character it starts.
LEMMA SizeIs ==
  /\ \A b \in Continuation : Size(b) = 0
  /\ \A k \in 1..4 : \A b \in Starters(k) : Size(b) = k
<1>1. \A b \in Continuation : Size(b) = 0
  BY DEF Continuation, Size
<1>2. \A b \in Starters(1) : Size(b) = 1
  BY DEF Starters, Size
<1>3. \A b \in Starters(2) : Size(b) = 2
  BY DEF Starters, Size
<1>4. \A b \in Starters(3) : Size(b) = 3
  BY DEF Starters, Size
<1>5. \A b \in Starters(4) : Size(b) = 4
  BY DEF Starters, Size
<1>6. \A k \in 1..4 : \A b \in Starters(k) : Size(b) = k
  <2>1. TAKE k \in 1..4
  <2>2. k = 1 \/ k = 2 \/ k = 3 \/ k = 4
    OBVIOUS
  <2> QED
    BY <1>2, <1>3, <1>4, <1>5, <2>2
<1> QED
  BY <1>1, <1>6

\* A byte that does not go on with a character starts one, and its size tells which.
LEMMA StartsCharacter ==
  ASSUME NEW st, WholeCharacters(st), NEW i \in 1..Len(st)
  PROVE  /\ Size(st[i]) \in 0..4
         /\ Size(st[i]) = 0 <=> st[i] \in Continuation
         /\ Size(st[i]) > 0 => CharacterAt(st, i, Size(st[i]))
<1>1. CASE st[i] \in Continuation
  <2>1. Size(st[i]) = 0
    BY <1>1, SizeIs
  <2> QED
    BY <1>1, <2>1
<1>2. CASE st[i] \notin Continuation
  <2>1. PICK k \in 1..4 : CharacterAt(st, i, k)
    BY <1>2 DEF WholeCharacters
  <2>2. Size(st[i]) = k
    BY <2>1, SizeIs DEF CharacterAt
  <2> QED
    BY <1>2, <2>1, <2>2
<1> QED
  BY <1>1, <1>2

\* splitUTF8 cuts what is held at the last end of a character.
LEMMA SplitIs ==
  ASSUME NEW st, WholeCharacters(st), NEW f \in CharEnds(st), NEW p \in f..Len(st)
  PROVE  f + SplitUTF8(SubSeq(st, f + 1, p)) = Max({e \in CharEnds(st) : e <= p})
<1> DEFINE bs == SubSeq(st, f + 1, p)
           E == {e \in CharEnds(st) : e <= p}
           starts == {i \in 1..3 : i <= Len(bs) /\ Size(bs[Len(bs) + 1 - i]) > 0}
<1>1. st \in Seq(0..255) /\ Len(st) \in Nat /\ f \in Nat /\ p \in Nat /\ f <= p /\ p <= Len(st)
  BY DEF WholeCharacters, CharEnds
<1>2. Len(bs) = p - f /\ \A j \in 1..(p - f) : bs[j] = st[f + j]
  BY <1>1
<1>3. starts \subseteq 1..3 /\ \A i \in starts : i <= p - f /\ Size(st[p + 1 - i]) > 0
  <2>1. ASSUME NEW i \in 1..3, i <= p - f
        PROVE  bs[Len(bs) + 1 - i] = st[p + 1 - i]
    <3>1. Len(bs) + 1 - i \in 1..(p - f) /\ f + (Len(bs) + 1 - i) = p + 1 - i
      BY <1>1, <1>2, <2>1
    <3> QED
      BY <1>2, <3>1
  <2> QED
    BY <1>1, <1>2, <2>1
<1>4. \A i \in 1..3 : i <= p - f /\ Size(st[p + 1 - i]) > 0 => i \in starts
  <2>1. TAKE i \in 1..3
  <2>2. HAVE i <= p - f /\ Size(st[p + 1 - i]) > 0
  <2>3. Len(bs) + 1 - i \in 1..(p - f) /\ f + (Len(bs) + 1 - i) = p + 1 - i
    BY <1>1, <1>2, <2>2
  <2> QED
    BY <1>2, <2>2, <2>3
<1>5. Max(E) \in E /\ \A e \in E : e <= Max(E)
  <2>1. f \in E /\ E \subseteq 0..Len(st)
    BY <1>1 DEF CharEnds
  <2> HIDE DEF E
  <2> QED
    BY <1>1, <2>1, MaxIs
<1> DEFINE L == Max(E)
<1>6. L \in 0..Len(st) /\ f <= L /\ L <= p /\ (L < Len(st) => st[L + 1] \notin Continuation)
  BY <1>1, <1>5 DEF CharEnds
<1>7. SplitUTF8(bs) = IF starts = {} THEN Len(bs)
                      ELSE IF Min(starts) < Size(bs[Len(bs) + 1 - Min(starts)])
                           THEN Len(bs) - Min(starts) ELSE Len(bs)
  BY DEF SplitUTF8
<1>8. \A i \in starts : bs[Len(bs) + 1 - i] = st[p + 1 - i]
  <2>1. TAKE i \in starts
  <2> HIDE DEF starts, bs
  <2>2. i \in 1..3 /\ i <= p - f
    BY <1>3
  <2>3. Len(bs) + 1 - i \in 1..(p - f) /\ f + (Len(bs) + 1 - i) = p + 1 - i
    BY <1>1, <1>2, <2>2
  <2> QED
    BY <1>2, <2>3
<1> HIDE DEF bs, E, starts, L
<1>9. CASE L = p
  \* The last byte ends a character: the last start is that of a whole one.
  <2>1. SplitUTF8(bs) = Len(bs)
    <3>1. CASE starts = {}
      BY <1>7, <3>1
    <3>2. CASE starts # {}
      <4> DEFINE i == Min(starts)
                 q == p + 1 - i
                 k == Size(st[q])
      <4>1. i \in starts /\ i \in 1..3 /\ i <= p - f /\ k > 0
        <5>1. starts \in SUBSET Nat
          BY <1>3
        <5>2. i \in starts
          BY <3>2, <5>1, MinIs
        <5> QED
          BY <1>3, <5>2
      <4> HIDE DEF i
      <4>2. q \in 1..Len(st)
        BY <1>1, <4>1
      <4>3. k \in 0..4 /\ CharacterAt(st, q, k)
        BY <4>1, <4>2, StartsCharacter
      <4> HIDE DEF k
      <4>4. q + k - 1 <= Len(st) /\ \A j \in (q + 1)..(q + k - 1) : st[j] \in Continuation
        BY <4>3 DEF CharacterAt
      <4>5. ~(p + 1 <= q + k - 1)
        <5>1. SUFFICES ASSUME p + 1 <= q + k - 1 PROVE FALSE
          OBVIOUS
        <5>2. p + 1 \in (q + 1)..(q + k - 1) /\ p < Len(st)
          BY <1>1, <4>1, <4>3, <4>4, <5>1
        <5> QED
          BY <1>6, <1>9, <4>4, <5>2
      <4>6. ~(i < k)
        BY <1>1, <4>1, <4>3, <4>5
      <4>7. bs[Len(bs) + 1 - i] = st[q]
        BY <1>8, <4>1
      <4> QED
        BY <1>7, <3>2, <4>6, <4>7 DEF i, k
    <3> QED
      BY <3>1, <3>2
  <2> QED
    BY <1>1, <1>2, <1>9, <2>1 DEF L, E, bs
<1>10. CASE L < p
  \* The character after L is not all there, and its start is the last one.
  <2> DEFINE i == p - L
             k == Size(st[L + 1])
  <2>1. L + 1 \in 1..Len(st) /\ st[L + 1] \notin Continuation /\ i \in Nat \ {0}
    BY <1>1, <1>6, <1>10
  <2>2. k \in 1..4 /\ CharacterAt(st, L + 1, k)
    BY <2>1, StartsCharacter
  <2> HIDE DEF k
  <2>3. /\ L + k <= Len(st)
        /\ \A j \in (L + 2)..(L + k) : st[j] \in Continuation
        /\ L + k + 1 <= Len(st) => st[L + k + 1] \notin Continuation
    <3>1. /\ L + 1 + k - 1 <= Len(st)
          /\ \A j \in (L + 1 + 1)..(L + 1 + k - 1) : st[j] \in Continuation
          /\ L + 1 + k <= Len(st) => st[L + 1 + k] \notin Continuation
      BY <2>2 DEF CharacterAt
    <3>2. L + 1 + k - 1 = L + k /\ L + 1 + 1 = L + 2 /\ L + 1 + k = L + k + 1
      BY <1>6, <2>2
    <3> QED
      BY <3>1, <3>2
  <2>4. i < k
    <3>1. SUFFICES ASSUME L + k <= p PROVE FALSE
      BY <1>1, <1>6, <2>2
    <3>2. L + k \in E
      <4>1. L + k \in 0..Len(st) /\ (L + k < Len(st) => L + k + 1 <= Len(st))
        BY <1>1, <1>6, <2>2, <2>3
      <4> QED
        BY <2>3, <3>1, <4>1 DEF E, CharEnds
    <3> QED
      BY <1>5, <1>6, <2>2, <3>2 DEF L
  <2>5. i \in 1..3 /\ i <= p - f /\ p + 1 - i = L + 1
    BY <1>1, <1>6, <2>1, <2>2, <2>4
  <2>6. i \in starts
    BY <1>4, <2>2, <2>5 DEF k
  <2>7. \A j \in starts : i <= j
    <3>1. TAKE j \in starts
    <3>2. SUFFICES ASSUME j < i PROVE FALSE
      BY <1>3, <2>5
    <3>3. j \in 1..3 /\ Size(st[p + 1 - j]) > 0
      BY <1>3
    <3>4. p + 1 - j \in (L + 2)..(L + k) /\ p + 1 - j \in 1..Len(st)
      BY <1>1, <1>6, <2>2, <2>4, <3>2, <3>3
    <3>5. st[p + 1 - j] \in Continuation
      BY <2>3, <3>4
    <3> QED
      BY <3>3, <3>4, <3>5, StartsCharacter
  <2>8. Min(starts) = i
    <3>1. Min(starts) \in starts /\ \A y \in starts : Min(starts) <= y
      BY <1>3, <2>6, MinIs
    <3>2. Min(starts) \in 1..3
      BY <1>3, <3>1
    <3> QED
      BY <2>5, <2>6, <2>7, <3>1, <3>2
  <2>9. bs[Len(bs) + 1 - i] = st[L + 1]
    BY <1>8, <2>5, <2>6
  <2>10. SplitUTF8(bs) = Len(bs) - i
    BY <1>7, <2>4, <2>6, <2>8, <2>9 DEF k
  <2> QED
    <3>1. f + ((p - f) - (p - L)) = L
      BY <1>1, <1>6
    <3> QED
      BY <1>2, <2>10, <3>1 DEF L, E, bs
<1> QED
  BY <1>1, <1>6, <1>9, <1>10

\* What is framed ends at a character, and is never ahead of what is printed.
OutputInv ==
  /\ stream \in Streams
  /\ printed \in 0..Len(stream)
  /\ FramesAreWhole

LEMMA FramesEnd ==
  ASSUME OutputInv
  PROVE  /\ WholeCharacters(stream)
         /\ framed \in CharEnds(stream) /\ framed <= printed
<1>1. WholeCharacters(stream)
  BY TerminalAssumption DEF OutputInv
<1>2. Len(stream) \in Nat /\ printed \in 0..Len(stream)
  BY <1>1 DEF OutputInv, WholeCharacters
<1> DEFINE E == {e \in CharEnds(stream) : e <= printed}
<1>3. framed = Max(E)
  BY DEF OutputInv, FramesAreWhole, CharEnds
<1>4. 0 \in E
  BY <1>1, <1>2 DEF CharEnds, WholeCharacters
<1>5. E \subseteq 0..Len(stream) /\ \A e \in E : e \in CharEnds(stream) /\ e <= printed
  BY DEF CharEnds
<1> HIDE DEF E
<1>6. framed \in E
  BY <1>2, <1>3, <1>4, <1>5, MaxIs
<1> QED
  BY <1>1, <1>5, <1>6

LEMMA OutputInvInit == TerminalInit => OutputInv
<1> SUFFICES ASSUME TerminalInit PROVE OutputInv
  OBVIOUS
<1>1. WholeCharacters(stream) /\ stream \in Streams /\ printed = 0 /\ framed = 0
  BY TerminalAssumption DEF TerminalInit
<1>2. Len(stream) \in Nat
  BY <1>1 DEF WholeCharacters
<1> DEFINE E == {e \in CharEnds(stream) : e <= 0}
<1>3. 0 \in E
  BY <1>1, <1>2 DEF CharEnds, WholeCharacters
<1>4. E \subseteq 0..0
  BY <1>2 DEF CharEnds
<1> HIDE DEF E
<1>5. Max(E) = 0
  <2>1. Max(E) \in E
    BY <1>3, <1>4, MaxIs
  <2>2. \A e \in 0..0 : e = 0
    OBVIOUS
  <2> QED
    BY <1>4, <2>1, <2>2
<1> QED
  BY <1>1, <1>2, <1>5 DEF OutputInv, FramesAreWhole, E, CharEnds

\* A write of the pty.
LEMMA OutputKeeps ==
  ASSUME OutputInv, NEW k \in 1..4, Output(k)
  PROVE  OutputInv'
<1>1. WholeCharacters(stream) /\ framed \in CharEnds(stream) /\ framed <= printed
  BY FramesEnd
<1>2. /\ stream' = stream /\ printed' = printed + k /\ printed + k <= Len(stream)
      /\ framed' = framed + SplitUTF8(SubSeq(stream, framed + 1, printed + k))
  BY DEF Output
<1>3. Len(stream) \in Nat /\ printed \in 0..Len(stream) /\ stream \in Streams
  BY <1>1 DEF OutputInv, WholeCharacters
<1>4. printed + k \in framed..Len(stream)
  BY <1>1, <1>2, <1>3 DEF CharEnds
<1>5. framed' = Max({e \in CharEnds(stream) : e <= printed + k})
  BY <1>1, <1>2, <1>4, SplitIs
<1>6. FramesAreWhole'
  BY <1>2, <1>5 DEF FramesAreWhole, CharEnds
<1> QED
  BY <1>2, <1>3, <1>6 DEF OutputInv

LEMMA OutputInvStep == OutputInv /\ [TerminalNext]_bvars => OutputInv'
<1> SUFFICES ASSUME OutputInv, [TerminalNext]_bvars PROVE OutputInv'
  OBVIOUS
<1>1. CASE \E k \in 1..4 : Output(k)
  BY <1>1, OutputKeeps
<1>2. CASE UNCHANGED output
  BY <1>2 DEF output, OutputInv, FramesAreWhole
<1>3. (\E k \in 1..4 : Output(k)) \/ UNCHANGED output
  BY DEF TerminalNext, AttachStarts, ReadFrame, ReaderStep, Enqueue, ReaderEnds, PumpStep,
         PumpTakes, PumpFails, PumpEnds, PumpWrites, HandlerStep, SelectDone, SelectClosed,
         CloseInputs, Return, BrowserLeaves, SessionEndsThere, bvars, output
<1> QED
  BY <1>1, <1>2, <1>3

\* For any text and wherever the pty's writes cut it, the frames hold all whole
\* characters that are printed, and end with one (splitUTF8).
THEOREM CharactersStayWhole == TerminalSpec => []FramesAreWhole
<1>1. TerminalInit => OutputInv
  BY OutputInvInit
<1>2. OutputInv /\ [TerminalNext]_bvars => OutputInv'
  BY OutputInvStep
<1>3. OutputInv => FramesAreWhole
  BY DEF OutputInv
<1> QED
  BY <1>1, <1>2, <1>3, PTL DEF TerminalSpec

-----------------------------------------------------------------------------
(* The push store                                                          *)

Subs == [Endpoint -> Nat]

PushTypes ==
  /\ subsMem \in Subs /\ subsFile \in Subs /\ known \in Subs
  /\ handed \in Nat /\ wiped \in Nat /\ failures \in Nat
  /\ server \in {"up", "down", "wiping"}

\* Subscriptions are numbered in the order in which they came.
HandedIsLast ==
  /\ wiped <= handed
  /\ \A e \in Endpoint : subsMem[e] <= handed /\ subsFile[e] <= handed

\* What the next write will store: it is needed since every write is of the whole map.
MemoryKeepsKnown ==
  server # "down" => \A e \in Endpoint : known[e] # 0 => subsMem[e] >= known[e]

PushInv == PushTypes /\ HandedIsLast /\ MemoryKeepsKnown /\ PushFileIsTrue

LEMMA PushInvInit == PushInit => PushInv
BY DEF PushInit, PushInv, PushTypes, Subs, NoSubs, HandedIsLast, MemoryKeepsKnown, PushFileIsTrue

\* A write is saved exactly when it is not counted as a failure.
LEMMA SavedOrFailed ==
  ASSUME failures \in Nat, NEW subs, SaveSubs(subs)
  PROVE  /\ failures' \in Nat
         /\ \/ Saved /\ subsFile' = subs
            \/ ~Saved /\ subsFile' = subsFile
BY DEF SaveSubs, Saved, Fails

LEMMA SubscribeKeeps ==
  ASSUME PushInv, NEW e \in Endpoint, Subscribe(e)
  PROVE  PushInv'
<1> USE DEF PushInv, PushTypes, Subs, HandedIsLast, MemoryKeepsKnown, PushFileIsTrue
<1>1. /\ failures' \in Nat
      /\ \/ Saved /\ subsFile' = subsMem'
         \/ ~Saved /\ subsFile' = subsFile
  BY SavedOrFailed DEF Subscribe
<1>2. /\ handed' = handed + 1 /\ wiped' = wiped /\ server' = server /\ server = "up"
      /\ subsMem' = [subsMem EXCEPT ![e] = handed + 1]
      /\ known' = IF Saved THEN [known EXCEPT ![e] = handed + 1] ELSE known
  BY DEF Subscribe
<1>3. /\ subsMem' \in Subs
      /\ \A d \in Endpoint : subsMem'[d] = IF d = e THEN handed + 1 ELSE subsMem[d]
  BY <1>2
<1>4. CASE Saved /\ subsFile' = subsMem'
  <2>1. /\ known' \in Subs
        /\ \A d \in Endpoint : known'[d] = IF d = e THEN handed + 1 ELSE known[d]
    BY <1>2, <1>4
  <2> QED
    BY <1>1, <1>2, <1>3, <1>4, <2>1
<1>5. CASE ~Saved /\ subsFile' = subsFile
  BY <1>1, <1>2, <1>3, <1>5
<1> QED
  BY <1>1, <1>4, <1>5

LEMMA WipeKeeps ==
  ASSUME PushInv, WipeSubs
  PROVE  PushInv'
<1> USE DEF PushInv, PushTypes, Subs, HandedIsLast, MemoryKeepsKnown, PushFileIsTrue
<1>1. /\ failures' \in Nat
      /\ \/ Saved /\ subsFile' = NoSubs
         \/ ~Saved /\ subsFile' = subsFile
  BY SavedOrFailed DEF WipeSubs
<1>2. /\ handed' = handed /\ server' = "up"
      /\ subsMem' = NoSubs /\ known' = NoSubs
      /\ wiped' = IF Saved THEN handed ELSE wiped
  BY DEF WipeSubs
<1>3. NoSubs \in Subs /\ \A d \in Endpoint : NoSubs[d] = 0
  BY DEF NoSubs
<1> QED
  BY <1>1, <1>2, <1>3

LEMMA PruneKeeps ==
  ASSUME PushInv, Prune
  PROVE  PushInv'
<1> USE DEF PushInv, PushTypes, Subs, HandedIsLast, MemoryKeepsKnown, PushFileIsTrue
<1>1. PICK dead \in SUBSET snapshot :
        /\ subsMem' = Without(subsMem, dead)
        /\ known' = Without(known, dead)
        /\ IF dead = {} THEN UNCHANGED <<subsFile, failures>> ELSE SaveSubs(subsMem')
  BY DEF Prune
<1>2. /\ handed' = handed /\ wiped' = wiped /\ server' = server /\ server = "up"
  BY DEF Prune
<1>3. /\ subsMem' \in Subs /\ known' \in Subs
      /\ \A d \in Endpoint : /\ subsMem'[d] = IF d \in dead THEN 0 ELSE subsMem[d]
                             /\ known'[d] = IF d \in dead THEN 0 ELSE known[d]
  BY <1>1 DEF Without
<1>4. failures' \in Nat /\ (subsFile' = subsFile \/ subsFile' = subsMem')
  BY <1>1, SavedOrFailed
<1> QED
  BY <1>2, <1>3, <1>4

LEMMA OpenKeeps ==
  ASSUME PushInv, OpenPush \/ OpenRotates
  PROVE  PushInv'
<1> USE DEF PushInv, PushTypes, Subs, HandedIsLast, MemoryKeepsKnown, PushFileIsTrue
<1>1. NoSubs \in Subs /\ \A d \in Endpoint : NoSubs[d] = 0
  BY DEF NoSubs
<1>2. CASE OpenPush
  BY <1>2 DEF OpenPush
<1>3. CASE OpenRotates
  BY <1>1, <1>3 DEF OpenRotates, Fails
<1> QED
  BY <1>2, <1>3

\* The steps that move no subscription.
LEMMA OthersKeep ==
  ASSUME PushInv, WipeKey \/ SendAll \/ PushCrash \/ DeleteKeyFile \/ UNCHANGED pvars
  PROVE  PushInv'
<1> USE DEF PushInv, PushTypes, HandedIsLast, MemoryKeepsKnown, PushFileIsTrue
<1>1. CASE WipeKey
  BY <1>1 DEF WipeKey, Fails
<1>2. CASE SendAll
  BY <1>2 DEF SendAll
<1>3. CASE PushCrash
  BY <1>3 DEF PushCrash, Fails
<1>4. CASE DeleteKeyFile
  BY <1>4 DEF DeleteKeyFile
<1>5. CASE UNCHANGED pvars
  BY <1>5 DEF pvars
<1> QED
  BY <1>1, <1>2, <1>3, <1>4, <1>5

LEMMA PushInvStep == PushInv /\ [PushNext]_pvars => PushInv'
BY SubscribeKeeps, WipeKeeps, PruneKeeps, OpenKeeps, OthersKeep DEF PushNext

\* After a wipe that has answered nothing from before it is in memory or in the file,
\* and what was acknowledged is in the file, through failed writes of Subscribe, Wipe
\* and prune, a rotation at start-up and any crash.
THEOREM PushFileTrue == PushSpec => []PushFileIsTrue
<1>1. PushInv => PushFileIsTrue
  BY DEF PushInv
<1> QED
  BY PushInvInit, PushInvStep, <1>1, PTL DEF PushSpec

-----------------------------------------------------------------------------
(* The event log                                                           *)

\* What the lines of the file and the ids may be.
EventTypes ==
  /\ log \in Seq(Nat) /\ open \in BOOLEAN /\ lastId \in Nat
  /\ follower = [after |-> follower.after, given |-> follower.given]
  /\ follower.after \in Nat
  /\ reset \in BOOLEAN /\ bare \in BOOLEAN

\* A line without its newline is the last of the file, and does not parse.
OpenIsTorn ==
  /\ open => log # <<>>
  /\ open /\ ~bare => log[Len(log)] = 0

Rising == \A i, j \in Parsed : i < j => log[i] < log[j]

\* The id in memory is not behind the file: it is needed since the next line gets it.
Counted == \A i \in Parsed : log[i] <= lastId

\* The client knows an event of the file, and was given all up to that one.
Follows ==
  /\ follower.after = 0 \/ \E i \in Parsed : log[i] = follower.after
  /\ \A i \in Parsed : log[i] <= follower.after => log[i] \in follower.given

EventInv ==
  /\ EventTypes
  /\ OpenIsTorn
  /\ ~bare => Rising /\ Counted
  /\ ~bare /\ ~reset => Follows

LEMMA EventInvInit == EventInit => EventInv
<1> SUFFICES ASSUME EventInit PROVE EventInv
  OBVIOUS
<1>1. log = <<>> /\ Parsed = {}
  BY DEF EventInit, Parsed
<1>2. follower.after = 0 /\ follower = [after |-> follower.after, given |-> follower.given]
  BY DEF EventInit
<1>3. EventTypes
  <2>1. log \in Seq(Nat) /\ lastId \in Nat /\ follower.after \in Nat
    BY <1>1, <1>2 DEF EventInit
  <2>2. open \in BOOLEAN /\ reset \in BOOLEAN /\ bare \in BOOLEAN
    BY Zenon DEF EventInit
  <2> QED
    BY <1>2, <2>1, <2>2, Zenon DEF EventTypes
<1>4. OpenIsTorn
  BY DEF EventInit, OpenIsTorn
<1> QED
  BY <1>1, <1>2, <1>3, <1>4 DEF EventInv, Rising, Counted, Follows

AddsLine(id) == log' = IF open THEN Append(Front(log), 0) ELSE Append(log, id)

\* A line is added behind the others, or one that was open is glued to it and lost.
LEMMA AddedLine ==
  ASSUME EventTypes, OpenIsTorn, NEW id \in Nat,
         AddsLine(id)
  PROVE  /\ log' \in Seq(Nat) /\ log' # <<>>
         /\ Len(log') = IF open THEN Len(log) ELSE Len(log) + 1
         /\ log'[Len(log')] = IF open THEN 0 ELSE id
         /\ \A i \in 1..Len(log) : ~open \/ i < Len(log) => log'[i] = log[i]
<1> USE DEF EventTypes, OpenIsTorn
<1>1. CASE open
  <2> DEFINE m == Len(log) - 1
  <2>1. m \in Nat /\ Len(log) \in Nat
    BY <1>1
  <2>2. \A i \in 1..m : log[i] \in Nat
    BY ElementOfSeq
  <2>3. /\ SubSeq(log, 1, m) \in Seq(Nat)
        /\ Len(SubSeq(log, 1, m)) = IF 1 <= m THEN m - 1 + 1 ELSE 0
        /\ \A i \in 1..(m - 1 + 1) : SubSeq(log, 1, m)[i] = log[1 + i - 1]
    BY <2>1, <2>2, SubSeqProperties
  <2>4. m - 1 + 1 = m /\ \A i \in 1..m : 1 + i - 1 = i
    BY <2>1
  <2>5. Front(log) = SubSeq(log, 1, m)
    BY DEF Front
  <2>6. m = Len(log) - 1
    OBVIOUS
  <2> HIDE DEF m
  <2>7. /\ Front(log) \in Seq(Nat) /\ Len(Front(log)) = m
        /\ \A i \in 1..m : Front(log)[i] = log[i]
    BY <2>1, <2>3, <2>4, <2>5
  <2>8. log' = Append(Front(log), 0) /\ 0 \in Nat
    BY <1>1 DEF AddsLine
  <2>9. /\ log' \in Seq(Nat) /\ log' # <<>> /\ Len(log') = m + 1 /\ log'[m + 1] = 0
        /\ \A i \in 1..m : log'[i] = log[i]
    BY <2>1, <2>7, <2>8, AppendProperties
  <2> QED
    BY <1>1, <2>1, <2>6, <2>9
<1>2. CASE ~open
  BY <1>2, AppendProperties DEF AddsLine
<1> QED
  BY <1>1, <1>2

\* What parses then: the lines that did, and the new one where it is whole.
LEMMA AddedParsed ==
  ASSUME EventTypes, OpenIsTorn, ~bare, NEW id \in Nat,
         AddsLine(id)
  PROVE  /\ \A i \in Parsed' : i \in Parsed \/ (i = Len(log) + 1 /\ log'[i] = id /\ id # 0)
         /\ \A i \in Parsed : i \in Parsed' /\ log'[i] = log[i] /\ i \in 1..Len(log)
<1>1. /\ log' \in Seq(Nat)
      /\ Len(log') = IF open THEN Len(log) ELSE Len(log) + 1
      /\ log'[Len(log')] = IF open THEN 0 ELSE id
      /\ \A i \in 1..Len(log) : ~open \/ i < Len(log) => log'[i] = log[i]
  BY AddedLine
<1>2. log \in Seq(Nat) /\ Len(log) \in Nat /\ (open => log[Len(log)] = 0)
  BY DEF EventTypes, OpenIsTorn
<1>3. /\ \A i : i \in Parsed <=> i \in 1..Len(log) /\ log[i] # 0
      /\ \A i : i \in Parsed' <=> i \in 1..Len(log') /\ log'[i] # 0
  BY <1>1, <1>2 DEF Parsed
<1>4. CASE open
  BY <1>1, <1>2, <1>3, <1>4
<1>5. CASE ~open
  <2>1. /\ Len(log') = Len(log) + 1 /\ log'[Len(log) + 1] = id
        /\ \A i \in 1..Len(log) : log'[i] = log[i] /\ i \in 1..Len(log')
        /\ \A i \in 1..Len(log') : i \in 1..Len(log) \/ i = Len(log) + 1
    BY <1>1, <1>2, <1>5
  <2> QED
    BY <1>3, <2>1
<1> QED
  BY <1>4, <1>5

\* A line with a new id, or one that does not parse, is behind everything that is known.
LEMMA AddedKeeps ==
  ASSUME EventInv, ~bare, NEW id \in {0, lastId + 1}, lastId' = lastId + 1,
         AddsLine(id),
         UNCHANGED follower
  PROVE  Rising' /\ Counted' /\ (~reset => Follows')
<1>1. id \in Nat /\ lastId \in Nat /\ EventTypes /\ OpenIsTorn
  BY DEF EventInv, EventTypes
<1>2. /\ \A i \in Parsed' : i \in Parsed \/ (i = Len(log) + 1 /\ log'[i] = id /\ id # 0)
      /\ \A i \in Parsed : i \in Parsed' /\ log'[i] = log[i] /\ i \in 1..Len(log)
  BY <1>1, AddedParsed
<1>3. Rising /\ Counted
  BY DEF EventInv
<1>7. /\ Len(log) \in Nat
      /\ \A i \in Parsed : i \in 1..Len(log) /\ log[i] \in Nat
  BY <1>1 DEF EventTypes, Parsed
<1>4. Rising'
  <2>1. SUFFICES ASSUME NEW i \in Parsed', NEW j \in Parsed', i < j
                 PROVE  log'[i] < log'[j]
    BY DEF Rising
  <2>2. CASE i \in Parsed /\ j \in Parsed
    <3>1. log[i] < log[j]
      BY <1>3, <2>1, <2>2 DEF Rising
    <3> QED
      BY <1>2, <2>2, <3>1
  <2>3. CASE i \in Parsed /\ j \notin Parsed
    <3>1. log[i] <= lastId /\ log'[i] = log[i] /\ log[i] \in Nat
      BY <1>2, <1>3, <1>7, <2>3 DEF Counted
    <3>2. log'[j] = lastId + 1
      BY <1>2, <2>3
    <3> QED
      BY <1>1, <3>1, <3>2
  <2>4. CASE i \notin Parsed
    <3>1. i = Len(log) + 1 /\ (j \in 1..Len(log) \/ j = Len(log) + 1)
      BY <1>2, <1>7, <2>4
    <3> QED
      BY <1>7, <2>1, <3>1
  <2> QED
    BY <2>2, <2>3, <2>4
<1>5. Counted'
  <2>1. SUFFICES ASSUME NEW i \in Parsed' PROVE log'[i] <= lastId'
    BY DEF Counted
  <2>2. CASE i \in Parsed
    <3>1. log[i] <= lastId /\ log'[i] = log[i] /\ log[i] \in Nat
      BY <1>2, <1>3, <1>7, <2>2 DEF Counted
    <3> QED
      BY <1>1, <3>1
  <2>3. CASE i \notin Parsed
    BY <1>1, <1>2, <2>3
  <2> QED
    BY <2>2, <2>3
<1>6. ASSUME ~reset PROVE Follows'
  <2>1. Follows /\ follower.after \in Nat /\ follower' = follower
    BY <1>1, <1>6 DEF EventInv, EventTypes
  <2>2. follower.after <= lastId
    BY <1>1, <1>3, <1>7, <2>1 DEF Follows, Counted
  <2>3. ASSUME NEW i \in Parsed', log'[i] <= follower.after PROVE i \in Parsed
    <3>1. CASE i \notin Parsed
      BY <1>1, <1>2, <2>1, <2>2, <2>3, <3>1
    <3> QED
      BY <3>1
  <2>4. follower.after = 0 \/ \E i \in Parsed' : log'[i] = follower.after
    BY <1>2, <2>1 DEF Follows
  <2>5. \A i \in Parsed' : log'[i] <= follower.after => log'[i] \in follower.given
    BY <1>2, <2>1, <2>3 DEF Follows
  <2> QED
    BY <2>1, <2>4, <2>5 DEF Follows
<1> QED
  BY <1>4, <1>5, <1>6

LEMMA AppendKeeps ==
  ASSUME EventInv, AppendEvent
  PROVE  EventInv'
<1>1. /\ AddsLine(lastId + 1) /\ lastId' = lastId + 1 /\ open' = FALSE
      /\ UNCHANGED <<follower, reset, bare>>
  BY DEF AppendEvent, AddsLine
<1>2. EventTypes /\ OpenIsTorn /\ lastId + 1 \in Nat
  BY DEF EventInv, EventTypes
<1>3. log' \in Seq(Nat)
  BY <1>1, <1>2, AddedLine
<1>4. EventTypes'
  BY <1>1, <1>2, <1>3, Zenon DEF EventTypes
<1>5. OpenIsTorn'
  BY <1>1 DEF OpenIsTorn
<1>6. CASE bare
  BY <1>1, <1>4, <1>5, <1>6 DEF EventInv
<1>7. CASE ~bare
  BY <1>1, <1>4, <1>5, <1>7, AddedKeeps DEF EventInv
<1> QED
  BY <1>6, <1>7

\* What a write that did not end has left is in the way of no event, unless it is the
\* whole line without its newline.
LEMMA TornKeeps ==
  ASSUME EventInv, AppendTorn
  PROVE  EventInv'
<1>1. /\ Tear(lastId + 1) /\ lastId' = lastId + 1
      /\ UNCHANGED <<follower, reset>>
  BY DEF AppendTorn
<1>2. EventTypes /\ OpenIsTorn /\ lastId + 1 \in Nat /\ log \in Seq(Nat)
  BY DEF EventInv, EventTypes
<1>3. CASE UNCHANGED <<log, open, bare>>
  <2>1. EventTypes' /\ OpenIsTorn'
    BY <1>1, <1>2, <1>3 DEF EventTypes, OpenIsTorn
  <2>2. Parsed' = Parsed
    BY <1>3 DEF Parsed
  <2>3. ASSUME Counted PROVE Counted'
    <3>1. \A i \in Parsed : log[i] \in Nat
      BY <1>2 DEF Parsed
    <3>2. lastId \in Nat /\ log' = log
      BY <1>2, <1>3 DEF EventTypes
    <3> QED
      BY <1>1, <2>2, <2>3, <3>1, <3>2 DEF Counted
  <2> QED
    BY <1>1, <1>3, <2>1, <2>2, <2>3 DEF EventInv, Rising, Follows
<1>4. CASE /\ log' = IF open THEN Append(Front(log), 0) ELSE Append(log, 0)
           /\ open' = TRUE /\ UNCHANGED bare
  <2>1. AddsLine(0)
    BY <1>4 DEF AddsLine
  <2>2. log' \in Seq(Nat) /\ log' # <<>> /\ log'[Len(log')] = 0
    BY <1>2, <2>1, AddedLine
  <2>3. EventTypes' /\ OpenIsTorn'
    <3>1. EventTypes'
      BY <1>1, <1>2, <1>4, <2>2, Zenon DEF EventTypes
    <3> QED
      BY <1>4, <2>2, <3>1 DEF OpenIsTorn
  <2>4. CASE bare
    BY <1>4, <2>3, <2>4 DEF EventInv
  <2>5. CASE ~bare
    BY <1>1, <1>4, <2>1, <2>3, <2>5, AddedKeeps DEF EventInv
  <2> QED
    BY <2>4, <2>5
<1>5. CASE ~open /\ log' = Append(log, lastId + 1) /\ open' = TRUE /\ bare' = TRUE
  <2>1. AddsLine(lastId + 1)
    BY <1>5 DEF AddsLine
  <2>2. log' \in Seq(Nat) /\ log' # <<>>
    BY <1>2, <2>1, AddedLine
  <2>3. EventTypes' /\ OpenIsTorn'
    <3>1. EventTypes'
      BY <1>1, <1>2, <1>5, <2>2, Zenon DEF EventTypes
    <3> QED
      BY <1>5, <2>2, <3>1 DEF OpenIsTorn
  <2> QED
    BY <1>5, <2>3 DEF EventInv
<1> QED
  BY <1>1, <1>3, <1>4, <1>5 DEF Tear

\* Open: the last line that parses has the greatest number.
LEMMA ReopenKeeps ==
  ASSUME EventInv, ReopenLog
  PROVE  EventInv'
<1>1. lastId' = StoredId /\ UNCHANGED <<log, open, follower, reset, bare>>
  BY DEF ReopenLog
<1>2. EventTypes /\ OpenIsTorn /\ log \in Seq(Nat) /\ Parsed' = Parsed
  BY <1>1 DEF EventInv, EventTypes, Parsed
<1>3. /\ Len(log) \in Nat /\ Parsed \in SUBSET (0..Len(log))
      /\ \A i \in Parsed : i \in Nat /\ i \in 0..Len(log) /\ log[i] \in Nat
  BY <1>2 DEF Parsed
<1>4. Parsed # {} => Max(Parsed) \in Parsed /\ \A i \in Parsed : i <= Max(Parsed)
  BY <1>3, MaxIs
<1>5. StoredId \in Nat
  BY <1>3, <1>4 DEF StoredId
<1>6. EventTypes' /\ OpenIsTorn'
  BY <1>1, <1>2, <1>5 DEF EventTypes, OpenIsTorn
<1>7. ASSUME Rising PROVE Counted'
  <2>1. SUFFICES ASSUME NEW i \in Parsed PROVE log[i] <= StoredId
    BY <1>1, <1>2 DEF Counted
  <2>2. StoredId = log[Max(Parsed)] /\ Max(Parsed) \in Parsed /\ i <= Max(Parsed)
    BY <1>4, <2>1 DEF StoredId
  <2>3. i \in Nat /\ Max(Parsed) \in Nat
    BY <1>3, <2>2
  <2>4. CASE i = Max(Parsed)
    <3>1. log[i] \in Nat /\ StoredId = log[i]
      BY <1>3, <2>2, <2>4
    <3> QED
      BY <3>1
  <2>5. CASE i < Max(Parsed)
    <3>1. log[i] < log[Max(Parsed)] /\ log[i] \in Nat /\ log[Max(Parsed)] \in Nat
      BY <1>3, <1>7, <2>2, <2>5 DEF Rising
    <3> QED
      BY <2>2, <3>1
  <2> QED
    BY <2>2, <2>3, <2>4, <2>5
<1> QED
  BY <1>1, <1>2, <1>6, <1>7 DEF EventInv, Rising, Follows

LEMMA ResetKeeps ==
  ASSUME EventInv, ResetLog
  PROVE  EventInv'
<1>1. /\ log' = <<>> /\ open' = FALSE /\ lastId' = 0 /\ reset' = TRUE
      /\ UNCHANGED <<follower, bare>>
  BY DEF ResetLog
<1>2. EventTypes' /\ OpenIsTorn'
  <2>1. log' \in Seq(Nat) /\ lastId' \in Nat
    BY <1>1
  <2>2. EventTypes'
    BY <1>1, <2>1, Zenon DEF EventInv, EventTypes
  <2> QED
    BY <1>1, <2>2 DEF OpenIsTorn
<1>3. Parsed' = {}
  BY <1>1 DEF Parsed
<1> QED
  BY <1>1, <1>2, <1>3 DEF EventInv, Rising, Counted

\* Read: a page is the first lines behind what the client knows, without a gap.
LEMMA ReadKeeps ==
  ASSUME EventInv, ReadEvents
  PROVE  EventInv'
<1> DEFINE later == {i \in Parsed : log[i] > follower.after}
           page == {i \in later : Cardinality({j \in later : j < i}) < PageLimit}
           given == follower.given \cup {log[i] : i \in page}
<1>1. /\ page # {} /\ UNCHANGED <<log, open, lastId, reset, bare>>
      /\ follower' = [after |-> log[Max(page)], given |-> given]
  BY DEF ReadEvents
<1>2. EventTypes /\ OpenIsTorn /\ log \in Seq(Nat) /\ Parsed' = Parsed
      /\ follower.after \in Nat
  BY <1>1 DEF EventInv, EventTypes, Parsed
<1>3. /\ Len(log) \in Nat /\ Parsed \in SUBSET (0..Len(log))
      /\ \A i \in Parsed : i \in Nat /\ i \in 0..Len(log) /\ log[i] \in Nat
  BY <1>2 DEF Parsed
<1>4. page \in SUBSET (0..Len(log))
  BY <1>3
<1>5. Max(page) \in page /\ \A i \in page : i <= Max(page)
  BY <1>1, <1>3, <1>4, MaxIs
<1>6. Max(page) \in Parsed /\ Max(page) \in later
  BY <1>5
<1>7. follower'.after = log[Max(page)] /\ follower'.given = given
  BY <1>1
<1>8. log[Max(page)] \in Nat /\ log[Max(page)] > follower.after
  BY <1>3, <1>6
<1>9. EventTypes' /\ OpenIsTorn'
  <2>1. follower' = [after |-> follower'.after, given |-> follower'.given]
    BY <1>1, <1>7
  <2> QED
    BY <1>1, <1>2, <1>7, <1>8, <2>1 DEF EventTypes, OpenIsTorn
<1>10. ASSUME NEW i \in later, i <= Max(page) PROVE i \in page
  <2>1. later \in SUBSET (0..Len(log))
    <3>1. \A j \in later : j \in 0..Len(log)
      BY <1>3
    <3> QED
      BY <3>1
  <2>2. Max(page) \in later /\ Cardinality(Below(later, Max(page))) < PageLimit
    BY <1>5 DEF Below
  <2>3. PageLimit \in Nat
    BY EventAssumption
  <2> HIDE DEF later, page
  <2>4. PICK m \in later : m = Max(page) /\ i <= m /\ Cardinality(Below(later, m)) < PageLimit
    BY <1>10, <2>2
  <2>5. Cardinality(Below(later, i)) < PageLimit
    BY <1>3, <1>10, <2>1, <2>3, <2>4, FirstOnes
  <2> QED
    BY <1>10, <2>5 DEF page, Below
<1> HIDE DEF given, page, later
<1>11. ASSUME Rising, Follows PROVE Follows'
  <2>1. ASSUME NEW i \in Parsed, log[i] <= log[Max(page)], log[i] > follower.after
        PROVE  i \in page
    <3>1. i \in later /\ i \in Nat /\ Max(page) \in Nat
      BY <1>3, <1>6, <2>1 DEF later
    <3>2. i <= Max(page)
      <4>1. SUFFICES ASSUME Max(page) < i PROVE FALSE
        BY <3>1
      <4>2. log[Max(page)] < log[i]
        BY <1>6, <1>11, <4>1 DEF Rising
      <4> QED
        BY <1>3, <1>8, <2>1, <4>2
    <3> QED
      BY <1>10, <3>1, <3>2
  <2>2. \A i \in Parsed : log[i] <= log[Max(page)] => log[i] \in given
    <3>1. TAKE i \in Parsed
    <3>2. HAVE log[i] <= log[Max(page)]
    <3>3. CASE log[i] <= follower.after
      BY <1>11, <3>3 DEF Follows, given
    <3>4. CASE log[i] > follower.after
      BY <2>1, <3>2, <3>4 DEF given
    <3> QED
      BY <1>2, <1>3, <3>3, <3>4
  <2> QED
    BY <1>1, <1>2, <1>6, <1>7, <2>2 DEF Follows
<1> QED
  BY <1>1, <1>2, <1>9, <1>11 DEF EventInv, Rising, Counted

LEMMA EventInvStep == EventInv /\ [EventNext]_evars => EventInv'
<1> SUFFICES ASSUME EventInv, [EventNext]_evars PROVE EventInv'
  OBVIOUS
<1>1. CASE UNCHANGED evars
  BY <1>1 DEF evars, EventInv, EventTypes, OpenIsTorn, Rising, Counted, Follows, Parsed
<1> QED
  BY <1>1, AppendKeeps, TornKeeps, ReopenKeeps, ResetKeeps, ReadKeeps DEF EventNext

\* A client that asks for what follows the last event it knows is given every event of
\* the file, in order, through torn lines, full disks and restarts, until the log is
\* reset, for every page size: Open takes the number of the last line that parses.
THEOREM FollowerIsGivenAll == EventSpec => []FollowerMissesNothing
<1>1. EventInv => FollowerMissesNothing
  BY DEF EventInv, FollowerMissesNothing, Rising, Follows
<1> QED
  BY <1>1, EventInvInit, EventInvStep, PTL DEF EventSpec

-----------------------------------------------------------------------------
(* The observability log                                                   *)

RealLine == [no : Nat \ {0}, age : Nat]

\* Where a line can be once it is queued; Held is what is there.
Place == {"backup", "active", "channel"} \cup Flusher
Held(p) == CASE p = "backup" -> backup
             [] p = "active" -> active
             [] p = "channel" -> channel
             [] OTHER -> batch[p]

Files == ToSet(backup) \cup ToSet(active)
Numbered == {numbered[w] : w \in Writer} \ {NoLine}
Flying == Numbered \cup ToSet(channel) \cup ToSet(batch["loop"]) \cup ToSet(batch["reader"])

ObsTypes ==
  /\ numbered \in [Writer -> RealLine \cup {NoLine}]
  /\ channel \in Seq(RealLine) /\ batch \in [Flusher -> Seq(RealLine)]
  /\ active \in Seq(RealLine) /\ backup \in Seq(RealLine)
  /\ counter \in Nat \cup {Unknown} /\ cursor \in Nat /\ taken \in Nat /\ age \in Nat
  /\ strayed \in BOOLEAN /\ reused \in BOOLEAN

\* The lines of the log as it is since its last delete.
Current(l) == l.age = age

\* No number is higher than how many were taken: what Max is taken of is bounded.
Numbering ==
  /\ \A l \in Files \cup Flying : l.no <= taken /\ l.age <= age
  /\ counter <= taken /\ cursor <= taken

\* A current number is in one place.
OnePlace ==
  /\ \A p, q \in Place : \A i \in DOMAIN Held(p), j \in DOMAIN Held(q) :
       /\ Current(Held(p)[i]) /\ Current(Held(q)[j])
       /\ Held(p)[i].no = Held(q)[j].no
       => p = q /\ i = j
  /\ \A w \in Writer : Current(numbered[w]) /\ numbered[w] # NoLine =>
       /\ \A p \in Place : \A i \in DOMAIN Held(p) :
            Current(Held(p)[i]) => Held(p)[i].no # numbered[w].no
       /\ \A v \in Writer :
            Current(numbered[v]) /\ numbered[v].no = numbered[w].no => v = w

\* The counter is ahead of the current lines; without one none is on its way.
Counts ==
  /\ counter # Unknown => \A l \in Files \cup Flying : Current(l) => l.no <= counter
  /\ counter = Unknown => \A l \in Flying : ~Current(l)

FilesAreCurrent == ~strayed => \A l \in Files : Current(l)

\* The cursor is behind the next number, and what is on its way behind the cursor, or
\* behind a line of the files, is counted as overtaken.
Tailed ==
  /\ cursor <= IF counter = Unknown THEN MaxSeq ELSE counter
  /\ \A l \in Files : l.no <= cursor => l.no \in seen \/ l \in overtaken
  /\ \A l \in Flying : Current(l) /\ l.no <= cursor => l \in overtaken
  /\ \A l \in Flying, m \in Files : Current(l) /\ l.no < m.no => l \in overtaken

ObsInv ==
  /\ ObsTypes /\ Numbering
  /\ OnePlace
  /\ Counts /\ FilesAreCurrent
  /\ ~strayed /\ ~reused => Tailed

LEMMA ObsInvInit == ObsInit => ObsInv
<1> SUFFICES ASSUME ObsInit PROVE ObsInv
  OBVIOUS
<1>1. /\ counter = Unknown /\ Unknown = 0 - 1 /\ channel = <<>> /\ active = <<>> /\ backup = <<>>
      /\ batch["loop"] = <<>> /\ batch["reader"] = <<>>
      /\ cursor = 0 /\ taken = 0 /\ age = 0
  BY DEF ObsInit, Flusher, Unknown
<1>2. /\ batch \in [Flusher -> Seq(RealLine)]
      /\ numbered = [w \in Writer |-> NoLine]
  BY DEF ObsInit
<1>3. \A w \in Writer : numbered[w] = NoLine
  BY <1>2
<1>4. Files = {} /\ Flying = {}
  BY <1>1, <1>3 DEF Files, Flying, Numbered, ToSet
<1>5. \A p \in Place : Held(p) = <<>>
  BY <1>1 DEF Place, Held, Flusher
<1>6. ObsTypes
  <2>1. strayed \in BOOLEAN /\ reused \in BOOLEAN
    BY Zenon DEF ObsInit
  <2> QED
    BY <1>1, <1>2, <2>1 DEF ObsTypes
<1>7. OnePlace
  BY <1>3, <1>5 DEF OnePlace
<1>8. MaxSeq = 0
  <2>1. Numbers(backup) = {} /\ Numbers(active) = {}
    BY <1>1 DEF Numbers, ToSet
  <2>2. MaxSeq = Max({0})
    BY <2>1 DEF MaxSeq
  <2> QED
    BY <2>2, MaxIs
<1>9. Numbering /\ Counts /\ FilesAreCurrent /\ Tailed
  BY <1>1, <1>4, <1>8 DEF Numbering, Counts, FilesAreCurrent, Tailed
<1> QED
  BY <1>6, <1>7, <1>9 DEF ObsInv

LEMMA RealLines ==
  ASSUME NEW l \in RealLine
  PROVE  l.no \in Nat \ {0} /\ l.age \in Nat /\ l # NoLine
BY DEF RealLine, NoLine

LEMMA LinesAreReal ==
  ASSUME ObsTypes
  PROVE  /\ Files \subseteq RealLine /\ Flying \subseteq RealLine
         /\ \A p \in Place : Held(p) \in Seq(RealLine) /\ ToSet(Held(p)) \subseteq Files \cup Flying
<1>1. /\ channel \in Seq(RealLine) /\ active \in Seq(RealLine) /\ backup \in Seq(RealLine)
      /\ batch["loop"] \in Seq(RealLine) /\ batch["reader"] \in Seq(RealLine)
  BY DEF ObsTypes, Flusher
<1>2. \A s \in Seq(RealLine) : ToSet(s) \subseteq RealLine
  BY ElementOfSeq DEF ToSet
<1>3. Numbered \subseteq RealLine
  BY DEF ObsTypes, Numbered
<1> QED
  BY <1>1, <1>2, <1>3 DEF Files, Flying, Held, Place, Flusher

\* maxSeq is not behind any line of the two files.
LEMMA MaxSeqIs ==
  ASSUME ObsTypes, Numbering
  PROVE  MaxSeq \in Nat /\ MaxSeq <= taken /\ \A l \in Files : l.no <= MaxSeq
<1> DEFINE S == {0} \cup Numbers(backup) \cup Numbers(active)
<1>1. \A n : n \in S <=> n = 0 \/ \E l \in Files : n = l.no
  BY DEF Numbers, Files
<1>2. taken \in Nat /\ \A l \in Files : l.no \in Nat /\ l.no <= taken
  BY LinesAreReal, RealLines DEF ObsTypes, Numbering
<1>3. S \in SUBSET (0..taken) /\ S # {}
  <2>1. \A n \in S : n \in 0..taken
    BY <1>1, <1>2
  <2> QED
    BY <2>1
<1>4. MaxSeq = Max(S)
  BY DEF MaxSeq
<1> HIDE DEF S
<1>5. MaxSeq \in S /\ \A n \in S : n <= MaxSeq
  BY <1>2, <1>3, <1>4, MaxIs
<1>6. MaxSeq \in 0..taken
  BY <1>3, <1>5
<1>7. \A l \in Files : l.no \in S
  BY <1>1
<1> QED
  BY <1>2, <1>5, <1>6, <1>7

LEMMA ConcatSet ==
  ASSUME NEW S, NEW s \in Seq(S), NEW t \in Seq(S)
  PROVE  ToSet(s \o t) = ToSet(s) \cup ToSet(t)
<1>1. /\ s \o t \in Seq(S) /\ Len(s) \in Nat /\ Len(t) \in Nat
      /\ Len(s \o t) = Len(s) + Len(t)
      /\ \A i \in 1..(Len(s) + Len(t)) : (s \o t)[i] = IF i <= Len(s) THEN s[i] ELSE t[i - Len(s)]
  BY ConcatProperties
<1>2. DOMAIN s = 1..Len(s) /\ DOMAIN t = 1..Len(t) /\ DOMAIN (s \o t) = 1..(Len(s) + Len(t))
  BY <1>1
<1>3. ASSUME NEW x \in ToSet(s \o t) PROVE x \in ToSet(s) \cup ToSet(t)
  <2>1. PICK i \in 1..(Len(s) + Len(t)) : x = (s \o t)[i]
    BY <1>2, <1>3 DEF ToSet
  <2>2. CASE i <= Len(s)
    BY <1>1, <1>2, <2>1, <2>2 DEF ToSet
  <2>3. CASE i > Len(s)
    <3>1. i - Len(s) \in 1..Len(t) /\ x = t[i - Len(s)]
      BY <1>1, <2>1, <2>3
    <3> QED
      BY <1>2, <3>1 DEF ToSet
  <2> QED
    BY <1>1, <2>2, <2>3
<1>4. ASSUME NEW x \in ToSet(s) PROVE x \in ToSet(s \o t)
  <2>1. PICK i \in 1..Len(s) : x = s[i]
    BY <1>2, <1>4 DEF ToSet
  <2>2. i \in 1..(Len(s) + Len(t)) /\ x = (s \o t)[i]
    BY <1>1, <2>1
  <2> QED
    BY <1>2, <2>2 DEF ToSet
<1>5. ASSUME NEW x \in ToSet(t) PROVE x \in ToSet(s \o t)
  <2>1. PICK i \in 1..Len(t) : x = t[i]
    BY <1>2, <1>5 DEF ToSet
  <2>2. Len(s) + i \in 1..(Len(s) + Len(t)) /\ ~(Len(s) + i <= Len(s)) /\ Len(s) + i - Len(s) = i
    BY <1>1
  <2>3. x = (s \o t)[Len(s) + i]
    BY <1>1, <2>1, <2>2
  <2> QED
    BY <1>2, <2>2, <2>3 DEF ToSet
<1> QED
  BY <1>3, <1>4, <1>5

\* Lines that are moved as they are, or lost, stay apart. The move is of what is in b
\* behind what is in a, to t.
LEMMA PouredKeeps ==
  ASSUME ObsTypes, OnePlace, age' = age,
         \A w \in Writer : numbered'[w] \in {numbered[w], NoLine},
         NEW a \in Place, NEW b \in Place, a # b, NEW t \in Place,
         Held(t)' = Held(a) \o Held(b),
         \A p \in Place \ {t} : Held(p)' = <<>> \/ (Held(p)' = Held(p) /\ p \notin {a, b})
  PROVE  OnePlace'
<1> DEFINE from(p, i) == IF p # t THEN p ELSE IF i <= Len(Held(a)) THEN a ELSE b
           at(p, i) == IF p # t \/ i <= Len(Held(a)) THEN i ELSE i - Len(Held(a))
<1>1. Held(a) \in Seq(RealLine) /\ Held(b) \in Seq(RealLine)
  BY LinesAreReal
<1>2. /\ DOMAIN Held(a) = 1..Len(Held(a)) /\ DOMAIN Held(b) = 1..Len(Held(b))
      /\ Len(Held(a)) \in Nat /\ Len(Held(b)) \in Nat
      /\ DOMAIN Held(t)' = 1..(Len(Held(a)) + Len(Held(b)))
      /\ \A i \in 1..(Len(Held(a)) + Len(Held(b))) :
           Held(t)'[i] = IF i <= Len(Held(a)) THEN Held(a)[i] ELSE Held(b)[i - Len(Held(a))]
  <2>1. /\ Held(a) \o Held(b) \in Seq(RealLine)
        /\ Len(Held(a) \o Held(b)) = Len(Held(a)) + Len(Held(b))
        /\ \A i \in 1..(Len(Held(a)) + Len(Held(b))) :
             (Held(a) \o Held(b))[i] =
               IF i <= Len(Held(a)) THEN Held(a)[i] ELSE Held(b)[i - Len(Held(a))]
    BY <1>1, ConcatProperties
  <2> QED
    BY <1>1, <2>1
<1>3. ASSUME NEW p \in Place, NEW i \in DOMAIN Held(p)'
      PROVE  /\ from(p, i) \in Place /\ at(p, i) \in DOMAIN Held(from(p, i))
             /\ Held(p)'[i] = Held(from(p, i))[at(p, i)]
  <2>1. CASE p # t
    BY <1>3, <2>1
  <2>2. CASE p = t /\ i <= Len(Held(a))
    <3>1. i \in 1..Len(Held(a)) /\ Held(t)'[i] = Held(a)[i]
      BY <1>2, <1>3, <2>2
    <3>2. from(p, i) = a /\ at(p, i) = i
      BY <2>2
    <3> QED
      BY <1>2, <2>2, <3>1, <3>2
  <2>3. CASE p = t /\ ~(i <= Len(Held(a)))
    <3>1. i \in 1..(Len(Held(a)) + Len(Held(b)))
      BY <1>2, <1>3, <2>3
    <3>2. i - Len(Held(a)) \in 1..Len(Held(b)) /\ Held(t)'[i] = Held(b)[i - Len(Held(a))]
      BY <1>2, <2>3, <3>1
    <3>3. from(p, i) = b /\ at(p, i) = i - Len(Held(a))
      BY <2>3
    <3> QED
      BY <1>2, <2>3, <3>2, <3>3
  <2> QED
    BY <2>1, <2>2, <2>3
<1>4. ASSUME NEW p \in Place, NEW q \in Place,
             NEW i \in DOMAIN Held(p)', NEW j \in DOMAIN Held(q)',
             from(p, i) = from(q, j), at(p, i) = at(q, j)
      PROVE  p = q /\ i = j
  <2>1. p # t => p \notin {a, b}
    BY <1>4
  <2>2. q # t => q \notin {a, b}
    BY <1>4
  <2>3. p = q
    BY <1>4, <2>1, <2>2
  <2>4. CASE p # t
    BY <1>4, <2>3, <2>4
  <2>5. CASE p = t
    <3>1. i \in Nat /\ j \in Nat /\ Len(Held(a)) \in Nat
      BY <1>2, <1>4, <2>3, <2>5
    <3>2. i <= Len(Held(a)) <=> j <= Len(Held(a))
      BY <1>4, <2>3, <2>5
    <3> QED
      BY <1>4, <2>3, <2>5, <3>1, <3>2
  <2> QED
    BY <2>4, <2>5
<1> HIDE DEF from, at
<1>5. ASSUME NEW p \in Place, NEW q \in Place,
             NEW i \in DOMAIN Held(p)', NEW j \in DOMAIN Held(q)',
             Held(p)'[i].age = age, Held(q)'[j].age = age, Held(p)'[i].no = Held(q)'[j].no
      PROVE  p = q /\ i = j
  <2>1. from(p, i) = from(q, j) /\ at(p, i) = at(q, j)
    BY <1>3, <1>5 DEF OnePlace, Current
  <2> QED
    BY <1>4, <2>1
<1>6. ASSUME NEW w \in Writer, numbered'[w].age = age, numbered'[w] # NoLine
      PROVE  /\ \A p \in Place : \A i \in DOMAIN Held(p)' :
                  Held(p)'[i].age = age => Held(p)'[i].no # numbered'[w].no
             /\ \A v \in Writer :
                  numbered'[v].age = age /\ numbered'[v].no = numbered'[w].no => v = w
  <2>1. numbered'[w] = numbered[w]
    BY <1>6
  <2>2. numbered[w] \in RealLine /\ NoLine.no = 0 /\ numbered[w].no # 0
    BY <1>6, <2>1, RealLines DEF ObsTypes, NoLine
  <2>3. \A v \in Writer : numbered'[v].no = numbered'[w].no => numbered'[v] = numbered[v]
    BY <2>1, <2>2
  <2>4. \A v \in Writer : numbered'[v].age = age /\ numbered'[v].no = numbered'[w].no => v = w
    BY <1>6, <2>1, <2>3 DEF OnePlace, Current
  <2>5. ASSUME NEW p \in Place, NEW i \in DOMAIN Held(p)', Held(p)'[i].age = age
        PROVE  Held(p)'[i].no # numbered'[w].no
    BY <1>3, <1>6, <2>1, <2>5 DEF OnePlace, Current
  <2> QED
    BY <2>4, <2>5
<1> QED
  BY <1>5, <1>6 DEF OnePlace, Current

LEMMA LostKeeps ==
  ASSUME ObsTypes, OnePlace, age' = age,
         \A w \in Writer : numbered'[w] \in {numbered[w], NoLine},
         \A p \in Place : Held(p)' = <<>> \/ Held(p)' = Held(p)
  PROVE  OnePlace'
<1>1. ASSUME NEW p \in Place, NEW i \in DOMAIN Held(p)'
      PROVE  i \in DOMAIN Held(p) /\ Held(p)'[i] = Held(p)[i]
  BY <1>1
<1>2. ASSUME NEW w \in Writer, numbered'[w].age = age, numbered'[w] # NoLine
      PROVE  /\ \A p \in Place : \A i \in DOMAIN Held(p)' :
                  Held(p)'[i].age = age => Held(p)'[i].no # numbered'[w].no
             /\ \A v \in Writer :
                  numbered'[v].age = age /\ numbered'[v].no = numbered'[w].no => v = w
  <2>1. numbered'[w] = numbered[w]
    BY <1>2
  <2>2. numbered[w] \in RealLine /\ NoLine.no = 0 /\ numbered[w].no # 0
    BY <1>2, <2>1, RealLines DEF ObsTypes, NoLine
  <2>3. \A v \in Writer : numbered'[v].no = numbered'[w].no => numbered'[v] = numbered[v]
    BY <2>1, <2>2
  <2>4. \A v \in Writer : numbered'[v].age = age /\ numbered'[v].no = numbered'[w].no => v = w
    BY <1>2, <2>1, <2>3 DEF OnePlace, Current
  <2>5. ASSUME NEW p \in Place, NEW i \in DOMAIN Held(p)', Held(p)'[i].age = age
        PROVE  Held(p)'[i].no # numbered'[w].no
    BY <1>1, <1>2, <2>1, <2>5 DEF OnePlace, Current
  <2> QED
    BY <2>4, <2>5
<1>3. ASSUME NEW p \in Place, NEW q \in Place,
             NEW i \in DOMAIN Held(p)', NEW j \in DOMAIN Held(q)',
             Held(p)'[i].age = age, Held(q)'[j].age = age, Held(p)'[i].no = Held(q)'[j].no
      PROVE  p = q /\ i = j
  BY <1>1, <1>3 DEF OnePlace, Current
<1> QED
  BY <1>2, <1>3 DEF OnePlace, Current

\* Steps that leave the files and the tail alone, and put no new line on its way.
LEMMA MovedKeeps ==
  ASSUME ObsInv, ObsTypes', OnePlace', Flying' \subseteq Flying,
         UNCHANGED <<counter, active, backup, cursor, seen, overtaken, strayed, reused, age, taken>>
  PROVE  ObsInv'
<1>1. Files' = Files /\ MaxSeq' = MaxSeq
  BY DEF Files, MaxSeq
<1>2. Numbering'
  BY <1>1 DEF ObsInv, Numbering
<1>3. Counts' /\ FilesAreCurrent'
  BY <1>1 DEF ObsInv, Counts, FilesAreCurrent, Current
<1>4. ASSUME Tailed PROVE Tailed'
  BY <1>1, <1>4 DEF Tailed, Current
<1> QED
  BY <1>2, <1>3, <1>4 DEF ObsInv

\* append: the line goes to the channel, or is dropped.
LEMMA QueueKeeps ==
  ASSUME ObsInv, NEW w \in Writer, Queue(w)
  PROVE  ObsInv'
<1>1. /\ numbered[w] # NoLine /\ numbered' = [numbered EXCEPT ![w] = NoLine]
      /\ channel' = (IF Len(channel) < ChanCap THEN Append(channel, numbered[w]) ELSE channel)
      /\ UNCHANGED <<counter, batch, active, backup, tail, history, taken, stops>>
  BY DEF Queue
<1>2. /\ ObsTypes /\ OnePlace /\ numbered \in [Writer -> RealLine \cup {NoLine}]
      /\ channel \in Seq(RealLine)
  BY DEF ObsInv, ObsTypes
<1>3. numbered[w] \in RealLine /\ numbered[w] # NoLine
  BY <1>1, <1>2
<1>4. /\ \A v \in Writer : numbered'[v] = IF v = w THEN NoLine ELSE numbered[v]
      /\ numbered' \in [Writer -> RealLine \cup {NoLine}]
  BY <1>1, <1>2
<1>5. channel' \in Seq(RealLine) /\ ToSet(channel') \subseteq ToSet(channel) \cup {numbered[w]}
  <2>1. CASE channel' = channel
    BY <1>2, <2>1
  <2>2. CASE channel' = Append(channel, numbered[w])
    <3>1. channel' = channel \o <<numbered[w]>> /\ <<numbered[w]>> \in Seq(RealLine)
      BY <1>2, <1>3, <2>2, AppendIsConcat
    <3>2. ToSet(channel') = ToSet(channel) \cup ToSet(<<numbered[w]>>)
      <4> DEFINE one == <<numbered[w]>>
      <4>1. channel \in Seq(RealLine) /\ one \in Seq(RealLine) /\ channel' = channel \o one
        BY <1>2, <3>1
      <4> HIDE DEF one
      <4>2. ToSet(channel \o one) = ToSet(channel) \cup ToSet(one)
        BY <4>1, ConcatSet
      <4> QED
        BY <4>1, <4>2 DEF one
    <3>3. ToSet(<<numbered[w]>>) = {numbered[w]}
      BY DEF ToSet
    <3> QED
      BY <1>2, <1>3, <2>2, <3>2, <3>3, AppendProperties
  <2> QED
    BY <1>1, <2>1, <2>2
<1>6. ObsTypes'
  BY <1>1, <1>2, <1>4, <1>5 DEF ObsTypes, tail, history
<1>7. Flying' \subseteq Flying
  <2>1. numbered[w] \in Numbered /\ Numbered' \subseteq Numbered
    BY <1>3, <1>4 DEF Numbered
  <2>2. batch' = batch
    BY <1>1
  <2> QED
    BY <1>5, <2>1, <2>2 DEF Flying
<1>8. \A p \in Place \ {"channel"} : Held(p)' = Held(p)
  BY <1>1 DEF Held, Place, Flusher
<1>9. Held("channel") = channel /\ Held("channel")' = channel' /\ "channel" \in Place
  BY DEF Held, Place
<1>10. OnePlace'
  <2>1. CASE channel' = channel
    <3>1. \A p \in Place : Held(p)' = Held(p)
      BY <1>8, <1>9, <2>1
    <3> QED
      BY <1>1, <1>2, <1>4, <3>1, LostKeeps DEF history
  <2>2. CASE channel' = Append(channel, numbered[w])
    <3> DEFINE n == Len(channel) + 1
    <3>1. /\ DOMAIN channel' = DOMAIN channel \cup {n} /\ channel'[n] = numbered[w]
          /\ \A i \in DOMAIN channel : channel'[i] = channel[i] /\ i # n
      BY <1>2, <1>3, <2>2, AppendProperties
    <3> HIDE DEF n
    <3>2. age' = age
      BY <1>1 DEF history
    <3>3. ASSUME NEW p \in Place, NEW i \in DOMAIN Held(p)'
          PROVE  \/ p = "channel" /\ i = n /\ Held(p)'[i] = numbered[w]
                 \/ i \in DOMAIN Held(p) /\ Held(p)'[i] = Held(p)[i] /\ ~(p = "channel" /\ i = n)
      BY <1>8, <1>9, <3>1, <3>3
    <3>4. ASSUME NEW p \in Place, NEW q \in Place,
                 NEW i \in DOMAIN Held(p)', NEW j \in DOMAIN Held(q)',
                 Held(p)'[i].age = age, Held(q)'[j].age = age, Held(p)'[i].no = Held(q)'[j].no
          PROVE  p = q /\ i = j
      <4>1. CASE (p = "channel" /\ i = n) /\ (q = "channel" /\ j = n)
        BY <4>1
      <4>2. CASE (p = "channel" /\ i = n) /\ ~(q = "channel" /\ j = n)
        <5>1. j \in DOMAIN Held(q) /\ Held(q)'[j] = Held(q)[j]
          BY <3>3, <4>2
        <5>2. Held(p)'[i] = numbered[w]
          BY <1>9, <3>1, <4>2
        <5> QED
          BY <1>2, <1>3, <3>4, <5>1, <5>2 DEF OnePlace, Current
      <4>3. CASE ~(p = "channel" /\ i = n) /\ (q = "channel" /\ j = n)
        <5>1. i \in DOMAIN Held(p) /\ Held(p)'[i] = Held(p)[i]
          BY <3>3, <4>3
        <5>2. Held(q)'[j] = numbered[w]
          BY <1>9, <3>1, <4>3
        <5> QED
          BY <1>2, <1>3, <3>4, <5>1, <5>2 DEF OnePlace, Current
      <4>4. CASE ~(p = "channel" /\ i = n) /\ ~(q = "channel" /\ j = n)
        BY <1>2, <3>3, <3>4, <4>4 DEF OnePlace, Current
      <4> QED
        BY <4>1, <4>2, <4>3, <4>4
    <3>5. ASSUME NEW v \in Writer, numbered'[v].age = age, numbered'[v] # NoLine
          PROVE  /\ \A p \in Place : \A i \in DOMAIN Held(p)' :
                      Held(p)'[i].age = age => Held(p)'[i].no # numbered'[v].no
                 /\ \A u \in Writer :
                      numbered'[u].age = age /\ numbered'[u].no = numbered'[v].no => u = v
      <4>1. v # w /\ numbered'[v] = numbered[v]
        BY <1>4, <3>5
      <4>2. numbered[v].no # 0 /\ NoLine.no = 0
        BY <1>2, <3>5, <4>1, RealLines DEF NoLine
      <4>3. \A u \in Writer : numbered'[u].age = age /\ numbered'[u].no = numbered'[v].no => u = v
        BY <1>2, <1>4, <3>5, <4>1, <4>2 DEF OnePlace, Current
      <4>4. ASSUME NEW p \in Place, NEW i \in DOMAIN Held(p)', Held(p)'[i].age = age
            PROVE  Held(p)'[i].no # numbered'[v].no
        <5>1. CASE p = "channel" /\ i = n /\ Held(p)'[i] = numbered[w]
          BY <1>2, <3>5, <4>1, <4>4, <5>1 DEF OnePlace, Current
        <5>2. CASE i \in DOMAIN Held(p) /\ Held(p)'[i] = Held(p)[i]
          BY <1>2, <3>5, <4>1, <4>4, <5>2 DEF OnePlace, Current
        <5> QED
          BY <3>3, <5>1, <5>2
      <4> QED
        BY <4>3, <4>4
    <3> QED
      BY <3>2, <3>4, <3>5 DEF OnePlace, Current
  <2> QED
    BY <1>1, <2>1, <2>2
<1> QED
  BY <1>1, <1>6, <1>7, <1>10, MovedKeeps DEF tail, history

\* flush: what is queued is taken out of the channel.
LEMMA DrainKeeps ==
  ASSUME ObsInv, NEW f \in Flusher, Drain(f), UNCHANGED <<cursor, seen>>
  PROVE  ObsInv'
<1>1. /\ batch[f] = <<>> /\ batch' = [batch EXCEPT ![f] = channel] /\ channel' = <<>>
      /\ UNCHANGED <<counter, numbered, active, backup, history, taken, stops>>
  BY DEF Drain
<1>2. ObsTypes /\ OnePlace /\ batch \in [Flusher -> Seq(RealLine)] /\ channel \in Seq(RealLine)
  BY DEF ObsInv, ObsTypes
<1>3. \A g \in Flusher : batch'[g] = IF g = f THEN channel ELSE batch[g]
  BY <1>1, <1>2
<1>4. ObsTypes'
  <2>1. batch' \in [Flusher -> Seq(RealLine)] /\ channel' \in Seq(RealLine)
    BY <1>1, <1>2
  <2> QED
    BY <1>1, <1>2, <2>1 DEF ObsTypes, history
<1>5. Flying' \subseteq Flying
  <2>1. Numbered' = Numbered /\ ToSet(channel') = {}
    BY <1>1 DEF Numbered, ToSet
  <2> QED
    BY <1>3, <2>1 DEF Flying, Flusher
<1>6. /\ Held(f) = <<>> /\ Held("channel") = channel /\ Held("channel")' = <<>>
      /\ Held(f)' = channel /\ f \in Place /\ "channel" \in Place /\ f # "channel"
      /\ \A p \in Place \ {f, "channel"} : Held(p)' = Held(p)
  BY <1>1, <1>3 DEF Held, Place, Flusher
<1>7. Held(f)' = Held(f) \o Held("channel")
  BY <1>2, <1>6, ConcatEmptySeq
<1>8. OnePlace'
  <2>1. age' = age /\ \A w \in Writer : numbered'[w] \in {numbered[w], NoLine}
    BY <1>1 DEF history
  <2>2. \A p \in Place \ {f} : Held(p)' = <<>> \/ (Held(p)' = Held(p) /\ p \notin {f, "channel"})
    BY <1>6
  <2> QED
    BY <1>2, <1>6, <1>7, <2>1, <2>2, PouredKeeps
<1> QED
  BY <1>1, <1>4, <1>5, <1>8, MovedKeeps DEF history

\* flush: what was taken is written behind the file, which is the backup then if it is
\* too long. What is still on its way and older is overtaken.
LEMMA FlushKeeps ==
  ASSUME ObsInv, NEW f \in Flusher, Flush(f), UNCHANGED <<cursor, seen>>
  PROVE  ObsInv'
<1>1. /\ batch[f] # <<>> /\ batch' = [batch EXCEPT ![f] = <<>>]
      /\ UNCHANGED <<counter, numbered, channel, reused, age, taken, stops>>
  BY DEF Flush
<1>2. /\ ObsTypes /\ OnePlace /\ batch \in [Flusher -> Seq(RealLine)]
      /\ active \in Seq(RealLine) /\ backup \in Seq(RealLine) /\ batch[f] \in Seq(RealLine)
  BY DEF ObsInv, ObsTypes
<1>3. \A g \in Flusher : batch'[g] = IF g = f THEN <<>> ELSE batch[g]
  BY <1>1, <1>2
<1>4. batch' \in [Flusher -> Seq(RealLine)]
  BY <1>1, <1>2
<1>5. /\ Held(f) = batch[f] /\ Held(f)' = <<>> /\ f \in Place
      /\ f # "active" /\ f # "backup" /\ "active" \in Place /\ "backup" \in Place
      /\ Held("active") = active /\ Held("active")' = active'
      /\ Held("backup") = backup /\ Held("backup")' = backup'
      /\ \A p \in Place \ {f, "active", "backup"} : Held(p)' = Held(p)
  BY <1>1, <1>3 DEF Held, Place, Flusher
<1>6. Flying' \subseteq Flying /\ ToSet(batch[f]) \subseteq Flying
  <2>1. Numbered' = Numbered /\ channel' = channel /\ ToSet(<<>>) = {}
    BY <1>1 DEF Numbered, ToSet
  <2> QED
    BY <1>3, <2>1 DEF Flying, Flusher
<1>7. age' = age /\ \A w \in Writer : numbered'[w] \in {numbered[w], NoLine}
  BY <1>1
<1>8. CASE UNCHANGED <<active, backup, overtaken, strayed>>
  <2>1. ObsTypes'
    BY <1>1, <1>2, <1>4, <1>8 DEF ObsTypes
  <2>2. OnePlace'
    <3>1. \A p \in Place : Held(p)' = <<>> \/ Held(p)' = Held(p)
      BY <1>5, <1>8
    <3> QED
      BY <1>2, <1>7, <3>1, LostKeeps
  <2> QED
    BY <1>1, <1>6, <1>8, <2>1, <2>2, MovedKeeps
<1>9. CASE /\ IF Len(active \o batch[f]) > FileCap
                 THEN active' = <<>> /\ backup' = active \o batch[f]
                 ELSE active' = active \o batch[f] /\ UNCHANGED backup
           /\ overtaken' = overtaken \cup
                {l \in InFlight(f) : l # NoLine /\ l.no < Max(Numbers(batch[f]))}
           /\ strayed' = (strayed \/ \E l \in ToSet(batch[f]) : l.age < age)
  <2>1. active \o batch[f] \in Seq(RealLine)
    BY <1>2, ConcatProperties
  <2>2. ObsTypes'
    <3>1. active' \in Seq(RealLine) /\ backup' \in Seq(RealLine)
      <4>1. \/ active' = <<>> /\ backup' = active \o batch[f]
            \/ active' = active \o batch[f] /\ backup' = backup
        BY <1>9
      <4>2. <<>> \in Seq(RealLine)
        OBVIOUS
      <4> QED
        BY <1>2, <2>1, <4>1, <4>2, Zenon
    <3>2. strayed' \in BOOLEAN
      BY <1>9, Zenon
    <3> QED
      BY <1>1, <1>2, <1>4, <3>1, <3>2 DEF ObsTypes
  <2>3. OnePlace'
    <3>1. CASE active' = <<>> /\ backup' = active \o batch[f]
      <4>1. Held("backup")' = Held("active") \o Held(f)
        BY <1>5, <3>1
      <4>2. \A p \in Place \ {"backup"} :
              Held(p)' = <<>> \/ (Held(p)' = Held(p) /\ p \notin {"active", f})
        BY <1>5, <3>1
      <4> QED
        BY <1>2, <1>5, <1>7, <4>1, <4>2, PouredKeeps
    <3>2. CASE active' = active \o batch[f] /\ backup' = backup
      <4>1. Held("active")' = Held("active") \o Held(f)
        BY <1>5, <3>2
      <4>2. \A p \in Place \ {"active"} :
              Held(p)' = <<>> \/ (Held(p)' = Held(p) /\ p \notin {"active", f})
        BY <1>5, <3>2
      <4> QED
        BY <1>2, <1>5, <1>7, <4>1, <4>2, PouredKeeps
    <3> QED
      BY <1>9, <3>1, <3>2
  <2>4. Files' \subseteq Files \cup ToSet(batch[f])
    <3>1. ToSet(active \o batch[f]) = ToSet(active) \cup ToSet(batch[f])
      BY <1>2, ConcatSet
    <3>2. ToSet(<<>>) = {}
      BY DEF ToSet
    <3> QED
      BY <1>9, <3>1, <3>2 DEF Files
  <2>5. Files' \cup Flying' \subseteq Files \cup Flying
    BY <1>6, <2>4
  <2>6. Numbering'
    <3>1. UNCHANGED <<taken, age, counter, cursor>>
      BY <1>1
    <3> QED
      BY <2>5, <3>1 DEF ObsInv, Numbering
  <2>7. Counts'
    BY <1>1, <1>6, <2>5 DEF ObsInv, Counts, Current
  <2>8. ASSUME ~strayed' PROVE ~strayed /\ \A l \in ToSet(batch[f]) : l.age = age
    <3>1. ~strayed /\ \A l \in ToSet(batch[f]) : ~(l.age < age)
      BY <1>9, <2>8
    <3>2. \A l \in ToSet(batch[f]) : l.age \in Nat /\ l.age <= age /\ age \in Nat
      BY <1>2, <1>6, LinesAreReal, RealLines DEF ObsInv, Numbering, ObsTypes
    <3> QED
      BY <3>1, <3>2
  <2>9. FilesAreCurrent'
    BY <1>7, <2>4, <2>8 DEF ObsInv, FilesAreCurrent, Current
  <2>10. ASSUME ~strayed', ~reused' PROVE Tailed'
    <3>1. Tailed /\ \A l \in ToSet(batch[f]) : l.age = age
      BY <1>1, <2>8, <2>10 DEF ObsInv
    <3>2. PICK b \in ToSet(batch[f]) : TRUE
      BY <1>1, <1>2 DEF ToSet
    <3>3. counter # Unknown
      BY <1>6, <3>1, <3>2 DEF ObsInv, Counts, Current
    <3>4. cursor' <= IF counter' = Unknown THEN MaxSeq' ELSE counter'
      BY <1>1, <3>1, <3>3 DEF Tailed
    <3>5. UNCHANGED <<cursor, seen, age>> /\ overtaken \subseteq overtaken'
      BY <1>1, <1>9
    <3>6. \A l \in Files' : l.no <= cursor => l.no \in seen \/ l \in overtaken'
      BY <1>6, <2>4, <3>1, <3>5 DEF Tailed, Current
    <3>7. \A l \in Flying' : l.age = age /\ l.no <= cursor => l \in overtaken'
      BY <1>6, <3>1, <3>5 DEF Tailed, Current
    <3>8. ASSUME NEW l \in Flying', NEW m \in Files', l.age = age, l.no < m.no
          PROVE  l \in overtaken'
      <4>1. CASE m \in Files
        BY <1>6, <3>1, <3>5, <3>8, <4>1 DEF Tailed, Current
      <4>2. CASE m \in ToSet(batch[f])
        <5> DEFINE S == Numbers(batch[f])
        <5>1. \A n : n \in S <=> \E k \in ToSet(batch[f]) : n = k.no
          BY DEF Numbers
        <5>2. \A k \in ToSet(batch[f]) : k.no \in Nat /\ k.no <= taken /\ taken \in Nat
          BY <1>2, <1>6, LinesAreReal, RealLines DEF ObsInv, Numbering, ObsTypes
        <5>3. S \in SUBSET (0..taken) /\ S # {} /\ m.no \in S
          <6>1. \A n \in S : n \in 0..taken
            BY <5>1, <5>2
          <6> QED
            BY <4>2, <5>1, <6>1
        <5> HIDE DEF S
        <5>4. Max(S) \in S /\ m.no <= Max(S)
          BY <4>2, <5>2, <5>3, MaxIs
        <5>5. l \in RealLine /\ l # NoLine /\ l.no \in Nat
          BY <1>2, <1>6, <3>8, LinesAreReal, RealLines
        <5>6. l.no < Max(S)
          <6>1. Max(S) \in 0..taken
            BY <5>3, <5>4
          <6> QED
            BY <3>8, <4>2, <5>2, <5>4, <5>5, <6>1
        <5>7. l \in InFlight(f)
          <6>1. \A w \in Writer : numbered'[w] = numbered[w]
            BY <1>1
          <6>2. Flying' \subseteq Numbered \cup ToSet(channel) \cup
                  {k : k \in UNION {ToSet(batch[g]) : g \in Flusher \ {f}}}
            <7>1. Numbered' = Numbered /\ channel' = channel /\ ToSet(<<>>) = {}
              BY <1>1 DEF Numbered, ToSet
            <7>2. ASSUME NEW g \in Flusher
                  PROVE  ToSet(batch'[g]) \subseteq UNION {ToSet(batch[h]) : h \in Flusher \ {f}}
              BY <1>3, <7>1
            <7> QED
              BY <7>1, <7>2 DEF Flying, Flusher
          <6> QED
            BY <3>8, <6>2 DEF InFlight, Numbered
        <5> QED
          BY <1>9, <5>5, <5>6, <5>7 DEF S
      <4> QED
        BY <2>4, <3>8, <4>1, <4>2
    <3> QED
      BY <3>4, <3>5, <3>6, <3>7, <3>8 DEF Tailed, Current
  <2> QED
    BY <2>2, <2>3, <2>6, <2>7, <2>9, <2>10 DEF ObsInv
<1> QED
  BY <1>8, <1>9 DEF Flush

\* counter.Add: the next number is above every current one, also when the counter goes
\* on from the files.
LEMMA NumberKeeps ==
  ASSUME ObsInv, NEW w \in Writer, Number(w)
  PROVE  ObsInv'
<1> DEFINE n == (IF counter = Unknown THEN MaxSeq ELSE counter) + 1
           new == [no |-> n, age |-> age]
<1>1. /\ numbered[w] = NoLine /\ counter' = n /\ taken' = taken + 1
      /\ numbered' = [numbered EXCEPT ![w] = new]
      /\ UNCHANGED <<channel, batch, active, backup, tail, history, stops>>
  BY DEF Number
<1>2. /\ ObsTypes /\ OnePlace /\ Numbering /\ Counts /\ FilesAreCurrent
      /\ numbered \in [Writer -> RealLine \cup {NoLine}]
  BY DEF ObsInv, ObsTypes
<1>3. /\ MaxSeq \in Nat /\ MaxSeq <= taken /\ (\A l \in Files : l.no <= MaxSeq)
      /\ taken \in Nat /\ age \in Nat /\ counter \in Nat \cup {Unknown} /\ counter <= taken
      /\ Unknown = 0 - 1
  BY <1>2, MaxSeqIs DEF ObsTypes, Numbering, Unknown
<1>4. /\ n \in Nat \ {0} /\ n <= taken + 1 /\ n # Unknown
      /\ counter # Unknown => n = counter + 1 /\ counter \in Nat
      /\ counter = Unknown => n = MaxSeq + 1
  BY <1>3
<1> HIDE DEF n
<1>5. new.no = n /\ new.age = age /\ new \in RealLine /\ new # NoLine
  BY <1>3, <1>4 DEF RealLine, NoLine
<1> HIDE DEF new
<1>6. /\ \A v \in Writer : numbered'[v] = IF v = w THEN new ELSE numbered[v]
      /\ numbered' \in [Writer -> RealLine \cup {NoLine}]
  BY <1>1, <1>2, <1>5
<1>7. /\ Files' = Files /\ MaxSeq' = MaxSeq /\ age' = age
      /\ \A p \in Place : Held(p)' = Held(p)
  BY <1>1 DEF Files, MaxSeq, Held, Place, Flusher, history
<1>8. Flying' = Flying \cup {new}
  <2>1. Numbered' = Numbered \cup {new}
    BY <1>1, <1>5, <1>6 DEF Numbered
  <2> QED
    BY <1>1, <2>1 DEF Flying
<1>9. \A l \in Files \cup Flying : /\ l.no \in Nat \ {0} /\ l.age \in Nat
                                   /\ l.no <= taken /\ l.age <= age
                                   /\ Current(l) => l.no < n
  <2>1. TAKE l \in Files \cup Flying
  <2>2. l.no \in Nat \ {0} /\ l.age \in Nat /\ l.no <= taken /\ l.age <= age
    BY <1>2, LinesAreReal, RealLines DEF Numbering
  <2>3. CASE counter # Unknown
    BY <1>2, <1>4, <2>2, <2>3 DEF Counts
  <2>4. CASE counter = Unknown
    BY <1>2, <1>3, <1>4, <2>2, <2>4 DEF Counts
  <2> QED
    BY <2>2, <2>3, <2>4
<1>10. ObsTypes'
  <2>1. UNCHANGED <<channel, batch, active, backup, cursor, age, strayed, reused>>
    BY <1>1 DEF tail, history
  <2>2. counter' \in Nat /\ taken' \in Nat
    BY <1>1, <1>3, <1>4
  <2> QED
    BY <1>2, <1>6, <2>1, <2>2 DEF ObsTypes
<1>11. Numbering'
  <2>1. \A l \in Files' \cup Flying' : l.no <= taken + 1 /\ l.age <= age
    BY <1>3, <1>4, <1>5, <1>7, <1>8, <1>9
  <2>2. cursor' = cursor /\ cursor \in Nat /\ cursor <= taken
    BY <1>1, <1>2 DEF ObsTypes, Numbering, tail
  <2> QED
    BY <1>1, <1>3, <1>4, <1>7, <2>1, <2>2 DEF Numbering
<1>12. OnePlace'
  <2>1. ASSUME NEW p \in Place, NEW i \in DOMAIN Held(p), Held(p)[i].age = age
        PROVE  Held(p)[i].no # n
    <3>1. Held(p)[i] \in Files \cup Flying
      BY <1>2, LinesAreReal DEF ToSet
    <3> QED
      BY <1>4, <1>9, <2>1, <3>1 DEF Current
  <2>2. ASSUME NEW v \in Writer, numbered[v].age = age, numbered[v] # NoLine
        PROVE  numbered[v].no # n
    <3>1. numbered[v] \in Flying
      BY <2>2 DEF Flying, Numbered
    <3> QED
      BY <1>4, <1>9, <2>2, <3>1 DEF Current
  <2>3. ASSUME NEW v \in Writer, numbered'[v].age = age, numbered'[v] # NoLine
        PROVE  /\ \A p \in Place : \A i \in DOMAIN Held(p) :
                    Held(p)[i].age = age => Held(p)[i].no # numbered'[v].no
               /\ \A u \in Writer :
                    numbered'[u].age = age /\ numbered'[u].no = numbered'[v].no => u = v
    <3>1. NoLine.no = 0
      BY DEF NoLine
    <3>2. CASE v = w
      BY <1>4, <1>5, <1>6, <2>1, <2>2, <3>1, <3>2
    <3>3. CASE v # w
      <4>1. numbered'[v] = numbered[v]
        BY <1>6, <3>3
      <4>2. numbered[v].no # n
        BY <2>2, <2>3, <4>1
      <4> QED
        BY <1>2, <1>5, <1>6, <2>3, <4>1, <4>2 DEF OnePlace, Current
    <3> QED
      BY <3>2, <3>3
  <2>4. \A p, q \in Place : \A i \in DOMAIN Held(p), j \in DOMAIN Held(q) :
          Held(p)[i].age = age /\ Held(q)[j].age = age /\ Held(p)[i].no = Held(q)[j].no
          => p = q /\ i = j
    BY <1>2 DEF OnePlace, Current
  <2> QED
    BY <1>7, <2>3, <2>4 DEF OnePlace, Current
<1>13. Counts'
  <2>1. \A l \in Files \cup Flying : Current(l) => l.no <= n
    BY <1>4, <1>9
  <2> QED
    BY <1>1, <1>4, <1>5, <1>7, <1>8, <2>1 DEF Counts, Current
<1>14. FilesAreCurrent'
  BY <1>1, <1>2, <1>7 DEF FilesAreCurrent, Current, history
<1>15. ASSUME ~strayed', ~reused' PROVE Tailed'
  <2>1. Tailed /\ ~strayed /\ UNCHANGED <<cursor, seen, overtaken>>
    BY <1>1, <1>15 DEF ObsInv, tail, history
  <2>2. cursor < n
    <3>1. cursor \in Nat
      BY <1>2 DEF ObsTypes
    <3> QED
      BY <1>3, <1>4, <2>1, <3>1 DEF Tailed
  <2>3. cursor' <= IF counter' = Unknown THEN MaxSeq' ELSE counter'
    <3>1. cursor \in Nat
      BY <1>2 DEF ObsTypes
    <3> QED
      BY <1>1, <1>4, <2>1, <2>2, <3>1
  <2>4. \A l \in Flying' : l.age = age /\ l.no <= cursor => l \in overtaken
    <3>1. cursor \in Nat /\ ~(n <= cursor)
      BY <1>2, <1>4, <2>2 DEF ObsTypes
    <3> QED
      BY <1>5, <1>8, <2>1, <3>1 DEF Tailed, Current
  <2>5. \A l \in Flying', m \in Files : l.age = age /\ l.no < m.no => l \in overtaken
    <3>1. \A m \in Files : ~(n < m.no)
      BY <1>2, <1>4, <1>9, <2>1 DEF FilesAreCurrent
    <3> QED
      BY <1>5, <1>8, <2>1, <3>1 DEF Tailed, Current
  <2> QED
    BY <1>7, <2>1, <2>3, <2>4, <2>5 DEF Tailed, Current
<1> QED
  BY <1>10, <1>11, <1>12, <1>13, <1>14, <1>15 DEF ObsInv

LEMMA ReopenedKeeps ==
  ASSUME ObsInv, Restart \/ DeleteLog
  PROVE  ObsInv'
<1>1. /\ ObsTypes /\ OnePlace /\ Numbering /\ Counts /\ FilesAreCurrent /\ Unknown = 0 - 1
      /\ taken \in Nat /\ age \in Nat /\ cursor \in Nat
  BY DEF ObsInv, ObsTypes, Unknown
<1>2. CASE Restart
  <2>1. /\ counter' = Unknown /\ numbered' = [w \in Writer |-> NoLine]
        /\ channel' = <<>> /\ batch' = [f \in Flusher |-> <<>>]
        /\ overtaken' = overtaken \cap (ToSet(active) \cup ToSet(backup))
        /\ reused' = (reused \/ MaxSeq < cursor)
        /\ UNCHANGED <<active, backup, cursor, seen, strayed, age, taken>>
    BY <1>2 DEF Restart
  <2>2. /\ batch'["loop"] = <<>> /\ batch'["reader"] = <<>>
        /\ \A w \in Writer : numbered'[w] = NoLine
    BY <2>1 DEF Flusher
  <2>3. Files' = Files /\ MaxSeq' = MaxSeq /\ Flying' = {}
    BY <2>1, <2>2 DEF Files, MaxSeq, Flying, Numbered, ToSet
  <2>4. ObsTypes'
    <3>1. reused' \in BOOLEAN
      BY <2>1, Zenon
    <3>2. /\ numbered' \in [Writer -> RealLine \cup {NoLine}] /\ channel' \in Seq(RealLine)
          /\ batch' \in [Flusher -> Seq(RealLine)]
      BY <2>1
    <3> QED
      BY <1>1, <2>1, <3>1, <3>2 DEF ObsTypes
  <2>5. OnePlace'
    <3>1. \A p \in Place : Held(p)' = <<>> \/ Held(p)' = Held(p)
      BY <2>1, <2>2 DEF Held, Place, Flusher
    <3> QED
      BY <1>1, <2>1, <2>2, <3>1, LostKeeps
  <2>6. Numbering' /\ Counts' /\ FilesAreCurrent'
    BY <1>1, <2>1, <2>3 DEF Numbering, Counts, FilesAreCurrent, Current
  <2>7. ASSUME ~strayed', ~reused' PROVE Tailed'
    <3>1. ~strayed /\ ~reused /\ ~(MaxSeq < cursor)
      BY <2>1, <2>7
    <3>2. cursor <= MaxSeq
      BY <1>1, <3>1, MaxSeqIs
    <3>3. Tailed
      BY <3>1 DEF ObsInv
    <3> QED
      BY <2>1, <2>3, <3>2, <3>3 DEF Tailed, Files
  <2> QED
    BY <2>4, <2>5, <2>6, <2>7 DEF ObsInv
<1>3. CASE DeleteLog
  <2>1. /\ counter' = Unknown /\ active' = <<>> /\ backup' = <<>>
        /\ cursor' = 0 /\ reused' = FALSE /\ age' = age + 1
        /\ UNCHANGED <<numbered, channel, batch, strayed, taken>>
    BY <1>3 DEF DeleteLog
  <2>2. Files' = {} /\ Flying' = Flying
    BY <2>1 DEF Files, Flying, Numbered, ToSet
  <2>3. ObsTypes'
    <3>1. reused' \in BOOLEAN
      BY <2>1, Zenon
    <3> QED
      BY <1>1, <2>1, <3>1 DEF ObsTypes
  <2>4. \A l \in Flying : l.no \in Nat \ {0} /\ l.age < age' /\ l.no <= taken /\ l.age \in Nat
    BY <1>1, <2>1, LinesAreReal, RealLines DEF Numbering
  <2>5. \A l \in Flying' : ~Current(l)'
    BY <1>1, <2>1, <2>2, <2>4 DEF Current
  <2>6. OnePlace'
    <3>1. \A p \in Place :
              \/ Held(p)' = <<>>
              \/ Held(p)' = Held(p) /\ ToSet(Held(p)) \subseteq Flying
      BY <2>1 DEF Held, Place, Flusher, Flying
    <3>2. ASSUME NEW p \in Place, NEW i \in DOMAIN Held(p)' PROVE Held(p)'[i].age # age'
      <4>1. Held(p)'[i] \in Flying
        BY <3>1, <3>2 DEF ToSet
      <4> QED
        BY <1>1, <2>1, <2>4, <4>1
    <3>3. ASSUME NEW w \in Writer, numbered'[w] # NoLine PROVE numbered'[w].age # age'
      <4>1. numbered'[w] \in Flying
        BY <2>1, <3>3 DEF Flying, Numbered
      <4> QED
        BY <1>1, <2>1, <2>4, <4>1
    <3> QED
      BY <3>2, <3>3 DEF OnePlace, Current
  <2>7. Numbering' /\ Counts' /\ FilesAreCurrent'
    <3>1. \A l \in Flying : l.no <= taken /\ l.age <= age + 1
      BY <1>1, <2>1, <2>4
    <3> QED
      BY <1>1, <2>1, <2>2, <2>5, <3>1 DEF Numbering, Counts, FilesAreCurrent
  <2>8. Tailed'
    <3>1. MaxSeq' = 0
      <4>1. Numbers(backup') = {} /\ Numbers(active') = {}
        BY <2>1 DEF Numbers, ToSet
      <4>2. MaxSeq' = Max({0})
        BY <4>1 DEF MaxSeq
      <4> QED
        BY <4>2, MaxIs
    <3> QED
      BY <2>1, <2>2, <2>5, <3>1 DEF Tailed
  <2> QED
    BY <2>3, <2>6, <2>7, <2>8 DEF ObsInv
<1> QED
  BY <1>2, <1>3

\* A line on its way has no number of the files.
LEMMA FlyingApart ==
  ASSUME ObsTypes, OnePlace, NEW l \in Flying, Current(l), NEW m \in Files, Current(m)
  PROVE  l.no # m.no
<1>1. PICK q \in {"backup", "active"} : \E j \in DOMAIN Held(q) : m = Held(q)[j]
  BY DEF Files, Held, ToSet
<1>2. PICK j \in DOMAIN Held(q) : m = Held(q)[j]
  BY <1>1
<1>3. q \in Place
  BY <1>1 DEF Place
<1>4. CASE l \in Numbered
  BY <1>2, <1>3, <1>4 DEF OnePlace, Numbered
<1>5. CASE l \notin Numbered
  <2>1. PICK p \in {"channel", "loop", "reader"} : l \in ToSet(Held(p))
    BY <1>5 DEF Flying, Held, ToSet
  <2>2. PICK i \in DOMAIN Held(p) : l = Held(p)[i]
    BY <2>1 DEF ToSet
  <2>3. p \in Place /\ p # q
    BY <1>1, <2>1 DEF Place, Flusher
  <2> QED
    BY <1>2, <1>3, <2>2, <2>3 DEF OnePlace
<1> QED
  BY <1>4, <1>5

\* Read: the cursor moves to the last line of the page, and no line of the files between
\* is left out.
LEMMA ScanKeeps ==
  ASSUME ObsInv, Scan
  PROVE  ObsInv'
<1> DEFINE all == Numbers(backup) \cup Numbers(active)
           later == {n \in all : n > cursor}
           got == IF cursor = 0 THEN NewestLines(all) ELSE FirstLines(later)
           next == {cursor} \cup got
<1>1. /\ seen' = seen \cup (IF cursor = 0 THEN all ELSE got)
      /\ cursor' = Max(next)
      /\ UNCHANGED <<counter, numbered, channel, batch, active, backup, history, taken, stops>>
  BY DEF Scan
<1>2. /\ ObsTypes /\ OnePlace /\ Numbering /\ Counts /\ FilesAreCurrent
      /\ taken \in Nat /\ cursor \in Nat /\ cursor <= taken
  BY DEF ObsInv, ObsTypes, Numbering
<1>3. \A n : n \in all <=> \E l \in Files : n = l.no
  BY DEF Numbers, Files
<1>4. \A n \in all : n \in Nat \ {0} /\ n <= taken
  BY <1>2, <1>3, LinesAreReal, RealLines DEF Numbering
<1>5. got \subseteq all
  BY DEF NewestLines, FirstLines
<1> HIDE DEF all
<1>6. next \in SUBSET (0..taken) /\ next # {}
  <2>1. \A n \in next : n \in 0..taken
    BY <1>2, <1>4, <1>5
  <2> QED
    BY <2>1
<1>7. cursor' \in next /\ cursor <= cursor' /\ cursor' \in Nat /\ cursor' <= taken
  <2>1. Max(next) \in next /\ \A n \in next : n <= Max(next)
    BY <1>2, <1>6, MaxIs
  <2>2. Max(next) \in 0..taken
    BY <1>6, <2>1
  <2> QED
    BY <1>1, <1>2, <2>1, <2>2
<1>8. cursor' = cursor \/ \E m \in Files : cursor' = m.no
  BY <1>3, <1>5, <1>7
<1>9. /\ Files' = Files /\ Flying' = Flying /\ MaxSeq' = MaxSeq /\ age' = age
      /\ \A p \in Place : Held(p)' = Held(p)
  BY <1>1 DEF Files, Flying, Numbered, MaxSeq, Held, Place, Flusher, history
<1>10. ObsTypes' /\ Numbering'
  BY <1>1, <1>2, <1>7, <1>9 DEF ObsTypes, Numbering, history
<1>11. OnePlace' /\ Counts' /\ FilesAreCurrent'
  <2>1. OnePlace'
    BY <1>1, <1>2, <1>9, LostKeeps DEF history
  <2> QED
    BY <1>1, <1>2, <1>9, <2>1 DEF Counts, FilesAreCurrent, Current, history
<1>12. ASSUME NEW l \in Files, cursor < l.no, l.no <= cursor' PROVE l.no \in seen'
  <2>1. l.no \in all /\ l.no \in Nat
    BY <1>3, <1>4, <1>12
  <2>2. CASE cursor = 0
    BY <1>1, <2>1, <2>2
  <2>3. CASE cursor # 0
    <3>1. later \in SUBSET (0..taken)
      <4>1. \A n \in later : n \in 0..taken
        BY <1>4
      <4> QED
        BY <4>1
    <3>2. cursor' \in FirstLines(later)
      BY <1>2, <1>7, <1>12, <2>1, <2>3
    <3>3. cursor' \in later /\ Cardinality(Below(later, cursor')) < TailLimit
      BY <3>2 DEF FirstLines, Below
    <3>4. l.no \in later
      BY <1>12, <2>1
    <3>5. TailLimit \in Nat
      BY ObsAssumption
    <3> HIDE DEF later
    <3>6. PICK n : n = cursor'
      OBVIOUS
    <3>7. n \in later /\ Cardinality(Below(later, n)) < TailLimit /\ l.no <= n
      BY <1>12, <3>3, <3>6
    <3>8. PICK k \in later : k = l.no /\ k <= n
      BY <3>4, <3>7
    <3>9. Cardinality(Below(later, k)) < TailLimit
      BY <1>2, <3>1, <3>5, <3>7, <3>8, FirstOnes
    <3>10. k \in got
      BY <2>3, <3>9 DEF FirstLines, Below
    <3> QED
      BY <1>1, <2>3, <3>8, <3>10
  <2> QED
    BY <2>2, <2>3
<1> HIDE DEF got, next, later
<1>13. ASSUME ~strayed', ~reused' PROVE Tailed'
  <2>1. Tailed /\ ~strayed /\ UNCHANGED <<counter, overtaken>>
    BY <1>1, <1>13 DEF ObsInv, history
  <2>2. \A l \in Files : Current(l) /\ l.no \in Nat \ {0}
    BY <1>2, <2>1, LinesAreReal, RealLines DEF FilesAreCurrent
  <2>3. cursor' <= IF counter = Unknown THEN MaxSeq ELSE counter
    <3>1. CASE cursor' = cursor
      BY <2>1, <3>1 DEF Tailed
    <3>2. ASSUME NEW m \in Files, cursor' = m.no
          PROVE  cursor' <= IF counter = Unknown THEN MaxSeq ELSE counter
      BY <1>2, <2>2, <3>2, MaxSeqIs DEF Counts
    <3> QED
      BY <1>8, <3>1, <3>2
  <2>4. \A l \in Files : l.no <= cursor' => l.no \in seen' \/ l \in overtaken
    <3>1. TAKE l \in Files
    <3>2. HAVE l.no <= cursor'
    <3>3. CASE l.no <= cursor
      BY <1>1, <2>1, <3>3 DEF Tailed
    <3>4. CASE cursor < l.no
      BY <1>12, <3>2, <3>4
    <3> QED
      BY <1>2, <2>2, <3>3, <3>4
  <2>5. ASSUME NEW l \in Flying, Current(l), l.no <= cursor' PROVE l \in overtaken
    <3>1. CASE cursor' = cursor
      BY <2>1, <2>5, <3>1 DEF Tailed
    <3>2. ASSUME NEW m \in Files, cursor' = m.no PROVE l \in overtaken
      <4>1. l.no \in Nat /\ m.no \in Nat /\ Current(m)
        BY <1>2, <2>2, LinesAreReal, RealLines
      <4>2. l.no # m.no
        BY <1>2, <2>2, <2>5, FlyingApart
      <4>3. l.no < m.no
        BY <2>5, <3>2, <4>1, <4>2
      <4> QED
        BY <2>1, <2>5, <4>3 DEF Tailed
    <3> QED
      BY <1>8, <3>1, <3>2
  <2> QED
    BY <1>9, <2>1, <2>3, <2>4, <2>5 DEF Tailed, Current
<1> QED
  BY <1>10, <1>11, <1>13 DEF ObsInv

LEMMA ObsInvStep == ObsInv /\ [ObsNext]_ovars => ObsInv'
<1> SUFFICES ASSUME ObsInv, [ObsNext]_ovars PROVE ObsInv'
  OBVIOUS
<1>1. ASSUME NEW w \in Writer, Number(w) \/ Queue(w) PROVE ObsInv'
  BY <1>1, NumberKeeps, QueueKeeps
<1>2. CASE LoopDrains
  BY <1>2, DrainKeeps DEF LoopDrains, Flusher, tail
<1>3. CASE LoopFlushes
  BY <1>3, FlushKeeps DEF LoopFlushes, Flusher, tail
<1>4. CASE TailFlushes
  <2>1. CASE Drain("reader") /\ UNCHANGED <<cursor, seen>>
    BY <2>1, DrainKeeps DEF Flusher
  <2>2. CASE Flush("reader") /\ UNCHANGED <<cursor, seen>>
    BY <2>2, FlushKeeps DEF Flusher
  <2>3. CASE UNCHANGED <<counter, numbered, channel, batch, active, backup, cursor, seen,
                         history, taken, stops>>
    <3>1. ObsTypes' /\ Flying' = Flying
      BY <2>3 DEF ObsInv, ObsTypes, Flying, Numbered, history
    <3>2. OnePlace'
      <4>1. \A p \in Place : Held(p)' = Held(p)
        BY <2>3 DEF Held, Place, Flusher
      <4> QED
        BY <2>3, <4>1, LostKeeps DEF ObsInv, history
    <3> QED
      BY <2>3, <3>1, <3>2, MovedKeeps DEF history
  <2> QED
    BY <1>4, <2>1, <2>2, <2>3 DEF TailFlushes
<1>5. CASE Scan
  BY <1>5, ScanKeeps
<1>6. CASE Restart \/ DeleteLog
  BY <1>6, ReopenedKeeps
<1>7. CASE UNCHANGED ovars
  <2>1. ObsTypes' /\ Flying' = Flying
    BY <1>7 DEF ObsInv, ObsTypes, Flying, Numbered, ovars
  <2>2. OnePlace'
    <3>1. \A p \in Place : Held(p)' = Held(p)
      BY <1>7 DEF Held, Place, Flusher, ovars
    <3> QED
      BY <1>7, <3>1, LostKeeps DEF ObsInv, ovars
  <2> QED
    BY <1>7, <2>1, <2>2, MovedKeeps DEF ovars
<1> QED
  BY <1>1, <1>2, <1>3, <1>4, <1>5, <1>6, <1>7 DEF ObsNext

LEMMA ObsInvExact == ObsInv => TailIsExact
<1> SUFFICES ASSUME ObsInv, ~strayed PROVE
      /\ ~reused => \A l \in ToSet(backup \o active) :
             l.no <= cursor => l.no \in seen \/ l \in overtaken
      /\ \A i, j \in DOMAIN (backup \o active) :
           (backup \o active)[i].no = (backup \o active)[j].no => i = j
  BY DEF TailIsExact
<1>1. /\ backup \in Seq(RealLine) /\ active \in Seq(RealLine)
      /\ OnePlace /\ \A l \in Files : Current(l)
  BY DEF ObsInv, ObsTypes, FilesAreCurrent
<1>2. ToSet(backup \o active) = Files
  BY <1>1, ConcatSet DEF Files
<1>3. ASSUME ~reused
      PROVE  \A l \in ToSet(backup \o active) : l.no <= cursor => l.no \in seen \/ l \in overtaken
  BY <1>2, <1>3 DEF ObsInv, Tailed
<1>4. /\ Len(backup) \in Nat /\ Len(active) \in Nat
      /\ DOMAIN (backup \o active) = 1..(Len(backup) + Len(active))
      /\ \A i \in 1..(Len(backup) + Len(active)) :
           (backup \o active)[i] = IF i <= Len(backup) THEN backup[i] ELSE active[i - Len(backup)]
  <2>1. /\ backup \o active \in Seq(RealLine)
        /\ Len(backup \o active) = Len(backup) + Len(active)
        /\ \A i \in 1..(Len(backup) + Len(active)) :
             (backup \o active)[i] = IF i <= Len(backup) THEN backup[i] ELSE active[i - Len(backup)]
    BY <1>1, ConcatProperties
  <2> QED
    BY <1>1, <2>1
<1>5. /\ Held("backup") = backup /\ Held("active") = active
      /\ "backup" \in Place /\ "active" \in Place /\ "backup" # "active"
      /\ DOMAIN backup = 1..Len(backup) /\ DOMAIN active = 1..Len(active)
      /\ \A i \in DOMAIN backup : Current(backup[i])
      /\ \A i \in DOMAIN active : Current(active[i])
  BY <1>1 DEF Held, Place, Files, ToSet
<1>6. ASSUME NEW i \in DOMAIN (backup \o active), NEW j \in DOMAIN (backup \o active),
             (backup \o active)[i].no = (backup \o active)[j].no
      PROVE  i = j
  <2>1. i \in Nat /\ j \in Nat
    BY <1>4, <1>6
  <2>2. CASE i <= Len(backup) /\ j <= Len(backup)
    BY <1>1, <1>4, <1>5, <1>6, <2>2 DEF OnePlace
  <2>3. CASE ~(i <= Len(backup)) /\ ~(j <= Len(backup))
    <3>1. /\ i - Len(backup) \in DOMAIN active /\ j - Len(backup) \in DOMAIN active
          /\ active[i - Len(backup)].no = active[j - Len(backup)].no
      BY <1>4, <1>5, <1>6, <2>3
    <3>2. i - Len(backup) = j - Len(backup)
      BY <1>1, <1>5, <3>1 DEF OnePlace
    <3> QED
      BY <1>4, <2>1, <3>2
  <2>4. CASE i <= Len(backup) /\ ~(j <= Len(backup))
    <3>1. i \in DOMAIN backup /\ j - Len(backup) \in DOMAIN active
          /\ backup[i].no = active[j - Len(backup)].no
      BY <1>4, <1>5, <1>6, <2>4
    <3> QED
      BY <1>1, <1>5, <3>1 DEF OnePlace
  <2>5. CASE ~(i <= Len(backup)) /\ j <= Len(backup)
    <3>1. j \in DOMAIN backup /\ i - Len(backup) \in DOMAIN active
          /\ backup[j].no = active[i - Len(backup)].no
      BY <1>4, <1>5, <1>6, <2>5
    <3> QED
      BY <1>1, <1>5, <3>1 DEF OnePlace
  <2> QED
    BY <2>2, <2>3, <2>4, <2>5
<1> QED
  BY <1>3, <1>6

\* Read: a tail neither misses nor repeats a line of the files, for any writers, caps and
\* page size, through drops, failed writes, rotations, restarts and deletes; but for what
\* a newer line has overtaken between numbering and writing.
THEOREM TailMissesNothing == ObsSpec => []TailIsExact
BY ObsInvInit, ObsInvStep, ObsInvExact, PTL DEF ObsSpec

-----------------------------------------------------------------------------
(* The agent loop: the request                                             *)

Role == {"developer", "user", "said", "prompt", "calls", "reply"}
Msg == [role : Role, ids : Seq(Nat)]

Prompts(ms) == {i \in 1..Len(ms) : ms[i].role = "prompt"}

\* The first d messages are the developer's, and behind every message with calls are its
\* replies, which are nowhere else.
Sound(ms, d) ==
  /\ ms \in Seq(Msg) /\ Len(ms) >= d
  /\ \A i \in 1..Len(ms) : ms[i].role = "developer" <=> i <= d
  /\ \A i \in 1..Len(ms) : ms[i].role = "calls" =>
       \A j \in 1..Len(ms[i].ids) :
         i + j <= Len(ms) /\ ms[i + j] = Message("reply", <<ms[i].ids[j]>>)
  /\ \A i \in 1..Len(ms) : ms[i].role = "reply" =>
       \E k \in 1..(i - 1) :
         ms[k].role = "calls" /\ \E j \in 1..Len(ms[k].ids) : i = k + j

\* The replies of the history are for calls below n, one for each.
CountedTo(ms, n) ==
  /\ \A i \in 1..Len(ms) : ms[i].role = "reply" => \E u \in 0..(n - 1) : ms[i].ids = <<u>>
  /\ \A i, j \in 1..Len(ms) :
       ms[i].role = "reply" /\ ms[j].role = "reply" /\ ms[i].ids = ms[j].ids => i = j

\* A message that is no call and no reply.
LEMMA SayKeeps ==
  ASSUME NEW ms, NEW d \in Nat, Sound(ms, d), NEW role \in {"user", "said", "prompt"}
  PROVE  /\ Sound(Append(ms, Message(role, <<>>)), d)
         /\ Prompts(Append(ms, Message(role, <<>>))) =
              Prompts(ms) \cup (IF role = "prompt" THEN {Len(ms) + 1} ELSE {})
<1> DEFINE m == Message(role, <<>>)
           out == Append(ms, m)
<1>1. m \in Msg /\ m.role = role
  BY DEF Message, Msg, Role
<1>2. ms \in Seq(Msg) /\ Len(ms) \in Nat /\ Len(ms) >= d
  BY DEF Sound
<1> HIDE DEF m
<1>3. /\ out \in Seq(Msg) /\ Len(out) = Len(ms) + 1 /\ out[Len(ms) + 1] = m
      /\ \A i \in 1..Len(ms) : out[i] = ms[i]
  BY <1>1, <1>2, AppendProperties
<1>4. \A i \in 1..Len(out) : i \in 1..Len(ms) \/ i = Len(ms) + 1
  BY <1>2, <1>3
<1> HIDE DEF out
<1>5. \A i \in 1..Len(out) : out[i].role \in {"calls", "reply"} => i \in 1..Len(ms)
  BY <1>1, <1>3, <1>4
<1>6. Sound(out, d)
  <2>1. Len(out) >= d /\ \A i \in 1..Len(out) : out[i].role = "developer" <=> i <= d
    <3>1. ASSUME NEW i \in 1..Len(out) PROVE out[i].role = "developer" <=> i <= d
      <4>1. CASE i \in 1..Len(ms)
        BY <1>3, <4>1 DEF Sound
      <4>2. CASE i = Len(ms) + 1
        BY <1>1, <1>2, <1>3, <4>2
      <4> QED
        BY <1>4, <4>1, <4>2
    <3> QED
      BY <1>2, <1>3, <3>1
  <2>2. ASSUME NEW i \in 1..Len(out), out[i].role = "calls", NEW j \in 1..Len(out[i].ids)
        PROVE  i + j <= Len(out) /\ out[i + j] = Message("reply", <<out[i].ids[j]>>)
    <3>1. i \in 1..Len(ms) /\ out[i] = ms[i]
      BY <1>3, <1>5, <2>2
    <3>2. i + j <= Len(ms) /\ ms[i + j] = Message("reply", <<ms[i].ids[j]>>)
      BY <2>2, <3>1 DEF Sound
    <3>3. ms[i].ids \in Seq(Nat)
      <4>1. ms[i] \in Msg
        BY <1>2, <3>1, ElementOfSeq
      <4> QED
        BY <4>1 DEF Msg
    <3>4. i + j \in 1..Len(ms) /\ i + j <= Len(out)
      BY <1>2, <1>3, <2>2, <3>1, <3>2, <3>3
    <3> QED
      BY <1>3, <3>1, <3>2, <3>4
  <2>3. ASSUME NEW i \in 1..Len(out), out[i].role = "reply"
        PROVE  \E k \in 1..(i - 1) :
                 out[k].role = "calls" /\ \E j \in 1..Len(out[k].ids) : i = k + j
    <3>1. i \in 1..Len(ms) /\ out[i] = ms[i]
      BY <1>3, <1>5, <2>3
    <3>2. PICK k \in 1..(i - 1) :
            ms[k].role = "calls" /\ \E j \in 1..Len(ms[k].ids) : i = k + j
      BY <2>3, <3>1 DEF Sound
    <3>3. out[k] = ms[k]
      BY <1>2, <1>3, <3>1
    <3> QED
      BY <3>2, <3>3
  <2> QED
    BY <1>3, <2>1, <2>2, <2>3 DEF Sound
<1>7. Prompts(out) = Prompts(ms) \cup (IF role = "prompt" THEN {Len(ms) + 1} ELSE {})
  <2>1. \A i \in 1..Len(ms) : i \in 1..Len(out)
    BY <1>2, <1>3
  <2>2. Len(ms) + 1 \in 1..Len(out) /\ Len(ms) + 1 \notin 1..Len(ms)
    BY <1>2, <1>3
  <2> QED
    BY <1>1, <1>3, <1>4, <2>1, <2>2 DEF Prompts
<1> QED
  BY <1>6, <1>7 DEF m, out

\* What is at each place when a message with calls and its replies were added.
LEMMA AnsweredAt ==
  ASSUME NEW ms \in Seq(Msg), NEW ids \in Seq(Nat)
  PROVE  LET out == ms \o AnsweredCalls(ids) IN
         /\ out \in Seq(Msg) /\ Len(out) = Len(ms) + 1 + Len(ids)
         /\ \A i \in 1..Len(ms) : out[i] = ms[i]
         /\ out[Len(ms) + 1] = Message("calls", ids)
         /\ \A j \in 1..Len(ids) : out[Len(ms) + 1 + j] = Message("reply", <<ids[j]>>)
<1> DEFINE call == Message("calls", ids)
           replies == [i \in 1..Len(ids) |-> Message("reply", <<ids[i]>>)]
           block == <<call>> \o replies
           out == ms \o block
<1>1. ASSUME NEW i \in 1..Len(ids) PROVE Message("reply", <<ids[i]>>) \in Msg
  <2>1. ids[i] \in Nat
    BY <1>1, ElementOfSeq
  <2> DEFINE id == ids[i]
  <2> HIDE DEF id
  <2>2. id \in Nat
    BY <2>1 DEF id
  <2>3. <<id>> \in Seq(Nat)
    BY <2>2
  <2>4. [role |-> "reply", ids |-> <<id>>] \in Msg
    BY <2>3 DEF Msg, Role
  <2> QED
    BY <2>4 DEF Message, id
<1>1a. call \in Msg
  BY DEF Message, Msg, Role
<1>2. replies \in Seq(Msg) /\ Len(replies) = Len(ids)
  <2> DEFINE reply(i) == Message("reply", <<ids[i]>>)
             w == Len(ids)
  <2>1. \A i \in 1..w : reply(i) \in Msg
    BY <1>1
  <2>2. w \in Nat
    OBVIOUS
  <2> DEFINE all == [i \in 1..w |-> reply(i)]
  <2>3. replies = all
    BY DEF reply, all
  <2> HIDE DEF reply, w
  <2>4. all \in Seq(Msg) /\ Len(all) = w
    BY <2>1, <2>2
  <2> HIDE DEF all
  <2>5. replies \in Seq(Msg) /\ Len(replies) = w
    BY <2>3, <2>4
  <2> QED
    BY <2>5 DEF w
<1>3. \A j \in 1..Len(ids) : replies[j] = Message("reply", <<ids[j]>>)
  OBVIOUS
<1> HIDE DEF call, replies
<1>4. <<call>> \in Seq(Msg) /\ Len(<<call>>) = 1 /\ <<call>>[1] = call
  BY <1>1a
<1>5. /\ block \in Seq(Msg) /\ Len(block) = 1 + Len(ids) /\ block[1] = call
      /\ \A j \in 1..Len(ids) : block[1 + j] = replies[j]
  <2>1. 1 \in 1..Len(<<call>>)
    BY <1>4
  <2> QED
    BY <1>2, <1>4, <2>1, ConcatAt
<1> HIDE DEF block
<1>6. /\ out \in Seq(Msg) /\ Len(out) = Len(ms) + (1 + Len(ids))
      /\ \A i \in 1..Len(ms) : out[i] = ms[i]
      /\ \A i \in 1..(1 + Len(ids)) : out[Len(ms) + i] = block[i]
  <2>1. /\ ms \o block \in Seq(Msg) /\ Len(ms \o block) = Len(ms) + Len(block)
        /\ \A i \in 1..Len(ms) : (ms \o block)[i] = ms[i]
        /\ \A i \in 1..Len(block) : (ms \o block)[Len(ms) + i] = block[i]
    <3>1. block \in Seq(Msg) /\ ms \in Seq(Msg)
      BY <1>5
    <3> HIDE DEF out
    <3> QED
      BY <3>1, ConcatAt
  <2> QED
    BY <1>5, <2>1
<1>7. \A j \in 1..Len(ids) : out[Len(ms) + 1 + j] = replies[j]
  <2>1. TAKE j \in 1..Len(ids)
  <2>2. 1 + j \in 1..(1 + Len(ids)) /\ Len(ms) + (1 + j) = Len(ms) + 1 + j
    OBVIOUS
  <2> QED
    BY <1>5, <1>6, <2>2
<1>8. out[Len(ms) + 1] = call
  <2>1. 1 \in 1..(1 + Len(ids))
    OBVIOUS
  <2> QED
    BY <1>5, <1>6, <2>1
<1>9. ms \o AnsweredCalls(ids) = out /\ Len(out) = Len(ms) + 1 + Len(ids)
  BY <1>6 DEF AnsweredCalls, block, call, replies
<1> HIDE DEF out
<1> QED
  BY <1>3, <1>6, <1>7, <1>8, <1>9 DEF call

\* A round of calls, each answered, whatever their ids are.
LEMMA CallsKeep ==
  ASSUME NEW ms, NEW d \in Nat, Sound(ms, d), NEW ids \in Seq(Nat)
  PROVE  /\ Sound(ms \o AnsweredCalls(ids), d)
         /\ Prompts(ms \o AnsweredCalls(ids)) = Prompts(ms)
<1> DEFINE out == ms \o AnsweredCalls(ids)
           c == Len(ms) + 1
<1>1. ms \in Seq(Msg) /\ Len(ms) \in Nat /\ Len(ms) >= d /\ Len(ids) \in Nat
  BY DEF Sound
<1>2. /\ out \in Seq(Msg) /\ Len(out) = c + Len(ids)
      /\ \A i \in 1..Len(ms) : out[i] = ms[i]
      /\ out[c] = Message("calls", ids)
      /\ \A j \in 1..Len(ids) : out[c + j] = Message("reply", <<ids[j]>>)
  BY <1>1, AnsweredAt
<1> HIDE DEF out
<1>3. \A i \in 1..Len(out) : i \in 1..Len(ms) \/ i = c \/ \E j \in 1..Len(ids) : i = c + j
  <2>1. TAKE i \in 1..Len(out)
  <2>2. CASE i > c
    <3>1. i - c \in 1..Len(ids) /\ i = c + (i - c)
      BY <1>1, <1>2, <2>2
    <3> QED
      BY <3>1
  <2>3. CASE i <= c
    BY <1>1, <1>2, <2>3
  <2> QED
    BY <1>1, <1>2, <2>2, <2>3
<1>4. out[c].role = "calls" /\ out[c].ids = ids
  BY <1>2 DEF Message
<1>5. \A j \in 1..Len(ids) : out[c + j].role = "reply" /\ out[c + j].ids = <<ids[j]>>
  <2>1. \A x : Message("reply", x).role = "reply" /\ Message("reply", x).ids = x
    BY DEF Message
  <2>2. TAKE j \in 1..Len(ids)
  <2>3. out[c + j] = Message("reply", <<ids[j]>>)
    BY <1>2
  <2> QED
    BY <2>1, <2>3, Zenon
<1>6. \A i \in 1..Len(ms) : i \in 1..Len(out)
  BY <1>1, <1>2
<1>7. Len(out) >= d /\ \A i \in 1..Len(out) : out[i].role = "developer" <=> i <= d
  <2>1. ASSUME NEW i \in 1..Len(out) PROVE out[i].role = "developer" <=> i <= d
    <3>1. CASE i \in 1..Len(ms)
      BY <1>2, <3>1 DEF Sound
    <3>2. CASE i = c
      BY <1>1, <1>4, <3>2
    <3>3. CASE \E j \in 1..Len(ids) : i = c + j
      <4>1. PICK j \in 1..Len(ids) : i = c + j
        BY <3>3
      <4>2. out[i].role = "reply" /\ i > d
        BY <1>1, <1>5, <4>1
      <4> QED
        BY <4>2
    <3> QED
      BY <1>3, <3>1, <3>2, <3>3
  <2> QED
    BY <1>1, <1>2, <2>1
<1>8. ASSUME NEW i \in 1..Len(out), out[i].role = "calls", NEW j \in 1..Len(out[i].ids)
      PROVE  i + j <= Len(out) /\ out[i + j] = Message("reply", <<out[i].ids[j]>>)
  <2>1. CASE i \in 1..Len(ms)
    <3>1. out[i] = ms[i]
      BY <1>2, <2>1
    <3>2. i + j <= Len(ms) /\ ms[i + j] = Message("reply", <<ms[i].ids[j]>>)
      BY <1>8, <2>1, <3>1 DEF Sound
    <3>3. ms[i].ids \in Seq(Nat)
      <4>1. ms[i] \in Msg
        BY <1>1, <2>1, ElementOfSeq
      <4> QED
        BY <4>1 DEF Msg
    <3>4. i + j \in 1..Len(ms) /\ i + j <= Len(out)
      BY <1>1, <1>2, <1>8, <2>1, <3>1, <3>2, <3>3
    <3> QED
      BY <1>2, <3>1, <3>2, <3>4
  <2>2. CASE i = c
    <3>1. j \in 1..Len(ids)
      BY <1>4, <2>2
    <3> QED
      BY <1>1, <1>2, <1>4, <2>2, <3>1
  <2>3. CASE \E k \in 1..Len(ids) : i = c + k
    BY <1>5, <1>8, <2>3
  <2> QED
    BY <1>3, <2>1, <2>2, <2>3
<1>9. ASSUME NEW i \in 1..Len(out), out[i].role = "reply"
      PROVE  \E k \in 1..(i - 1) :
               out[k].role = "calls" /\ \E j \in 1..Len(out[k].ids) : i = k + j
  <2>1. CASE i \in 1..Len(ms)
    <3>1. out[i] = ms[i]
      BY <1>2, <2>1
    <3>2. PICK k \in 1..(i - 1) :
            ms[k].role = "calls" /\ \E j \in 1..Len(ms[k].ids) : i = k + j
      BY <1>9, <2>1, <3>1 DEF Sound
    <3>3. out[k] = ms[k]
      BY <1>1, <1>2, <2>1
    <3> QED
      BY <3>2, <3>3
  <2>2. CASE \E k \in 1..Len(ids) : i = c + k
    <3>1. PICK k \in 1..Len(ids) : i = c + k
      BY <2>2
    <3>2. c \in 1..(i - 1)
      BY <1>1, <3>1
    <3> QED
      BY <1>4, <3>1, <3>2
  <2>3. CASE i = c
    BY <1>4, <1>9, <2>3
  <2> QED
    BY <1>3, <2>1, <2>2, <2>3
<1>10. Prompts(out) = Prompts(ms)
  <2>1. \A i \in 1..Len(out) : out[i].role = "prompt" => i \in 1..Len(ms)
    BY <1>3, <1>4, <1>5
  <2> QED
    BY <1>2, <1>6, <2>1 DEF Prompts
<1>11. Sound(out, d)
  BY <1>2, <1>7, <1>8, <1>9 DEF Sound
<1> QED
  BY <1>10, <1>11 DEF out

\* The calls of the history stay counted: a message that is no reply, and
LEMMA SayCounted ==
  ASSUME NEW ms \in Seq(Msg), NEW n \in Nat, CountedTo(ms, n),
         NEW role \in {"user", "said", "prompt"}
  PROVE  CountedTo(Append(ms, Message(role, <<>>)), n)
<1> DEFINE m == Message(role, <<>>)
           out == Append(ms, m)
<1>1. m \in Msg /\ m.role = role
  BY DEF Message, Msg, Role
<1> HIDE DEF m
<1>2. /\ Len(out) = Len(ms) + 1 /\ out[Len(ms) + 1] = m
      /\ \A i \in 1..Len(ms) : out[i] = ms[i]
  BY <1>1, AppendProperties
<1> HIDE DEF out
<1>3. \A i \in 1..Len(out) : out[i].role = "reply" => i \in 1..Len(ms) /\ out[i] = ms[i]
  <2>1. \A i \in 1..Len(out) : i \in 1..Len(ms) \/ i = Len(ms) + 1
    BY <1>2
  <2> QED
    BY <1>1, <1>2, <2>1
<1>4. CountedTo(out, n)
  BY <1>3 DEF CountedTo
<1> QED
  BY <1>4 DEF out, m

\* the calls of the next saved turn.
LEMMA CallsCounted ==
  ASSUME NEW ms \in Seq(Msg), NEW n \in Nat, CountedTo(ms, n), NEW w \in Nat,
         NEW ids \in Seq(Nat), Len(ids) = w, \A i \in 1..w : ids[i] = n + i - 1
  PROVE  CountedTo(ms \o AnsweredCalls(ids), n + w)
<1> DEFINE out == ms \o AnsweredCalls(ids)
           c == Len(ms) + 1
<1>1. /\ Len(out) = c + w /\ Len(ms) \in Nat
      /\ \A i \in 1..Len(ms) : out[i] = ms[i]
      /\ out[c] = Message("calls", ids)
      /\ \A j \in 1..w : out[c + j] = Message("reply", <<ids[j]>>)
  <2>1. /\ Len(out) = Len(ms) + 1 + Len(ids)
        /\ \A i \in 1..Len(ms) : out[i] = ms[i]
        /\ out[Len(ms) + 1] = Message("calls", ids)
        /\ \A j \in 1..Len(ids) : out[Len(ms) + 1 + j] = Message("reply", <<ids[j]>>)
    BY AnsweredAt
  <2> HIDE DEF out
  <2> QED
    BY <2>1
<1> HIDE DEF out
<1>2. out[c].role = "calls" /\ \A j \in 1..w : out[c + j].ids = <<n + j - 1>>
  <2>1. \A x : Message("reply", x).ids = x /\ Message("calls", x).role = "calls"
    BY DEF Message
  <2>2. ASSUME NEW j \in 1..w PROVE out[c + j].ids = <<n + j - 1>>
    <3>1. out[c + j] = Message("reply", <<ids[j]>>) /\ ids[j] = n + j - 1
      BY <1>1
    <3> HIDE DEF c
    <3>2. out[c + j].ids = <<ids[j]>>
      BY <2>1, <3>1
    <3> QED
      BY <3>1, <3>2
  <2>3. out[c].role = "calls"
    BY <1>1, <2>1, Zenon
  <2> QED
    BY <2>2, <2>3
<1>3. ASSUME NEW i \in 1..Len(out), out[i].role = "reply"
      PROVE  \/ i \in 1..Len(ms) /\ out[i] = ms[i] /\ \E u \in 0..(n - 1) : out[i].ids = <<u>>
             \/ i - c \in 1..w /\ out[i].ids = <<n + (i - c) - 1>>
  <2>1. CASE i <= Len(ms)
    <3>1. i \in 1..Len(ms) /\ out[i] = ms[i]
      BY <1>1, <2>1
    <3>2. \E u \in 0..(n - 1) : ms[i].ids = <<u>>
      BY <1>3, <3>1, Zenon DEF CountedTo
    <3> QED
      BY <3>1, <3>2
  <2>2. CASE i = c
    BY <1>2, <1>3, <2>2
  <2>3. CASE i > c
    <3> DEFINE j == i - c
    <3>1. j \in 1..w /\ i = c + j
      BY <1>1, <2>3
    <3> HIDE DEF j
    <3>2. out[i].ids = <<n + j - 1>>
      BY <1>2, <3>1
    <3> QED
      BY <3>1, <3>2 DEF j
  <2> QED
    BY <1>1, <2>1, <2>2, <2>3
<1>4. ASSUME NEW i \in 1..Len(out), out[i].role = "reply"
      PROVE  \E u \in 0..(n + w - 1) : out[i].ids = <<u>>
  <2>1. CASE \E u \in 0..(n - 1) : out[i].ids = <<u>>
    <3>1. PICK u \in 0..(n - 1) : out[i].ids = <<u>>
      BY <2>1
    <3>2. u \in 0..(n + w - 1)
      OBVIOUS
    <3> QED
      BY <3>1, <3>2
  <2>2. CASE i - c \in 1..w /\ out[i].ids = <<n + (i - c) - 1>>
    <3> DEFINE u == n + (i - c) - 1
    <3>1. u \in 0..(n + w - 1)
      BY <2>2
    <3> QED
      BY <2>2, <3>1
  <2> QED
    BY <1>3, <1>4, <2>1, <2>2
<1>5. ASSUME NEW i \in 1..Len(out), NEW j \in 1..Len(out),
             out[i].role = "reply", out[j].role = "reply", out[i].ids = out[j].ids
      PROVE  i = j
  <2>1. ASSUME NEW k \in 1..Len(out), out[k].role = "reply"
        PROVE  \E u \in Nat : /\ out[k].ids = <<u>>
                              /\ \/ k \in 1..Len(ms) /\ u < n
                                 \/ k = c + (u - n) + 1 /\ u >= n
    <3>1. CASE \E u \in 0..(n - 1) : k \in 1..Len(ms) /\ out[k].ids = <<u>>
      <4>1. PICK u \in 0..(n - 1) : k \in 1..Len(ms) /\ out[k].ids = <<u>>
        BY <3>1
      <4>2. u \in Nat /\ u < n
        OBVIOUS
      <4> QED
        BY <4>1, <4>2
    <3>2. CASE k - c \in 1..w /\ out[k].ids = <<n + (k - c) - 1>>
      <4> DEFINE u == n + (k - c) - 1
      <4>1. u \in Nat /\ u >= n /\ k = c + (u - n) + 1
        BY <1>1, <3>2
      <4> QED
        BY <3>2, <4>1
    <3> QED
      BY <1>3, <2>1, <3>1, <3>2
  <2>2. PICK u \in Nat : /\ out[i].ids = <<u>>
                        /\ \/ i \in 1..Len(ms) /\ u < n
                           \/ i = c + (u - n) + 1 /\ u >= n
    BY <1>5, <2>1
  <2>3. PICK v \in Nat : /\ out[j].ids = <<v>>
                        /\ \/ j \in 1..Len(ms) /\ v < n
                           \/ j = c + (v - n) + 1 /\ v >= n
    BY <1>5, <2>1
  <2>4. u = v
    <3>1. <<u>> = <<v>>
      BY <1>5, <2>2, <2>3, Zenon
    <3> QED
      BY <3>1
  <2>5. CASE u >= n
    BY <2>2, <2>3, <2>4, <2>5
  <2>6. CASE u < n
    <3>1. /\ i \in 1..Len(ms) /\ j \in 1..Len(ms)
      BY <2>2, <2>3, <2>4, <2>6
    <3>2. out[i] = ms[i] /\ out[j] = ms[j]
      BY <1>1, <3>1
    <3> QED
      BY <1>5, <3>1, <3>2 DEF CountedTo
  <2> QED
    BY <2>2, <2>5, <2>6
<1>6. CountedTo(out, n + w)
  BY <1>4, <1>5 DEF CountedTo
<1> QED
  BY <1>6 DEF out

\* What assembleMessages has made of the turns so far.
Requests == {x \in [talk : Seq(Msg), seq : Nat] :
               Sound(x.talk, Guides) /\ CountedTo(x.talk, x.seq) /\ Prompts(x.talk) = {}}

LEMMA GuidesAre == Guides \in 1..2
BY DEF Guides

LEMMA ToldIsNat ==
  ASSUME NEW t \in Turn
  PROVE  Told(t) \in Nat
<1>1. Len(t.steps) \in Nat /\ DOMAIN t.steps = 1..Len(t.steps)
  BY DEF Turn
<1>2. IsFiniteSet(1..Len(t.steps))
  <2> DEFINE m == Len(t.steps)
  <2> HIDE DEF m
  <2>1. 1 \in Int /\ m \in Int
    BY <1>1 DEF m
  <2>2. IsFiniteSet(1..m)
    BY <2>1, FS_Interval
  <2> QED
    BY <2>2 DEF m
<1> DEFINE told == {i \in DOMAIN t.steps : t.steps[i] = "told"}
<1>3. told \subseteq 1..Len(t.steps)
  BY <1>1
<1> HIDE DEF told
<1>4. IsFiniteSet(told)
  BY <1>2, <1>3, FS_Subset
<1>5. Cardinality(told) \in Nat
  BY <1>4, FS_CardinalityType
<1> QED
  BY <1>5 DEF Told, told

LEMMA IsRequest ==
  ASSUME NEW out \in Seq(Msg), NEW n \in Nat, Sound(out, Guides), CountedTo(out, n),
         Prompts(out) = {}
  PROVE  [talk |-> out, seq |-> n] \in Requests
<1> DEFINE x == [talk |-> out, seq |-> n]
<1>1. x \in [talk : Seq(Msg), seq : Nat] /\ x.talk = out /\ x.seq = n
  OBVIOUS
<1> HIDE DEF x
<1>2. Sound(x.talk, Guides) /\ CountedTo(x.talk, x.seq) /\ Prompts(x.talk) = {}
  BY <1>1
<1>3. x \in Requests
  BY <1>1, <1>2 DEF Requests
<1> QED
  BY <1>3 DEF x

LEMMA SayIsRequest ==
  ASSUME NEW req \in Requests, NEW role \in {"user", "said"}
  PROVE  Say(req, role) \in Requests /\ Say(req, role).seq = req.seq
<1> DEFINE said == Append(req.talk, Message(role, <<>>))
<1>1. /\ req.talk \in Seq(Msg) /\ req.seq \in Nat
      /\ Sound(req.talk, Guides) /\ CountedTo(req.talk, req.seq) /\ Prompts(req.talk) = {}
      /\ req = [talk |-> req.talk, seq |-> req.seq]
  BY DEF Requests
<1>2. Say(req, role) = [talk |-> said, seq |-> req.seq]
  <2>1. PICK t, n : req = [talk |-> t, seq |-> n] /\ req.seq = n
    BY <1>1
  <2> HIDE DEF said
  <2>2. [req EXCEPT !.talk = said] = [talk |-> said, seq |-> n]
    BY <2>1
  <2> QED
    BY <2>1, <2>2 DEF Say, said
<1>3. Sound(said, Guides) /\ Prompts(said) = {}
  <2>1. Guides \in Nat
    BY GuidesAre
  <2> QED
    BY <1>1, <2>1, SayKeeps
<1>4. CountedTo(said, req.seq)
  BY <1>1, SayCounted
<1> HIDE DEF said
<1>5. said \in Seq(Msg)
  BY <1>3 DEF Sound
<1>6. [talk |-> said, seq |-> req.seq] \in Requests
  BY <1>1, <1>3, <1>4, <1>5, IsRequest
<1> QED
  BY <1>2, <1>6

LEMMA CallsAreRequest ==
  ASSUME NEW req \in Requests, NEW n \in Nat
  PROVE  ReplayCalls(req, n) \in Requests
<1> DEFINE ids == [i \in 1..n |-> req.seq + i - 1]
           out == req.talk \o AnsweredCalls(ids)
<1>1. /\ req.talk \in Seq(Msg) /\ req.seq \in Nat
      /\ Sound(req.talk, Guides) /\ CountedTo(req.talk, req.seq) /\ Prompts(req.talk) = {}
  BY DEF Requests
<1>2. ids \in Seq(Nat) /\ Len(ids) = n /\ \A i \in 1..n : ids[i] = req.seq + i - 1
  <2>1. \A i \in 1..n : req.seq + i - 1 \in Nat
    BY <1>1
  <2> QED
    BY <2>1
<1>3. ReplayCalls(req, n) = [talk |-> out, seq |-> req.seq + n]
  BY DEF ReplayCalls
<1> HIDE DEF ids
<1>4. Sound(out, Guides) /\ Prompts(out) = {}
  <2>1. Guides \in Nat
    BY GuidesAre
  <2> QED
    BY <1>1, <1>2, <2>1, CallsKeep
<1>5. CountedTo(out, req.seq + n)
  BY <1>1, <1>2, CallsCounted
<1> HIDE DEF out
<1>6. out \in Seq(Msg) /\ req.seq + n \in Nat
  BY <1>1, <1>4 DEF Sound
<1>7. [talk |-> out, seq |-> req.seq + n] \in Requests
  BY <1>4, <1>5, <1>6, IsRequest
<1> QED
  BY <1>3, <1>7

LEMMA ReplayIsRequest ==
  ASSUME NEW req \in Requests, NEW t \in Turn
  PROVE  Replay(req, t) \in Requests
<1> DEFINE begun == Say(req, "user")
<1>1. begun \in Requests
  BY SayIsRequest
<1>2. Say(begun, "said") \in Requests
  BY <1>1, SayIsRequest
<1>3. ReplayCalls(begun, Told(t)) \in Requests
  BY <1>1, ToldIsNat, CallsAreRequest
<1>4. Replay(req, t) \in {req, begun, ReplayCalls(begun, Told(t)), Say(begun, "said")}
  BY DEF Replay
<1> QED
  BY <1>1, <1>2, <1>3, <1>4

\* assembleMessages, whatever the store holds of the thread.
LEMMA RequestIsRequest ==
  ASSUME NEW ts \in Seq(Turn)
  PROVE  Request(ts) \in Requests
<1> DEFINE b == Len(ts)
           a == [talk |-> Guide, seq |-> 0]
           A == [n \in 0..b |-> Requests]
           F == [n \in 1..b |-> [x \in Requests |-> Replay(x, ts[n])]]
           upto == CHOOSE f : f = [n \in 0..b |-> IF n = 0 THEN a ELSE Replay(f[n - 1], ts[n])]
<1>1. b \in Nat /\ \A n \in 1..b : ts[n] \in Turn
  BY ElementOfSeq
<1>2. a \in Requests
  <2> DEFINE m == Message("developer", <<>>)
             s == [i \in 1..Guides |-> m]
  <2>1. m \in Msg /\ m.role = "developer" /\ Guide = s /\ Guides \in Nat
    BY GuidesAre DEF Message, Msg, Role, Guide
  <2> HIDE DEF m
  <2>2. s \in Seq(Msg) /\ Len(s) = Guides /\ \A i \in 1..Guides : s[i] = m
    BY <2>1
  <2> HIDE DEF s
  <2>3. Sound(s, Guides)
    BY <2>1, <2>2 DEF Sound
  <2>4. CountedTo(s, 0) /\ Prompts(s) = {}
    BY <2>1, <2>2 DEF CountedTo, Prompts
  <2>5. [talk |-> s, seq |-> 0] \in Requests
    BY <2>2, <2>3, <2>4, IsRequest
  <2> QED
    BY <2>1, <2>5
<1>3. \A n \in 1..b : \A x \in Requests : Replay(x, ts[n]) \in Requests
  BY <1>1, ReplayIsRequest
<1> HIDE DEF b, a
<1>a. a \in A[0] /\ b \in Nat
  BY <1>1, <1>2
<1>b. \A n \in 1..b : \A x \in A[n - 1] : F[n][x] \in A[n]
  <2>1. TAKE n \in 1..b
  <2>2. n - 1 \in 0..b /\ n \in 0..b
    BY <1>1
  <2>3. A[n - 1] = Requests /\ A[n] = Requests
    BY <2>2
  <2>4. \A x \in Requests : F[n][x] = Replay(x, ts[n])
    OBVIOUS
  <2> QED
    BY <1>3, <2>3, <2>4
<1>c. \A n \in 1..b : \A x \in Requests : F[n][x] = Replay(x, ts[n])
  OBVIOUS
<1>d. \A n \in 0..b : A[n] = Requests
  OBVIOUS
<1> HIDE DEF A, F
<1>4. PICK g : Unrolls(g, b, a, F) /\ \A n \in 0..b : g[n] \in A[n]
  BY <1>a, <1>b, Recursion
<1>5. g = [n \in 0..b |-> IF n = 0 THEN a ELSE Replay(g[n - 1], ts[n])]
  <2>1. \A n \in 1..b : F[n][g[n - 1]] = Replay(g[n - 1], ts[n])
    <3>1. TAKE n \in 1..b
    <3>2. n - 1 \in 0..b
      BY <1>1
    <3>3. g[n - 1] \in Requests
      BY <1>4, <1>d, <3>2
    <3> QED
      BY <1>c, <3>3
  <2>2. \A n \in 0..b : n = 0 \/ n \in 1..b
    BY <1>1
  <2> QED
    BY <1>4, <2>1, <2>2 DEF Unrolls
<1>6. upto = [n \in 0..b |-> IF n = 0 THEN a ELSE Replay(upto[n - 1], ts[n])]
  BY <1>5, Zenon
<1> HIDE DEF upto
<1>7. \A n \in 0..b : upto[n] \in Requests
  <2> DEFINE S == {n \in 0..b : upto[n] \in Requests}
  <2>1. 0 \in S
    BY <1>1, <1>2, <1>6
  <2>2. ASSUME NEW n \in 1..b, n - 1 \in S PROVE n \in S
    <3>1. n \in 0..b /\ n # 0
      BY <1>1
    <3>2. upto[n] = Replay(upto[n - 1], ts[n])
      BY <1>6, <3>1
    <3> QED
      BY <1>3, <2>2, <3>1, <3>2
  <2> HIDE DEF S
  <2>3. \A n \in 0..b : n \in S
    BY <1>1, <2>1, <2>2, UpTo
  <2> QED
    BY <2>3 DEF S
<1>8. Request(ts) = upto[b]
  BY Zenon DEF Request, upto, a, b
<1> QED
  BY <1>1, <1>7, <1>8

-----------------------------------------------------------------------------
(* The agent loop: the transcript                                          *)

Outs == {"none", "blocked", "unknown", "output", "error"}
Call == [name : ModelCall, id : Nat, runs : BOOLEAN, out : Outs]
StepOf == [call : ModelCall, result : ModelCall \X Outs]
Transcript == [steps : Seq(StepOf), pending : Seq(ModelCall)]

Names(steps) == [i \in 1..Len(steps) |-> steps[i].call]

Unblocked(tr) == \A i \in 1..Len(tr.steps) : tr.steps[i].result[2] # "blocked"

\* Each step has the result of its own call, and what ran is told or waits.
Faithful(tr, rs) ==
  /\ \A i \in 1..Len(tr.steps) : tr.steps[i].call = tr.steps[i].result[1]
  /\ rs = Names(tr.steps) \o tr.pending

\* The names p are those of the calls behind place n that run, in their order.
Waiting(cs, n, p) ==
  \E at \in [1..Len(p) -> (n + 1)..Len(cs)] :
    /\ \A k, l \in 1..Len(p) : k < l => at[k] < at[l]
    /\ \A j \in (n + 1)..Len(cs) : cs[j].runs <=> \E k \in 1..Len(p) : at[k] = j
    /\ \A k \in 1..Len(p) : p[k] = cs[at[k]].name

LEMMA NamesType ==
  ASSUME NEW steps \in Seq(StepOf)
  PROVE  /\ Names(steps) \in Seq(ModelCall) /\ Len(Names(steps)) = Len(steps)
         /\ \A i \in 1..Len(steps) : Names(steps)[i] = steps[i].call
<1>1. \A i \in 1..Len(steps) : steps[i].call \in ModelCall
  <2>1. TAKE i \in 1..Len(steps)
  <2>2. steps[i] \in StepOf
    BY ElementOfSeq
  <2> QED
    BY <2>2 DEF StepOf
<1> QED
  BY <1>1 DEF Names

LEMMA NamesAppend ==
  ASSUME NEW steps \in Seq(StepOf), NEW s \in StepOf
  PROVE  Names(Append(steps, s)) = Append(Names(steps), s.call)
<1>1. /\ Append(steps, s) \in Seq(StepOf) /\ Len(Append(steps, s)) = Len(steps) + 1
      /\ \A i \in 1..Len(steps) : Append(steps, s)[i] = steps[i]
      /\ Append(steps, s)[Len(steps) + 1] = s
  BY AppendProperties
<1>2. s.call \in ModelCall /\ Len(steps) \in Nat
  BY DEF StepOf
<1> DEFINE l == Names(Append(steps, s))
           r == Append(Names(steps), s.call)
<1>3. /\ l \in Seq(ModelCall) /\ Len(l) = Len(steps) + 1
      /\ \A i \in 1..(Len(steps) + 1) : l[i] = Append(steps, s)[i].call
  BY <1>1, NamesType
<1>4. /\ r \in Seq(ModelCall) /\ Len(r) = Len(steps) + 1
      /\ \A i \in 1..Len(steps) : r[i] = steps[i].call
      /\ r[Len(steps) + 1] = s.call
  <2> DEFINE ns == Names(steps)
  <2>1. /\ ns \in Seq(ModelCall) /\ Len(ns) = Len(steps)
        /\ \A i \in 1..Len(steps) : ns[i] = steps[i].call
    BY NamesType
  <2> DEFINE x == s.call
  <2> HIDE DEF ns, x
  <2>2. x \in ModelCall
    BY <1>2 DEF x
  <2>3. /\ Append(ns, x) \in Seq(ModelCall) /\ Len(Append(ns, x)) = Len(ns) + 1
        /\ \A i \in 1..Len(ns) : Append(ns, x)[i] = ns[i]
        /\ Append(ns, x)[Len(ns) + 1] = x
    BY <2>1, <2>2, AppendProperties
  <2>4. r = Append(ns, x)
    BY DEF ns, x
  <2> HIDE DEF r
  <2> QED
    BY <2>1, <2>3, <2>4 DEF x
<1> HIDE DEF l, r
<1>5. \A i \in 1..(Len(steps) + 1) : l[i] = r[i]
  <2>1. TAKE i \in 1..(Len(steps) + 1)
  <2>2. CASE i \in 1..Len(steps)
    BY <1>1, <1>3, <1>4, <2>2
  <2>3. CASE i = Len(steps) + 1
    BY <1>1, <1>3, <1>4, <2>3
  <2> QED
    BY <1>2, <2>2, <2>3
<1>6. l = r
  BY <1>3, <1>4, <1>5, SeqEqual
<1> QED
  BY <1>6 DEF l, r

\* A sequence of which the first element has gone to the end of another.
LEMMA HeadMoves ==
  ASSUME NEW S, NEW s \in Seq(S), NEW p \in Seq(S), p # <<>>
  PROVE  /\ Head(p) \in S /\ Tail(p) \in Seq(S) /\ Len(Tail(p)) = Len(p) - 1 /\ Head(p) = p[1]
         /\ \A i \in 1..(Len(p) - 1) : Tail(p)[i] = p[i + 1]
         /\ Append(s, Head(p)) \o Tail(p) = s \o p
<1>1. /\ Head(p) \in S /\ Tail(p) \in Seq(S) /\ Len(Tail(p)) = Len(p) - 1 /\ Head(p) = p[1]
      /\ \A i \in 1..(Len(p) - 1) : Tail(p)[i] = p[i + 1]
      /\ Len(p) \in Nat /\ Len(p) >= 1 /\ Len(s) \in Nat
  BY HeadTailProperties
<1> DEFINE h == Append(s, Head(p))
           l == h \o Tail(p)
           r == s \o p
<1>2. /\ h \in Seq(S) /\ Len(h) = Len(s) + 1 /\ h[Len(s) + 1] = p[1]
      /\ \A i \in 1..Len(s) : h[i] = s[i]
  BY <1>1, AppendProperties
<1> HIDE DEF h
<1>3. /\ l \in Seq(S) /\ Len(l) = Len(h) + Len(Tail(p))
      /\ \A i \in 1..Len(h) : l[i] = h[i]
      /\ \A j \in 1..Len(Tail(p)) : l[Len(h) + j] = Tail(p)[j]
  <2>1. Tail(p) \in Seq(S) /\ h \in Seq(S)
    BY <1>1, <1>2
  <2> DEFINE t == Tail(p)
  <2> HIDE DEF t
  <2>2. t \in Seq(S) /\ t = Tail(p)
    BY <2>1 DEF t
  <2>3. /\ h \o t \in Seq(S) /\ Len(h \o t) = Len(h) + Len(t)
        /\ \A i \in 1..Len(h) : (h \o t)[i] = h[i]
        /\ \A j \in 1..Len(t) : (h \o t)[Len(h) + j] = t[j]
    BY <2>1, <2>2, ConcatAt
  <2> QED
    BY <2>2, <2>3
<1>4. /\ r \in Seq(S) /\ Len(r) = Len(s) + Len(p)
      /\ \A i \in 1..Len(s) : r[i] = s[i]
      /\ \A j \in 1..Len(p) : r[Len(s) + j] = p[j]
  BY <1>1, ConcatAt
<1> HIDE DEF l, r
<1>5. \A i \in 1..(Len(s) + Len(p)) : l[i] = r[i]
  <2>1. TAKE i \in 1..(Len(s) + Len(p))
  <2>2. CASE i <= Len(s)
    <3>1. i \in 1..Len(s) /\ i \in 1..Len(h)
      BY <1>1, <1>2, <2>2
    <3> QED
      BY <1>2, <1>3, <1>4, <3>1
  <2>3. CASE i = Len(s) + 1
    <3>1. 1 \in 1..Len(p) /\ i \in 1..Len(h)
      BY <1>1, <1>2, <2>3
    <3> QED
      BY <1>2, <1>3, <1>4, <2>3, <3>1
  <2>4. CASE i > Len(s) + 1
    <3> DEFINE j == i - Len(s) - 1
    <3>1. j \in 1..(Len(p) - 1) /\ i = Len(h) + j /\ i = Len(s) + (j + 1) /\ j + 1 \in 1..Len(p)
      BY <1>1, <1>2, <2>4
    <3> HIDE DEF j
    <3>2. l[i] = Tail(p)[j] /\ r[i] = p[j + 1]
      BY <1>1, <1>3, <1>4, <3>1
    <3> QED
      BY <1>1, <3>1, <3>2
  <2> QED
    BY <1>1, <2>2, <2>3, <2>4
<1>6. l = r
  <2>1. Len(l) = Len(s) + Len(p)
    BY <1>1, <1>2, <1>3
  <2> QED
    BY <1>3, <1>4, <1>5, <2>1, SeqEqual
<1> QED
  BY <1>1, <1>6 DEF l, r, h

LEMMA FinishedType ==
  ASSUME NEW tr \in Transcript, NEW c \in ModelCall, NEW out \in Outs
  PROVE  /\ Finished(tr, c, out) \in Transcript
         /\ Unblocked(Finished(tr, c, out)) => Unblocked(tr) /\ out # "blocked"
<1> DEFINE s == [call |-> IF tr.pending = <<>> THEN c ELSE Head(tr.pending), result |-> <<c, out>>]
           rest == IF tr.pending = <<>> THEN <<>> ELSE Tail(tr.pending)
           new == Append(tr.steps, s)
<1>1. tr.steps \in Seq(StepOf) /\ tr.pending \in Seq(ModelCall)
  BY DEF Transcript
<1>2. rest \in Seq(ModelCall)
  <2>1. CASE tr.pending = <<>>
    BY <2>1
  <2>2. CASE tr.pending # <<>>
    BY <1>1, <2>2, HeadTailProperties
  <2> QED
    BY <2>1, <2>2
<1>3. s \in StepOf /\ s.result[2] = out
  <2> DEFINE h == IF tr.pending = <<>> THEN c ELSE Head(tr.pending)
  <2>1. h \in ModelCall
    BY <1>1, HeadTailProperties
  <2> HIDE DEF h
  <2>2. [call |-> h, result |-> <<c, out>>] \in StepOf
    BY <2>1 DEF StepOf
  <2> QED
    BY <2>2 DEF h
<1>4. Finished(tr, c, out) = [steps |-> new, pending |-> rest]
  BY DEF Finished
<1> HIDE DEF s, rest
<1>5. /\ new \in Seq(StepOf) /\ Len(new) = Len(tr.steps) + 1 /\ new[Len(tr.steps) + 1] = s
      /\ \A i \in 1..Len(tr.steps) : new[i] = tr.steps[i]
  BY <1>1, <1>3, AppendProperties
<1> HIDE DEF new
<1>6. Finished(tr, c, out) \in Transcript
  BY <1>2, <1>4, <1>5 DEF Transcript
<1>7. ASSUME Unblocked(Finished(tr, c, out)) PROVE Unblocked(tr) /\ out # "blocked"
  <2>1. \A i \in 1..Len(new) : new[i].result[2] # "blocked"
    BY <1>4, <1>7 DEF Unblocked
  <2>2. Len(tr.steps) + 1 \in 1..Len(new) /\ \A i \in 1..Len(tr.steps) : i \in 1..Len(new)
    BY <1>1, <1>5
  <2> QED
    BY <1>3, <1>5, <2>1, <2>2 DEF Unblocked
<1> QED
  BY <1>6, <1>7

\* The call that ends is the one that waits longest.
LEMMA FinishedHead ==
  ASSUME NEW tr \in Transcript, NEW c \in ModelCall, NEW out \in Outs,
         NEW rs, Faithful(tr, rs), tr.pending # <<>>, Head(tr.pending) = c
  PROVE  /\ Faithful(Finished(tr, c, out), rs)
         /\ Finished(tr, c, out).pending = Tail(tr.pending)
<1> DEFINE s == [call |-> c, result |-> <<c, out>>]
           new == Append(tr.steps, s)
<1>1. tr.steps \in Seq(StepOf) /\ tr.pending \in Seq(ModelCall)
  BY DEF Transcript
<1>2. s \in StepOf /\ s.call = c /\ s.result[1] = c
  BY DEF StepOf
<1>3. Finished(tr, c, out) = [steps |-> new, pending |-> Tail(tr.pending)]
  BY DEF Finished
<1> HIDE DEF s
<1>4. /\ new \in Seq(StepOf) /\ Len(new) = Len(tr.steps) + 1 /\ new[Len(tr.steps) + 1] = s
      /\ \A i \in 1..Len(tr.steps) : new[i] = tr.steps[i]
  BY <1>1, <1>2, AppendProperties
<1>5. Names(new) = Append(Names(tr.steps), c)
  BY <1>1, <1>2, NamesAppend
<1> HIDE DEF new
<1>6. Names(new) \o Tail(tr.pending) = rs
  <2> DEFINE ns == Names(tr.steps)
  <2>1. ns \in Seq(ModelCall)
    BY <1>1, NamesType
  <2> HIDE DEF ns
  <2>2. Append(ns, Head(tr.pending)) \o Tail(tr.pending) = ns \o tr.pending
    BY <1>1, <2>1, HeadMoves
  <2> QED
    BY <1>5, <2>2 DEF ns, Faithful
<1>7. \A i \in 1..Len(new) : new[i].call = new[i].result[1]
  <2>1. \A i \in 1..Len(new) : i \in 1..Len(tr.steps) \/ i = Len(tr.steps) + 1
    BY <1>1, <1>4
  <2> QED
    BY <1>2, <1>4, <2>1 DEF Faithful
<1> DEFINE x == Finished(tr, c, out)
<1>8. x.steps = new /\ x.pending = Tail(tr.pending)
  BY <1>3
<1> HIDE DEF x
<1>9. Faithful(x, rs)
  BY <1>6, <1>7, <1>8 DEF Faithful
<1> QED
  BY <1>8, <1>9 DEF x

LEMMA WaitsFirst ==
  ASSUME NEW cs \in Seq(Call), NEW n \in 1..Len(cs), NEW p \in Seq(ModelCall),
         Waiting(cs, n - 1, p), cs[n].runs
  PROVE  p # <<>> /\ Head(p) = cs[n].name /\ Waiting(cs, n, Tail(p))
<1>1. Len(cs) \in Nat /\ Len(p) \in Nat /\ n - 1 + 1 = n
  OBVIOUS
<1>2. PICK at \in [1..Len(p) -> n..Len(cs)] :
        /\ \A k, l \in 1..Len(p) : k < l => at[k] < at[l]
        /\ \A j \in n..Len(cs) : cs[j].runs <=> \E k \in 1..Len(p) : at[k] = j
        /\ \A k \in 1..Len(p) : p[k] = cs[at[k]].name
  BY <1>1 DEF Waiting
<1>3. n \in n..Len(cs)
  BY <1>1
<1>4. PICK k \in 1..Len(p) : at[k] = n
  BY <1>2, <1>3
<1>5. k = 1 /\ 1 \in 1..Len(p)
  <2>1. 1 \in 1..Len(p)
    BY <1>1, <1>4
  <2>2. SUFFICES ASSUME 1 < k PROVE FALSE
    BY <1>1, <1>4, <2>1
  <2>3. at[1] < n /\ at[1] \in n..Len(cs)
    BY <1>2, <1>4, <2>1, <2>2
  <2> QED
    BY <1>1, <2>3
<1>6. /\ Tail(p) \in Seq(ModelCall) /\ Len(Tail(p)) = Len(p) - 1 /\ Head(p) = p[1] /\ p # <<>>
      /\ \A i \in 1..(Len(p) - 1) : Tail(p)[i] = p[i + 1]
  BY <1>1, <1>5, HeadTailProperties
<1>7. Head(p) = cs[n].name
  BY <1>2, <1>4, <1>5, <1>6
<1> DEFINE m == Len(p) - 1
           new == [i \in 1..m |-> at[i + 1]]
<1>8. m \in Nat /\ \A i \in 1..m : i + 1 \in 1..Len(p) /\ 1 < i + 1
  BY <1>1, <1>5
<1>9. new \in [1..m -> (n + 1)..Len(cs)]
  <2>1. \A i \in 1..m : at[i + 1] \in (n + 1)..Len(cs)
    <3>1. TAKE i \in 1..m
    <3>2. at[i + 1] \in n..Len(cs) /\ at[1] < at[i + 1]
      BY <1>2, <1>5, <1>8
    <3> QED
      BY <1>1, <1>4, <1>5, <3>2
  <2> QED
    BY <2>1
<1>10. \A k_1, l \in 1..m : k_1 < l => new[k_1] < new[l]
  <2>1. TAKE k_1, l \in 1..m
  <2>2. HAVE k_1 < l
  <2>3. k_1 + 1 < l + 1
    BY <1>8, <2>2
  <2> QED
    BY <1>2, <1>8, <2>3
<1>11. \A j \in (n + 1)..Len(cs) : cs[j].runs <=> \E i \in 1..m : new[i] = j
  <2>1. TAKE j \in (n + 1)..Len(cs)
  <2>2. j \in n..Len(cs) /\ j # n
    BY <1>1
  <2>3. (\E l \in 1..Len(p) : at[l] = j) <=> (\E i \in 1..m : at[i + 1] = j)
    <3>1. ASSUME NEW l \in 1..Len(p), at[l] = j PROVE \E i \in 1..m : at[i + 1] = j
      <4>1. l # 1
        BY <1>4, <1>5, <2>2, <3>1
      <4>2. l - 1 \in 1..m /\ l - 1 + 1 = l
        BY <1>1, <4>1
      <4> QED
        BY <3>1, <4>2
    <3> QED
      BY <1>8, <3>1
  <2> QED
    BY <1>2, <2>2, <2>3
<1>12. \A i \in 1..m : Tail(p)[i] = cs[new[i]].name
  BY <1>2, <1>6, <1>8
<1> HIDE DEF new
<1>13. Waiting(cs, n, Tail(p))
  <2> DEFINE t == Tail(p)
  <2>1. Len(t) = m /\ \A i \in 1..m : t[i] = cs[new[i]].name
    BY <1>6, <1>12
  <2> HIDE DEF m, t
  <2>2. new \in [1..Len(t) -> (n + 1)..Len(cs)]
    BY <1>9, <2>1
  <2>3. /\ \A k_1, l \in 1..Len(t) : k_1 < l => new[k_1] < new[l]
        /\ \A j \in (n + 1)..Len(cs) : cs[j].runs <=> \E i \in 1..Len(t) : new[i] = j
        /\ \A i \in 1..Len(t) : t[i] = cs[new[i]].name
    BY <1>10, <1>11, <2>1
  <2>4. Waiting(cs, n, t)
    BY <2>2, <2>3 DEF Waiting
  <2> QED
    BY <2>4 DEF t
<1> QED
  BY <1>6, <1>7, <1>13

LEMMA WaitsOn ==
  ASSUME NEW cs \in Seq(Call), NEW n \in 1..Len(cs), NEW p \in Seq(ModelCall),
         Waiting(cs, n - 1, p), ~cs[n].runs
  PROVE  Waiting(cs, n, p)
<1>1. Len(cs) \in Nat /\ Len(p) \in Nat /\ n - 1 + 1 = n
  OBVIOUS
<1>2. PICK at \in [1..Len(p) -> n..Len(cs)] :
        /\ \A k, l \in 1..Len(p) : k < l => at[k] < at[l]
        /\ \A j \in n..Len(cs) : cs[j].runs <=> \E k \in 1..Len(p) : at[k] = j
        /\ \A k \in 1..Len(p) : p[k] = cs[at[k]].name
  BY <1>1 DEF Waiting
<1>3. at \in [1..Len(p) -> (n + 1)..Len(cs)]
  <2>1. \A k \in 1..Len(p) : at[k] \in (n + 1)..Len(cs)
    <3>1. TAKE k \in 1..Len(p)
    <3>2. at[k] \in n..Len(cs) /\ n \in n..Len(cs)
      BY <1>1, <1>2
    <3>3. at[k] # n
      BY <1>2, <3>2
    <3> QED
      BY <1>1, <3>2, <3>3
  <2> QED
    BY <1>2, <2>1
<1>4. \A j \in (n + 1)..Len(cs) : cs[j].runs <=> \E k \in 1..Len(p) : at[k] = j
  BY <1>1, <1>2
<1> QED
  BY <1>2, <1>3, <1>4 DEF Waiting

LEMMA WaitsForNone ==
  ASSUME NEW cs \in Seq(Call), NEW p \in Seq(ModelCall), Waiting(cs, Len(cs), p)
  PROVE  p = <<>>
<1>1. PICK at \in [1..Len(p) -> (Len(cs) + 1)..Len(cs)] : TRUE
  BY DEF Waiting
<1>2. (Len(cs) + 1)..Len(cs) = {}
  OBVIOUS
<1>3. 1 \notin 1..Len(p)
  BY <1>1, <1>2
<1> QED
  BY <1>3

\* Where the names that wait stand among all the calls of a reply.
WaitsAt(cs, p, at) ==
  /\ at \in [1..Len(p) -> 1..Len(cs)]
  /\ \A k, l \in 1..Len(p) : k < l => at[k] < at[l]
  /\ \A j \in 1..Len(cs) : cs[j].runs <=> \E k \in 1..Len(p) : at[k] = j
  /\ \A k \in 1..Len(p) : p[k] = cs[at[k]].name

\* Before any of them has run, those that run wait, in their order.
LEMMA WaitsFromFirst ==
  ASSUME NEW cs, NEW p
  PROVE  Waiting(cs, 0, p) <=> \E at : WaitsAt(cs, p, at)
<1>1. 0 + 1 = 1
  OBVIOUS
<1>2. \A at : WaitsAt(cs, p, at) <=>
        /\ at \in [1..Len(p) -> 0 + 1..Len(cs)]
        /\ \A k, l \in 1..Len(p) : k < l => at[k] < at[l]
        /\ \A j \in 0 + 1..Len(cs) : cs[j].runs <=> \E k \in 1..Len(p) : at[k] = j
        /\ \A k \in 1..Len(p) : p[k] = cs[at[k]].name
  BY <1>1, Zenon DEF WaitsAt
<1>3. Waiting(cs, 0, p) => \E at : WaitsAt(cs, p, at)
  BY <1>2, Zenon DEF Waiting
<1>4. (\E at : WaitsAt(cs, p, at)) => Waiting(cs, 0, p)
  BY <1>2, Zenon DEF Waiting
<1> QED
  BY <1>3, <1>4

\* A call of the reply that does not run, and one that does.
LEMMA WaitsStill ==
  ASSUME NEW cs \in Seq(Call), NEW p \in Seq(ModelCall), Waiting(cs, 0, p),
         NEW c \in Call, ~c.runs
  PROVE  Waiting(Append(cs, c), 0, p)
<1> DEFINE new == Append(cs, c)
<1>1. /\ Len(new) = Len(cs) + 1 /\ new[Len(cs) + 1] = c /\ Len(cs) \in Nat
      /\ \A i \in 1..Len(cs) : new[i] = cs[i]
  BY AppendAt
<1> HIDE DEF new
<1>w. PICK at : WaitsAt(cs, p, at)
  BY WaitsFromFirst
<1>2. /\ at \in [1..Len(p) -> 1..Len(cs)]
      /\ \A k, l \in 1..Len(p) : k < l => at[k] < at[l]
      /\ \A j \in 1..Len(cs) : cs[j].runs <=> \E k \in 1..Len(p) : at[k] = j
      /\ \A k \in 1..Len(p) : p[k] = cs[at[k]].name
  BY <1>w, Zenon DEF WaitsAt
<1>3. at \in [1..Len(p) -> 1..Len(new)]
  <2>1. \A k \in 1..Len(p) : at[k] \in 1..Len(new)
    BY <1>1, <1>2
  <2> QED
    BY <1>2, <2>1
<1>4. \A j \in 1..Len(new) : new[j].runs <=> \E k \in 1..Len(p) : at[k] = j
  <2>1. TAKE j \in 1..Len(new)
  <2>2. CASE j \in 1..Len(cs)
    BY <1>1, <1>2, <2>2
  <2>3. CASE j = Len(cs) + 1
    <3>1. j \notin 1..Len(cs) /\ ~new[j].runs
      BY <1>1, <2>3
    <3>2. \A k \in 1..Len(p) : at[k] \in 1..Len(cs)
      BY <1>2
    <3> QED
      BY <3>1, <3>2
  <2> QED
    BY <1>1, <2>2, <2>3
<1>5. \A k \in 1..Len(p) : p[k] = new[at[k]].name
  BY <1>1, <1>2
<1>6. WaitsAt(new, p, at)
  BY <1>2, <1>3, <1>4, <1>5, Zenon DEF WaitsAt
<1>7. Waiting(new, 0, p)
  BY <1>6, WaitsFromFirst
<1> QED
  BY <1>7 DEF new

LEMMA WaitsLast ==
  ASSUME NEW cs \in Seq(Call), NEW p \in Seq(ModelCall), Waiting(cs, 0, p),
         NEW c \in Call, c.runs
  PROVE  Waiting(Append(cs, c), 0, Append(p, c.name))
<1> DEFINE new == Append(cs, c)
           x == c.name
           q == Append(p, x)
           m == Len(p)
<1>1. /\ Len(new) = Len(cs) + 1 /\ new[Len(cs) + 1] = c /\ Len(cs) \in Nat
      /\ \A i \in 1..Len(cs) : new[i] = cs[i]
  BY AppendAt
<1>2. x \in ModelCall /\ x = c.name
  BY DEF Call
<1> HIDE DEF new, x
<1>3. Len(q) = m + 1 /\ q[m + 1] = x /\ m \in Nat /\ \A i \in 1..m : q[i] = p[i]
  BY <1>2, AppendAt
<1> HIDE DEF q
<1>w. PICK at : WaitsAt(cs, p, at)
  BY WaitsFromFirst
<1>4. /\ at \in [1..m -> 1..Len(cs)]
      /\ \A k, l \in 1..m : k < l => at[k] < at[l]
      /\ \A j \in 1..Len(cs) : cs[j].runs <=> \E k \in 1..m : at[k] = j
      /\ \A k \in 1..m : p[k] = cs[at[k]].name
  BY <1>w, Zenon DEF WaitsAt
<1> DEFINE to == [k \in 1..(m + 1) |-> IF k <= m THEN at[k] ELSE Len(cs) + 1]
<1> HIDE DEF m
<1>5. /\ \A k \in 1..m : to[k] = at[k] /\ at[k] \in 1..Len(cs) /\ k \in 1..(m + 1)
      /\ to[m + 1] = Len(cs) + 1
      /\ \A k \in 1..(m + 1) : k \in 1..m \/ k = m + 1
  <2>1. ASSUME NEW k \in 1..m
        PROVE  to[k] = at[k] /\ at[k] \in 1..Len(cs) /\ k \in 1..(m + 1)
    <3>1. k <= m /\ k \in 1..(m + 1)
      BY <1>3
    <3> QED
      BY <1>4, <3>1
  <2>2. m + 1 \in 1..(m + 1) /\ ~(m + 1 <= m)
    BY <1>3
  <2>3. \A k \in 1..(m + 1) : k \in 1..m \/ k = m + 1
    BY <1>3
  <2> QED
    BY <2>1, <2>2, <2>3
<1>f. to = [k \in 1..(m + 1) |-> to[k]]
  OBVIOUS
<1> HIDE DEF to
<1>6. to \in [1..(m + 1) -> 1..Len(new)]
  <2>1. ASSUME NEW k \in 1..(m + 1) PROVE to[k] \in 1..Len(new)
    <3>1. CASE k \in 1..m
      BY <1>1, <1>5, <3>1
    <3>2. CASE k = m + 1
      BY <1>1, <1>5, <3>2
    <3> QED
      BY <1>5, <3>1, <3>2
  <2> QED
    BY <1>f, <2>1
<1>7. \A k, l \in 1..(m + 1) : k < l => to[k] < to[l]
  <2>1. TAKE k, l \in 1..(m + 1)
  <2>2. HAVE k < l
  <2>3. k \in 1..m
    BY <1>3, <2>2
  <2>4. CASE l \in 1..m
    BY <1>4, <1>5, <2>2, <2>3, <2>4
  <2>5. CASE l = m + 1
    BY <1>1, <1>5, <2>3, <2>5
  <2> QED
    BY <1>5, <2>4, <2>5
<1>8. \A j \in 1..Len(new) : new[j].runs <=> \E k \in 1..(m + 1) : to[k] = j
  <2>1. TAKE j \in 1..Len(new)
  <2>2. CASE j \in 1..Len(cs)
    <3>1. (\E k \in 1..m : at[k] = j) <=> (\E k \in 1..(m + 1) : to[k] = j)
      <4>1. j # Len(cs) + 1
        BY <1>1, <2>2
      <4> QED
        BY <1>5, <4>1
    <3> QED
      BY <1>1, <1>4, <2>2, <3>1
  <2>3. CASE j = Len(cs) + 1
    <3>1. m + 1 \in 1..(m + 1)
      BY <1>3
    <3> QED
      BY <1>1, <1>5, <2>3, <3>1
  <2> QED
    BY <1>1, <2>2, <2>3
<1>9. \A k \in 1..(m + 1) : q[k] = new[to[k]].name
  <2>1. TAKE k \in 1..(m + 1)
  <2>2. CASE k \in 1..m
    <3>1. q[k] = cs[at[k]].name
      BY <1>3, <1>4, <2>2
    <3>2. to[k] = at[k] /\ new[at[k]] = cs[at[k]]
      BY <1>1, <1>5, <2>2
    <3> QED
      BY <3>1, <3>2
  <2>3. CASE k = m + 1
    BY <1>1, <1>2, <1>3, <1>5, <2>3
  <2> QED
    BY <1>5, <2>2, <2>3
<1>10. Waiting(new, 0, q)
  <2>1. Len(q) = m + 1
    BY <1>3
  <2>2. WaitsAt(new, q, to)
    BY <1>6, <1>7, <1>8, <1>9, <2>1, Zenon DEF WaitsAt
  <2> QED
    BY <2>2, WaitsFromFirst
<1> QED
  BY <1>10 DEF new, q, x

\* What the classification of the first n calls of a reply has made.
Rounds(n, ids) ==
  {x \in [calls : Seq(Call), prev : ModelCall \cup {NoCall}, tr : Transcript,
           ran : Seq(ModelCall)] :
     /\ Len(x.calls) = n
     /\ \A i \in 1..n : x.calls[i].id = ids[i]
     /\ Unblocked(x.tr) => Faithful(x.tr, x.ran) /\ Waiting(x.calls, 0, x.tr.pending)}

LEMMA IsRound ==
  ASSUME NEW cs \in Seq(Call), NEW prev \in ModelCall \cup {NoCall}, NEW tr \in Transcript,
         NEW rs \in Seq(ModelCall), NEW ids, \A i \in 1..Len(cs) : cs[i].id = ids[i],
         Unblocked(tr) => Faithful(tr, rs) /\ Waiting(cs, 0, tr.pending)
  PROVE  [calls |-> cs, prev |-> prev, tr |-> tr, ran |-> rs] \in Rounds(Len(cs), ids)
<1> DEFINE x == [calls |-> cs, prev |-> prev, tr |-> tr, ran |-> rs]
<1>1. /\ x \in [calls : Seq(Call), prev : ModelCall \cup {NoCall}, tr : Transcript,
               ran : Seq(ModelCall)]
      /\ x.calls = cs /\ x.tr = tr /\ x.ran = rs
  OBVIOUS
<1> HIDE DEF x
<1>2. x \in Rounds(Len(cs), ids)
  BY <1>1 DEF Rounds
<1> QED
  BY <1>2 DEF x

LEMMA StartedIs ==
  ASSUME NEW tr \in Transcript, NEW c \in ModelCall
  PROVE  /\ Started(tr, c) \in Transcript
         /\ Started(tr, c).steps = tr.steps /\ Started(tr, c).pending = Append(tr.pending, c)
<1> DEFINE st == tr.steps
           pn == tr.pending
           p == Append(pn, c)
<1>1. tr = [steps |-> st, pending |-> pn] /\ st \in Seq(StepOf) /\ pn \in Seq(ModelCall)
  BY DEF Transcript
<1>2. p \in Seq(ModelCall)
  BY <1>1
<1>3. Started(tr, c) = [tr EXCEPT !.pending = p]
  BY DEF Started
<1> HIDE DEF st, pn, p
<1>4. [tr EXCEPT !.pending = p] = [steps |-> st, pending |-> p]
  BY <1>1
<1>5. [steps |-> st, pending |-> p] \in Transcript
  BY <1>1, <1>2 DEF Transcript
<1>6. Started(tr, c).steps = st /\ Started(tr, c).pending = p
  BY <1>3, <1>4
<1> QED
  BY <1>3, <1>4, <1>5, <1>6 DEF st, pn, p

LEMMA IsCall ==
  ASSUME NEW c \in ModelCall, NEW id \in Nat, NEW runs \in BOOLEAN, NEW out \in Outs
  PROVE  [name |-> c, id |-> id, runs |-> runs, out |-> out] \in Call
BY DEF Call

LEMMA NewCall ==
  ASSUME NEW cs \in Seq(Call), NEW n \in Nat, Len(cs) = n, NEW ids,
         \A i \in 1..n : cs[i].id = ids[i], NEW x \in Call, x.id = ids[n + 1]
  PROVE  /\ Append(cs, x) \in Seq(Call) /\ Len(Append(cs, x)) = n + 1
         /\ \A i \in 1..(n + 1) : Append(cs, x)[i].id = ids[i]
<1> DEFINE new == Append(cs, x)
<1>1. /\ new \in Seq(Call) /\ Len(new) = n + 1 /\ new[n + 1] = x
      /\ \A i \in 1..n : new[i] = cs[i]
  BY AppendAt
<1> HIDE DEF new
<1>2. \A i \in 1..(n + 1) : i \in 1..n \/ i = n + 1
  OBVIOUS
<1>3. \A i \in 1..(n + 1) : new[i].id = ids[i]
  BY <1>1, <1>2
<1> QED
  BY <1>1, <1>3 DEF new

LEMMA JudgeKeeps ==
  ASSUME NEW n \in Nat, NEW ids, NEW acc \in Rounds(n, ids), NEW c \in ModelCall,
         NEW id \in Nat, id = ids[n + 1]
  PROVE  Judge(acc, c, id) \in Rounds(n + 1, ids)
<1> DEFINE cs == acc.calls
           tr == acc.tr
           rs == acc.ran
           pv == acc.prev
<1>1. /\ acc = [calls |-> cs, prev |-> pv, tr |-> tr, ran |-> rs]
      /\ cs \in Seq(Call) /\ pv \in ModelCall \cup {NoCall} /\ tr \in Transcript
      /\ rs \in Seq(ModelCall) /\ Len(cs) = n /\ \A i \in 1..n : cs[i].id = ids[i]
  BY DEF Rounds
<1>2. Unblocked(tr) => Faithful(tr, rs) /\ Waiting(cs, 0, tr.pending)
  BY DEF Rounds
<1>3. tr.pending \in Seq(ModelCall) /\ tr.steps \in Seq(StepOf)
  BY <1>1 DEF Transcript
<1>4. /\ Started(tr, c) \in Transcript
      /\ Started(tr, c).steps = tr.steps /\ Started(tr, c).pending = Append(tr.pending, c)
  BY <1>1, StartedIs
<1>5. CASE c = pv
  <2> DEFINE x == [name |-> c, id |-> id, runs |-> FALSE, out |-> "blocked"]
             new == Append(cs, x)
             t == Finished(Started(tr, c), c, "blocked")
  <2>1. x \in Call /\ x.id = id
    BY IsCall DEF Outs
  <2>2. t \in Transcript /\ ~Unblocked(t)
    <3>1. "blocked" \in Outs
      BY DEF Outs
    <3> QED
      BY <1>4, <3>1, FinishedType
  <2>3. Judge(acc, c, id) = [calls |-> new, prev |-> pv, tr |-> t, ran |-> rs]
    BY <1>5 DEF Judge
  <2> HIDE DEF x, t
  <2>4. new \in Seq(Call) /\ Len(new) = n + 1 /\ \A i \in 1..(n + 1) : new[i].id = ids[i]
    BY <1>1, <2>1, NewCall
  <2> HIDE DEF cs, tr, rs, pv, new
  <2>5. [calls |-> new, prev |-> pv, tr |-> t, ran |-> rs] \in Rounds(Len(new), ids)
    BY <1>1, <2>2, <2>4, IsRound
  <2> QED
    BY <2>3, <2>4, <2>5
<1>6. CASE c # pv /\ c \in StrayCall
  <2> DEFINE x == [name |-> c, id |-> id, runs |-> FALSE, out |-> "unknown"]
             new == Append(cs, x)
  <2>1. x \in Call /\ x.id = id /\ ~x.runs
    BY IsCall DEF Outs
  <2>2. Judge(acc, c, id) = [acc EXCEPT !.calls = new]
    BY <1>6, AgentAssumption DEF Judge
  <2> HIDE DEF x
  <2>3. new \in Seq(Call) /\ Len(new) = n + 1 /\ \A i \in 1..(n + 1) : new[i].id = ids[i]
    BY <1>1, <2>1, NewCall
  <2>4. Unblocked(tr) => Faithful(tr, rs) /\ Waiting(new, 0, tr.pending)
    BY <1>1, <1>2, <1>3, <2>1, WaitsStill
  <2> HIDE DEF cs, tr, rs, pv, new
  <2>5. [acc EXCEPT !.calls = new] = [calls |-> new, prev |-> pv, tr |-> tr, ran |-> rs]
    BY <1>1
  <2>6. [calls |-> new, prev |-> pv, tr |-> tr, ran |-> rs] \in Rounds(Len(new), ids)
    BY <1>1, <2>3, <2>4, IsRound
  <2> QED
    BY <2>2, <2>3, <2>5, <2>6
<1>7. CASE c # pv /\ c \in ToolCall
  <2> DEFINE x == [name |-> c, id |-> id, runs |-> TRUE, out |-> "none"]
             new == Append(cs, x)
             t == Started(tr, c)
             to == Append(rs, c)
  <2>1. x \in Call /\ x.id = id /\ x.runs /\ x.name = c
    BY IsCall DEF Outs
  <2>2. Judge(acc, c, id) = [calls |-> new, prev |-> c, tr |-> t, ran |-> to]
    BY <1>7, AgentAssumption DEF Judge
  <2> HIDE DEF x
  <2>3. /\ new \in Seq(Call) /\ Len(new) = n + 1 /\ to \in Seq(ModelCall)
        /\ \A i \in 1..(n + 1) : new[i].id = ids[i]
    <3>1. new \in Seq(Call) /\ Len(new) = n + 1 /\ \A i \in 1..(n + 1) : new[i].id = ids[i]
      BY <1>1, <2>1, NewCall
    <3> QED
      BY <1>1, <3>1, AppendAt
  <2>4. ASSUME Unblocked(t) PROVE Faithful(t, to) /\ Waiting(new, 0, t.pending)
    <3>1. Unblocked(tr)
      BY <1>4, <2>4 DEF Unblocked
    <3>2. Faithful(tr, rs) /\ Waiting(cs, 0, tr.pending)
      BY <1>2, <3>1
    <3>3. Waiting(new, 0, Append(tr.pending, c))
      BY <1>1, <1>3, <2>1, <3>2, WaitsLast
    <3>4. Names(tr.steps) \o Append(tr.pending, c) = Append(Names(tr.steps) \o tr.pending, c)
      <4> DEFINE ns == Names(tr.steps)
           ps == tr.pending
      <4>1. ns \in Seq(ModelCall) /\ ps \in Seq(ModelCall) /\ c \in ModelCall
        BY <1>3, NamesType
      <4> HIDE DEF ns, ps
      <4>2. ns \o Append(ps, c) = Append(ns \o ps, c)
        BY <4>1, ConcatAppend
      <4> QED
        BY <4>2 DEF ns, ps
    <3>5. Names(tr.steps) \o Append(tr.pending, c) = to
      BY <3>2, <3>4 DEF Faithful
    <3> DEFINE pn == Append(tr.pending, c)
    <3>6. /\ t.steps = tr.steps /\ t.pending = pn /\ Waiting(new, 0, pn)
          /\ Names(tr.steps) \o pn = to
      BY <1>4, <3>3, <3>5
    <3> HIDE DEF t, pn, to, new
    <3>7. Faithful(t, to)
      BY <3>2, <3>6 DEF Faithful
    <3> QED
      BY <3>6, <3>7
  <2>5. t \in Transcript
    BY <1>4
  <2> HIDE DEF cs, tr, rs, pv, new, t, to
  <2>6. [calls |-> new, prev |-> c, tr |-> t, ran |-> to] \in Rounds(Len(new), ids)
    BY <1>1, <2>3, <2>4, <2>5, IsRound
  <2> QED
    BY <2>2, <2>3, <2>6
<1> QED
  BY <1>5, <1>6, <1>7 DEF ModelCall

\* ProcessReply: what a reply makes of its calls, whatever was done before.
LEMMA ClassifyIsRound ==
  ASSUME lastCall \in ModelCall \cup {NoCall}, transcript \in Transcript, ran \in Seq(ModelCall),
         Unblocked(transcript) => Faithful(transcript, ran) /\ transcript.pending = <<>>,
         NEW cs \in Seq(ModelCall), NEW ids \in Seq(Nat), Len(ids) = Len(cs)
  PROVE  Classify(cs, ids) \in Rounds(Len(cs), ids)
<1> DEFINE b == Len(cs)
           a == [calls |-> <<>>, prev |-> lastCall, tr |-> transcript, ran |-> ran]
           A == [n \in 0..b |-> Rounds(n, ids)]
           F == [n \in 1..b |-> [x \in Rounds(n - 1, ids) |-> Judge(x, cs[n], ids[n])]]
           upto == CHOOSE f : f = [n \in 0..b |->
                     IF n = 0 THEN a ELSE Judge(f[n - 1], cs[n], ids[n])]
<1>1. b \in Nat /\ \A n \in 1..b : cs[n] \in ModelCall /\ ids[n] \in Nat
  BY ElementOfSeq
<1>2. a \in Rounds(0, ids)
  <2> DEFINE none == <<>>
  <2>1. none \in Seq(Call) /\ Len(none) = 0 /\ none = <<>>
    OBVIOUS
  <2> HIDE DEF none
  <2>2. ASSUME transcript.pending = <<>> PROVE Waiting(none, 0, transcript.pending)
    <3> DEFINE p == transcript.pending
    <3>1. p = <<>> /\ Len(p) = 0 /\ 1..0 = {} /\ (0 + 1)..0 = {}
      BY <2>2
    <3> HIDE DEF p
    <3> DEFINE at == [k \in 1..Len(p) |-> 1]
    <3>2. at \in [1..Len(p) -> (0 + 1)..Len(none)]
      BY <3>1
    <3> HIDE DEF at
    <3>3. Waiting(none, 0, p)
      BY <2>1, <3>1, <3>2 DEF Waiting
    <3> QED
      BY <3>3 DEF p
  <2>3. \A i \in 1..Len(none) : none[i].id = ids[i]
    BY <2>1
  <2>4. [calls |-> none, prev |-> lastCall, tr |-> transcript, ran |-> ran]
          \in Rounds(Len(none), ids)
    BY <2>1, <2>2, <2>3, IsRound
  <2> QED
    BY <2>1, <2>4
<1>3. \A n \in 1..b : \A x \in Rounds(n - 1, ids) : Judge(x, cs[n], ids[n]) \in Rounds(n, ids)
  <2>1. TAKE n \in 1..b
  <2>2. n - 1 \in Nat /\ n - 1 + 1 = n
    BY <1>1
  <2> QED
    BY <1>1, <2>2, JudgeKeeps
<1> HIDE DEF b, a
<1>b. \A n \in 1..b : \A x \in Rounds(n - 1, ids) : F[n][x] = Judge(x, cs[n], ids[n])
  OBVIOUS
<1>c. \A n \in 0..b : A[n] = Rounds(n, ids)
  OBVIOUS
<1> HIDE DEF A, F
<1>d. a \in A[0] /\ \A n \in 1..b : \A x \in A[n - 1] : F[n][x] \in A[n]
  <2>1. 0 \in 0..b /\ \A n \in 1..b : n - 1 \in 0..b /\ n \in 0..b
    BY <1>1
  <2>2. a \in A[0]
    BY <1>2, <1>c, <2>1
  <2>3. ASSUME NEW n \in 1..b, NEW x \in A[n - 1] PROVE F[n][x] \in A[n]
    <3>1. A[n] = Rounds(n, ids) /\ A[n - 1] = Rounds(n - 1, ids)
      BY <1>c, <2>1
    <3>2. x \in Rounds(n - 1, ids)
      BY <2>3, <3>1
    <3>3. F[n][x] = Judge(x, cs[n], ids[n]) /\ Judge(x, cs[n], ids[n]) \in Rounds(n, ids)
      BY <1>3, <1>b, <3>2
    <3> QED
      BY <3>1, <3>3
  <2> QED
    BY <2>2, <2>3
<1>4. PICK g : Unrolls(g, b, a, F) /\ \A n \in 0..b : g[n] \in A[n]
  BY <1>1, <1>d, Recursion
<1>5. g = [n \in 0..b |-> IF n = 0 THEN a ELSE Judge(g[n - 1], cs[n], ids[n])]
  <2>1. \A n \in 1..b : F[n][g[n - 1]] = Judge(g[n - 1], cs[n], ids[n])
    <3>1. TAKE n \in 1..b
    <3>2. n - 1 \in 0..b
      BY <1>1
    <3>3. g[n - 1] \in Rounds(n - 1, ids)
      BY <1>4, <1>c, <3>2
    <3> QED
      BY <1>b, <3>3
  <2>2. \A n \in 0..b : n = 0 \/ n \in 1..b
    BY <1>1
  <2> QED
    BY <1>4, <2>1, <2>2 DEF Unrolls
<1>6. upto = [n \in 0..b |-> IF n = 0 THEN a ELSE Judge(upto[n - 1], cs[n], ids[n])]
  BY <1>5, Zenon
<1> HIDE DEF upto
<1>7. \A n \in 0..b : upto[n] \in Rounds(n, ids)
  <2> DEFINE S == {n \in 0..b : upto[n] \in Rounds(n, ids)}
  <2>1. 0 \in S
    BY <1>1, <1>2, <1>6
  <2>2. ASSUME NEW n \in 1..b, n - 1 \in S PROVE n \in S
    <3>1. n \in 0..b /\ n # 0
      BY <1>1
    <3>2. upto[n] = Judge(upto[n - 1], cs[n], ids[n])
      BY <1>6, <3>1
    <3> QED
      BY <1>3, <2>2, <3>1, <3>2
  <2> HIDE DEF S
  <2>3. \A n \in 0..b : n \in S
    BY <1>1, <2>1, <2>2, UpTo
  <2> QED
    BY <2>3 DEF S
<1>8. Classify(cs, ids) = upto[b]
  BY Zenon DEF Classify, upto, a, b
<1> QED
  BY <1>1, <1>7, <1>8 DEF b

\* The transcript of a round that is folded in the order of the reply.
LEMMA CollectedIs ==
  ASSUME calls \in Seq(Call), transcript \in Transcript,
         Unblocked(transcript) => Faithful(transcript, ran) /\ Waiting(calls, 0, transcript.pending)
  PROVE  /\ Collected(calls) \in Transcript
         /\ Unblocked(Collected(calls)) => /\ Faithful(Collected(calls), ran)
                                           /\ Collected(calls).pending = <<>>
<1> DEFINE b == Len(calls)
           a == transcript
           next(x, n) == IF calls[n].runs THEN Finished(x, calls[n].name, calls[n].out) ELSE x
           A == [n \in 0..b |-> Transcript]
           F == [n \in 1..b |-> [x \in Transcript |-> next(x, n)]]
           upto == CHOOSE f : f = [n \in 0..b |->
                     IF n = 0 THEN transcript
                     ELSE IF calls[n].runs THEN Finished(f[n - 1], calls[n].name, calls[n].out)
                     ELSE f[n - 1]]
<1>1. /\ b \in Nat
      /\ \A n \in 1..b : /\ calls[n].name \in ModelCall /\ calls[n].out \in Outs
                         /\ calls[n].runs \in BOOLEAN
  <2>1. \A n \in 1..b : calls[n] \in Call
    BY ElementOfSeq
  <2> QED
    BY <2>1 DEF Call
<1>2. \A n \in 1..b : \A x \in Transcript : next(x, n) \in Transcript
  BY <1>1, FinishedType
<1> HIDE DEF b, a
<1>b. \A n \in 1..b : \A x \in Transcript : F[n][x] = next(x, n)
  OBVIOUS
<1>c. \A n \in 0..b : A[n] = Transcript
  OBVIOUS
<1> HIDE DEF A, F
<1>d. a \in A[0] /\ \A n \in 1..b : \A x \in A[n - 1] : F[n][x] \in A[n]
  <2> HIDE DEF next
  <2>1. 0 \in 0..b /\ \A n \in 1..b : n - 1 \in 0..b /\ n \in 0..b
    BY <1>1
  <2>2. a \in A[0]
    BY <1>c, <2>1 DEF a
  <2>3. \A n \in 1..b : A[n] = Transcript /\ A[n - 1] = Transcript
    BY <1>c, <2>1
  <2> QED
    BY <1>2, <1>b, <2>2, <2>3
<1>4. PICK g : Unrolls(g, b, a, F) /\ \A n \in 0..b : g[n] \in A[n]
  BY <1>1, <1>d, Recursion
<1>5. g = [n \in 0..b |-> IF n = 0 THEN transcript
                          ELSE IF calls[n].runs THEN Finished(g[n - 1], calls[n].name, calls[n].out)
                          ELSE g[n - 1]]
  <2>1. \A n \in 1..b : F[n][g[n - 1]] = next(g[n - 1], n)
    <3>1. TAKE n \in 1..b
    <3>2. n - 1 \in 0..b
      BY <1>1
    <3>3. g[n - 1] \in Transcript
      BY <1>4, <1>c, <3>2
    <3> HIDE DEF next
    <3> QED
      BY <1>b, <3>3
  <2>2. \A n \in 0..b : n = 0 \/ n \in 1..b
    BY <1>1
  <2> QED
    BY <1>4, <2>1, <2>2 DEF Unrolls, a
<1>6. upto = [n \in 0..b |->
                IF n = 0 THEN transcript
                ELSE IF calls[n].runs THEN Finished(upto[n - 1], calls[n].name, calls[n].out)
                ELSE upto[n - 1]]
  BY <1>5, Zenon
<1> HIDE DEF upto
<1>e. upto[0] = transcript /\ \A n \in 1..b : upto[n] = next(upto[n - 1], n)
  <2>1. 0 \in 0..b /\ \A n \in 1..b : n \in 0..b /\ n # 0
    BY <1>1
  <2> QED
    BY <1>6, <2>1
<1> DEFINE Good(n) == /\ upto[n] \in Transcript
                      /\ Unblocked(upto[n]) => /\ Faithful(upto[n], ran)
                                               /\ Waiting(calls, n, upto[n].pending)
<1>f. ASSUME NEW n \in 1..b, Good(n - 1) PROVE Good(n)
  <2> DEFINE x == upto[n - 1]
             c == calls[n].name
             out == calls[n].out
  <2>1. /\ x \in Transcript /\ c \in ModelCall /\ out \in Outs
        /\ Unblocked(x) => Faithful(x, ran) /\ Waiting(calls, n - 1, x.pending)
    BY <1>1, <1>f
  <2>2. x.pending \in Seq(ModelCall)
    BY <2>1 DEF Transcript
  <2>3. n \in 1..Len(calls)
    BY DEF b
  <2>4. upto[n] = IF calls[n].runs THEN Finished(x, c, out) ELSE x
    BY <1>e
  <2>5. CASE calls[n].runs
    <3> DEFINE y == Finished(x, c, out)
    <3>1. y \in Transcript /\ (Unblocked(y) => Unblocked(x))
      BY <2>1, FinishedType
    <3>2. ASSUME Unblocked(y) PROVE Faithful(y, ran) /\ Waiting(calls, n, y.pending)
      <4>1. Faithful(x, ran) /\ Waiting(calls, n - 1, x.pending)
        BY <2>1, <3>1, <3>2
      <4> HIDE DEF x, y
      <4>2. x.pending # <<>> /\ Head(x.pending) = c /\ Waiting(calls, n, Tail(x.pending))
        BY <2>2, <2>3, <2>5, <4>1, WaitsFirst
      <4>3. Faithful(y, ran) /\ y.pending = Tail(x.pending)
        <5> HIDE DEF c, out
        <5> QED
          BY <2>1, <4>1, <4>2, FinishedHead DEF y
      <4> QED
        BY <4>2, <4>3
    <3> QED
      BY <2>4, <2>5, <3>1, <3>2
  <2>6. CASE ~calls[n].runs
    <3>1. Waiting(calls, n - 1, x.pending) => Waiting(calls, n, x.pending)
      BY <2>2, <2>3, <2>6, WaitsOn
    <3> QED
      BY <2>1, <2>4, <2>6, <3>1
  <2> QED
    BY <2>5, <2>6
<1>7. \A n \in 0..b : Good(n)
  <2> DEFINE S == {n \in 0..b : Good(n)}
  <2>1. 0 \in S
    BY <1>1, <1>e
  <2>2. ASSUME NEW n \in 1..b, n - 1 \in S PROVE n \in S
    <3>1. n \in 0..b
      BY <1>1
    <3>2. Good(n - 1)
      BY <2>2
    <3>3. Good(n)
      BY <1>f, <3>2
    <3> QED
      BY <3>1, <3>3
  <2> HIDE DEF S
  <2>3. \A n \in 0..b : n \in S
    BY <1>1, <2>1, <2>2, UpTo
  <2> QED
    BY <2>3 DEF S
<1>8. Collected(calls) = upto[b]
  BY Zenon DEF Collected, upto, b
<1>9. Good(b)
  BY <1>1, <1>7
<1> DEFINE z == upto[b]
<1>10. z.pending \in Seq(ModelCall) /\ (Waiting(calls, Len(calls), z.pending) => z.pending = <<>>)
  <2>1. z.pending \in Seq(ModelCall)
    BY <1>9 DEF Transcript
  <2> QED
    BY <2>1, WaitsForNone
<1> QED
  BY <1>8, <1>9, <1>10 DEF b

OnePrompt(ms) == \E p \in 1..Len(ms) : Prompts(ms) = {p}

\* The replies before the prompt have ids of their own.
HistoryFresh(ms) ==
  \A p \in Prompts(ms) : \A i, j \in 1..(p - 1) :
    ms[i].role = "reply" /\ ms[j].role = "reply" /\ ms[i].ids = ms[j].ids => i = j

Proper(ms, d) == Sound(ms, d) /\ OnePrompt(ms) /\ HistoryFresh(ms)

\* What assembleMessages keeps of a thread is a part of it.
LEMMA RecentIs ==
  ASSUME NEW ts \in Seq(Turn)
  PROVE  Recent(ts) \in Seq(Turn)
<1> DEFINE L == Len(ts)
           from == {i \in 1..(L + 1) :
                      \/ i = L + 1
                      \/ i > L - HistoryTurns /\ SizeOfAll(SubSeq(ts, i, L)) <= HistorySize}
<1>1. L \in Nat /\ \A i \in 1..L : ts[i] \in Turn
  BY ElementOfSeq
<1> HIDE DEF L
<1>2. L + 1 \in from /\ from \subseteq 1..(L + 1) /\ from \in SUBSET Nat
  BY <1>1
<1>3. Recent(ts) = SubSeq(ts, Min(from), L)
  BY DEF Recent, L
<1> HIDE DEF from
<1>4. Min(from) \in 1..(L + 1)
  BY <1>2, MinIs
<1> DEFINE m == Min(from)
<1> HIDE DEF m
<1>5. m \in Int /\ L \in Int /\ \A i \in m..L : i \in 1..L
  BY <1>1, <1>4 DEF m
<1>6. SubSeq(ts, m, L) \in Seq(Turn)
  BY <1>1, <1>5, SubSeqProperties
<1> QED
  BY <1>3, <1>6 DEF m

\* What is said after the prompt changes neither it nor the history.
LEMMA StaysProper ==
  ASSUME NEW ms, NEW out, NEW d, Proper(ms, d), Sound(out, d), Prompts(out) = Prompts(ms),
         Len(out) >= Len(ms), \A i \in 1..Len(ms) : out[i] = ms[i]
  PROVE  Proper(out, d)
<1>1. Len(ms) \in Nat /\ Len(out) \in Nat /\ OnePrompt(ms) /\ HistoryFresh(ms)
  BY DEF Proper, Sound
<1>2. PICK p \in 1..Len(ms) : Prompts(ms) = {p}
  BY <1>1 DEF OnePrompt
<1>3. p \in 1..Len(out) /\ \A i \in 1..(p - 1) : i \in 1..Len(ms) /\ out[i] = ms[i]
  BY <1>1
<1>4. HistoryFresh(out)
  <2>1. SUFFICES ASSUME NEW i \in 1..(p - 1), NEW j \in 1..(p - 1), out[i].role = "reply",
                        out[j].role = "reply", out[i].ids = out[j].ids
                 PROVE  i = j
    BY <1>2 DEF HistoryFresh
  <2>2. out[i] = ms[i] /\ out[j] = ms[j] /\ p \in Prompts(ms)
    BY <1>2, <1>3
  <2> QED
    BY <1>1, <2>1, <2>2 DEF HistoryFresh
<1> QED
  BY <1>2, <1>3, <1>4 DEF Proper, OnePrompt

LEMMA SayKeepsProper ==
  ASSUME NEW ms, NEW d \in Nat, Proper(ms, d), NEW role \in {"user", "said"}
  PROVE  Proper(Append(ms, Message(role, <<>>)), d)
<1> DEFINE m == Message(role, <<>>)
           out == Append(ms, m)
<1>1. m \in Msg /\ ms \in Seq(Msg) /\ Sound(ms, d)
  <2>1. m \in Msg
    BY DEF Message, Msg, Role
  <2>2. Sound(ms, d)
    BY DEF Proper
  <2> QED
    BY <2>1, <2>2 DEF Sound
<1>2. Sound(out, d) /\ Prompts(out) = Prompts(ms)
  BY <1>1, SayKeeps
<1> HIDE DEF m
<1>3. Len(out) = Len(ms) + 1 /\ Len(ms) \in Nat /\ \A i \in 1..Len(ms) : out[i] = ms[i]
  BY <1>1, AppendAt
<1> HIDE DEF out
<1>4. Proper(out, d)
  BY <1>2, <1>3, StaysProper
<1> QED
  BY <1>4 DEF out, m

\* The first request of a turn.
LEMMA AssembledIsProper ==
  ASSUME NEW ts \in Seq(Turn)
  PROVE  Proper(AssembleMessages(ts), Guides)
<1> DEFINE r == Request(Recent(ts))
           m == Message("prompt", <<>>)
           out == Append(r.talk, m)
<1>1. r \in Requests
  BY RecentIs, RequestIsRequest
<1> HIDE DEF r
<1>2. /\ r = [talk |-> r.talk, seq |-> r.seq]
      /\ r.talk \in Seq(Msg) /\ r.seq \in Nat
      /\ Sound(r.talk, Guides) /\ CountedTo(r.talk, r.seq) /\ Prompts(r.talk) = {}
  BY <1>1 DEF Requests
<1>3. AssembleMessages(ts) = out
  <2>1. Say(r, "prompt") = [r EXCEPT !.talk = out]
    BY DEF Say
  <2>2. Say(r, "prompt").talk = out
    BY <1>2, <2>1
  <2> QED
    BY <2>2 DEF AssembleMessages, r
<1>4. Sound(out, Guides) /\ Prompts(out) = {Len(r.talk) + 1}
  <2>1. Guides \in Nat
    BY GuidesAre
  <2> QED
    BY <1>2, <2>1, SayKeeps
<1>5. CountedTo(out, r.seq)
  BY <1>2, SayCounted
<1>6. m \in Msg
  BY DEF Message, Msg, Role
<1> HIDE DEF m
<1>7. Len(out) = Len(r.talk) + 1 /\ Len(r.talk) \in Nat
  BY <1>2, <1>6, AppendAt
<1> HIDE DEF out
<1>8. OnePrompt(out)
  BY <1>4, <1>7 DEF OnePrompt
<1>9. HistoryFresh(out)
  <2>1. \A p \in Prompts(out) : \A i \in 1..(p - 1) : i \in 1..Len(out)
    BY <1>4, <1>7
  <2> QED
    BY <1>5, <2>1 DEF HistoryFresh, CountedTo
<1> QED
  BY <1>3, <1>4, <1>8, <1>9 DEF Proper

\* The round of a request: its calls and then their replies, whatever ids they have.
LEMMA RoundIsProper ==
  ASSUME NEW base, NEW d \in Nat, Proper(base, d), NEW ids \in Seq(Nat)
  PROVE  LET out == Append(base, Message("calls", ids))
                      \o [i \in 1..Len(ids) |-> Message("reply", <<ids[i]>>)] IN
         Proper(out, d)
<1> DEFINE c == Message("calls", ids)
           replies == [i \in 1..Len(ids) |-> Message("reply", <<ids[i]>>)]
           out == base \o AnsweredCalls(ids)
<1>1. base \in Seq(Msg) /\ Sound(base, d)
  BY DEF Proper, Sound
<1>2. Sound(out, d) /\ Prompts(out) = Prompts(base)
  BY <1>1, CallsKeep
<1>3. /\ Len(out) = Len(base) + 1 + Len(ids) /\ Len(base) \in Nat /\ Len(ids) \in Nat
      /\ \A i \in 1..Len(base) : out[i] = base[i]
  BY <1>1, AnsweredAt
<1>4. Append(base, c) \o replies = out
  <2>1. c \in Msg /\ replies \in Seq(Msg)
    <3>1. \A i \in 1..Len(ids) : Message("reply", <<ids[i]>>) \in Msg
      <4>1. TAKE i \in 1..Len(ids)
      <4>2. ids[i] \in Nat
        BY ElementOfSeq
      <4>3. <<ids[i]>> \in Seq(Nat)
        BY <4>2
      <4> QED
        BY <4>3 DEF Message, Msg, Role
    <3>2. c \in Msg
      BY DEF Message, Msg, Role
    <3> QED
      BY <3>1, <3>2
  <2>2. AnsweredCalls(ids) = <<c>> \o replies
    BY DEF AnsweredCalls
  <2> HIDE DEF c, replies
  <2>3. Append(base, c) = base \o <<c>> /\ <<c>> \in Seq(Msg)
    BY <1>1, <2>1, AppendIsConcat
  <2> DEFINE one == <<c>>
  <2> HIDE DEF one
  <2>4. (base \o one) \o replies = base \o (one \o replies)
    <3>1. one \in Seq(Msg)
      BY <2>3 DEF one
    <3> QED
      BY <1>1, <2>1, <3>1, ConcatAssociative
  <2> QED
    BY <2>2, <2>3, <2>4 DEF one
<1> HIDE DEF out
<1>5. Proper(out, d)
  <2>1. Len(out) >= Len(base)
    BY <1>3
  <2> QED
    BY <1>2, <1>3, <2>1, StaysProper
<1> QED
  BY <1>4, <1>5 DEF c, replies

-----------------------------------------------------------------------------
(* The agent loop: the invariant                                           *)

\* The ids of a round.
RoundIds(cs) == [i \in 1..Len(cs) |-> cs[i].id]

LEMMA RoundIdsAre ==
  ASSUME NEW cs \in Seq(Call)
  PROVE  /\ RoundIds(cs) \in Seq(Nat) /\ Len(RoundIds(cs)) = Len(cs)
         /\ \A i \in 1..Len(cs) : RoundIds(cs)[i] = cs[i].id
<1>1. \A i \in 1..Len(cs) : cs[i].id \in Nat
  <2>1. TAKE i \in 1..Len(cs)
  <2>2. cs[i] \in Call
    BY ElementOfSeq
  <2> QED
    BY <2>2 DEF Call
<1> QED
  BY <1>1 DEF RoundIds

AgentTypes ==
  /\ thread \in Seq(Turn) /\ step \in Nat
  /\ calls \in Seq(Call) /\ lastCall \in ModelCall \cup {NoCall}
  /\ transcript \in Transcript /\ ran \in Seq(ModelCall)

\* A request is sound when the model is asked, and lacks the replies of one round, the
\* last, while its tools run.
Asked(ms, base) ==
  /\ Proper(base, Guides)
  /\ ms = IF turn = "tools" THEN Append(base, Message("calls", RoundIds(calls))) ELSE base

TalkInv == turn \in {"ask", "tools", "closeout"} => \E base \in Seq(Msg) : Asked(talk, base)

\* What waits is what runs in this round, and nothing between the rounds.
TranscriptInv ==
  Unblocked(transcript) =>
    /\ Faithful(transcript, ran)
    /\ IF turn = "tools" THEN Waiting(calls, 0, transcript.pending) ELSE transcript.pending = <<>>

AgentInv == AgentTypes /\ TalkInv /\ TranscriptInv

LEMMA AgentInvInit == AgentInit => AgentInv
<1>1. SUFFICES ASSUME AgentInit PROVE AgentInv
  OBVIOUS
<1>2. thread \in Seq(Turn)
  <2>1. PICK past \in PastTurns : AskButler(past) \/ AskCodemap(past)
    BY <1>1 DEF AgentInit
  <2>2. past \in Seq(Turn) /\ Placeholder \in Turn
    BY AgentAssumption DEF Placeholder, Turn
  <2> QED
    BY <2>1, <2>2, AppendAt DEF AskButler, AskCodemap
<1>3. transcript \in Transcript
  BY <1>1 DEF AgentInit, Transcript
<1>4. AgentTypes
  BY <1>1, <1>2, <1>3 DEF AgentInit, AgentTypes, ModelCall
<1>5. TalkInv
  BY <1>1 DEF AgentInit, TalkInv
<1>6. TranscriptInv
  <2> DEFINE st == transcript.steps
             pn == transcript.pending
  <2>1. st = <<>> /\ pn = <<>> /\ Len(st) = 0 /\ 1..0 = {} /\ turn = "gate" /\ ran = <<>>
    BY <1>1 DEF AgentInit
  <2>2. Names(st) = <<>>
    BY <2>1 DEF Names
  <2>3. Names(st) \o pn = <<>>
    BY <2>1, <2>2
  <2>4. Faithful(transcript, ran)
    BY <2>1, <2>3 DEF Faithful
  <2> QED
    BY <2>1, <2>4 DEF TranscriptInv
<1> QED
  BY <1>4, <1>5, <1>6 DEF AgentInv

\* A turn that ends, or goes on with the same request, transcript and calls.
LEMMA AgentRests ==
  ASSUME AgentInv, thread' = thread, step' = step, calls' = calls, lastCall' = lastCall,
         transcript' = transcript, ran' = ran, turn # "tools", turn' # "tools",
         turn' \in {"ask", "closeout"} => turn \in {"ask", "closeout"} /\ talk' = talk,
         product' = product
  PROVE  AgentInv'
<1>1. AgentTypes'
  BY DEF AgentInv, AgentTypes
<1>2. TalkInv'
  <2>1. SUFFICES ASSUME turn' \in {"ask", "tools", "closeout"}
                 PROVE  (\E base \in Seq(Msg) : Asked(talk, base))'
    BY DEF TalkInv
  <2>2. turn \in {"ask", "closeout"} /\ talk' = talk
    BY <2>1
  <2>3. PICK base \in Seq(Msg) : Asked(talk, base)
    BY <2>2 DEF AgentInv, TalkInv
  <2>4. Asked(talk, base)'
    BY <2>2, <2>3 DEF Asked, Guides
  <2> QED
    BY <2>4
<1>3. TranscriptInv'
  BY DEF AgentInv, TranscriptInv
<1> QED
  BY <1>1, <1>2, <1>3 DEF AgentInv

LEMMA GateKeeps ==
  ASSUME AgentInv, Gate
  PROVE  AgentInv'
<1>1. CASE turn' = "ended"
  BY <1>1, AgentRests DEF Gate
<1>2. CASE turn' = "ask" /\ talk' = AssembleMessages(thread)
  <2>1. turn = "gate" /\ Guides' = Guides
    BY DEF Gate, Guides
  <2>2. Proper(talk', Guides)
    BY <1>2, AssembledIsProper DEF AgentInv, AgentTypes
  <2>3. talk' \in Seq(Msg)
    BY <2>2 DEF Proper, Sound
  <2>4. Asked(talk, talk)'
    BY <1>2, <2>1, <2>2 DEF Asked
  <2>5. TalkInv'
    BY <2>3, <2>4 DEF TalkInv
  <2>6. AgentTypes' /\ TranscriptInv'
    BY <1>2, <2>1 DEF Gate, AgentInv, AgentTypes, TranscriptInv
  <2> QED
    BY <2>5, <2>6 DEF AgentInv
<1> QED
  BY <1>1, <1>2 DEF Gate, EndTurn

LEMMA SettleKeeps ==
  ASSUME AgentInv, NEW offTopic \in BOOLEAN, SettleText(offTopic)
  PROVE  AgentInv'
<1>1. /\ turn \in {"ask", "closeout"} /\ Guides' = Guides
      /\ UNCHANGED <<product, thread, calls, lastCall, transcript, ran>>
  BY DEF SettleText, Guides
<1>2. CASE turn' \in {"ended", "format"} /\ step' = step
  BY <1>1, <1>2, AgentRests
<1>3. CASE /\ turn' = turn /\ step' = step + 1
           /\ talk' = Append(Append(talk, Message("said", <<>>)), Message("user", <<>>))
  <2>1. PICK base \in Seq(Msg) : Asked(talk, base)
    BY <1>1 DEF AgentInv, TalkInv
  <2>2. talk = base /\ Proper(base, Guides)
    BY <1>1, <2>1 DEF Asked
  <2> DEFINE m == Message("said", <<>>)
             u == Message("user", <<>>)
             one == Append(base, m)
             two == Append(one, u)
  <2>3. Guides \in Nat
    BY GuidesAre
  <2>4. Proper(one, Guides)
    BY <2>2, <2>3, SayKeepsProper
  <2>5. Proper(two, Guides)
    <3> HIDE DEF one, m
    <3> QED
      BY <2>3, <2>4, SayKeepsProper
  <2>6. talk' = two
    BY <1>3, <2>2
  <2> HIDE DEF one, two
  <2>7. talk' \in Seq(Msg)
    BY <2>5, <2>6 DEF Proper, Sound
  <2>8. Asked(talk, talk)'
    BY <1>1, <1>3, <2>5, <2>6 DEF Asked
  <2>9. TalkInv'
    BY <2>7, <2>8 DEF TalkInv
  <2>10. AgentTypes' /\ TranscriptInv'
    BY <1>1, <1>3 DEF AgentInv, AgentTypes, TranscriptInv
  <2> QED
    BY <2>9, <2>10 DEF AgentInv
<1> QED
  BY <1>2, <1>3 DEF SettleText, EndTurn

LEMMA AnswerKeeps ==
  ASSUME AgentInv, NEW ids \in Seq(Nat), NEW cs \in [DOMAIN ids -> ModelCall],
         AnswerTools(cs, ids)
  PROVE  AgentInv'
<1> DEFINE round == Classify(cs, ids)
           c == Message("calls", ids)
<1>1. cs \in Seq(ModelCall) /\ Len(cs) = Len(ids) /\ Len(ids) \in Nat
  <2> DEFINE n == Len(ids)
  <2>1. n \in Nat /\ DOMAIN ids = 1..n
    OBVIOUS
  <2> HIDE DEF n
  <2>2. cs \in Seq(ModelCall) /\ Len(cs) = n
    BY <2>1
  <2> QED
    BY <2>1, <2>2 DEF n
<1>2. /\ turn = "ask" /\ turn' = "tools" /\ step' = step /\ thread' = thread /\ product' = product
      /\ calls' = round.calls /\ lastCall' = round.prev
      /\ transcript' = round.tr /\ ran' = round.ran
      /\ talk' = Append(talk, c)
  BY DEF AnswerTools
<1>3. round \in Rounds(Len(cs), ids)
  <2>1. /\ lastCall \in ModelCall \cup {NoCall} /\ transcript \in Transcript
        /\ ran \in Seq(ModelCall)
        /\ Unblocked(transcript) => Faithful(transcript, ran) /\ transcript.pending = <<>>
    BY <1>2 DEF AgentInv, AgentTypes, TranscriptInv
  <2> QED
    BY <1>1, <2>1, ClassifyIsRound
<1> HIDE DEF round
<1>4. /\ calls' \in Seq(Call) /\ lastCall' \in ModelCall \cup {NoCall} /\ transcript' \in Transcript
      /\ ran' \in Seq(ModelCall) /\ Len(calls') = Len(cs)
      /\ \A i \in 1..Len(cs) : calls'[i].id = ids[i]
      /\ Unblocked(transcript') => /\ Faithful(transcript', ran')
                                   /\ Waiting(calls', 0, transcript'.pending)
  BY <1>2, <1>3 DEF Rounds
<1>5. AgentTypes'
  BY <1>2, <1>4 DEF AgentInv, AgentTypes
<1>6. TranscriptInv'
  BY <1>2, <1>4 DEF TranscriptInv
<1>7. TalkInv'
  <2>1. PICK base \in Seq(Msg) : Asked(talk, base)
    BY <1>2 DEF AgentInv, TalkInv
  <2>2. talk = base /\ Proper(base, Guides)
    BY <1>2, <2>1 DEF Asked
  <2>3. RoundIds(calls') = ids
    <3> DEFINE cn == calls'
    <3>1. /\ RoundIds(cn) \in Seq(Nat) /\ Len(RoundIds(cn)) = Len(cn)
          /\ \A i \in 1..Len(cn) : RoundIds(cn)[i] = cn[i].id
      BY <1>4, RoundIdsAre
    <3> QED
      BY <1>1, <1>4, <3>1, SeqEqual
  <2>4. RoundIds(calls)' = ids
    BY <2>3 DEF RoundIds
  <2>5. Asked(talk, base)'
    <3>1. talk' = Append(base, c) /\ Guides' = Guides
      BY <1>2, <2>2 DEF Guides
    <3>2. Message("calls", RoundIds(calls))' = c
      BY <2>4 DEF Message
    <3> QED
      BY <1>2, <2>2, <3>1, <3>2 DEF Asked
  <2> QED
    BY <1>2, <2>5 DEF TalkInv
<1> QED
  BY <1>5, <1>6, <1>7 DEF AgentInv

LEMMA RunKeeps ==
  ASSUME AgentInv, NEW i \in Nat, RunTool(i)
  PROVE  AgentInv'
<1>1. PICK out \in {"output", "error"} : calls' = [calls EXCEPT ![i].out = out]
  BY DEF RunTool
<1>2. /\ i \in 1..Len(calls) /\ turn = "tools" /\ calls \in Seq(Call)
      /\ UNCHANGED <<product, thread, turn, step, lastCall, talk, transcript, ran>>
  BY DEF RunTool, AgentInv, AgentTypes
<1>3. /\ calls' \in Seq(Call) /\ Len(calls') = Len(calls)
      /\ \A j \in 1..Len(calls) : /\ calls'[j].runs = calls[j].runs
                                 /\ calls'[j].name = calls[j].name
                                 /\ calls'[j].id = calls[j].id
  <2> DEFINE x == [calls[i] EXCEPT !.out = out]
  <2>1. calls[i] \in Call
    BY <1>2, ElementOfSeq
  <2>2. x \in Call /\ x.runs = calls[i].runs /\ x.name = calls[i].name /\ x.id = calls[i].id
    BY <2>1 DEF Call, Outs
  <2>3. calls' = [calls EXCEPT ![i] = x]
    BY <1>1
  <2> HIDE DEF x
  <2>4. calls' \in Seq(Call) /\ Len(calls') = Len(calls)
    BY <1>2, <2>2, <2>3, ExceptSeq
  <2>5. \A j \in 1..Len(calls) : calls'[j] = IF j = i THEN x ELSE calls[j]
    BY <1>2, <2>3
  <2> QED
    BY <2>2, <2>4, <2>5
<1>4. AgentTypes'
  BY <1>2, <1>3 DEF AgentInv, AgentTypes
<1>5. TalkInv'
  <2>1. PICK base \in Seq(Msg) : Asked(talk, base)
    BY <1>2 DEF AgentInv, TalkInv
  <2>2. RoundIds(calls') = RoundIds(calls)
    <3> DEFINE m == RoundIds(calls')
               n == RoundIds(calls)
    <3>1. /\ m \in Seq(Nat) /\ Len(m) = Len(calls)
          /\ \A j \in 1..Len(calls) : m[j] = calls'[j].id
      BY <1>3, RoundIdsAre
    <3>2. /\ n \in Seq(Nat) /\ Len(n) = Len(calls)
          /\ \A j \in 1..Len(calls) : n[j] = calls[j].id
      BY <1>2, RoundIdsAre
    <3> HIDE DEF m, n
    <3>3. m = n
      BY <1>3, <3>1, <3>2, SeqEqual
    <3> QED
      BY <3>3 DEF m, n
  <2>3. Message("calls", RoundIds(calls))' = Message("calls", RoundIds(calls)) /\ Guides' = Guides
    BY <1>2, <2>2 DEF Message, RoundIds, Guides
  <2>4. Asked(talk, base)'
    BY <1>2, <2>1, <2>3 DEF Asked
  <2> QED
    BY <1>2, <2>4 DEF TalkInv
<1>6. TranscriptInv'
  <2>1. SUFFICES ASSUME Unblocked(transcript')
                 PROVE  Faithful(transcript', ran') /\ Waiting(calls', 0, transcript'.pending)
    BY <1>2 DEF TranscriptInv
  <2>2. Faithful(transcript, ran) /\ Waiting(calls, 0, transcript.pending)
    BY <1>2, <2>1 DEF AgentInv, TranscriptInv
  <2> DEFINE p == transcript.pending
  <2>3. Waiting(calls', 0, p)
    <3> HIDE DEF p
    <3>1. PICK at \in [1..Len(p) -> 1..Len(calls)] :
            /\ \A k, l \in 1..Len(p) : k < l => at[k] < at[l]
            /\ \A j \in 1..Len(calls) : calls[j].runs <=> \E k \in 1..Len(p) : at[k] = j
            /\ \A k \in 1..Len(p) : p[k] = calls[at[k]].name
      <4>1. 0 + 1 = 1 /\ Waiting(calls, 0, p)
        BY <2>2 DEF p
      <4> QED
        BY <4>1 DEF Waiting
    <3>2. /\ \A j \in 1..Len(calls') : calls'[j].runs <=> \E k \in 1..Len(p) : at[k] = j
          /\ \A k \in 1..Len(p) : p[k] = calls'[at[k]].name
      BY <1>3, <3>1
    <3>3. at \in [1..Len(p) -> (0 + 1)..Len(calls')] /\ 0 + 1 = 1
      BY <1>3, <3>1
    <3> QED
      BY <3>1, <3>2, <3>3 DEF Waiting
  <2> QED
    BY <1>2, <2>2, <2>3
<1> QED
  BY <1>4, <1>5, <1>6 DEF AgentInv

LEMMA ReplyKeeps ==
  ASSUME AgentInv, ReplyInOrder
  PROVE  AgentInv'
<1> DEFINE n == Len(calls)
           ids == RoundIds(calls)
           replies == [i \in 1..n |-> Message("reply", <<calls[i].id>>)]
           u == Message("user", <<>>)
           last == IF step + 1 = MaxSteps THEN <<u>> ELSE <<>>
<1>1. /\ turn = "tools" /\ talk' = talk \o replies \o last
      /\ calls' = <<>> /\ step' = step + 1 /\ turn' \in {"ask", "closeout"}
      /\ transcript' = Collected(calls)
      /\ UNCHANGED <<product, thread, lastCall, ran>>
  BY DEF ReplyInOrder, EndRound
<1>2. n \in Nat /\ step \in Nat /\ calls \in Seq(Call) /\ transcript \in Transcript
  BY DEF AgentInv, AgentTypes
<1>3. /\ Collected(calls) \in Transcript
      /\ Unblocked(Collected(calls)) => /\ Faithful(Collected(calls), ran)
                                        /\ Collected(calls).pending = <<>>
  <2>1. Unblocked(transcript) => Faithful(transcript, ran) /\ Waiting(calls, 0, transcript.pending)
    BY <1>1 DEF AgentInv, TranscriptInv
  <2> QED
    BY <1>2, <2>1, CollectedIs
<1>4. AgentTypes'
  <2>1. calls' \in Seq(Call)
    BY <1>1
  <2> QED
    BY <1>1, <1>2, <1>3, <2>1 DEF AgentInv, AgentTypes
<1>5. TranscriptInv'
  BY <1>1, <1>3 DEF TranscriptInv
<1>6. TalkInv'
  <2>1. PICK base \in Seq(Msg) : Asked(talk, base)
    BY <1>1 DEF AgentInv, TalkInv
  <2>2. ids \in Seq(Nat) /\ Len(ids) = n /\ \A i \in 1..n : ids[i] = calls[i].id
    BY <1>2, RoundIdsAre
  <2> DEFINE answers == [i \in 1..Len(ids) |-> Message("reply", <<ids[i]>>)]
             out == Append(base, Message("calls", ids)) \o answers
  <2>3. replies = answers
    <3> HIDE DEF ids, n
    <3> QED
      BY <2>2
  <2>4. talk \o replies = out /\ Proper(base, Guides) /\ Guides \in Nat /\ Guides' = Guides
    BY <1>1, <2>1, <2>3, GuidesAre DEF Asked, Guides
  <2>5. Proper(out, Guides)
    <3> HIDE DEF ids
    <3> QED
      BY <2>2, <2>4, RoundIsProper
  <2>6. talk' = out \o last
    BY <1>1, <2>4
  <2> HIDE DEF out
  <2>7. out \in Seq(Msg)
    BY <2>5 DEF Proper, Sound
  <2>8. Proper(talk', Guides)
    <3>1. CASE last = <<>>
      <4>1. out \o <<>> = out
        BY <2>7, ConcatEmptySeq
      <4> QED
        BY <2>5, <2>6, <3>1, <4>1
    <3>2. CASE last = <<u>>
      <4>1. u \in Msg
        BY DEF Message, Msg, Role
      <4>2. Append(out, u) = out \o <<u>>
        <5> HIDE DEF u
        <5> QED
          BY <2>7, <4>1, AppendIsConcat
      <4>3. Proper(Append(out, u), Guides)
        BY <2>4, <2>5, SayKeepsProper
      <4> QED
        BY <2>6, <3>2, <4>2, <4>3
    <3> QED
      BY <3>1, <3>2
  <2>9. talk' \in Seq(Msg)
    BY <2>8 DEF Proper, Sound
  <2>10. Asked(talk, talk)'
    BY <1>1, <2>4, <2>8 DEF Asked
  <2> QED
    BY <2>9, <2>10 DEF TalkInv
<1> QED
  BY <1>4, <1>5, <1>6 DEF AgentInv

LEMMA AgentInvStep == AgentInv /\ [AgentNext]_avars => AgentInv'
<1>1. SUFFICES ASSUME AgentInv, [AgentNext]_avars PROVE AgentInv'
  OBVIOUS
<1>2. CASE Gate
  BY <1>1, <1>2, GateKeeps
<1>3. CASE ModelFails
  BY <1>1, <1>3, AgentRests DEF ModelFails, EndTurn
<1>4. ASSUME NEW offTopic \in BOOLEAN, SettleText(offTopic) PROVE AgentInv'
  BY <1>1, <1>4, SettleKeeps
<1>5. ASSUME NEW ids \in CallIds, NEW cs \in [DOMAIN ids -> ModelCall], AnswerTools(cs, ids)
      PROVE  AgentInv'
  <2>1. ids \in Seq(Nat)
    BY AgentAssumption
  <2> QED
    BY <1>1, <1>5, <2>1, AnswerKeeps
<1>6. CASE CloseOutCalls \/ FormatResult
  BY <1>1, <1>6, AgentRests DEF CloseOutCalls, FormatResult, EndTurn
<1>7. ASSUME NEW i \in 1..MaxCalls, RunTool(i) PROVE AgentInv'
  BY <1>1, <1>7, RunKeeps, AgentAssumption
<1>8. CASE ReplyInOrder
  BY <1>1, <1>8, ReplyKeeps
<1>9. CASE Deadline \/ UNCHANGED avars
  <2>1. UNCHANGED <<product, thread, turn, step, calls, lastCall, talk, transcript, ran>>
    BY <1>9 DEF Deadline, avars
  <2>2. AgentTypes'
    BY <1>1, <2>1 DEF AgentInv, AgentTypes
  <2>3. TalkInv'
    <3>1. ASSUME NEW base PROVE Asked(talk, base) => Asked(talk, base)'
      BY <2>1 DEF Asked, RoundIds, Guides
    <3> QED
      BY <1>1, <2>1, <3>1 DEF AgentInv, TalkInv
  <2>4. TranscriptInv'
    BY <1>1, <2>1 DEF AgentInv, TranscriptInv
  <2> QED
    BY <2>2, <2>3, <2>4 DEF AgentInv
<1> QED
  BY <1>1, <1>2, <1>3, <1>4, <1>5, <1>6, <1>7, <1>8, <1>9 DEF AgentNext, TurnStep, ModelReplies

LEMMA AgentInvHolds == AgentSpec => []AgentInv
BY AgentInvInit, AgentInvStep, PTL DEF AgentSpec

\* assembleMessages and the loop, for any history and whatever the model answers, with
\* any ids: the next request begins with its developer messages, has one prompt, has
\* behind every message with calls a reply to each in their order and no reply elsewhere,
\* and the calls of its history have ids of their own.
THEOREM RequestsStayWellFormed == AgentSpec => []RequestIsWellFormed
<1>1. AgentInv => RequestIsWellFormed
  <2>1. SUFFICES ASSUME AgentInv, turn \in {"ask", "closeout"} PROVE RequestIsWellFormed
    BY DEF RequestIsWellFormed
  <2>2. PICK base \in Seq(Msg) : Asked(talk, base)
    BY <2>1 DEF AgentInv, TalkInv
  <2>3. Sound(talk, Guides) /\ OnePrompt(talk) /\ HistoryFresh(talk)
    BY <2>1, <2>2 DEF Asked, Proper
  <2>4. PICK p \in 1..Len(talk) : Prompts(talk) = {p}
    BY <2>3 DEF OnePrompt
  <2>5. /\ \A i \in 1..Len(talk) : talk[i].role = "prompt" <=> i = p
        /\ \A i, j \in 1..(p - 1) :
             talk[i].role = "reply" /\ talk[j].role = "reply" /\ talk[i].ids = talk[j].ids => i = j
    BY <2>3, <2>4 DEF Prompts, HistoryFresh
  <2> QED
    BY <2>3, <2>5, Zenon DEF RequestIsWellFormed, Sound
<1> QED
  BY <1>1, AgentInvHolds, PTL

\* RoundCollector: every step of a transcript without a blocked repeat is one call that
\* ran, with its own result, in the order of the model.
THEOREM TranscriptsAreTheTurn == AgentSpec => []TranscriptIsTheTurn
<1>1. AgentInv => TranscriptIsTheTurn
  <2>1. SUFFICES ASSUME AgentInv, Unblocked(transcript), turn \in {"ask", "closeout", "ended"}
                 PROVE  /\ StepsMatchTheirCalls
                        /\ ran = [i \in 1..Len(transcript.steps) |-> transcript.steps[i].call]
    BY DEF TranscriptIsTheTurn, Unblocked
  <2>2. Faithful(transcript, ran) /\ transcript.pending = <<>>
    BY <2>1 DEF AgentInv, TranscriptInv
  <2>3. Names(transcript.steps) \o <<>> = Names(transcript.steps)
    <3>1. Names(transcript.steps) \in Seq(ModelCall)
      BY <2>1, NamesType DEF AgentInv, AgentTypes, Transcript
    <3> QED
      BY <3>1, ConcatEmptySeq
  <2>4. ran = Names(transcript.steps)
    BY <2>2, <2>3 DEF Faithful
  <2>5. StepsMatchTheirCalls
    BY <2>2 DEF Faithful, StepsMatchTheirCalls
  <2> QED
    BY <2>4, <2>5 DEF Names
<1> QED
  BY <1>1, AgentInvHolds, PTL

-----------------------------------------------------------------------------
(* The references of an answer                                             *)

LEMMA GreaterIs ==
  ASSUME NEW a \in Int, NEW b \in Int
  PROVE  Max({a, b}) = IF a >= b THEN a ELSE b
<1> DEFINE m == IF a >= b THEN a ELSE b
<1>1. m \in {a, b} /\ \A y \in {a, b} : y <= m
  OBVIOUS
<1>2. \A x \in {a, b} : (\A y \in {a, b} : x >= y) => x = m
  OBVIOUS
<1> HIDE DEF m
<1>3. m \in {a, b} /\ \A y \in {a, b} : m >= y
  BY <1>1
<1> DEFINE S == {a, b}
<1> HIDE DEF S
<1>4. Max(S) = m
  BY <1>2, <1>3 DEF Max, S
<1> QED
  BY <1>4 DEF S, m

LEMMA LesserIs ==
  ASSUME NEW a \in Int, NEW b \in Int
  PROVE  Min({a, b}) = IF a <= b THEN a ELSE b
<1> DEFINE m == IF a <= b THEN a ELSE b
<1>1. m \in {a, b} /\ \A y \in {a, b} : m <= y
  OBVIOUS
<1>2. \A x \in {a, b} : (\A y \in {a, b} : x <= y) => x = m
  OBVIOUS
<1> HIDE DEF m
<1> DEFINE S == {a, b}
<1> HIDE DEF S
<1>3. Min(S) = m
  BY <1>1, <1>2 DEF Min, S
<1> QED
  BY <1>3 DEF S, m

\* A range of lines: a reference that is clamped, or a block.
LineRange == {r \in Nat \X Nat : 1 <= r[1] /\ r[1] <= r[2]}

LEMMA IsRange ==
  ASSUME NEW a \in Nat, NEW b \in Nat, 1 <= a, a <= b
  PROVE  <<a, b>> \in LineRange
<1>1. <<a, b>> \in Nat \X Nat /\ <<a, b>>[1] = a /\ <<a, b>>[2] = b
  OBVIOUS
<1> QED
  BY <1>1 DEF LineRange

LEMMA ClampIs ==
  ASSUME NEW r \in Int \X Int
  PROVE  Clamp(r) \in LineRange
<1> DEFINE a == r[1]
           b == r[2]
           first == Max({1, a})
           far == Max({first, b})
           end == first + MaxSpan - 1
           last == Min({far, end})
<1>1. a \in Int /\ b \in Int /\ MaxSpan \in Nat /\ MaxSpan >= 1
  BY RefAssumption
<1> HIDE DEF a, b
<1>2. first \in Nat /\ first >= 1
  BY <1>1, GreaterIs
<1> HIDE DEF first
<1>3. far \in Nat /\ far >= first
  BY <1>1, <1>2, GreaterIs
<1>4. end \in Nat /\ end >= first
  BY <1>1, <1>2
<1> HIDE DEF far, end
<1>5. last \in Nat /\ last >= first
  BY <1>3, <1>4, LesserIs
<1>6. Clamp(r) = <<first, last>>
  BY DEF Clamp, first, last, far, end, a, b
<1> HIDE DEF last
<1> QED
  BY <1>2, <1>5, <1>6, IsRange

\* sed prints a range as far as the file goes.
LEMMA LinesAre ==
  ASSUME NEW b \in LineRange, length \in Nat
  PROVE  /\ LinesOf(b) \in Seq(Nat)
         /\ Len(LinesOf(b)) = IF b[1] > length THEN 0
                              ELSE (IF b[2] <= length THEN b[2] ELSE length) - b[1] + 1
         /\ \A i \in 1..Len(LinesOf(b)) : LinesOf(b)[i] = b[1] + i - 1
<1> DEFINE s == b[1]
           e == b[2]
           m == Min({e, length})
           n == m - s + 1
           w == IF n < 0 THEN 0 ELSE n
<1>1. s \in Nat /\ e \in Nat /\ 1 <= s /\ s <= e
  BY DEF LineRange
<1> HIDE DEF s, e
<1>2. m = IF e <= length THEN e ELSE length
  BY <1>1, LesserIs
<1> HIDE DEF m
<1>3. /\ w \in Nat /\ 1..n = 1..w
      /\ w = IF s > length THEN 0 ELSE (IF e <= length THEN e ELSE length) - s + 1
  BY <1>1, <1>2
<1>4. LinesOf(b) = [i \in 1..w |-> s + i - 1]
  BY <1>3 DEF LinesOf, s, e, m, n
<1> HIDE DEF w
<1>5. \A i \in 1..w : s + i - 1 \in Nat
  BY <1>1, <1>3
<1>6. [i \in 1..w |-> s + i - 1] \in Seq(Nat) /\ Len([i \in 1..w |-> s + i - 1]) = w
  BY <1>3, <1>5
<1> QED
  BY <1>3, <1>4, <1>6 DEF s, e

\* Blocks that do not meet, in the order of the file.
Apart(bs) == \A k, l \in 1..Len(bs) : k < l => bs[k][2] < bs[l][1]

Within(r, b) == b[1] <= r[1] /\ r[2] <= b[2]

\* What the first n of the sorted references are merged into.
Merged(refs, n) ==
  {bs \in Seq(LineRange) :
     /\ Apart(bs)
     /\ n > 0 <=> bs # <<>>
     /\ bs # <<>> => bs[Len(bs)][1] <= refs[n][1] /\ bs[1][1] = refs[1][1]
     /\ \A i \in 1..n : \E k \in 1..Len(bs) : Within(refs[i], bs[k])}

LEMMA RangeIs ==
  ASSUME NEW r \in LineRange
  PROVE  r[1] \in Nat /\ r[2] \in Nat /\ 1 <= r[1] /\ r[1] <= r[2] /\ r = <<r[1], r[2]>>
BY DEF LineRange

LEMMA MergeKeeps ==
  ASSUME NEW refs \in Seq(LineRange), NEW n \in 1..Len(refs),
         \A i, j \in 1..Len(refs) : i < j => refs[i][1] <= refs[j][1],
         NEW bs \in Merged(refs, n - 1)
  PROVE  Merge(bs, refs[n]) \in Merged(refs, n)
<1> DEFINE r == refs[n]
           L == Len(bs)
<1>1. /\ bs \in Seq(LineRange) /\ Apart(bs) /\ L \in Nat /\ r \in LineRange
      /\ \A k \in 1..L : bs[k] \in LineRange
      /\ n \in Nat /\ n >= 1 /\ n - 1 \in Nat
  BY ElementOfSeq DEF Merged
<1>2. /\ n - 1 > 0 <=> bs # <<>>
      /\ bs # <<>> => bs[1][1] = refs[1][1]
      /\ \A i \in 1..(n - 1) : \E k \in 1..L : Within(refs[i], bs[k])
  BY DEF Merged
<1>3. bs # <<>> => L \in 1..L /\ bs[L][1] <= r[1]
  <2>1. SUFFICES ASSUME bs # <<>> PROVE L \in 1..L /\ bs[L][1] <= r[1]
    OBVIOUS
  <2>2. bs[L][1] <= refs[n - 1][1]
    BY <2>1 DEF Merged
  <2>3. n - 1 \in 1..Len(refs) /\ n - 1 < n
    BY <1>1, <1>2, <2>1
  <2>4. refs[n - 1][1] <= r[1] /\ refs[n - 1] \in LineRange
    BY <2>3, ElementOfSeq
  <2>5. L \in 1..L
    BY <1>1, <2>1
  <2>6. bs[L][1] \in Nat /\ refs[n - 1][1] \in Nat /\ r[1] \in Nat
    BY <1>1, <2>4, <2>5, RangeIs
  <2> QED
    BY <2>2, <2>4, <2>5, <2>6
<1>4. r[1] \in Nat /\ r[2] \in Nat /\ 1 <= r[1] /\ r[1] <= r[2]
  BY <1>1, RangeIs
<1>5. \A k \in 1..L : bs[k][1] \in Nat /\ bs[k][2] \in Nat /\ 1 <= bs[k][1] /\ bs[k][1] <= bs[k][2]
  BY <1>1, RangeIs
<1> DEFINE new == Merge(bs, r)
<1>6. CASE Touches(bs, r)
  <2> DEFINE s == bs[L][1]
             far == Max({bs[L][2], r[2]})
             b == <<s, far>>
  <2>1. bs # <<>> /\ L \in 1..L /\ s <= r[1]
    BY <1>3, <1>6 DEF Touches
  <2>2. far \in Nat /\ far >= bs[L][2] /\ far >= r[2]
    <3> DEFINE e == bs[L][2]
               f == r[2]
    <3>1. e \in Nat /\ f \in Nat
      BY <1>4, <1>5, <2>1
    <3> HIDE DEF e, f
    <3>2. Max({e, f}) = IF e >= f THEN e ELSE f
      BY <3>1, GreaterIs
    <3>3. Max({e, f}) \in Nat /\ Max({e, f}) >= e /\ Max({e, f}) >= f
      BY <3>1, <3>2
    <3> QED
      BY <3>3 DEF e, f
  <2>3. new = [bs EXCEPT ![L] = b]
    BY <1>6, <2>1 DEF Merge, Last
  <2> HIDE DEF far
  <2>4. b \in LineRange /\ b[1] = s /\ b[2] = far
    BY <1>5, <2>1, <2>2, IsRange
  <2> HIDE DEF b
  <2>5. /\ new \in Seq(LineRange) /\ Len(new) = L
        /\ \A k \in 1..L : new[k] = IF k = L THEN b ELSE bs[k]
    BY <1>1, <2>1, <2>3, <2>4, ExceptSeq
  <2> HIDE DEF new
  <2>6. Apart(new)
    <3>1. SUFFICES ASSUME NEW k \in 1..L, NEW l \in 1..L, k < l PROVE new[k][2] < new[l][1]
      BY <2>5 DEF Apart
    <3>2. new[k] = bs[k] /\ new[l][1] = bs[l][1]
      BY <1>1, <2>4, <2>5, <3>1
    <3> QED
      BY <1>1, <3>1, <3>2 DEF Apart
  <2>7. ASSUME NEW i \in 1..n PROVE \E k \in 1..L : Within(refs[i], new[k])
    <3>1. CASE i = n
      <4>1. Within(r, b)
        BY <2>1, <2>2, <2>4 DEF Within
      <4> QED
        BY <2>1, <2>5, <3>1, <4>1
    <3>2. CASE i # n
      <4>1. i \in 1..(n - 1) /\ i \in 1..Len(refs)
        BY <1>1, <3>2
      <4>2. PICK k \in 1..L : Within(refs[i], bs[k])
        BY <1>2, <4>1
      <4>3. CASE k = L
        <5>1. refs[i][2] \in Nat
          BY <4>1, ElementOfSeq, RangeIs
        <5>2. Within(refs[i], b)
          BY <1>5, <2>1, <2>2, <2>4, <4>2, <4>3, <5>1 DEF Within
        <5> QED
          BY <2>1, <2>5, <5>2
      <4>4. CASE k # L
        BY <2>5, <4>2, <4>4
      <4> QED
        BY <4>3, <4>4
    <3> QED
      BY <3>1, <3>2
  <2>8. new # <<>> /\ new[Len(new)][1] <= refs[n][1] /\ new[1][1] = refs[1][1]
    <3>1. 1 \in 1..L /\ new[1][1] = bs[1][1]
      BY <1>1, <2>1, <2>4, <2>5
    <3> QED
      BY <1>2, <2>1, <2>4, <2>5, <3>1
  <2>9. new \in Merged(refs, n)
    <3> HIDE DEF r
    <3> QED
      BY <1>1, <2>5, <2>6, <2>7, <2>8 DEF Merged
  <2> QED
    BY <2>9 DEF new
<1>7. CASE ~Touches(bs, r)
  <2>1. new = Append(bs, r)
    BY <1>7 DEF Merge
  <2> HIDE DEF new, r
  <2>2. /\ new \in Seq(LineRange) /\ Len(new) = L + 1 /\ new[L + 1] = r
        /\ \A k \in 1..L : new[k] = bs[k]
    BY <1>1, <2>1, AppendAt
  <2>3. \A k \in 1..L : bs[k][2] < r[1]
    <3>1. TAKE k \in 1..L
    <3>2. bs # <<>> /\ L \in 1..L
      BY <1>1, <1>3
    <3>3. r[1] > bs[L][2] + 1
      BY <1>4, <1>5, <1>7, <3>2 DEF Touches, Last
    <3>4. k < L => bs[k][2] < bs[L][1]
      BY <1>1, <3>2 DEF Apart
    <3> QED
      BY <1>1, <1>4, <1>5, <3>2, <3>3, <3>4
  <2>4. Apart(new)
    <3>1. SUFFICES ASSUME NEW k \in 1..(L + 1), NEW l \in 1..(L + 1), k < l
                   PROVE  new[k][2] < new[l][1]
      BY <2>2 DEF Apart
    <3>2. k \in 1..L
      BY <1>1, <3>1
    <3>3. CASE l = L + 1
      BY <2>2, <2>3, <3>2, <3>3
    <3>4. CASE l # L + 1
      <4>1. l \in 1..L
        BY <1>1, <3>4
      <4> QED
        BY <1>1, <2>2, <3>1, <3>2, <4>1 DEF Apart
    <3> QED
      BY <3>3, <3>4
  <2>5. ASSUME NEW i \in 1..n PROVE \E k \in 1..(L + 1) : Within(refs[i], new[k])
    <3>1. CASE i = n
      <4>1. Within(r, r) /\ L + 1 \in 1..(L + 1)
        BY <1>1, <1>4 DEF Within
      <4> QED
        BY <2>2, <3>1, <4>1 DEF r
    <3>2. CASE i # n
      <4>1. i \in 1..(n - 1)
        BY <1>1, <3>2
      <4>2. PICK k \in 1..L : Within(refs[i], bs[k])
        BY <1>2, <4>1
      <4>3. k \in 1..(L + 1)
        BY <1>1
      <4> QED
        BY <2>2, <4>2, <4>3
    <3> QED
      BY <3>1, <3>2
  <2>6. new # <<>> /\ new[Len(new)][1] <= refs[n][1] /\ new[1][1] = refs[1][1]
    <3>1. new # <<>> /\ new[Len(new)][1] <= refs[n][1]
      BY <1>1, <1>4, <2>2 DEF r
    <3>2. CASE bs = <<>>
      <4>1. L = 0 /\ n = 1
        BY <1>1, <1>2, <3>2
      <4> QED
        BY <2>2, <3>1, <4>1 DEF r
    <3>3. CASE bs # <<>>
      <4>1. 1 \in 1..L
        BY <1>1, <1>3, <3>3
      <4> QED
        BY <1>2, <2>2, <3>1, <3>3, <4>1
    <3> QED
      BY <3>2, <3>3
  <2>7. new \in Merged(refs, n)
    BY <1>1, <2>2, <2>4, <2>5, <2>6 DEF Merged
  <2> QED
    BY <2>7 DEF new, r
<1> QED
  BY <1>6, <1>7

LEMMA BlocksAreMerged ==
  ASSUME NEW refs \in Seq(LineRange),
         \A i, j \in 1..Len(refs) : i < j => refs[i][1] <= refs[j][1]
  PROVE  Blocks(refs) \in Merged(refs, Len(refs))
<1> DEFINE b == Len(refs)
           a == <<>>
           A == [n \in 0..b |-> Merged(refs, n)]
           F == [n \in 1..b |-> [x \in Merged(refs, n - 1) |-> Merge(x, refs[n])]]
           upto == CHOOSE f : f = [n \in 0..b |-> IF n = 0 THEN <<>> ELSE Merge(f[n - 1], refs[n])]
<1>1. b \in Nat
  OBVIOUS
<1>2. a \in Merged(refs, 0)
  <2>1. a \in Seq(LineRange) /\ a = <<>> /\ Len(a) = 0 /\ 1..0 = {}
    OBVIOUS
  <2> HIDE DEF a
  <2> QED
    BY <2>1 DEF Merged, Apart
<1>3. \A n \in 1..b : \A x \in Merged(refs, n - 1) : Merge(x, refs[n]) \in Merged(refs, n)
  BY MergeKeeps
<1> HIDE DEF b, a
<1>b. \A n \in 1..b : \A x \in Merged(refs, n - 1) : F[n][x] = Merge(x, refs[n])
  OBVIOUS
<1>c. \A n \in 0..b : A[n] = Merged(refs, n)
  OBVIOUS
<1> HIDE DEF A, F
<1>d. a \in A[0] /\ \A n \in 1..b : \A x \in A[n - 1] : F[n][x] \in A[n]
  <2>1. 0 \in 0..b /\ \A n \in 1..b : n - 1 \in 0..b /\ n \in 0..b
    BY <1>1
  <2>2. a \in A[0]
    BY <1>2, <1>c, <2>1
  <2>3. ASSUME NEW n \in 1..b, NEW x \in A[n - 1] PROVE F[n][x] \in A[n]
    <3>1. A[n] = Merged(refs, n) /\ A[n - 1] = Merged(refs, n - 1)
      BY <1>c, <2>1
    <3>2. x \in Merged(refs, n - 1)
      BY <2>3, <3>1
    <3>3. F[n][x] = Merge(x, refs[n]) /\ Merge(x, refs[n]) \in Merged(refs, n)
      BY <1>3, <1>b, <3>2
    <3> QED
      BY <3>1, <3>3
  <2> QED
    BY <2>2, <2>3
<1>4. PICK g : Unrolls(g, b, a, F) /\ \A n \in 0..b : g[n] \in A[n]
  BY <1>1, <1>d, Recursion
<1>5. g = [n \in 0..b |-> IF n = 0 THEN <<>> ELSE Merge(g[n - 1], refs[n])]
  <2>1. \A n \in 1..b : F[n][g[n - 1]] = Merge(g[n - 1], refs[n])
    <3>1. TAKE n \in 1..b
    <3>2. n - 1 \in 0..b
      BY <1>1
    <3>3. g[n - 1] \in Merged(refs, n - 1)
      BY <1>4, <1>c, <3>2
    <3> QED
      BY <1>b, <3>3
  <2>2. \A n \in 0..b : n = 0 \/ n \in 1..b
    BY <1>1
  <2> QED
    BY <1>4, <2>1, <2>2 DEF Unrolls, a
<1>6. upto = [n \in 0..b |-> IF n = 0 THEN <<>> ELSE Merge(upto[n - 1], refs[n])]
  BY <1>5, Zenon
<1> HIDE DEF upto
<1>7. \A n \in 0..b : upto[n] \in Merged(refs, n)
  <2> DEFINE S == {n \in 0..b : upto[n] \in Merged(refs, n)}
  <2>1. 0 \in S
    <3>1. 0 \in 0..b
      BY <1>1
    <3> QED
      BY <1>2, <1>6, <3>1 DEF a
  <2>2. ASSUME NEW n \in 1..b, n - 1 \in S PROVE n \in S
    <3>1. n \in 0..b /\ n # 0
      BY <1>1
    <3>2. upto[n] = Merge(upto[n - 1], refs[n])
      BY <1>6, <3>1
    <3> QED
      BY <1>3, <2>2, <3>1, <3>2
  <2> HIDE DEF S
  <2>3. \A n \in 0..b : n \in S
    BY <1>1, <2>1, <2>2, UpTo
  <2> QED
    BY <2>3 DEF S
<1>8. Blocks(refs) = upto[b]
  BY Zenon DEF Blocks, upto, b
<1> QED
  BY <1>1, <1>7, <1>8 DEF b

\* pos, as the blocks are left behind.
LEMMA PassedIs ==
  ASSUME NEW bs \in Seq(LineRange)
  PROVE  /\ Passed(bs)[0] = 0
         /\ \A n \in 1..Len(bs) : Passed(bs)[n] = Passed(bs)[n - 1] + bs[n][2] - bs[n][1] + 1
         /\ \A n \in 0..Len(bs) : Passed(bs)[n] \in Nat
<1> DEFINE b == Len(bs)
           a == 0
           next(x, n) == x + bs[n][2] - bs[n][1] + 1
           A == [n \in 0..b |-> Nat]
           F == [n \in 1..b |-> [x \in Nat |-> next(x, n)]]
           upto == CHOOSE f :
                     f = [n \in 0..b |-> IF n = 0 THEN 0
                                         ELSE f[n - 1] + bs[n][2] - bs[n][1] + 1]
<1>1. b \in Nat /\ a \in Nat
  OBVIOUS
<1>2. ASSUME NEW n \in 1..b, NEW x \in Nat PROVE next(x, n) \in Nat
  <2>1. bs[n] \in LineRange
    BY ElementOfSeq
  <2>2. bs[n][1] \in Nat /\ bs[n][2] \in Nat /\ bs[n][1] <= bs[n][2]
    BY <2>1, RangeIs
  <2> QED
    BY <2>2
<1> HIDE DEF b, a
<1>a. \A n \in 1..b : \A x \in Nat : F[n][x] = next(x, n)
  OBVIOUS
<1>b. \A n \in 0..b : A[n] = Nat
  OBVIOUS
<1> HIDE DEF A, F
<1>c. a \in A[0] /\ \A n \in 1..b : \A x \in A[n - 1] : F[n][x] \in A[n]
  <2> HIDE DEF next
  <2>1. 0 \in 0..b /\ \A n \in 1..b : n - 1 \in 0..b /\ n \in 0..b
    BY <1>1
  <2>2. a \in A[0]
    BY <1>1, <1>b, <2>1
  <2>3. ASSUME NEW n \in 1..b, NEW x \in A[n - 1] PROVE F[n][x] \in A[n]
    <3>1. A[n] = Nat /\ x \in Nat
      BY <1>b, <2>1, <2>3
    <3>2. F[n][x] = next(x, n) /\ next(x, n) \in Nat
      BY <1>2, <1>a, <3>1
    <3> QED
      BY <3>1, <3>2
  <2> QED
    BY <2>2, <2>3
<1>3. PICK g : Unrolls(g, b, a, F) /\ \A n \in 0..b : g[n] \in A[n]
  BY <1>1, <1>c, Recursion
<1>4. \A n \in 0..b : g[n] \in Nat
  BY <1>3, <1>b
<1>5. g = [n \in 0..b |-> IF n = 0 THEN 0 ELSE g[n - 1] + bs[n][2] - bs[n][1] + 1]
  <2>1. \A n \in 1..b : F[n][g[n - 1]] = next(g[n - 1], n)
    <3>1. TAKE n \in 1..b
    <3>2. n - 1 \in 0..b
      BY <1>1
    <3> HIDE DEF next
    <3> QED
      BY <1>4, <1>a, <3>2
  <2>2. \A n \in 0..b : n = 0 \/ n \in 1..b
    BY <1>1
  <2> QED
    BY <1>3, <2>1, <2>2 DEF Unrolls, a
<1>6. upto = [n \in 0..b |-> IF n = 0 THEN 0 ELSE upto[n - 1] + bs[n][2] - bs[n][1] + 1]
  BY <1>5, Zenon
<1> HIDE DEF upto
<1>7. upto[0] = a /\ \A n \in 1..b : upto[n] = next(upto[n - 1], n)
  <2>1. 0 \in 0..b /\ \A n \in 1..b : n \in 0..b /\ n # 0
    BY <1>1
  <2> QED
    BY <1>6, <2>1 DEF a
<1>8. \A n \in 0..b : upto[n] \in Nat
  <2> DEFINE S == {n \in 0..b : upto[n] \in Nat}
  <2> HIDE DEF next
  <2>1. 0 \in S
    <3>1. 0 \in 0..b
      BY <1>1
    <3> QED
      BY <1>1, <1>7, <3>1
  <2>2. ASSUME NEW n \in 1..b, n - 1 \in S PROVE n \in S
    <3>1. n \in 0..b
      BY <1>1
    <3> QED
      BY <1>2, <1>7, <2>2, <3>1
  <2> HIDE DEF S
  <2>3. \A n \in 0..b : n \in S
    BY <1>1, <2>1, <2>2, UpTo
  <2> QED
    BY <2>3 DEF S
<1>9. Passed(bs) = upto
  BY Zenon DEF Passed, upto, b
<1> QED
  BY <1>7, <1>8, <1>9 DEF a, b

\* What sed has printed, block by block.
LEMMA PrintedIs ==
  ASSUME NEW bs \in Seq(LineRange), length \in Nat
  PROVE  /\ Printed(bs)[0] = <<>>
         /\ \A n \in 1..Len(bs) : Printed(bs)[n] = Printed(bs)[n - 1] \o LinesOf(bs[n])
         /\ \A n \in 0..Len(bs) : Printed(bs)[n] \in Seq(Nat)
<1> DEFINE b == Len(bs)
           a == <<>>
           next(x, n) == x \o LinesOf(bs[n])
           A == [n \in 0..b |-> Seq(Nat)]
           F == [n \in 1..b |-> [x \in Seq(Nat) |-> next(x, n)]]
           upto == CHOOSE f :
                     f = [n \in 0..b |-> IF n = 0 THEN <<>> ELSE f[n - 1] \o LinesOf(bs[n])]
<1>1. b \in Nat /\ a \in Seq(Nat)
  OBVIOUS
<1>2. ASSUME NEW n \in 1..b, NEW x \in Seq(Nat) PROVE next(x, n) \in Seq(Nat)
  <2>1. bs[n] \in LineRange
    BY ElementOfSeq
  <2>2. LinesOf(bs[n]) \in Seq(Nat)
    BY <2>1, LinesAre
  <2> DEFINE l == LinesOf(bs[n])
  <2> HIDE DEF l
  <2>3. x \o l \in Seq(Nat)
    BY <2>2 DEF l
  <2> QED
    BY <2>3 DEF l
<1> HIDE DEF b, a
<1>a. \A n \in 1..b : \A x \in Seq(Nat) : F[n][x] = next(x, n)
  OBVIOUS
<1>b. \A n \in 0..b : A[n] = Seq(Nat)
  OBVIOUS
<1> HIDE DEF A, F
<1>c. a \in A[0] /\ \A n \in 1..b : \A x \in A[n - 1] : F[n][x] \in A[n]
  <2> HIDE DEF next
  <2>1. 0 \in 0..b /\ \A n \in 1..b : n - 1 \in 0..b /\ n \in 0..b
    BY <1>1
  <2>2. a \in A[0]
    BY <1>1, <1>b, <2>1
  <2>3. ASSUME NEW n \in 1..b, NEW x \in A[n - 1] PROVE F[n][x] \in A[n]
    <3>1. A[n] = Seq(Nat) /\ x \in Seq(Nat)
      BY <1>b, <2>1, <2>3
    <3>2. F[n][x] = next(x, n) /\ next(x, n) \in Seq(Nat)
      BY <1>2, <1>a, <3>1
    <3> QED
      BY <3>1, <3>2
  <2> QED
    BY <2>2, <2>3
<1>3. PICK g : Unrolls(g, b, a, F) /\ \A n \in 0..b : g[n] \in A[n]
  BY <1>1, <1>c, Recursion
<1>4. \A n \in 0..b : g[n] \in Seq(Nat)
  BY <1>3, <1>b
<1>5. g = [n \in 0..b |-> IF n = 0 THEN <<>> ELSE g[n - 1] \o LinesOf(bs[n])]
  <2>1. \A n \in 1..b : F[n][g[n - 1]] = next(g[n - 1], n)
    <3>1. TAKE n \in 1..b
    <3>2. n - 1 \in 0..b
      BY <1>1
    <3> HIDE DEF next
    <3> QED
      BY <1>4, <1>a, <3>2
  <2>2. \A n \in 0..b : n = 0 \/ n \in 1..b
    BY <1>1
  <2> QED
    BY <1>3, <2>1, <2>2 DEF Unrolls, a
<1>6. upto = [n \in 0..b |-> IF n = 0 THEN <<>> ELSE upto[n - 1] \o LinesOf(bs[n])]
  BY <1>5, Zenon
<1> HIDE DEF upto
<1>7. upto[0] = a /\ \A n \in 1..b : upto[n] = next(upto[n - 1], n)
  <2>1. 0 \in 0..b /\ \A n \in 1..b : n \in 0..b /\ n # 0
    BY <1>1
  <2> QED
    BY <1>6, <2>1 DEF a
<1>8. \A n \in 0..b : upto[n] \in Seq(Nat)
  <2> DEFINE S == {n \in 0..b : upto[n] \in Seq(Nat)}
  <2> HIDE DEF next
  <2>1. 0 \in S
    <3>1. 0 \in 0..b
      BY <1>1
    <3> QED
      BY <1>1, <1>7, <3>1
  <2>2. ASSUME NEW n \in 1..b, n - 1 \in S PROVE n \in S
    <3>1. n \in 0..b
      BY <1>1
    <3> QED
      BY <1>2, <1>7, <2>2, <3>1
  <2> HIDE DEF S
  <2>3. \A n \in 0..b : n \in S
    BY <1>1, <2>1, <2>2, UpTo
  <2> QED
    BY <2>3 DEF S
<1>9. Printed(bs) = upto
  BY Zenon DEF Printed, upto, b
<1> QED
  BY <1>7, <1>8, <1>9 DEF a, b

\* Of blocks that the file ends before, sed prints nothing; it has printed all lines of
\* those that the file goes beyond.
LEMMA PrintedOf ==
  ASSUME NEW bs \in Seq(LineRange), Apart(bs), length \in Nat, NEW k \in 1..Len(bs),
         bs[k][1] <= length
  PROVE  Len(Printed(bs)[k - 1]) = Passed(bs)[k - 1]
<1> DEFINE O == Printed(bs)
           P == Passed(bs)
           S == {n \in 0..(k - 1) : Len(O[n]) = P[n]}
<1>1. Len(bs) \in Nat /\ k \in Nat /\ k - 1 \in Nat
  OBVIOUS
<1>2. /\ O[0] = <<>> /\ P[0] = 0
      /\ \A n \in 1..Len(bs) : /\ O[n] = O[n - 1] \o LinesOf(bs[n])
                               /\ P[n] = P[n - 1] + bs[n][2] - bs[n][1] + 1
      /\ \A n \in 0..Len(bs) : O[n] \in Seq(Nat) /\ P[n] \in Nat
  BY PassedIs, PrintedIs
<1> HIDE DEF O, P
<1>3. 0 \in S
  BY <1>1, <1>2
<1>4. ASSUME NEW n \in 1..(k - 1), n - 1 \in S PROVE n \in S
  <2>1. n \in 1..Len(bs) /\ n - 1 \in 0..Len(bs) /\ n < k /\ n \in 0..(k - 1) /\ n - 1 \in Nat
    BY <1>1
  <2>2. bs[n] \in LineRange /\ bs[k] \in LineRange
    BY <2>1, ElementOfSeq
  <2>3. /\ bs[n][1] \in Nat /\ bs[n][2] \in Nat /\ bs[n][1] <= bs[n][2] /\ bs[k][1] \in Nat
        /\ bs[n][2] < bs[k][1]
    BY <2>1, <2>2, RangeIs DEF Apart
  <2> DEFINE l == LinesOf(bs[n])
             o == O[n - 1]
  <2>4. l \in Seq(Nat) /\ Len(l) = bs[n][2] - bs[n][1] + 1
    <3>1. ~(bs[n][1] > length) /\ bs[n][2] <= length
      BY <2>3
    <3> QED
      BY <2>2, <3>1, LinesAre
  <2>5. o \in Seq(Nat) /\ Len(o) = P[n - 1] /\ P[n - 1] \in Nat
    BY <1>2, <1>4, <2>1
  <2> HIDE DEF l, o
  <2>6. Len(o \o l) = Len(o) + Len(l)
    BY <2>4, <2>5, ConcatAt
  <2>7. O[n] = o \o l /\ P[n] = P[n - 1] + bs[n][2] - bs[n][1] + 1
    BY <1>2, <2>1 DEF l, o
  <2>a. Len(O[n]) = Len(o) + Len(l)
    BY <2>6, <2>7
  <2>8. Len(O[n]) = P[n]
    <3> DEFINE d == bs[n][2] - bs[n][1] + 1
    <3>1. Len(O[n]) = P[n - 1] + d
      BY <2>4, <2>5, <2>a
    <3>2. P[n - 1] + d = P[n - 1] + bs[n][2] - bs[n][1] + 1
      BY <2>3, <2>5
    <3> QED
      BY <3>1, <3>2, <2>7
  <2> QED
    BY <2>1, <2>8
<1> HIDE DEF S
<1>5. k - 1 \in S
  <2>1. \A n \in 0..(k - 1) : n \in S
    BY <1>1, <1>3, <1>4, UpTo
  <2> QED
    BY <1>1, <2>1
<1> QED
  BY <1>5 DEF S, O, P

\* It prints no more lines than there are.
LEMMA PrintedAtMost ==
  ASSUME NEW bs \in Seq(LineRange), length \in Nat, NEW k \in 0..Len(bs)
  PROVE  Len(Printed(bs)[k]) <= Passed(bs)[k]
<1> DEFINE O == Printed(bs)
           P == Passed(bs)
           b == Len(bs)
           S == {n \in 0..b : Len(O[n]) <= P[n]}
<1>1. b \in Nat /\ k \in 0..b
  OBVIOUS
<1>2. /\ O[0] = <<>> /\ P[0] = 0
      /\ \A n \in 1..b : /\ O[n] = O[n - 1] \o LinesOf(bs[n])
                         /\ P[n] = P[n - 1] + bs[n][2] - bs[n][1] + 1
      /\ \A n \in 0..b : O[n] \in Seq(Nat) /\ P[n] \in Nat
  BY PassedIs, PrintedIs
<1> HIDE DEF O, P
<1>3. 0 \in S
  BY <1>1, <1>2
<1>4. ASSUME NEW n \in 1..b, n - 1 \in S PROVE n \in S
  <2>1. n \in 0..b /\ n - 1 \in 0..b /\ n - 1 \in Nat
    BY <1>1
  <2>2. bs[n] \in LineRange
    BY <1>1, ElementOfSeq
  <2>3. bs[n][1] \in Nat /\ bs[n][2] \in Nat /\ bs[n][1] <= bs[n][2]
    BY <2>2, RangeIs
  <2> DEFINE l == LinesOf(bs[n])
             o == O[n - 1]
  <2>4. l \in Seq(Nat) /\ Len(l) <= bs[n][2] - bs[n][1] + 1
    <3>1. /\ l \in Seq(Nat)
          /\ Len(l) = IF bs[n][1] > length THEN 0
                      ELSE (IF bs[n][2] <= length THEN bs[n][2] ELSE length) - bs[n][1] + 1
      BY <2>2, LinesAre
    <3> HIDE DEF l
    <3> QED
      BY <2>3, <3>1
  <2>5. o \in Seq(Nat) /\ Len(o) <= P[n - 1] /\ P[n - 1] \in Nat /\ Len(o) \in Nat /\ Len(l) \in Nat
    BY <1>2, <1>4, <2>1, <2>4
  <2> HIDE DEF l, o
  <2>6. Len(o \o l) = Len(o) + Len(l)
    BY <2>4, <2>5, ConcatAt
  <2>7. O[n] = o \o l /\ P[n] = P[n - 1] + bs[n][2] - bs[n][1] + 1
    BY <1>2 DEF l, o
  <2>a. Len(O[n]) = Len(o) + Len(l)
    BY <2>6, <2>7
  <2>8. Len(O[n]) <= P[n]
    <3> DEFINE d == bs[n][2] - bs[n][1] + 1
    <3>1. d \in Int /\ P[n - 1] + d = P[n - 1] + bs[n][2] - bs[n][1] + 1
      BY <2>3, <2>5
    <3>2. Len(l) <= d
      BY <2>4
    <3> HIDE DEF d
    <3>3. Len(o) + Len(l) <= P[n - 1] + d
      BY <3>1, <3>2, <2>5
    <3> QED
      BY <3>1, <3>3, <2>7, <2>a
  <2> QED
    BY <2>1, <2>8
<1> HIDE DEF S
<1>5. k \in S
  <2>1. \A n \in 0..b : n \in S
    BY <1>1, <1>3, <1>4, UpTo
  <2> QED
    BY <1>1, <2>1
<1> QED
  BY <1>5 DEF S, O, P

\* What it prints after block k: all of it that the file has beyond.
LEMMA PrintedBeyond ==
  ASSUME NEW bs \in Seq(LineRange), Apart(bs), length \in Nat, NEW k \in 1..Len(bs)
  PROVE  LET all == Printed(bs)[Len(bs)]
             o == Printed(bs)[k] IN
         /\ all \in Seq(Nat) /\ o \in Seq(Nat) /\ Len(o) <= Len(all)
         /\ \A i \in 1..Len(o) : all[i] = o[i]
         /\ bs[k][2] >= length => all = o
<1> DEFINE O == Printed(bs)
           b == Len(bs)
           Goes(n) == /\ Len(O[k]) <= Len(O[n])
                      /\ \A i \in 1..Len(O[k]) : O[n][i] = O[k][i]
                      /\ bs[k][2] >= length => O[n] = O[k]
           S == {n \in 0..b : n >= k => Goes(n)}
<1>1. b \in Nat /\ k \in 1..b /\ k \in Nat
  OBVIOUS
<1>2. /\ \A n \in 1..b : O[n] = O[n - 1] \o LinesOf(bs[n])
      /\ \A n \in 0..b : O[n] \in Seq(Nat)
  BY PrintedIs
<1> HIDE DEF O
<1>3. 0 \in S
  BY <1>1
<1>4. ASSUME NEW n \in 1..b, n - 1 \in S PROVE n \in S
  <2>1. n \in 0..b /\ n - 1 \in 0..b /\ n \in Nat
    BY <1>1
  <2>2. SUFFICES ASSUME n >= k PROVE Goes(n)
    BY <2>1
  <2>3. CASE n = k
    <3>1. Len(O[k]) \in Nat
      BY <1>2, <2>1, <2>3
    <3> QED
      BY <2>3, <3>1
  <2>4. CASE n > k
    <3>1. Goes(n - 1)
      BY <1>1, <1>4, <2>1, <2>4
    <3>2. bs[n] \in LineRange /\ bs[k] \in LineRange
      BY <1>1, ElementOfSeq
    <3>3. bs[n][1] \in Nat /\ bs[k][2] \in Nat /\ bs[k][2] < bs[n][1]
      BY <1>1, <2>4, <3>2, RangeIs DEF Apart
    <3> DEFINE l == LinesOf(bs[n])
               o == O[n - 1]
               h == O[k]
    <3>4. l \in Seq(Nat) /\ (bs[k][2] >= length => Len(l) = 0)
      <4>1. /\ l \in Seq(Nat)
            /\ Len(l) = IF bs[n][1] > length THEN 0
                        ELSE (IF bs[n][2] <= length THEN bs[n][2] ELSE length) - bs[n][1] + 1
        BY <3>2, LinesAre
      <4> HIDE DEF l
      <4>2. bs[k][2] >= length => bs[n][1] > length
        BY <3>3
      <4> QED
        BY <4>1, <4>2
    <3>5. o \in Seq(Nat) /\ h \in Seq(Nat) /\ O[n] = o \o l
      <4>1. n - 1 \in 0..b /\ k \in 0..b
        BY <1>1, <2>1
      <4>2. O[n - 1] \in Seq(Nat) /\ O[k] \in Seq(Nat)
        BY <1>2, <4>1
      <4>3. O[n] = O[n - 1] \o LinesOf(bs[n])
        BY <1>2
      <4> QED
        BY <4>2, <4>3
    <3>6. /\ Len(h) <= Len(o) /\ \A i \in 1..Len(h) : o[i] = h[i]
          /\ bs[k][2] >= length => o = h
      BY <3>1
    <3> HIDE DEF l, o, h
    <3>7. /\ Len(o \o l) = Len(o) + Len(l) /\ \A i \in 1..Len(o) : (o \o l)[i] = o[i]
      BY <3>4, <3>5, ConcatAt
    <3>8. Len(h) <= Len(o \o l) /\ \A i \in 1..Len(h) : (o \o l)[i] = h[i]
      <4>1. Len(h) \in Nat /\ Len(o) \in Nat /\ Len(l) \in Nat
        BY <3>4, <3>5
      <4>2. \A i \in 1..Len(h) : i \in 1..Len(o)
        BY <3>6, <4>1
      <4> QED
        BY <3>6, <3>7, <4>1, <4>2
    <3>9. bs[k][2] >= length => o \o l = h
      <4>1. SUFFICES ASSUME bs[k][2] >= length PROVE o \o l = h
        OBVIOUS
      <4>2. l = <<>>
        BY <3>4, <4>1, EmptySeq
      <4> QED
        BY <3>5, <3>6, <4>1, <4>2, ConcatEmptySeq
    <3>10. h = O[k]
      BY DEF h
    <3> QED
      BY <3>5, <3>8, <3>9, <3>10
  <2> QED
    BY <1>1, <2>1, <2>2, <2>3, <2>4
<1> HIDE DEF S, Goes
<1>5. b \in S
  <2>1. \A n \in 0..b : n \in S
    BY <1>1, <1>3, <1>4, UpTo
  <2> QED
    BY <1>1, <2>1
<1>6. Goes(b) /\ O[b] \in Seq(Nat) /\ O[k] \in Seq(Nat)
  BY <1>1, <1>2, <1>5 DEF S
<1> QED
  BY <1>6 DEF Goes, O

\* The block that a reference is in is the first one that does not end before it.
LEMMA OwnIs ==
  ASSUME NEW bs \in Seq(LineRange), Apart(bs), NEW r \in LineRange,
         NEW k \in 1..Len(bs), Within(r, bs[k])
  PROVE  LET left == {n \in 1..Len(bs) : r[1] <= bs[n][2]} IN left # {} /\ Min(left) = k
<1> DEFINE left == {n \in 1..Len(bs) : r[1] <= bs[n][2]}
<1>1. \A n \in 1..Len(bs) : bs[n][1] \in Nat /\ bs[n][2] \in Nat /\ bs[n][1] <= bs[n][2]
  BY ElementOfSeq, RangeIs
<1>2. r[1] \in Nat /\ r[2] \in Nat /\ r[1] <= r[2] /\ bs[k][1] <= r[1] /\ r[2] <= bs[k][2]
  BY RangeIs DEF Within
<1>3. k \in left /\ k \in Nat
  BY <1>1, <1>2
<1>4. ASSUME NEW n \in left PROVE k <= n /\ n \in Nat
  <2>1. n \in 1..Len(bs) /\ r[1] <= bs[n][2] /\ n \in Nat
    OBVIOUS
  <2>2. n < k => bs[n][2] < bs[k][1]
    BY <2>1 DEF Apart
  <2>3. ~(n < k)
    BY <1>1, <1>2, <2>1, <2>2
  <2> QED
    BY <1>3, <2>1, <2>3
<1>5. left \in SUBSET Nat /\ left # {}
  BY <1>3, <1>4
<1> HIDE DEF left
<1> DEFINE m == Min(left)
<1>6. m \in left /\ \A y \in left : m <= y
  BY <1>5, MinIs
<1> HIDE DEF m
<1>7. m <= k /\ k <= m /\ m \in Nat
  BY <1>3, <1>4, <1>6
<1>8. m = k
  BY <1>3, <1>7
<1> QED
  BY <1>5, <1>8 DEF m, left

\* The slice of a reference begins at one place of any output.
LEMMA SliceFrom ==
  ASSUME NEW bs \in Seq(LineRange), Apart(bs), NEW r \in LineRange,
         NEW k \in 1..Len(bs), Within(r, bs[k])
  PROVE  \E off \in Nat : \A out :
           Slice(out, bs, r) = SubSeq(out, off + 1, Min({off + r[2] - r[1] + 1, Len(out)}))
<1> DEFINE off == Passed(bs)[k - 1] + r[1] - bs[k][1]
           left == {n \in 1..Len(bs) : r[1] <= bs[n][2]}
<1>1. /\ bs[k][1] \in Nat /\ r[1] \in Nat /\ r[2] \in Nat /\ bs[k][1] <= r[1]
      /\ Passed(bs)[k - 1] \in Nat
  <2>1. bs[k] \in LineRange /\ k - 1 \in 0..Len(bs)
    BY ElementOfSeq
  <2> QED
    BY <2>1, RangeIs, PassedIs DEF Within
<1>2. left # {} /\ Min(left) = k
  BY OwnIs
<1>3. off \in Nat /\ ~(r[1] < bs[k][1])
  BY <1>1
<1> HIDE DEF left
<1>4. ASSUME NEW out
      PROVE  Slice(out, bs, r) = SubSeq(out, off + 1, Min({off + r[2] - r[1] + 1, Len(out)}))
  BY <1>2, <1>3 DEF Slice, left
<1> QED
  BY <1>3, <1>4

\* The slice of a reference is what it names, in an output that is not trimmed.
LEMMA SliceIs ==
  ASSUME NEW bs \in Seq(LineRange), Apart(bs), length \in Nat, NEW r \in LineRange,
         NEW k \in 1..Len(bs), Within(r, bs[k])
  PROVE  Slice(Printed(bs)[Len(bs)], bs, r) = LinesOf(r)
<1> DEFINE all == Printed(bs)[Len(bs)]
           o == Printed(bs)[k]
           h == Printed(bs)[k - 1]
           l == LinesOf(bs[k])
           P == Passed(bs)[k - 1]
           s == bs[k][1]
           e == bs[k][2]
           f == r[1]
           g == r[2]
           off == P + f - s
           end == off + g - f + 1
           given == LinesOf(r)
<1>1. Len(bs) \in Nat /\ k \in Nat /\ k - 1 \in 0..Len(bs) /\ k \in 0..Len(bs)
  OBVIOUS
<1>2. /\ s \in Nat /\ e \in Nat /\ f \in Nat /\ g \in Nat
      /\ 1 <= s /\ s <= f /\ f <= g /\ g <= e
  BY ElementOfSeq, RangeIs DEF Within
<1>3. P \in Nat
  BY <1>1, PassedIs
<1>4. h \in Seq(Nat) /\ o = h \o l
  BY <1>1, PrintedIs
<1>5. Len(h) <= P /\ (s <= length => Len(h) = P)
  BY <1>1, PrintedAtMost, PrintedOf
<1>6. /\ l \in Seq(Nat)
      /\ Len(l) = IF s > length THEN 0 ELSE (IF e <= length THEN e ELSE length) - s + 1
      /\ \A i \in 1..Len(l) : l[i] = s + i - 1
  <2>1. bs[k] \in LineRange
    BY ElementOfSeq
  <2> QED
    BY <2>1, LinesAre
<1>7. /\ given \in Seq(Nat)
      /\ Len(given) = IF f > length THEN 0 ELSE (IF g <= length THEN g ELSE length) - f + 1
      /\ \A i \in 1..Len(given) : given[i] = f + i - 1
  BY LinesAre
<1>8. /\ all \in Seq(Nat) /\ o \in Seq(Nat) /\ Len(o) <= Len(all)
      /\ \A i \in 1..Len(o) : all[i] = o[i]
      /\ e >= length => all = o
  BY PrintedBeyond
<1>9. Slice(all, bs, r) = SubSeq(all, off + 1, Min({end, Len(all)}))
  <2> DEFINE left == {n \in 1..Len(bs) : r[1] <= bs[n][2]}
  <2>1. left # {} /\ Min(left) = k
    BY OwnIs
  <2> HIDE DEF left, all
  <2>2. ~(f < s)
    BY <1>2
  <2> QED
    BY <2>1, <2>2 DEF Slice, left
<1> HIDE DEF all, o, h, l, P, s, e, f, g, given
<1>10. /\ Len(o) = Len(h) + Len(l) /\ Len(o) \in Nat /\ Len(h) \in Nat /\ Len(l) \in Nat
       /\ Len(all) \in Nat
       /\ \A j \in 1..Len(l) : o[Len(h) + j] = l[j]
  <2>1. h \o l \in Seq(Nat) /\ Len(h \o l) = Len(h) + Len(l)
    BY <1>4, <1>6, ConcatAt
  <2>2. \A j \in 1..Len(l) : (h \o l)[Len(h) + j] = l[j]
    BY <1>4, <1>6, ConcatAt
  <2>3. Len(h) \in Nat /\ Len(l) \in Nat /\ Len(o) \in Nat /\ Len(all) \in Nat
    BY <1>4, <1>6, <1>8
  <2> QED
    BY <1>4, <2>1, <2>2, <2>3
<1> DEFINE m == Min({end, Len(all)})
           snip == SubSeq(all, off + 1, m)
<1>11. off \in Int /\ off >= 0 /\ end = P + g - s + 1 /\ end \in Int
  BY <1>2, <1>3
<1> HIDE DEF off
<1>12. m = IF end <= Len(all) THEN end ELSE Len(all)
  <2> DEFINE x == end
             y == Len(all)
  <2>1. x \in Int /\ y \in Int
    BY <1>10, <1>11
  <2> HIDE DEF x, y
  <2>2. Min({x, y}) = IF x <= y THEN x ELSE y
    BY <2>1, LesserIs
  <2> QED
    BY <2>2 DEF x, y
<1> HIDE DEF end, m
<1>13. CASE f > length
  <2>1. all = o
    BY <1>2, <1>8, <1>13
  <2>2. Len(l) <= f - s
    BY <1>2, <1>6, <1>13
  <2>3. Len(all) <= off
    BY <1>2, <1>3, <1>5, <1>10, <2>1, <2>2 DEF off
  <2>4. m \in Int /\ m < off + 1
    BY <1>10, <1>11, <1>12, <2>3
  <2>5. snip = <<>>
    BY <1>11, <2>4, SubSeqEmpty
  <2>6. given = <<>>
    BY <1>7, <1>13, EmptySeq
  <2> QED
    BY <1>9, <2>5, <2>6 DEF m, end, all, given
<1>14. CASE f <= length
  <2>1. Len(h) = P /\ s <= length
    BY <1>2, <1>5, <1>14
  <2>2. Len(l) = (IF e <= length THEN e ELSE length) - s + 1
    BY <1>2, <1>6, <2>1
  <2>3. Len(given) = (IF g <= length THEN g ELSE length) - f + 1 /\ Len(given) \in Nat
    BY <1>2, <1>7, <1>14
  <2>4. m = off + Len(given) /\ m <= Len(o)
    <3>1. CASE g <= length
      <4>1. end <= Len(o)
        BY <1>2, <1>3, <1>10, <1>11, <2>1, <2>2, <3>1
      <4>2. m = end
        BY <1>8, <1>10, <1>11, <1>12, <4>1
      <4>3. end = off + Len(given)
        BY <1>2, <1>3, <1>11, <2>3, <3>1 DEF off
      <4> QED
        BY <4>1, <4>2, <4>3
    <3>2. CASE g > length
      <4>1. all = o /\ Len(o) = P + length - s + 1
        BY <1>2, <1>3, <1>8, <1>10, <2>1, <2>2, <3>2
      <4>2. m = Len(all)
        BY <1>2, <1>3, <1>10, <1>11, <1>12, <3>2, <4>1
      <4>3. Len(all) = off + Len(given)
        BY <1>2, <1>3, <2>3, <3>2, <4>1 DEF off
      <4> QED
        BY <1>10, <4>1, <4>2, <4>3
    <3> QED
      BY <1>2, <3>1, <3>2
  <2>5. \A i \in 1..Len(given) : off + i \in 1..Len(o) /\ all[off + i] = f + i - 1
    <3>1. TAKE i \in 1..Len(given)
    <3> DEFINE j == f - s + i
    <3>2. i \in Nat /\ j \in Nat /\ j >= 1 /\ off + i = Len(h) + j /\ s + j - 1 = f + i - 1
      BY <1>2, <1>3, <2>1, <2>3 DEF off
    <3> HIDE DEF j
    <3>3. off + i <= m /\ off + i >= 1
      BY <1>11, <2>3, <2>4, <3>2
    <3>a. /\ off \in Int /\ m \in Int /\ m <= Len(o)
          /\ Len(o) \in Nat /\ Len(h) \in Nat /\ Len(l) \in Nat /\ Len(o) = Len(h) + Len(l)
      BY <1>10, <1>11, <2>3, <2>4
    <3>4. off + i \in 1..Len(o) /\ j \in 1..Len(l)
      BY <3>a, <3>2, <3>3
    <3>5. o[Len(h) + j] = l[j] /\ l[j] = s + j - 1
      BY <1>6, <1>10, <3>4
    <3>6. all[off + i] = o[off + i]
      BY <1>8, <3>4
    <3> QED
      BY <3>2, <3>4, <3>5, <3>6
  <2>6. \A i \in (off + 1)..m : all[i] \in Nat
    <3>1. TAKE i \in (off + 1)..m
    <3>2. i \in 1..Len(all)
      BY <1>8, <1>10, <1>11, <2>3, <2>4
    <3> QED
      BY <1>8, <3>2, ElementOfSeq
  <2>7. off + 1 \in Int /\ m \in Int
    BY <1>11, <2>3, <2>4
  <2>8. /\ snip \in Seq(Nat) /\ Len(snip) = (IF off + 1 <= m THEN m - (off + 1) + 1 ELSE 0)
        /\ \A i \in 1..(m - (off + 1) + 1) : snip[i] = all[off + 1 + i - 1]
    BY <2>6, <2>7, SubSeqProperties
  <2> HIDE DEF snip
  <2>9. Len(snip) = Len(given) /\ m - (off + 1) + 1 = Len(given)
    <3> DEFINE w == Len(given)
    <3>1. w \in Nat /\ m = off + w /\ off \in Int
      BY <1>11, <2>3, <2>4
    <3>2. Len(snip) = IF off + 1 <= m THEN m - (off + 1) + 1 ELSE 0
      BY <2>8
    <3> HIDE DEF w
    <3>3. m - (off + 1) + 1 = w
      BY <3>1
    <3>4. off + 1 <= m \/ w = 0
      BY <3>1
    <3>5. Len(snip) = w
      BY <3>2, <3>3, <3>4
    <3> QED
      BY <3>3, <3>5 DEF w
  <2>10. \A i \in 1..Len(snip) : snip[i] = given[i]
    <3>1. TAKE i \in 1..Len(snip)
    <3>2. i \in 1..Len(given) /\ off + 1 + i - 1 = off + i
      BY <1>11, <2>3, <2>9
    <3> QED
      BY <1>7, <2>5, <2>8, <2>9, <3>2
  <2>11. snip = given
    BY <1>7, <2>8, <2>9, <2>10, SeqEqual
  <2> QED
    BY <1>9, <2>11 DEF snip, m, end, all, given
<1>15. f > length \/ f <= length
  BY <1>2
<1> QED
  BY <1>13, <1>14, <1>15

\* Sorting keeps the references and puts them in the order of their first lines.
LEMMA SortedIs ==
  ASSUME NEW group \in Seq(LineRange), NEW order \in Sorted(group)
  PROVE  LET refs == [i \in DOMAIN group |-> group[order[i]]] IN
         /\ refs \in Seq(LineRange) /\ Len(refs) = Len(group)
         /\ \A i, j \in 1..Len(refs) : i < j => refs[i][1] <= refs[j][1]
         /\ \A i \in 1..Len(group) : \E j \in 1..Len(refs) : refs[j] = group[i]
         /\ \A j \in 1..Len(refs) : \E i \in 1..Len(group) : refs[j] = group[i]
<1> DEFINE b == Len(group)
           refs == [i \in 1..b |-> group[order[i]]]
<1>1. b \in Nat /\ DOMAIN group = 1..b
  OBVIOUS
<1>2. /\ order \in [1..b -> 1..b] /\ \A i \in 1..b : \E j \in 1..b : order[j] = i
      /\ \A i, j \in 1..b : i < j => ~Before(group[order[j]], group[order[i]])
  BY <1>1 DEF Sorted, Bijection, Injection, Surjection
<1> HIDE DEF b
<1>3. \A i \in 1..b : order[i] \in 1..b /\ group[order[i]] \in LineRange
  <2>1. \A i \in 1..b : group[i] \in LineRange
    BY ElementOfSeq DEF b
  <2> QED
    BY <1>2, <2>1
<1>4. refs \in Seq(LineRange) /\ Len(refs) = b
  <2> DEFINE ref(i) == group[order[i]]
  <2>1. \A i \in 1..b : ref(i) \in LineRange
    BY <1>3
  <2> DEFINE all == [i \in 1..b |-> ref(i)]
  <2>2. refs = all
    OBVIOUS
  <2> HIDE DEF ref
  <2>3. all \in Seq(LineRange) /\ Len(all) = b
    BY <1>1, <2>1
  <2> HIDE DEF all
  <2> QED
    BY <2>2, <2>3
<1>5. \A i \in 1..b : refs[i] = group[order[i]]
  OBVIOUS
<1> HIDE DEF refs
<1>6. ASSUME NEW i \in 1..b, NEW j \in 1..b, i < j PROVE refs[i][1] <= refs[j][1]
  <2>1. ~Before(refs[j], refs[i])
    BY <1>2, <1>5, <1>6
  <2>2. refs[i][1] \in Nat /\ refs[j][1] \in Nat
    BY <1>3, <1>5, RangeIs
  <2> QED
    BY <2>1, <2>2 DEF Before
<1>7. ASSUME NEW i \in 1..b PROVE \E j \in 1..b : refs[j] = group[i]
  <2>1. PICK j \in 1..b : order[j] = i
    BY <1>2
  <2> QED
    BY <1>5, <2>1
<1>8. /\ refs \in Seq(LineRange) /\ Len(refs) = Len(group)
      /\ \A i, j \in 1..Len(refs) : i < j => refs[i][1] <= refs[j][1]
      /\ \A i \in 1..Len(group) : \E j \in 1..Len(refs) : refs[j] = group[i]
      /\ \A j \in 1..Len(refs) : \E i \in 1..Len(group) : refs[j] = group[i]
  <2>1. \A j \in 1..b : \E i \in 1..b : refs[j] = group[i]
    BY <1>2, <1>5
  <2> QED
    BY <1>4, <1>6, <1>7, <2>1 DEF b
<1>9. [i \in DOMAIN group |-> group[order[i]]] = refs
  BY <1>1 DEF refs
<1> QED
  BY <1>8, <1>9

\* A part of a sequence of lines that may go past its end.
LEMMA PartIs ==
  ASSUME NEW s \in Seq(Nat), NEW off \in Nat, NEW end \in Int
  PROVE  LET q == SubSeq(s, off + 1, Min({end, Len(s)})) IN
         /\ q \in Seq(Nat)
         /\ Len(q) <= Len(s) - off \/ Len(q) = 0
         /\ \A i \in 1..Len(q) : off + i \in 1..Len(s) /\ off + i <= end /\ q[i] = s[off + i]
         /\ \A i \in Nat : i > Len(q) => off + i > Len(s) \/ off + i > end
<1> DEFINE w == Len(s)
           m == Min({end, w})
           q == SubSeq(s, off + 1, m)
<1>1. w \in Nat /\ \A i \in 1..w : s[i] \in Nat
  BY ElementOfSeq
<1> HIDE DEF w
<1>2. m = IF end <= w THEN end ELSE w
  BY <1>1, LesserIs
<1>3. m \in Int /\ m <= w /\ m <= end /\ (m = w \/ m = end)
  BY <1>1, <1>2
<1> HIDE DEF m
<1>4. \A i \in (off + 1)..m : s[i] \in Nat
  BY <1>1, <1>3
<1>5. /\ q \in Seq(Nat) /\ Len(q) = (IF off + 1 <= m THEN m - (off + 1) + 1 ELSE 0)
      /\ \A i \in 1..(m - (off + 1) + 1) : q[i] = s[off + 1 + i - 1]
  BY <1>3, <1>4, SubSeqProperties
<1> HIDE DEF q
<1> DEFINE n == Len(q)
<1>6. n \in Nat /\ n = IF off + 1 <= m THEN m - off ELSE 0
  BY <1>3, <1>5
<1>7. \A i \in 1..n : q[i] = s[off + i]
  <2>1. TAKE i \in 1..n
  <2>2. i \in 1..(m - (off + 1) + 1) /\ off + 1 + i - 1 = off + i
    BY <1>3, <1>6
  <2> QED
    BY <1>5, <2>2
<1> HIDE DEF n
<1>8. \A i \in 1..n : off + i \in 1..w /\ off + i <= end
  BY <1>1, <1>3, <1>6
<1>9. \A i \in Nat : i > n => off + i > w \/ off + i > end
  BY <1>1, <1>3, <1>6
<1>10. n <= w - off \/ n = 0
  BY <1>1, <1>3, <1>6
<1> QED
  BY <1>5, <1>7, <1>8, <1>9, <1>10 DEF q, m, w, n

\* What the executor's trimming leaves of an output that begins with text.
LEMMA TrimmedIs ==
  ASSUME NEW all \in Seq(Nat), all # <<>> => file[all[1]] # "blank"
  PROVE  /\ Trimmed(all) \in Seq(Nat) /\ Len(Trimmed(all)) <= Len(all)
         /\ \A i \in 1..Len(Trimmed(all)) : Trimmed(all)[i] = all[i]
         /\ \A i \in 1..Len(all) : i > Len(Trimmed(all)) => file[all[i]] = "blank"
<1> DEFINE n == Len(all)
           said == {i \in 1..n : file[all[i]] # "blank"}
           out == Trimmed(all)
<1>1. n \in Nat /\ \A i \in 1..n : all[i] \in Nat
  BY ElementOfSeq
<1>2. out = IF said = {} THEN <<>> ELSE SubSeq(all, Min(said), Max(said))
  BY DEF Trimmed
<1>3. CASE all = <<>>
  <2>1. n = 0 /\ said = {}
    BY <1>3
  <2>2. out = <<>>
    BY <1>2, <2>1
  <2> HIDE DEF out, n
  <2>3. out \in Seq(Nat) /\ Len(out) = 0 /\ 1..0 = {}
    BY <2>2
  <2>4. /\ out \in Seq(Nat) /\ Len(out) <= n
        /\ \A i \in 1..Len(out) : out[i] = all[i]
        /\ \A i \in 1..n : i > Len(out) => file[all[i]] = "blank"
    BY <2>1, <2>3
  <2> QED
    BY <2>4 DEF out, n
<1>4. CASE all # <<>>
  <2>1. 1 \in 1..n
    BY <1>1, <1>4
  <2>2. 1 \in said /\ said \in SUBSET (0..n) /\ said \in SUBSET Nat
    BY <1>1, <1>4, <2>1
  <2>3. \A i \in 1..n : file[all[i]] # "blank" => i \in said
    OBVIOUS
  <2>4. said \subseteq 1..n
    OBVIOUS
  <2> HIDE DEF said, out
  <2> DEFINE e == Max(said)
             f == Min(said)
  <2>5. e \in said /\ \A y \in said : y <= e
    BY <1>1, <2>2, MaxIs
  <2>6. f \in said /\ f <= 1
    BY <2>2, MinIs
  <2> HIDE DEF e, f
  <2>7. f = 1 /\ e \in 1..n
    BY <1>1, <2>4, <2>5, <2>6
  <2>8. out = SubSeq(all, 1, e)
    BY <1>2, <2>2, <2>7 DEF e, f
  <2>9. /\ out \in Seq(Nat) /\ Len(out) = e
        /\ \A i \in 1..e : out[i] = all[i]
    <3>1. \A i \in 1..e : i \in 1..n /\ all[i] \in Nat
      BY <1>1, <2>7
    <3>2. /\ SubSeq(all, 1, e) \in Seq(Nat)
          /\ Len(SubSeq(all, 1, e)) = IF 1 <= e THEN e - 1 + 1 ELSE 0
          /\ \A i \in 1..(e - 1 + 1) : SubSeq(all, 1, e)[i] = all[1 + i - 1]
      BY <2>7, <3>1, SubSeqProperties
    <3>3. e - 1 + 1 = e /\ 1 <= e /\ \A i \in 1..e : 1 + i - 1 = i
      BY <2>7
    <3> QED
      BY <2>8, <3>2, <3>3
  <2>10. \A i \in 1..n : i > e => file[all[i]] = "blank"
    <3>1. TAKE i \in 1..n
    <3>2. HAVE i > e
    <3>3. i \notin said
      BY <1>1, <2>5, <2>7, <3>2
    <3> QED
      BY <2>3, <3>3
  <2>11. e <= n
    BY <1>1, <2>7
  <2> QED
    BY <2>9, <2>10, <2>11 DEF out
<1> QED
  BY <1>3, <1>4

\* A snippet that is cut ends with its first long line.
LEMMA CutIs ==
  ASSUME NEW got \in Seq(Nat)
  PROVE  /\ Cut(got) \in Seq(Nat) /\ Len(Cut(got)) <= Len(got)
         /\ \A i \in 1..Len(Cut(got)) : Cut(got)[i] = got[i]
         /\ \A k \in 1..Len(got) : k > Len(Cut(got)) =>
              \E l \in 1..(k - 1) : file[got[l]] = "long"
<1> DEFINE n == Len(got)
           long == {i \in 1..n : file[got[i]] = "long"}
           out == Cut(got)
<1>1. n \in Nat /\ \A i \in 1..n : got[i] \in Nat
  BY ElementOfSeq
<1>2. out = IF long = {} THEN got ELSE SubSeq(got, 1, Min(long))
  BY DEF Cut
<1>3. CASE long = {}
  <2>1. out = got
    BY <1>2, <1>3
  <2> HIDE DEF out
  <2> QED
    BY <1>1, <2>1 DEF out
<1>4. CASE long # {}
  <2>1. long \subseteq 1..n /\ long \in SUBSET Nat /\ \A i \in long : file[got[i]] = "long"
    BY <1>1
  <2> HIDE DEF long, out
  <2> DEFINE e == Min(long)
  <2>2. e \in long
    BY <1>4, <2>1, MinIs
  <2>3. out = SubSeq(got, 1, e)
    BY <1>2, <1>4
  <2> HIDE DEF e
  <2>4. e \in 1..n /\ file[got[e]] = "long"
    BY <2>1, <2>2
  <2>5. /\ out \in Seq(Nat) /\ Len(out) = e
        /\ \A i \in 1..e : out[i] = got[i]
    <3>1. \A i \in 1..e : i \in 1..n /\ got[i] \in Nat
      BY <1>1, <2>4
    <3>2. /\ SubSeq(got, 1, e) \in Seq(Nat)
          /\ Len(SubSeq(got, 1, e)) = IF 1 <= e THEN e - 1 + 1 ELSE 0
          /\ \A i \in 1..(e - 1 + 1) : SubSeq(got, 1, e)[i] = got[1 + i - 1]
      BY <2>4, <3>1, SubSeqProperties
    <3>3. e - 1 + 1 = e /\ 1 <= e /\ \A i \in 1..e : 1 + i - 1 = i
      BY <2>4
    <3> QED
      BY <2>3, <3>2, <3>3
  <2>6. e <= n /\ \A k \in 1..n : k > e => e \in 1..(k - 1)
    BY <1>1, <2>4
  <2> QED
    BY <2>4, <2>5, <2>6 DEF out
<1> QED
  BY <1>3, <1>4

\* What a snippet has of the lines of its reference.
IsGiven(sn, r) ==
  LET lines == LinesOf(r) IN
  /\ Len(sn) <= Len(lines)
  /\ \A k \in 1..Len(sn) : sn[k] = lines[k]
  /\ \A k \in (Len(sn) + 1)..Len(lines) :
       file[lines[k]] = "blank" \/ \E l \in 1..(k - 1) : file[lines[l]] = "long"

\* sed prints the first line of the first block first, if the file has it.
LEMMA PrintedFirst ==
  ASSUME NEW bs \in Seq(LineRange), Apart(bs), length \in Nat, bs # <<>>,
         Printed(bs)[Len(bs)] # <<>>
  PROVE  bs[1][1] <= length /\ Printed(bs)[Len(bs)][1] = bs[1][1]
<1> DEFINE all == Printed(bs)[Len(bs)]
           o == Printed(bs)[1]
           l == LinesOf(bs[1])
           b == bs[1]
<1>1. Len(bs) \in Nat /\ 1 \in 1..Len(bs) /\ b \in LineRange
  BY ElementOfSeq
<1>2. b[1] \in Nat /\ b[2] \in Nat /\ 1 <= b[1] /\ b[1] <= b[2]
  BY <1>1, RangeIs
<1>3. /\ l \in Seq(Nat)
      /\ Len(l) = IF b[1] > length THEN 0
                  ELSE (IF b[2] <= length THEN b[2] ELSE length) - b[1] + 1
      /\ \A i \in 1..Len(l) : l[i] = b[1] + i - 1
  BY <1>1, LinesAre
<1>4. o = l
  <2>1. Printed(bs)[1] = Printed(bs)[1 - 1] \o l /\ Printed(bs)[0] = <<>>
    BY <1>1, PrintedIs
  <2> HIDE DEF l
  <2>2. <<>> \o l = l
    BY <1>3, ConcatEmptySeq
  <2>3. 1 - 1 = 0
    OBVIOUS
  <2> QED
    BY <2>1, <2>2, <2>3
<1>5. /\ all \in Seq(Nat) /\ o \in Seq(Nat) /\ Len(o) <= Len(all)
      /\ \A i \in 1..Len(o) : all[i] = o[i]
      /\ b[2] >= length => all = o
  BY <1>1, PrintedBeyond
<1>6. all # <<>>
  OBVIOUS
<1> HIDE DEF all, o, l, b
<1>7. b[1] <= length
  <2>1. SUFFICES ASSUME b[1] > length PROVE FALSE
    BY <1>2
  <2>2. all = l /\ Len(l) = 0
    BY <1>2, <1>3, <1>4, <1>5, <2>1
  <2>3. l = <<>>
    BY <1>3, <2>2, EmptySeq
  <2> QED
    BY <1>6, <2>2, <2>3
<1>8. Len(l) >= 1 /\ Len(l) \in Nat
  BY <1>2, <1>3, <1>7
<1>9. 1 \in 1..Len(l) /\ b[1] + 1 - 1 = b[1]
  BY <1>2, <1>8
<1>10. all[1] = b[1]
  BY <1>3, <1>4, <1>5, <1>9
<1> QED
  BY <1>7, <1>10 DEF all, b

\* A slice of the trimmed output, which is then cut.
LEMMA GivenOf ==
  ASSUME NEW bs \in Seq(LineRange), Apart(bs), length \in Nat, NEW r \in LineRange,
         NEW k \in 1..Len(bs), Within(r, bs[k]),
         LET all == Printed(bs)[Len(bs)] IN all # <<>> => file[all[1]] # "blank"
  PROVE  IsGiven(Cut(Slice(Trimmed(Printed(bs)[Len(bs)]), bs, r)), r)
<1> DEFINE all == Printed(bs)[Len(bs)]
           out == Trimmed(all)
           got == Slice(out, bs, r)
           lines == LinesOf(r)
           sn == Cut(got)
<1>1. all \in Seq(Nat)
  <2>1. Len(bs) \in 0..Len(bs)
    OBVIOUS
  <2> QED
    BY <2>1, PrintedIs
<1>2. Slice(all, bs, r) = lines
  BY SliceIs
<1>3. PICK off \in Nat : \A o :
        Slice(o, bs, r) = SubSeq(o, off + 1, Min({off + r[2] - r[1] + 1, Len(o)}))
  BY SliceFrom
<1> DEFINE end == off + r[2] - r[1] + 1
<1>4. end \in Int
  BY RangeIs
<1>5. all # <<>> => file[all[1]] # "blank"
  OBVIOUS
<1> HIDE DEF all
<1>6. /\ out \in Seq(Nat) /\ Len(out) <= Len(all)
      /\ \A i \in 1..Len(out) : out[i] = all[i]
      /\ \A i \in 1..Len(all) : i > Len(out) => file[all[i]] = "blank"
  BY <1>1, <1>5, TrimmedIs
<1>7. /\ got = SubSeq(out, off + 1, Min({end, Len(out)}))
      /\ lines = SubSeq(all, off + 1, Min({end, Len(all)}))
  <2>1. Slice(all, bs, r) = SubSeq(all, off + 1, Min({end, Len(all)}))
    BY <1>3
  <2>2. Slice(out, bs, r) = SubSeq(out, off + 1, Min({end, Len(out)}))
    BY <1>3
  <2> QED
    BY <1>2, <2>1, <2>2, Zenon
<1> HIDE DEF out, got, lines, end
<1>8. /\ got \in Seq(Nat)
      /\ \A i \in 1..Len(got) : off + i \in 1..Len(out) /\ off + i <= end /\ got[i] = out[off + i]
      /\ \A i \in Nat : i > Len(got) => off + i > Len(out) \/ off + i > end
  BY <1>4, <1>6, <1>7, PartIs
<1>9. /\ lines \in Seq(Nat)
      /\ \A i \in 1..Len(lines) : /\ off + i \in 1..Len(all) /\ off + i <= end
                                 /\ lines[i] = all[off + i]
      /\ \A i \in Nat : i > Len(lines) => off + i > Len(all) \/ off + i > end
  BY <1>1, <1>4, <1>7, PartIs
<1>10. Len(got) \in Nat /\ Len(lines) \in Nat /\ Len(out) \in Nat /\ Len(all) \in Nat
  BY <1>1, <1>6, <1>8, <1>9
<1>11. Len(got) <= Len(lines) /\ \A i \in 1..Len(got) : i \in 1..Len(lines) /\ got[i] = lines[i]
  <2>1. ASSUME NEW i \in 1..Len(got) PROVE i \in 1..Len(lines) /\ got[i] = lines[i]
    <3>1. off + i \in 1..Len(out) /\ off + i <= end /\ got[i] = out[off + i] /\ i \in Nat /\ i >= 1
      BY <1>8
    <3>2. ~(off + i > Len(all)) /\ ~(off + i > end)
      BY <1>4, <1>6, <1>10, <3>1
    <3>3. i \in 1..Len(lines)
      BY <1>9, <1>10, <3>1, <3>2
    <3>4. lines[i] = all[off + i] /\ out[off + i] = all[off + i]
      BY <1>6, <1>9, <3>1, <3>3
    <3> QED
      BY <3>1, <3>3, <3>4
  <2>2. Len(got) <= Len(lines)
    <3>1. Len(got) \in 1..Len(got) => Len(got) \in 1..Len(lines)
      BY <2>1
    <3> QED
      BY <1>10, <3>1
  <2> QED
    BY <2>1, <2>2
<1>12. \A i \in 1..Len(lines) : i > Len(got) => file[lines[i]] = "blank"
  <2>1. TAKE i \in 1..Len(lines)
  <2>2. HAVE i > Len(got)
  <2>3. off + i \in 1..Len(all) /\ off + i <= end /\ lines[i] = all[off + i] /\ i \in Nat
    BY <1>9, <1>10
  <2>4. off + i > Len(out) \/ off + i > end
    BY <1>8, <2>2, <2>3
  <2>5. off + i > Len(out)
    BY <1>4, <1>10, <2>3, <2>4
  <2> QED
    BY <1>6, <2>3, <2>5
<1>13. /\ sn \in Seq(Nat) /\ Len(sn) <= Len(got)
       /\ \A i \in 1..Len(sn) : sn[i] = got[i]
       /\ \A k_1 \in 1..Len(got) : k_1 > Len(sn) =>
            \E l \in 1..(k_1 - 1) : file[got[l]] = "long"
  BY <1>8, CutIs
<1> HIDE DEF sn
<1>14. Len(sn) \in Nat /\ Len(sn) <= Len(lines) /\ \A i \in 1..Len(sn) : sn[i] = lines[i]
  <2>1. Len(sn) \in Nat
    BY <1>13
  <2>2. \A i \in 1..Len(sn) : i \in 1..Len(got)
    BY <1>10, <1>13, <2>1
  <2> QED
    BY <1>10, <1>11, <1>13, <2>1, <2>2
<1>15. ASSUME NEW i \in (Len(sn) + 1)..Len(lines)
       PROVE  file[lines[i]] = "blank" \/ \E l \in 1..(i - 1) : file[lines[l]] = "long"
  <2>1. i \in 1..Len(lines) /\ i > Len(sn)
    BY <1>10, <1>14
  <2>2. CASE i <= Len(got)
    <3>1. i \in 1..Len(got)
      BY <2>1, <2>2, <1>10
    <3>2. PICK l \in 1..(i - 1) : file[got[l]] = "long"
      BY <1>13, <2>1, <3>1
    <3>3. l \in 1..Len(got)
      BY <1>10, <3>1
    <3> QED
      BY <1>11, <3>2, <3>3
  <2>3. CASE i > Len(got)
    BY <1>12, <2>1, <2>3
  <2> QED
    BY <1>10, <2>1, <2>2, <2>3
<1>16. IsGiven(sn, r)
  BY <1>14, <1>15 DEF IsGiven, lines
<1> QED
  BY <1>16 DEF sn, got, out, all

\* The pass over the file: every reference is within a block, and a block that it is in
\* gives it its lines, unless the first line that is named is a blank one of the file.
LEMMA HydrateGives ==
  ASSUME NEW group \in Seq(LineRange), group # <<>>, NEW order \in Sorted(group),
         length \in Nat,
         \A i \in 1..Len(group) :
           group[i][1] <= length /\ (\A j \in 1..Len(group) : group[i][1] <= group[j][1])
           => file[group[i][1]] # "blank"
  PROVE  LET blocks == Blocks([i \in DOMAIN group |-> group[order[i]]])
             out == Trimmed(Printed(blocks)[Len(blocks)]) IN
         \A i \in 1..Len(group) : IsGiven(Cut(Slice(out, blocks, group[i])), group[i])
<1> DEFINE refs == [i \in DOMAIN group |-> group[order[i]]]
           blocks == Blocks(refs)
           all == Printed(blocks)[Len(blocks)]
<1>1. /\ refs \in Seq(LineRange) /\ Len(refs) = Len(group)
      /\ \A i, j \in 1..Len(refs) : i < j => refs[i][1] <= refs[j][1]
      /\ \A i \in 1..Len(group) : \E j \in 1..Len(refs) : refs[j] = group[i]
      /\ \A j \in 1..Len(refs) : \E i \in 1..Len(group) : refs[j] = group[i]
  BY SortedIs
<1> HIDE DEF refs
<1>2. blocks \in Merged(refs, Len(refs))
  BY <1>1, BlocksAreMerged
<1>3. Len(group) \in Nat /\ Len(group) > 0 /\ 1 \in 1..Len(refs)
  BY <1>1
<1> HIDE DEF blocks
<1>4. /\ blocks \in Seq(LineRange) /\ Apart(blocks)
      /\ \A i \in 1..Len(refs) : \E k \in 1..Len(blocks) : Within(refs[i], blocks[k])
      /\ blocks # <<>> /\ blocks[1][1] = refs[1][1]
  <2>1. Len(refs) > 0
    BY <1>1, <1>3
  <2> QED
    BY <1>2, <2>1 DEF Merged
<1>5. ASSUME all # <<>> PROVE file[all[1]] # "blank"
  <2>1. refs[1][1] <= length /\ all[1] = refs[1][1]
    BY <1>4, <1>5, PrintedFirst
  <2>2. PICK i \in 1..Len(group) : refs[1] = group[i]
    BY <1>1, <1>3
  <2>3. ASSUME NEW j \in 1..Len(group) PROVE group[i][1] <= group[j][1]
    <3>1. PICK k \in 1..Len(refs) : refs[k] = group[j]
      BY <1>1
    <3>2. refs[1][1] <= refs[k][1]
      <4>1. CASE k = 1
        <5>1. refs[1][1] \in Nat
          BY <1>1, <1>3, ElementOfSeq, RangeIs
        <5> QED
          BY <4>1, <5>1
      <4>2. CASE k # 1
        <5>1. 1 < k
          BY <4>2
        <5> QED
          BY <1>1, <1>3, <5>1
      <4> QED
        BY <4>1, <4>2
    <3> QED
      BY <2>2, <3>1, <3>2
  <2> HIDE DEF all
  <2> QED
    BY <2>1, <2>2, <2>3
<1>6. ASSUME NEW i \in 1..Len(group)
      PROVE  IsGiven(Cut(Slice(Trimmed(all), blocks, group[i])), group[i])
  <2>1. PICK j \in 1..Len(refs) : refs[j] = group[i]
    BY <1>1
  <2>2. PICK k \in 1..Len(blocks) : Within(group[i], blocks[k])
    BY <1>4, <2>1
  <2>3. group[i] \in LineRange
    BY ElementOfSeq
  <2> QED
    BY <1>4, <1>5, <2>2, <2>3, GivenOf
<1> QED
  BY <1>6 DEF all, blocks, refs

RefsGiven ==
  snippet # NotYet /\ ~BlankAhead =>
    \/ \A i \in DOMAIN asked : snippet[i] = <<>>
    \/ \A i \in DOMAIN asked : IsGiven(snippet[i], Clamp(asked[i]))

RefInv ==
  /\ file \in Seq(LineKind) /\ asked \in Seq(Int \X Int) /\ asked # <<>>
  /\ RefsGiven

\* The pass changes neither the file nor what is asked of it.
LEMMA GivenStays ==
  ASSUME file' = file, asked' = asked, NEW i, IsGiven(snippet'[i], Clamp(asked[i]))
  PROVE  IsGiven(snippet[i], Clamp(asked[i]))'
<1> DEFINE lines == LinesOf(Clamp(asked[i]))
<1>1. lines' = lines
  BY DEF LinesOf, Clamp, length
<1>2. /\ Len(snippet'[i]) <= Len(lines)
      /\ \A k \in 1..Len(snippet'[i]) : snippet'[i][k] = lines[k]
      /\ \A k \in (Len(snippet'[i]) + 1)..Len(lines) :
           file[lines[k]] = "blank" \/ \E l \in 1..(k - 1) : file[lines[l]] = "long"
  BY DEF IsGiven
<1>3. IsGiven(snippet[i], Clamp(asked[i]))' <=>
        /\ Len(snippet'[i]) <= Len(lines')
        /\ \A k \in 1..Len(snippet'[i]) : snippet'[i][k] = lines'[k]
        /\ \A k \in (Len(snippet'[i]) + 1)..Len(lines') :
             file'[lines'[k]] = "blank" \/ \E l \in 1..(k - 1) : file'[lines'[l]] = "long"
  BY DEF IsGiven
<1> HIDE DEF lines
<1> QED
  BY <1>1, <1>2, <1>3

LEMMA RefInvHolds == RefSpec => []RefInv
<1>1. RefInit => RefInv
  <2> SUFFICES ASSUME RefInit PROVE RefInv
    OBVIOUS
  <2>1. PICK n \in 0..MaxLine : file \in [1..n -> LineKind]
    BY DEF RefInit
  <2>2. n \in Nat
    BY RefAssumption
  <2>3. file \in Seq(LineKind)
    BY <2>1, <2>2, SeqDef
  <2>4. asked \in Seq(Int \X Int) /\ asked # <<>> /\ snippet = NotYet
    BY RefAssumption DEF RefInit
  <2> QED
    BY <2>3, <2>4 DEF RefInv, RefsGiven
<1>2. RefInv /\ [RefNext]_rvars => RefInv'
  <2> SUFFICES ASSUME RefInv, [RefNext]_rvars PROVE RefInv'
    OBVIOUS
  <2>1. CASE Hydrate
    <3> DEFINE group == [i \in DOMAIN asked |-> Clamp(asked[i])]
    <3>1. /\ length \in Nat /\ asked \in Seq(Int \X Int) /\ asked # <<>>
          /\ file' = file /\ asked' = asked
      BY <2>1 DEF RefInv, Hydrate, length
    <3>2. DOMAIN asked = 1..Len(asked) /\ Len(asked) \in Nat /\ Len(asked) > 0
      BY <3>1
    <3>3. group \in Seq(LineRange) /\ Len(group) = Len(asked) /\ DOMAIN group = DOMAIN asked
      <4> DEFINE b == Len(asked)
                 clamped(i) == Clamp(asked[i])
                 all == [i \in 1..b |-> clamped(i)]
      <4>1. \A i \in 1..b : clamped(i) \in LineRange
        BY <3>1, ElementOfSeq, ClampIs
      <4>2. group = all
        BY <3>2
      <4> HIDE DEF clamped, group
      <4>3. b \in Nat /\ DOMAIN asked = 1..b
        BY <3>2
      <4> HIDE DEF b
      <4>4. all \in Seq(LineRange) /\ Len(all) = b /\ DOMAIN all = 1..b
        BY <4>1, <4>3
      <4> HIDE DEF all
      <4> QED
        BY <4>2, <4>3, <4>4 DEF b
    <3>4. \A i \in DOMAIN asked : group[i] = Clamp(asked[i])
      OBVIOUS
    <3> DEFINE blocks(order) == Blocks([i \in DOMAIN asked |-> group[order[i]]])
               out(order) == Trimmed(Printed(blocks(order))[Len(blocks(order))])
               given(order, i) == Cut(Slice(out(order), blocks(order), group[i]))
    <3>5. PICK order \in Sorted(group) : snippet' = [i \in DOMAIN asked |-> given(order, i)]
      BY <2>1 DEF Hydrate
    <3>6. \A k \in DOMAIN asked : snippet'[k] = given(order, k)
      BY <3>5
    <3> HIDE DEF group
    <3>7. ASSUME ~BlankAhead
          PROVE  \A i \in DOMAIN asked : IsGiven(snippet'[i], Clamp(asked[i]))
      <4>1. ASSUME NEW i \in 1..Len(group), group[i][1] <= length,
                   \A j \in 1..Len(group) : group[i][1] <= group[j][1]
            PROVE  file[group[i][1]] # "blank"
        <5>1. i \in DOMAIN asked /\ \A j \in DOMAIN asked : j \in 1..Len(group)
          BY <3>2, <3>3
        <5> QED
          BY <3>4, <3>7, <4>1, <5>1 DEF BlankAhead
      <4>2. group # <<>>
        BY <3>2, <3>3
      <4>3. \A i \in 1..Len(group) : IsGiven(given(order, i), group[i])
        BY <3>1, <3>3, <4>1, <4>2, HydrateGives
      <4> HIDE DEF given
      <4> QED
        BY <3>2, <3>3, <3>4, <3>6, <4>3
    <3> HIDE DEF given
    <3>8. RefsGiven'
      <4>1. BlankAhead' = BlankAhead
        BY <3>1 DEF BlankAhead, Clamp, length
      <4>2. SUFFICES ASSUME ~BlankAhead
                     PROVE  (\A i \in DOMAIN asked : IsGiven(snippet[i], Clamp(asked[i])))'
        BY <4>1 DEF RefsGiven
      <4>3. \A i \in DOMAIN asked : IsGiven(snippet'[i], Clamp(asked[i]))
        BY <3>7, <4>2
      <4> QED
        BY <3>1, <4>3, GivenStays
    <3> QED
      BY <3>1, <3>8 DEF RefInv
  <2>2. CASE DropAll
    <3>1. file' = file /\ asked' = asked /\ snippet' = [i \in DOMAIN asked |-> <<>>]
      BY <2>2 DEF DropAll
    <3>2. (\A i \in DOMAIN asked : snippet[i] = <<>>)'
      BY <3>1
    <3>3. RefsGiven'
      BY <3>2 DEF RefsGiven
    <3> QED
      BY <3>1, <3>3 DEF RefInv
  <2>3. CASE UNCHANGED rvars
    <3>1. file' = file /\ asked' = asked /\ snippet' = snippet
      BY <2>3 DEF rvars
    <3>2. BlankAhead' = BlankAhead
      BY <3>1 DEF BlankAhead, Clamp, length
    <3>3. RefsGiven'
      <4>1. ASSUME NEW i \in DOMAIN asked, IsGiven(snippet[i], Clamp(asked[i]))
            PROVE  IsGiven(snippet[i], Clamp(asked[i]))'
        BY <3>1, <4>1, GivenStays
      <4> QED
        BY <3>1, <3>2, <4>1 DEF RefInv, RefsGiven
    <3> QED
      BY <3>1, <3>3 DEF RefInv
  <2> QED
    BY <2>1, <2>2, <2>3 DEF RefNext
<1> QED
  BY <1>1, <1>2, PTL DEF RefSpec

\* hydrateRefs drops all references to a file or gives each of them the lines that it
\* names, in any file, for any number of references in any order and wherever they
\* overlap, if the first line that is named is not a blank one: the blocks that it merges
\* them into do not meet and hold every reference, what sed has printed before the block
\* of one that the file has is as long as pos says, nothing is printed past its end, and
\* what the executor trims is at the end.
THEOREM RefsAreGivenTheirLines == RefSpec => []RefsGetTheirLines
<1>1. RefInv => RefsGetTheirLines
  BY DEF RefInv, RefsGiven, IsGiven, RefsGetTheirLines
<1> QED
  BY <1>1, RefInvHolds, PTL
==================================================================================
