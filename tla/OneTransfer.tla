----------------------------- MODULE OneTransfer -----------------------------
(***************************************************************************)
(* What Work Sync promises of each transfer, without codes, sessions,      *)
(* backups or connections.  Two sides agree on what one of them is to      *)
(* become.  The transfer then writes and ends moved, with that side the    *)
(* tree that was agreed on, as it was before, or left in between, and it   *)
(* says which.  Others write too, and so do other transfers.               *)
(***************************************************************************)

CONSTANTS Code, Path, Side, Content

VARIABLES
  trees,   \* [Side -> Tree]
  deals,   \* [Code -> Deal]: how far each transfer is
  terms,   \* [Code -> Terms]: the side it writes, that tree then, and what it is to become
  others   \* [Code -> SUBSET Path]: (history) what others wrote at that side since

transferVars == <<trees, deals, terms, others>>

Tree == [Path -> Content]
Deal == {"none", "agreed", "writing", "moved", "asBefore", "left"}
Terms == [to: Side, before: Tree, after: Tree]

Init ==
  /\ trees \in [Side -> Tree]
  /\ deals = [c \in Code |-> "none"]
  /\ terms \in [Code -> Terms]
  /\ others = [c \in Code |-> {}]

UnderWay == {"agreed", "writing"}

Becomes(c, d) == deals' = [deals EXCEPT ![c] = d]

\* The trees f and g differ at most where others wrote.
SameButOthers(c, f, g) == \A p \in Path \ others[c] : f[p] = g[p]

Start(c) ==
  /\ deals[c] = "none" /\ Becomes(c, "agreed")
  /\ \E s, t \in Side :
       terms' = [terms EXCEPT ![c] = [to |-> t, before |-> trees[t], after |-> trees[s]]]
  /\ UNCHANGED <<trees, others>>

\* It ends before it writes.
GiveUp(c) ==
  /\ deals[c] = "agreed" /\ Becomes(c, "asBefore")
  /\ UNCHANGED <<trees, terms, others>>

\* The paths that it is to change.
Differing(c) == {p \in Path : terms[c].before[p] # terms[c].after[p]}

\* The other transfers that write the same side.
Beside(c) == {d \in Code : d # c /\ deals[d] # "none" /\ terms[d].to = terms[c].to}

Put(c, ps, from) ==
  /\ trees' = [trees EXCEPT ![terms[c].to] = [p \in Path |-> IF p \in ps THEN from[p] ELSE @[p]]]
  /\ others' = [d \in Code |-> IF d \in Beside(c) THEN others[d] \cup ps ELSE others[d]]
  /\ UNCHANGED terms

\* It writes or takes back some of its paths, and may stop there.
Write(c) ==
  /\ deals[c] \in UnderWay
  /\ Becomes(c, "writing") \/ Becomes(c, "left")
  /\ \E ps \in SUBSET Differing(c), from \in {terms[c].before, terms[c].after} : Put(c, ps, from)

\* It takes all back.
Undo(c) ==
  /\ deals[c] = "writing" /\ Becomes(c, "asBefore")
  /\ \E ps \in SUBSET Differing(c) : Put(c, ps, terms[c].before)
  /\ SameButOthers(c, trees[terms[c].to], terms[c].before)'

\* It has compared the whole tree.
Complete(c) ==
  /\ deals[c] = "writing" /\ Becomes(c, "moved")
  /\ trees[terms[c].to] = terms[c].after
  /\ UNCHANGED <<trees, terms, others>>

\* Some transfers stop where they are.
Leave(S) ==
  /\ \A c \in S : deals[c] \in UnderWay
  /\ deals' = [c \in Code |-> IF c \in S THEN "left" ELSE deals[c]]
  /\ UNCHANGED <<trees, terms, others>>

Edit(s, p) ==
  /\ \E x \in Content : trees' = [trees EXCEPT ![s][p] = x]
  /\ others' = [c \in Code |-> IF deals[c] # "none" /\ terms[c].to = s
                               THEN others[c] \cup {p} ELSE others[c]]
  /\ UNCHANGED <<deals, terms>>

Next ==
  \/ \E S \in SUBSET Code : Leave(S)
  \/ \E c \in Code : Start(c) \/ GiveUp(c) \/ Write(c) \/ Undo(c) \/ Complete(c)
  \/ \E s \in Side, p \in Path : Edit(s, p)

Spec == Init /\ [][Next]_transferVars

-----------------------------------------------------------------------------

\* A transfer is honest: the tree that it wrote, but for what others wrote, is the one
\* agreed on when it says moved, is the old one when it has not begun or says asBefore,
\* and is a mixture of the two and of nothing else when it is at work or was left.
HonestAbout(c) ==
  LET now == trees[terms[c].to] IN
  /\ deals[c] \in {"agreed", "asBefore"} => SameButOthers(c, now, terms[c].before)
  /\ deals[c] = "moved" => SameButOthers(c, now, terms[c].after)
  /\ deals[c] \in {"writing", "left"} =>
       \A p \in Path \ others[c] : now[p] \in {terms[c].before[p], terms[c].after[p]}

Honest == \A c \in Code : HonestAbout(c)
==============================================================================
