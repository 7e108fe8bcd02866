------------------------------- MODULE CodemapRefs -------------------------------
(***************************************************************************)
(* hydrateRefs of codemap/codemap.go: the references of an answer to one   *)
(* file are merged into blocks of lines, one sed prints all blocks, and    *)
(* every reference is given its slice of that output, which has lost the   *)
(* blank lines of its two ends.                                            *)
(***************************************************************************)
EXTENDS Integers, SequencesExt, FiniteSetsExt

CONSTANTS
  MaxLine,   \* bound on the lines of the file
  Asks,      \* references that the model may give: sequences of first and last lines
  MaxSpan    \* lines a reference may have (10)

ASSUME RefAssumption ==
  /\ MaxLine \in Nat /\ MaxSpan \in Nat \ {0}
  /\ Asks \subseteq Seq(Int \X Int) \ {<<>>}

VARIABLES
  file,     \* its lines: blank ones, long ones (4096 characters and more) and others
  asked,    \* the references to it
  snippet   \* what they are given: sequences of numbers of lines; empty before the pass

rvars == <<file, asked, snippet>>

NotYet == <<>>
LineKind == {"text", "blank", "long"}

RefInit ==
  /\ \E n \in 0..MaxLine : file \in [1..n -> LineKind]
  /\ asked \in Asks
  /\ snippet = NotYet

length == Len(file)

\* From the first line on, forward, and not too long.
Clamp(r) ==
  LET first == Max({1, r[1]})
  IN <<first, Min({Max({first, r[2]}), first + MaxSpan - 1})>>

Before(r, s) == r[1] < s[1] \/ (r[1] = s[1] /\ r[2] < s[2])

\* sort.Slice leaves equal ones in any order.
Sorted(group) ==
  {order \in Bijection(DOMAIN group, DOMAIN group) :
     \A i, j \in DOMAIN group : i < j => ~Before(group[order[j]], group[order[i]])}

Touches(blocks, r) == blocks # <<>> /\ r[1] <= Last(blocks)[2] + 1

\* The block ends where its last reference ends.
MergeByLength(blocks, r) ==
  IF Touches(blocks, r)
  THEN [blocks EXCEPT ![Len(blocks)] = <<Last(blocks)[1], r[2]>>]
  ELSE Append(blocks, r)

\* Overlapping and touching references are one block.
Merge(blocks, r) ==
  IF Touches(blocks, r)
  THEN [blocks EXCEPT ![Len(blocks)] = <<Last(blocks)[1], Max({Last(blocks)[2], r[2]})>>]
  ELSE Append(blocks, r)

Blocks(refs) ==
  LET upto[i \in 0..Len(refs)] == IF i = 0 THEN <<>> ELSE Merge(upto[i - 1], refs[i])
  IN upto[Len(refs)]

\* The lines of the file from the first to the last that are named, as far as it goes.
LinesOf(b) == [i \in 1..(Min({b[2], length}) - b[1] + 1) |-> b[1] + i - 1]

\* What sed has printed when the first blocks are behind it, and
Printed(blocks) ==
  LET upto[n \in 0..Len(blocks)] == IF n = 0 THEN <<>> ELSE upto[n - 1] \o LinesOf(blocks[n])
  IN upto

\* pos: the lines that these blocks have.
Passed(blocks) ==
  LET upto[n \in 0..Len(blocks)] ==
        IF n = 0 THEN 0 ELSE upto[n - 1] + blocks[n][2] - blocks[n][1] + 1
  IN upto

\* The slice of a reference begins in the first block that does not end before it.
Slice(out, blocks, r) ==
  LET left == {n \in 1..Len(blocks) : r[1] <= blocks[n][2]}
      own == Min(left)
      off == Passed(blocks)[own - 1] + r[1] - blocks[own][1]
  IN IF left = {} \/ r[1] < blocks[own][1] THEN <<>>
     ELSE SubSeq(out, off + 1, Min({off + r[2] - r[1] + 1, Len(out)}))

\* strings.TrimSpace: without the blank lines before the first that is not, and after
\* the last one. The indentation of the first line, which goes too, is left out.
Trimmed(out) ==
  LET said == {i \in 1..Len(out) : file[out[i]] # "blank"}
  IN IF said = {} THEN <<>> ELSE SubSeq(out, Min(said), Max(said))

\* 4096 characters of a snippet end within its first long line.
Cut(lines) ==
  LET long == {i \in 1..Len(lines) : file[lines[i]] = "long"}
  IN IF long = {} THEN lines ELSE SubSeq(lines, 1, Min(long))

\* One pass over the file; a reference with an empty snippet is dropped, as all are
\* when nothing but blanks is printed.
Hydrate ==
  LET group == [i \in DOMAIN asked |-> Clamp(asked[i])] IN
  /\ snippet = NotYet
  /\ \E order \in Sorted(group) :
       LET blocks == Blocks([i \in DOMAIN asked |-> group[order[i]]])
           out == Trimmed(Printed(blocks)[Len(blocks)])
       IN snippet' = [i \in DOMAIN asked |-> Cut(Slice(out, blocks, group[i]))]
  /\ UNCHANGED <<file, asked>>

\* The read has failed, or has found a NUL.
DropAll ==
  /\ snippet = NotYet
  /\ snippet' = [i \in DOMAIN asked |-> <<>>]
  /\ UNCHANGED <<file, asked>>

RefNext == Hydrate \/ DropAll

RefSpec == RefInit /\ [][RefNext]_rvars

-----------------------------------------------------------------------------
\* The first line that is named of the file is a blank one.
BlankAhead ==
  \E i \in DOMAIN asked :
    LET first == Clamp(asked[i])[1] IN
    /\ first <= length /\ file[first] = "blank"
    /\ \A j \in DOMAIN asked : first <= Clamp(asked[j])[1]

\* The answer schema: "the server overwrites it with the exact lines anyway": whatever the
\* other references are, all are dropped together or each is given the lines that it
\* names, from the first on and nothing else; missing at their end are only those that
\* the file does not have, blank ones and those behind a long one. That is so only
\* where the output does not begin with a blank line: the executor trims it, and every
\* slice is then taken too far down.
RefsGetTheirLines ==
  snippet # NotYet /\ ~BlankAhead =>
    \/ \A i \in DOMAIN asked : snippet[i] = <<>>
    \/ \A i \in DOMAIN asked :
         LET lines == LinesOf(Clamp(asked[i])) IN
         /\ Len(snippet[i]) <= Len(lines)
         /\ \A k \in 1..Len(snippet[i]) : snippet[i][k] = lines[k]
         /\ \A k \in (Len(snippet[i]) + 1)..Len(lines) :
              file[lines[k]] = "blank" \/ \E l \in 1..(k - 1) : file[lines[l]] = "long"
=============================================================================
