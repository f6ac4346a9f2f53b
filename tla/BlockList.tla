----------------------------- MODULE BlockList ------------------------------
(***************************************************************************)
(* The list of modified screen blocks of one connection: an array of at    *)
(* most cap = rows * columns block indexes in ascending order.  The first  *)
(* m_nModifiedBlockCount entries of m_pnModifiedBlocks are a sequence here. *)
(***************************************************************************)
EXTENDS Integers, Sequences, SequencesExt

\* The order in which CScreenBitmap::GetModifiedBlocks writes the indexes of
\* the blocks whose mask is set: ascending.
Ascending(blocks) ==
    LET n == Cardinality(blocks)
    IN  CHOOSE list \in [1..n -> blocks] : \A i, j \in 1..n : i < j => list[i] < list[j]

\* Faulty: the scan stops before the last block, or marks the block after one, too.
ModifiedBlocksButLast(new, last) ==
    {b \in DOMAIN new : b + 1 \in DOMAIN new /\ new[b] # last[b]}
ModifiedBlocksAndNext(new, last) ==
    {b \in DOMAIN new : \E a \in DOMAIN new : a \in {b - 1, b} /\ new[a] # last[a]}

\* The blocks on which two captures of the screen differ (the mask).
ModifiedBlocks(new, last) == {b \in DOMAIN new : new[b] # last[b]}

Shorter(m, n) == IF m <= n THEN m ELSE n

\* An iteration of the merge loop of CClientConnection::OnScreenModified takes from the
\* old list, of which o entries are used up, unless it is at its end or the new entry,
\* with k used up, is smaller.
TakesOld(old, new, o, k) ==
    o < Len(old) /\ (k >= Len(new) \/ new[k + 1] >= old[o + 1])

\* nOldIndex after each of n iterations.  After i of them nNewIndex is the rest of i.
Taken(old, new, n) ==
    LET taken[i \in 0..n] ==
            IF i = 0 THEN 0
            ELSE IF TakesOld(old, new, taken[i - 1], (i - 1) - taken[i - 1])
            THEN taken[i - 1] + 1 ELSE taken[i - 1]
    IN  taken

\* The list after up to n iterations.  The loop ends when both lists are used up.
MergeSteps(old, new, n) ==
    LET taken == Taken(old, new, n)
    IN  [i \in 1..Shorter(n, Len(old) + Len(new)) |->
            IF taken[i] > taken[i - 1] THEN old[taken[i]] ELSE new[i - taken[i]]]

\* Faulty merges: one iteration too few, one too many (past the array), and
\* one that takes what is left of the old list last.
MergeTooShort(old, new, cap) == MergeSteps(old, new, cap - 1)
MergeTooLong(old, new, cap) == MergeSteps(old, new, cap + 1)
MergeByAppending(old, new, cap) == SubSeq(new \o old, 1, Shorter(cap, Len(old) + Len(new)))

\* The list has room for cap entries.
MergeModifiedBlocks(old, new, cap) == MergeSteps(old, new, cap)

\* The list after a change: copied into an empty list, merged otherwise.
AddModifiedBlocks(old, new, cap) ==
    IF old = <<>> THEN new ELSE MergeModifiedBlocks(old, new, cap)

-----------------------------------------------------------------------------
(* What the list should be is said in these terms.                         *)

IsAscending(list) == \A i, j \in 1..Len(list) : i < j => list[i] <= list[j]

\* The entries of a list up to block b.
UpTo(list, b) == {i \in 1..Len(list) : list[i] <= b}
=============================================================================
