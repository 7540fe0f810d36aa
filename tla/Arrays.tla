------------------------------- MODULE Arrays -------------------------------
(***************************************************************************)
(* What the array and string methods the code leans on do.                 *)
(***************************************************************************)
EXTENDS Integers, SequencesExt

\* String.prototype.slice, which stops at the end of the text.
slice(body, start, end) ==
  SubSeq(body, start + 1, IF end < Len(body) THEN end ELSE Len(body))

\* Array.prototype.sort: stable.  An element's place is the number of those that
\* come no later.
inOrder(s, before) ==
  LET Rank(i) == Cardinality({j \in DOMAIN s :
                   <<j, i>> \in before \/ (<<i, j>> \notin before /\ j <= i)})
  IN [r \in DOMAIN s |-> s[CHOOSE i \in DOMAIN s : Rank(i) = r]]

stableSort(s, Before(_, _)) ==
  inOrder(s, {x \in (DOMAIN s) \X (DOMAIN s) : Before(s[x[1]], s[x[2]])})

\* Array.prototype.filter: the elements at the positions that are kept, in order.
keepAt(s, kept) ==
  FoldLeftDomain(LAMBDA out, i : IF i \in kept THEN Append(out, s[i]) ELSE out, <<>>, s)

filter(s, Keeps(_)) == keepAt(s, {i \in DOMAIN s : Keeps(s[i])})

\* Half-open spans [start, end) that share a character.
overlaps(a, b) == a.start < b.end /\ a.end > b.start
=============================================================================
