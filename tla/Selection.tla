------------------------------ MODULE Selection ------------------------------
(***************************************************************************)
(* List comprehensions with a condition, [x for x in s if x in K], and     *)
(* lists that are extended by one list after the other, which suites, runs *)
(* and datasets are made with.  (SelectSeq and FlattenSeq, as recursive    *)
(* functions from 0, so that they can be reasoned about.)                  *)
(***************************************************************************)
EXTENDS Integers, Sequences

\* The elements of s that are in K, in their order.
Only(s, K) ==
  LET Kept[i \in 0..Len(s)] ==
        IF i = 0 THEN <<>> ELSE IF s[i] \in K THEN Append(Kept[i - 1], s[i]) ELSE Kept[i - 1]
  IN Kept[Len(s)]

\* The sequences of ss, one after the other.
Joined(ss) ==
  LET Done[i \in 0..Len(ss)] == IF i = 0 THEN <<>> ELSE Done[i - 1] \o ss[i] IN Done[Len(ss)]

=============================================================================
