------------------------------- MODULE Lists -------------------------------
(***************************************************************************)
(* Lists as the library uses them: a loop that keeps some elements, and a  *)
(* sort by a strict order.  Both are defined by counting, so that what they *)
(* return can be proved; positions and orders are given as sets, not as     *)
(* operators, for the same reason.                                         *)
(***************************************************************************)
EXTENDS Naturals, Sequences, FiniteSets

Elements(s) == {s[k] : k \in DOMAIN s}

\* The elements of a finite set in a strict total order, a set of pairs: the
\* one at k has k - 1 before it.
InOrder(S, before) ==
  [k \in 1..Cardinality(S) |->
     CHOOSE x \in S : Cardinality({y \in S : <<y, x>> \in before}) = k - 1]

Less(K) == {p \in K \X K : p[1] < p[2]}

\* Positions from the first to the last.
Places(K) == InOrder(K, Less(K))

\* The elements of a list at the positions K, in their order.
Chosen(xs, K) == LET place == Places(K) IN [k \in DOMAIN place |-> xs[place[k]]]

\* The positions of xs by a strict order of its elements, equal ones in place.
Stable(xs, before) ==
  {p \in (DOMAIN xs) \X (DOMAIN xs) :
     \/ <<xs[p[1]], xs[p[2]]>> \in before
     \/ p[1] < p[2] /\ <<xs[p[2]], xs[p[1]]>> \notin before}

\* A list sorted by a strict weak order of its elements, equal ones in place.
SortedBy(xs, before) ==
  LET place == InOrder(DOMAIN xs, Stable(xs, before)) IN [k \in DOMAIN xs |-> xs[place[k]]]

\* The lists of a list, one after another: each entry is the place of a list and
\* a place in it.
Entries(lists) == UNION {{i} \X (DOMAIN lists[i]) : i \in DOMAIN lists}

Lexical(E) ==
  {p \in E \X E : p[1][1] < p[2][1] \/ (p[1][1] = p[2][1] /\ p[1][2] < p[2][2])}

Flattened(lists) ==
  LET entry == InOrder(Entries(lists), Lexical(Entries(lists)))
  IN [k \in DOMAIN entry |-> lists[entry[k][1]][entry[k][2]]]

=============================================================================
