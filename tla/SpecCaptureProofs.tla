------------------------- MODULE SpecCaptureProofs -------------------------
(***************************************************************************)
(* TableSpec, for any tables, any number of DDL statements and either       *)
(* collation.  What each statement makes of its rows is the section as the  *)
(* table has it (RowsFaithful): the rows of the table asked for come out of *)
(* the sort as they were, one list of rows for each object, and each list is*)
(* one run.  The rest is about the order of the statements: a section is    *)
(* the table's at the moment it is read, never older than one read before   *)
(* it, and the whole is the table's when nothing changes.                   *)
(***************************************************************************)
EXTENDS SpecCapture, ListProofs, SequenceTheorems

----------------------------------------------------------------------------
(* The rows of one table among those of two.                               *)

\* A list of rows of one table.
RowsOf(name, rows) ==
  rows \in Seq(Elements(rows)) /\ \A k \in DOMAIN rows : rows[k].table = name

\* One list after another, position by position.
LEMMA Joined ==
  ASSUME NEW S, NEW T, NEW xs \in Seq(S), NEW ys \in Seq(T)
  PROVE  /\ DOMAIN (xs \o ys) = 1..(Len(xs) + Len(ys))
         /\ \A k \in 1..Len(xs) : (xs \o ys)[k] = xs[k]
         /\ \A k \in 1..Len(ys) : (xs \o ys)[Len(xs) + k] = ys[k]
         /\ xs \o ys = [k \in 1..(Len(xs) + Len(ys)) |-> (xs \o ys)[k]]
<1>1. xs \in Seq(S \cup T) /\ ys \in Seq(S \cup T)
  BY SeqMonotonic
<1>2. PICK zs : zs = xs \o ys
  OBVIOUS
<1>3. /\ Len(xs) \in Nat /\ Len(ys) \in Nat
      /\ zs \in Seq(S \cup T) /\ Len(zs) = Len(xs) + Len(ys)
      /\ \A i \in 1..(Len(xs) + Len(ys)) : zs[i] = IF i <= Len(xs) THEN xs[i] ELSE ys[i - Len(xs)]
  BY <1>1, <1>2, ConcatProperties
<1>4. DOMAIN zs = 1..(Len(xs) + Len(ys)) /\ zs = [k \in 1..(Len(xs) + Len(ys)) |-> zs[k]]
  BY <1>3
<1>5. \A k \in 1..Len(xs) : zs[k] = xs[k]
  BY <1>3
<1>6. \A k \in 1..Len(ys) : zs[Len(xs) + k] = ys[k]
  BY <1>3
<1> QED BY <1>2, <1>4, <1>5, <1>6

LEMMA DeliveredRows ==
  ASSUME NEW own, NEW others, RowsOf(Requested, own), RowsOf(Variant, others),
         NEW sent, sent = Delivered(own, others)
  PROVE  \E n \in Nat : \E m \in 0..n :
           /\ DOMAIN sent = 1..n /\ own = [k \in 1..m |-> sent[k]]
           /\ \A k \in 1..n : sent[k].table = Requested <=> k <= m
           /\ \A k \in 1..n : sent[k] \in Elements(own) \cup Elements(others)
<1>0. Requested # Variant
  BY SpecCaptureAssumption
<1>1. PICK m : m = Len(own)
  OBVIOUS
<1>2. PICK l : l = Len(others)
  OBVIOUS
<1>3. /\ m \in Nat /\ DOMAIN own = 1..m /\ own = [k \in 1..m |-> own[k]]
      /\ \A k \in 1..m : own[k].table = Requested /\ own[k] \in Elements(own)
  <2>1. \A S : own \in Seq(S) => m \in Nat /\ DOMAIN own = 1..m /\ own = [k \in 1..m |-> own[k]]
    BY <1>1
  <2> QED BY <2>1 DEF RowsOf, Elements
<1>4. /\ l \in Nat /\ DOMAIN others = 1..l
      /\ \A k \in 1..l : others[k].table = Variant /\ others[k] \in Elements(others)
  <2>1. \A S : others \in Seq(S) => l \in Nat /\ DOMAIN others = 1..l
    BY <1>2
  <2> QED BY <2>1 DEF RowsOf, Elements
<1>5. CASE Loose
  <2>1. sent = own \o others
    BY <1>5 DEF Delivered
  <2>2. /\ DOMAIN sent = 1..(m + l)
        /\ \A k \in 1..m : sent[k] = own[k]
        /\ \A k \in 1..l : sent[m + k] = others[k]
    BY <1>1, <1>2, <2>1, Joined DEF RowsOf
  <2>3. /\ \A k \in 1..m : sent[k] = own[k]
        /\ \A k \in 1..(m + l) : k > m => k - m \in 1..l /\ sent[k] = others[k - m]
    <3>1. ASSUME NEW k \in 1..(m + l), k > m PROVE k - m \in 1..l /\ sent[k] = others[k - m]
      <4>1. PICK i : i = k - m
        OBVIOUS
      <4>2. i \in 1..l /\ k = m + i
        BY <1>3, <1>4, <3>1, <4>1
      <4> QED BY <2>2, <4>1, <4>2
    <3>2. \A k \in 1..m : sent[k] = own[k]
      BY <2>2
    <3> QED BY <3>1, <3>2
  <2>4. own = [k \in 1..m |-> sent[k]]
    BY <1>3, <2>3
  <2>5. \A k \in 1..(m + l) : /\ sent[k].table = Requested <=> k <= m
                              /\ sent[k] \in Elements(own) \cup Elements(others)
    <3>1. SUFFICES ASSUME NEW k \in 1..(m + l)
                   PROVE  /\ sent[k].table = Requested <=> k <= m
                          /\ sent[k] \in Elements(own) \cup Elements(others)
      OBVIOUS
    <3>2. CASE k <= m
      <4>1. k \in 1..m
        BY <1>3, <1>4, <3>2
      <4> QED BY <1>3, <2>3, <3>2, <4>1
    <3>3. CASE k > m
      <4>1. k - m \in 1..l /\ sent[k] = others[k - m]
        BY <2>3, <3>3
      <4>2. sent[k].table = Variant /\ sent[k] \in Elements(others)
        BY <1>4, <4>1
      <4>3. ~(k <= m)
        BY <1>3, <1>4, <3>3
      <4> QED BY <1>0, <4>2, <4>3
    <3> QED BY <1>3, <1>4, <3>2, <3>3
  <2>6. m + l \in Nat /\ m \in 0..(m + l) /\ DOMAIN sent = 1..(m + l)
    BY <1>3, <1>4, <2>2
  <2> QED BY <2>4, <2>5, <2>6
<1>6. CASE ~Loose
  <2>1. sent = own
    BY <1>6 DEF Delivered
  <2>2. m \in 0..m /\ DOMAIN sent = 1..m /\ own = [k \in 1..m |-> sent[k]]
    BY <1>3, <2>1
  <2>3. \A k \in 1..m : /\ sent[k].table = Requested <=> k <= m
                        /\ sent[k] \in Elements(own) \cup Elements(others)
    BY <1>3, <2>1
  <2> QED BY <1>3, <2>2, <2>3
<1> QED BY <1>5, <1>6

\* Of the rows delivered, sorted together, the loop keeps those of the name asked
\* for, as they were, if they were in order.
LEMMA KeptOwn ==
  ASSUME NEW own, NEW others, RowsOf(Requested, own), RowsOf(Variant, others),
         NEW sent, sent = Delivered(own, others),
         NEW before, StrictWeak(Elements(sent), before),
         \A j, k \in DOMAIN own : j < k => <<own[k], own[j]>> \notin before
  PROVE  Kept(SortedBy(sent, before)) = own
<1>1. PICK n \in Nat : \E m \in 0..n :
        /\ DOMAIN sent = 1..n /\ own = [k \in 1..m |-> sent[k]]
        /\ \A k \in 1..n : sent[k].table = Requested <=> k <= m
  BY DeliveredRows
<1>2. PICK m \in 0..n :
        /\ DOMAIN sent = 1..n /\ own = [k \in 1..m |-> sent[k]]
        /\ \A k \in 1..n : sent[k].table = Requested <=> k <= m
  BY <1>1
<1>3. PICK vs : vs = SortedBy(sent, before)
  OBVIOUS
<1>4. PICK Q : Q = {x \in Elements(sent) : x.table = Requested}
  OBVIOUS
<1>5. PICK K : K = {k \in 1..n : vs[k].table = Requested}
  OBVIOUS
<1>6. /\ DOMAIN vs = 1..n /\ \A k \in 1..n : vs[k] \in Elements(sent)
  <2>1. vs \in Seq(Elements(sent)) /\ Len(vs) = n
    BY <1>2, <1>3, SortedLists
  <2> QED BY <2>1
<1>7. K \in SUBSET (1..n) /\ \A k \in 1..n : k \in K <=> vs[k] \in Q
  BY <1>4, <1>5, <1>6
<1>8. \A k \in 1..n : sent[k] \in Q <=> k <= m
  BY <1>2, <1>4 DEF Elements
<1>9. \A j, k \in 1..m : j < k => <<sent[k], sent[j]>> \notin before
  BY <1>2
<1>10. Chosen(vs, K) = own
  <2>1. DOMAIN sent = 1..n /\ own = [k \in 1..m |-> sent[k]]
    BY <1>2
  <2>2. Foremost(sent, n, m, before, Q, K)
    BY <1>3, <1>7, <1>8, <1>9, <2>1 DEF Foremost
  <2> QED BY <1>3, <1>7, <2>1, <2>2, SortedKept
<1>11. Kept(vs) = Chosen(vs, K)
  BY <1>5, <1>6 DEF Kept, MatchesResolved
<1> QED BY <1>3, <1>10, <1>11

\* The same where the rows are not sorted.
LEMMA KeptFirst ==
  ASSUME NEW own, NEW others, RowsOf(Requested, own), RowsOf(Variant, others)
  PROVE  Kept(Delivered(own, others)) = own
<1>1. PICK sent : sent = Delivered(own, others)
  OBVIOUS
<1>2. PICK before : before = {}
  OBVIOUS
<1>3. StrictWeak(Elements(sent), before)
  BY <1>2 DEF StrictWeak
<1>4. Kept(SortedBy(sent, before)) = own
  BY <1>1, <1>2, <1>3, KeptOwn
<1>5. SortedBy(sent, before) = sent
  <2>1. PICK n \in Nat : DOMAIN sent = 1..n
    BY <1>1, DeliveredRows
  <2>2. sent = [k \in 1..n |-> sent[k]]
    <3>1. own = [k \in DOMAIN own |-> own[k]]
      <4>1. \A S : own \in Seq(S) => own = [k \in DOMAIN own |-> own[k]]
        OBVIOUS
      <4> QED BY <4>1 DEF RowsOf
    <3>2. own \o others = [k \in DOMAIN (own \o others) |-> (own \o others)[k]]
      <4>1. PICK ws : ws = own \o others
        OBVIOUS
      <4>2. DOMAIN ws = 1..(Len(own) + Len(others)) /\ ws = [k \in 1..(Len(own) + Len(others)) |-> ws[k]]
        BY <4>1, Joined DEF RowsOf
      <4> QED BY <4>1, <4>2
    <3>3. sent = [k \in DOMAIN sent |-> sent[k]]
      BY <1>1, <3>1, <3>2 DEF Delivered
    <3> QED BY <2>1, <3>3
  <2> QED BY <1>2, <1>3, <2>1, <2>2, SortedAlready
<1> QED BY <1>1, <1>4, <1>5

----------------------------------------------------------------------------
(* The rows of named objects, one list of rows for each.                   *)

\* The names come in the order of the server, and the rows of one are numbered.
NamedLists(lists, n, names) ==
  /\ DOMAIN lists = 1..n
  /\ \A i \in 1..n : lists[i] \in Seq(Elements(lists[i])) /\ lists[i] # <<>>
  /\ \A i \in 1..n : \A j \in DOMAIN lists[i] : lists[i][j].name = names[i] /\ lists[i][j].seq = j
  /\ \A i \in 1..n : names[i] \in DOMAIN Rank
  /\ \A i, j \in 1..n : i < j => Rank[names[i]] < Rank[names[j]]

LEMMA NamedSizes ==
  ASSUME NEW n \in Nat, NEW lists, NEW names, NamedLists(lists, n, names)
  PROVE  /\ DOMAIN lists = 1..n
         /\ \A i \in 1..n : \E size \in Nat \ {0} : DOMAIN lists[i] = 1..size
         /\ \A i, j \in 1..n : names[i] = names[j] => i = j
<1>1. ASSUME NEW i \in 1..n PROVE \E size \in Nat \ {0} : DOMAIN lists[i] = 1..size
  <2>1. PICK xs : xs = lists[i]
    OBVIOUS
  <2>2. xs \in Seq(Elements(xs)) /\ xs # <<>>
    BY <2>1 DEF NamedLists
  <2>3. \A S : \A ys \in Seq(S) : ys # <<>> => Len(ys) \in Nat \ {0} /\ DOMAIN ys = 1..Len(ys)
    OBVIOUS
  <2>4. Len(xs) \in Nat \ {0} /\ DOMAIN xs = 1..Len(xs)
    BY <2>2, <2>3
  <2> QED BY <2>1, <2>4
<1>2. ASSUME NEW i \in 1..n, NEW j \in 1..n, names[i] = names[j] PROVE i = j
  <2>1. Rank[names[i]] \in Nat /\ Rank[names[j]] \in Nat
    BY SpecCaptureAssumption DEF NamedLists
  <2>2. (i < j => Rank[names[i]] < Rank[names[j]]) /\ (j < i => Rank[names[j]] < Rank[names[i]])
    BY DEF NamedLists
  <2> QED BY <1>2, <2>1, <2>2
<1> QED BY <1>1, <1>2 DEF NamedLists

\* Row p of all is row entry[p][2] of object entry[p][1].
RowsThrough(rows, lists, n, names, c, entry) ==
  /\ rows = [p \in 1..c |-> rows[p]] /\ rows = Flattened(lists)
  /\ \A p \in 1..c : /\ entry[p][1] \in 1..n /\ entry[p][2] \in Nat \ {0}
                     /\ rows[p] = lists[entry[p][1]][entry[p][2]]
                     /\ rows[p].name = names[entry[p][1]] /\ rows[p].seq = entry[p][2]
                     /\ \A j \in 1..entry[p][2] : \E q \in 1..c : entry[q] = <<entry[p][1], j>>
  /\ \A i \in 1..n : \E p \in 1..c : entry[p] = <<i, 1>>
  /\ \A p, q \in 1..c :
       p < q <=> \/ entry[p][1] < entry[q][1]
                 \/ entry[p][1] = entry[q][1] /\ entry[p][2] < entry[q][2]

LEMMA NamedThrough ==
  ASSUME NEW n \in Nat, NEW lists, NEW names, NamedLists(lists, n, names)
  PROVE  \E c \in Nat : \E entry \in [1..c -> Entries(lists)] :
           /\ Through(lists, n, c, entry)
           /\ RowsThrough(Flattened(lists), lists, n, names, c, entry)
<1>1. PICK c \in Nat : \E entry \in [1..c -> Entries(lists)] : Through(lists, n, c, entry)
  BY NamedSizes, FlattenedEntries
<1>2. PICK entry \in [1..c -> Entries(lists)] : Through(lists, n, c, entry)
  BY <1>1
<1>3. PICK rows : rows = Flattened(lists)
  OBVIOUS
<1>4. /\ rows = [p \in 1..c |-> lists[entry[p][1]][entry[p][2]]]
      /\ \A i \in 1..n : \A j \in DOMAIN lists[i] : \E p \in 1..c : entry[p] = <<i, j>>
      /\ \A p \in 1..c : entry[p][1] \in 1..n /\ entry[p][2] \in DOMAIN lists[entry[p][1]]
      /\ \A p, q \in 1..c :
           p < q <=> \/ entry[p][1] < entry[q][1]
                     \/ entry[p][1] = entry[q][1] /\ entry[p][2] < entry[q][2]
  BY <1>2, <1>3 DEF Through
<1>5. ASSUME NEW p \in 1..c
      PROVE  /\ entry[p][1] \in 1..n /\ entry[p][2] \in Nat \ {0}
             /\ rows[p] = lists[entry[p][1]][entry[p][2]]
             /\ rows[p].name = names[entry[p][1]] /\ rows[p].seq = entry[p][2]
             /\ \A j \in 1..entry[p][2] : \E q \in 1..c : entry[q] = <<entry[p][1], j>>
  <2>1. PICK i : i = entry[p][1]
    OBVIOUS
  <2>2. PICK j : j = entry[p][2]
    OBVIOUS
  <2>3. i \in 1..n /\ j \in DOMAIN lists[i] /\ rows[p] = lists[i][j]
    BY <1>4, <2>1, <2>2
  <2>4. PICK size \in Nat \ {0} : DOMAIN lists[i] = 1..size
    BY <2>3, NamedSizes
  <2>5. lists[i][j].name = names[i] /\ lists[i][j].seq = j
    BY <2>3 DEF NamedLists
  <2>6. \A k \in 1..j : k \in DOMAIN lists[i]
    BY <2>3, <2>4
  <2>7. \A k \in 1..j : \E q \in 1..c : entry[q] = <<i, k>>
    BY <1>4, <2>3, <2>6
  <2>8. j \in Nat \ {0}
    BY <2>3, <2>4
  <2> QED BY <2>1, <2>2, <2>3, <2>5, <2>7, <2>8
<1>6. \A i \in 1..n : \E p \in 1..c : entry[p] = <<i, 1>>
  <2>1. \A i \in 1..n : 1 \in DOMAIN lists[i]
    <3>1. SUFFICES ASSUME NEW i \in 1..n PROVE 1 \in DOMAIN lists[i]
      OBVIOUS
    <3>2. PICK size \in Nat \ {0} : DOMAIN lists[i] = 1..size
      BY NamedSizes
    <3> QED BY <3>2
  <2> QED BY <1>4, <2>1
<1>7. rows = [p \in 1..c |-> rows[p]]
  BY <1>4
<1>8. RowsThrough(rows, lists, n, names, c, entry)
  BY <1>3, <1>4, <1>5, <1>6, <1>7 DEF RowsThrough
<1> QED BY <1>2, <1>3, <1>8

\* The rows of an object form a run of their own.
LEMMA RunsOfLists ==
  ASSUME NEW n \in Nat, NEW lists, NEW names, NamedLists(lists, n, names)
  PROVE  Runs(Flattened(lists)) = [i \in 1..n |-> lists[i]]
<1>1. PICK c \in Nat : \E entry \in [1..c -> Entries(lists)] :
        /\ Through(lists, n, c, entry)
        /\ RowsThrough(Flattened(lists), lists, n, names, c, entry)
  BY NamedThrough
<1>2. PICK entry \in [1..c -> Entries(lists)] :
        /\ Through(lists, n, c, entry)
        /\ RowsThrough(Flattened(lists), lists, n, names, c, entry)
  BY <1>1
<1>3. PICK rows : rows = Flattened(lists)
  OBVIOUS
<1>4. /\ rows = [p \in 1..c |-> rows[p]]
      /\ \A p \in 1..c : /\ entry[p][1] \in 1..n /\ entry[p][2] \in Nat \ {0}
                         /\ rows[p].name = names[entry[p][1]]
                         /\ \A j \in 1..entry[p][2] : \E q \in 1..c : entry[q] = <<entry[p][1], j>>
      /\ \A i \in 1..n : \E p \in 1..c : entry[p] = <<i, 1>>
      /\ \A p, q \in 1..c :
           p < q <=> \/ entry[p][1] < entry[q][1]
                     \/ entry[p][1] = entry[q][1] /\ entry[p][2] < entry[q][2]
  BY <1>2, <1>3 DEF RowsThrough
<1>0. \A p \in 1..c : rows[p].name = names[entry[p][1]]
  BY <1>4
<1>5. \A i, j \in 1..n : names[i] = names[j] => i = j
  BY NamedSizes
<1>6. PICK K : K = {k \in DOMAIN rows : k = 1 \/ rows[k].name # rows[k - 1].name}
  OBVIOUS
<1>7. Len(rows) = c /\ DOMAIN rows = 1..c
  BY <1>4
<1>8. ASSUME NEW p \in 1..c PROVE p \in K <=> entry[p][2] = 1
  <2>1. CASE entry[p][2] = 1 /\ p # 1
    <3>1. p - 1 \in 1..c /\ p - 1 < p
      BY <2>1
    <3>2. entry[p - 1][1] # entry[p][1]
      BY <1>4, <2>1, <3>1
    <3>3. rows[p].name # rows[p - 1].name
      BY <1>4, <1>5, <3>1, <3>2, SMTT(40)
    <3> QED BY <1>6, <1>7, <2>1, <3>3
  <2>2. CASE entry[p][2] # 1
    <3>1. PICK j : j = entry[p][2] - 1
      OBVIOUS
    <3>2. j \in 1..entry[p][2] /\ j < entry[p][2]
      BY <1>4, <2>2, <3>1
    <3>3. PICK q \in 1..c : entry[q] = <<entry[p][1], j>>
      BY <1>4, <3>2
    <3>4. entry[q][1] = entry[p][1] /\ entry[q][2] = j
      BY <3>3
    <3>5. q < p
      BY <1>4, <3>2, <3>4
    <3>6. PICK o \in 1..c : o = p - 1 /\ p # 1 /\ o < p /\ (q < o \/ q = o)
      BY <3>5
    <3>7. entry[o][1] = entry[p][1]
      BY <1>4, <3>4, <3>6
    <3>8. rows[p].name = rows[o].name
      BY <1>0, <3>7
    <3>9. p \notin K
      BY <1>6, <3>6, <3>8
    <3> QED BY <2>2, <3>9
  <2>3. CASE p = 1 /\ entry[p][2] = 1
    BY <1>6, <1>7, <2>3
  <2> QED BY <2>1, <2>2, <2>3
<1>9. PICK f : f = [i \in 1..n |-> CHOOSE p \in 1..c : entry[p] = <<i, 1>>]
  OBVIOUS
<1>10. \A i \in 1..n : f[i] \in 1..c /\ entry[f[i]] = <<i, 1>>
  <2>1. SUFFICES ASSUME NEW i \in 1..n PROVE f[i] \in 1..c /\ entry[f[i]] = <<i, 1>>
    OBVIOUS
  <2>2. f[i] = CHOOSE p \in 1..c : entry[p] = <<i, 1>>
    BY <1>9
  <2>3. \E p \in 1..c : entry[p] = <<i, 1>>
    BY <1>4
  <2> QED BY <2>2, <2>3
<1>11. \A i \in 1..n : entry[f[i]][1] = i /\ entry[f[i]][2] = 1
  BY <1>10
<1>12. K \in SUBSET (1..c) /\ f \in [1..n -> K]
  BY <1>6, <1>7, <1>8, <1>9, <1>10, <1>11
<1>13. \A p \in K : \E i \in 1..n : f[i] = p
  <2>1. SUFFICES ASSUME NEW p \in K PROVE \E i \in 1..n : f[i] = p
    OBVIOUS
  <2>2. p \in 1..c /\ entry[p][2] = 1 /\ entry[p][1] \in 1..n
    BY <1>4, <1>8, <1>12
  <2>3. PICK i \in 1..n : i = entry[p][1]
    BY <2>2
  <2>4. f[i] \in 1..c /\ entry[f[i]][1] = i /\ entry[f[i]][2] = 1
    BY <1>10, <1>11
  <2>5. ~(f[i] < p) /\ ~(p < f[i])
    BY <1>4, <2>2, <2>3, <2>4
  <2> QED BY <2>2, <2>4, <2>5
<1>14. \A i, j \in 1..n : i < j => f[i] < f[j]
  BY <1>4, <1>10, <1>11
<1>15. f = Places(K)
  BY <1>12, <1>13, <1>14, OnlyPlaces
<1>16. ASSUME NEW i \in 1..n
       PROVE  Chosen(rows, {p \in f[i]..Len(rows) : \A q \in f[i]..p : rows[q].name = rows[f[i]].name})
                = lists[i]
  <2>1. PICK R : R = {p \in f[i]..Len(rows) : \A q \in f[i]..p : rows[q].name = rows[f[i]].name}
    OBVIOUS
  <2>2. f[i] \in 1..c /\ entry[f[i]][1] = i /\ entry[f[i]][2] = 1
    BY <1>10, <1>11
  <2>3. R \in SUBSET (1..c)
    BY <1>7, <2>1, <2>2
  <2>4. \A p \in 1..c : p \in R <=> entry[p][1] = i
    <3>1. SUFFICES ASSUME NEW p \in 1..c PROVE p \in R <=> entry[p][1] = i
      OBVIOUS
    <3>2. ASSUME p \in R PROVE entry[p][1] = i
      <4>1. rows[p].name = rows[f[i]].name
        BY <2>1, <2>2, <3>2
      <4>2. entry[p][1] \in 1..n /\ names[entry[p][1]] = names[i]
        BY <1>4, <2>2, <4>1
      <4> QED BY <1>5, <4>2
    <3>3. ASSUME entry[p][1] = i PROVE p \in R
      <4>1. ~(p < f[i])
        BY <1>4, <2>2, <3>3
      <4>2. ASSUME NEW q \in f[i]..p PROVE rows[q].name = rows[f[i]].name
        <5>1. q \in 1..c /\ ~(q < f[i]) /\ ~(p < q)
          BY <2>2, <4>2
        <5>2. entry[q][1] = i
          BY <1>4, <2>2, <3>3, <5>1
        <5> QED BY <1>4, <2>2, <5>1, <5>2, SMTT(40)
      <4>3. p \in f[i]..Len(rows)
        BY <1>7, <2>2, <4>1
      <4> QED BY <2>1, <4>2, <4>3
    <3> QED BY <3>2, <3>3
  <2>5. lists[i] \in Seq(Elements(lists[i]))
    BY DEF NamedLists
  <2>6. Chosen(Flattened(lists), R) = lists[i]
    <3>1. Through(lists, n, c, entry)
      BY <1>2
    <3>2. c \in Nat /\ entry \in [1..c -> Entries(lists)] /\ n \in Nat
      OBVIOUS
    <3>3. FromOne(entry, c, i, R)
      BY <2>3, <2>4 DEF FromOne
    <3> QED BY <2>5, <3>1, <3>2, <3>3, OneOfLists
  <2> QED BY <1>3, <2>1, <2>6
<1>17. Runs(rows) = [i \in 1..n |->
          Chosen(rows, {p \in f[i]..Len(rows) : \A q \in f[i]..p : rows[q].name = rows[f[i]].name})]
  <2>1. Places(K) = f /\ DOMAIN f = 1..n
    BY <1>9, <1>15
  <2> QED BY <1>6, <2>1 DEF Runs
<1> QED BY <1>3, <1>16, <1>17

\* Rows in the order of their names and numbers.
NamedRows(rows) ==
  /\ \A k \in DOMAIN rows : rows[k].name \in DOMAIN Rank /\ rows[k].seq \in Nat
  /\ \A j, k \in DOMAIN rows : j < k =>
       \/ Rank[rows[j].name] < Rank[rows[k].name]
       \/ rows[j].name = rows[k].name /\ rows[j].seq < rows[k].seq

LEMMA ByNameWeak ==
  ASSUME NEW E, \A x \in E : x.name \in DOMAIN Rank /\ x.seq \in Nat
  PROVE  StrictWeak(E, ByName(E))
<1>1. PICK order : order = ByName(E)
  OBVIOUS
<1>2. \A x, y \in E : <<x, y>> \in order
        <=> Rank[x.name] < Rank[y.name] \/ (x.name = y.name /\ x.seq < y.seq)
  BY <1>1 DEF ByName
<1>3. \A x \in E : Rank[x.name] \in Nat /\ x.seq \in Nat
  BY SpecCaptureAssumption
<1>4. \A x, y \in E : Rank[x.name] = Rank[y.name] => x.name = y.name
  BY SpecCaptureAssumption
<1>5. ASSUME NEW x \in E, NEW y \in E, <<x, y>> \in order PROVE <<y, x>> \notin order
  BY <1>2, <1>3, <1>5
<1>6. ASSUME NEW x \in E, NEW y \in E, NEW z \in E, <<x, z>> \in order, <<x, y>> \notin order
      PROVE  <<y, z>> \in order
  <2>1. Rank[x.name] \in Nat /\ Rank[y.name] \in Nat /\ Rank[z.name] \in Nat
        /\ x.seq \in Nat /\ y.seq \in Nat /\ z.seq \in Nat
    BY <1>3
  <2>2. Rank[x.name] < Rank[z.name] \/ (x.name = z.name /\ x.seq < z.seq)
    BY <1>2, <1>6
  <2>3. ~(Rank[x.name] < Rank[y.name]) /\ ~(x.name = y.name /\ x.seq < y.seq)
    BY <1>2, <1>6
  <2>4. Rank[x.name] = Rank[y.name] => x.name = y.name
    BY <1>4
  <2>5. Rank[y.name] < Rank[z.name] \/ (y.name = z.name /\ y.seq < z.seq)
    BY <2>1, <2>2, <2>3, <2>4
  <2> QED BY <1>2, <2>5
<1> QED BY <1>1, <1>5, <1>6 DEF StrictWeak

\* Of such rows delivered, sorted by the server, the loop keeps those of the name
\* asked for, as they were.
LEMMA KeptNamed ==
  ASSUME NEW own, NEW others, RowsOf(Requested, own), RowsOf(Variant, others),
         NamedRows(own), NamedRows(others)
  PROVE  Kept(InNameOrder(Delivered(own, others))) = own
<1>1. PICK sent : sent = Delivered(own, others)
  OBVIOUS
<1>2. PICK before : before = ByName(Elements(sent))
  OBVIOUS
<1>3. PICK n \in Nat : /\ DOMAIN sent = 1..n
                       /\ \A k \in 1..n : sent[k] \in Elements(own) \cup Elements(others)
  BY <1>1, DeliveredRows
<1>4. \A x \in Elements(own) \cup Elements(others) : x.name \in DOMAIN Rank /\ x.seq \in Nat
  BY DEF NamedRows, Elements
<1>5. \A x \in Elements(sent) : x.name \in DOMAIN Rank /\ x.seq \in Nat
  BY <1>3, <1>4 DEF Elements
<1>6. StrictWeak(Elements(sent), before)
  BY <1>2, <1>5, ByNameWeak
<1>7. ASSUME NEW j \in DOMAIN own, NEW k \in DOMAIN own, j < k PROVE <<own[k], own[j]>> \notin before
  <2>1. /\ Rank[own[j].name] \in Nat /\ Rank[own[k].name] \in Nat
        /\ own[j].seq \in Nat /\ own[k].seq \in Nat
    BY SpecCaptureAssumption DEF NamedRows
  <2>2. \/ Rank[own[j].name] < Rank[own[k].name]
        \/ own[j].name = own[k].name /\ own[j].seq < own[k].seq
    BY <1>7 DEF NamedRows
  <2>3. ~(Rank[own[k].name] < Rank[own[j].name]) /\ ~(own[k].name = own[j].name /\ own[k].seq < own[j].seq)
    BY <2>1, <2>2
  <2> QED BY <1>2, <2>3 DEF ByName
<1>8. Kept(SortedBy(sent, before)) = own
  BY <1>1, <1>6, <1>7, KeptOwn
<1> QED BY <1>1, <1>2, <1>8 DEF InNameOrder

\* The rows of the objects of one table are such rows.
LEMMA NamedFlattened ==
  ASSUME NEW n \in Nat, NEW lists, NEW names, NamedLists(lists, n, names),
         NEW name, \A i \in 1..n : \A j \in DOMAIN lists[i] : lists[i][j].table = name
  PROVE  NamedRows(Flattened(lists)) /\ RowsOf(name, Flattened(lists))
<1>1. PICK c \in Nat : \E entry \in [1..c -> Entries(lists)] :
        /\ Through(lists, n, c, entry)
        /\ RowsThrough(Flattened(lists), lists, n, names, c, entry)
  BY NamedThrough
<1>2. PICK entry \in [1..c -> Entries(lists)] :
        /\ Through(lists, n, c, entry)
        /\ RowsThrough(Flattened(lists), lists, n, names, c, entry)
  BY <1>1
<1>3. PICK rows : rows = Flattened(lists)
  OBVIOUS
<1>4. /\ rows = [p \in 1..c |-> rows[p]]
      /\ \A p \in 1..c : /\ entry[p][1] \in 1..n /\ entry[p][2] \in Nat
                         /\ rows[p].name = names[entry[p][1]] /\ rows[p].seq = entry[p][2]
      /\ \A p, q \in 1..c :
           p < q <=> \/ entry[p][1] < entry[q][1]
                     \/ entry[p][1] = entry[q][1] /\ entry[p][2] < entry[q][2]
  BY <1>2, <1>3 DEF RowsThrough
<1>5. /\ \A i \in 1..n : names[i] \in DOMAIN Rank
      /\ \A i, j \in 1..n : i < j => Rank[names[i]] < Rank[names[j]]
  BY DEF NamedLists
<1>6. ASSUME NEW p \in 1..c, NEW q \in 1..c, p < q
      PROVE  \/ Rank[rows[p].name] < Rank[rows[q].name]
             \/ rows[p].name = rows[q].name /\ rows[p].seq < rows[q].seq
  <2>1. CASE entry[p][1] < entry[q][1]
    BY <1>4, <1>5, <2>1, SMTT(40)
  <2>2. CASE entry[p][1] = entry[q][1] /\ entry[p][2] < entry[q][2]
    BY <1>4, <2>2
  <2> QED BY <1>4, <1>6, <2>1, <2>2
<1>7. \A p \in 1..c : rows[p].name \in DOMAIN Rank /\ rows[p].seq \in Nat
  BY <1>4, <1>5
<1>8. DOMAIN rows = 1..c
  BY <1>4
<1>9. NamedRows(rows)
  BY <1>6, <1>7, <1>8 DEF NamedRows
<1>10. \A p \in 1..c : rows[p].table = name
  <2>1. \A p \in 1..c : entry[p][1] \in 1..n /\ entry[p][2] \in DOMAIN lists[entry[p][1]]
    BY <1>2 DEF Through
  <2>2. \A p \in 1..c : rows[p] = lists[entry[p][1]][entry[p][2]]
    BY <1>2, <1>3 DEF RowsThrough
  <2> QED BY <2>1, <2>2
<1>11. rows \in Seq(Elements(rows))
  <2>1. PICK S : S = Elements(rows)
    OBVIOUS
  <2>2. rows \in [1..c -> S]
    BY <1>4, <1>8, <2>1 DEF Elements
  <2>3. \A f \in [1..c -> S] : f \in Seq(S)
    OBVIOUS
  <2> QED BY <2>1, <2>2, <2>3
<1> QED BY <1>3, <1>8, <1>9, <1>10, <1>11 DEF RowsOf

----------------------------------------------------------------------------
(* What TableSpec makes of the rows of a table.                            *)

\* The parts of a table, entry by entry.
LEMMA ListEntries ==
  ASSUME NEW xs, xs \in Seq(Elements(xs))
  PROVE  /\ Len(xs) \in Nat /\ DOMAIN xs = 1..Len(xs) /\ xs = [k \in 1..Len(xs) |-> xs[k]]
         /\ \A k \in 1..Len(xs) : xs[k] \in Elements(xs)
         /\ xs # <<>> => Len(xs) # 0
<1>1. \A S : \A ys \in Seq(S) :
        /\ Len(ys) \in Nat /\ DOMAIN ys = 1..Len(ys) /\ ys = [k \in 1..Len(ys) |-> ys[k]]
        /\ ys # <<>> => Len(ys) # 0
  OBVIOUS
<1> QED BY <1>1 DEF Elements

LEMMA TableColumns ==
  ASSUME NEW t, IsTable(t)
  PROVE  \E n \in Nat :
           /\ DOMAIN t.columns = 1..n /\ t.columns = [k \in 1..n |-> t.columns[k]]
           /\ \A k \in 1..n : IsColumn(t.columns[k]) /\ t.columns[k].ordinal \in Nat
           /\ \A j, k \in 1..n : j < k => t.columns[j].ordinal < t.columns[k].ordinal
<1>1. PICK cs : cs = t.columns
  OBVIOUS
<1>2. /\ cs \in Seq(Elements(cs)) /\ \A c \in Elements(cs) : IsColumn(c)
      /\ \A j, k \in DOMAIN cs : j < k => cs[j].ordinal < cs[k].ordinal
  BY <1>1 DEF IsTable
<1>3. \A c \in Elements(cs) : c.ordinal \in Nat
  BY <1>2 DEF IsColumn
<1>4. /\ Len(cs) \in Nat /\ DOMAIN cs = 1..Len(cs) /\ cs = [k \in 1..Len(cs) |-> cs[k]]
      /\ \A k \in 1..Len(cs) : cs[k] \in Elements(cs)
  BY <1>2, ListEntries
<1> QED BY <1>1, <1>2, <1>3, <1>4

LEMMA ResolvedExact ==
  ASSUME IsTable(table)
  PROVE  Resolved = TableRows(Requested, table)
<1>1. ASSUME NEW name, NEW t PROVE RowsOf(name, TableRows(name, t))
  <2>1. PICK rows : rows = TableRows(name, t)
    OBVIOUS
  <2>2. CASE t.type = "none"
    <3>1. rows = <<>>
      BY <2>1, <2>2 DEF TableRows
    <3> QED BY <2>1, <3>1 DEF RowsOf
  <2>3. CASE t.type # "none"
    <3>1. rows = <<[table |-> name, definition |-> t]>>
      BY <2>1, <2>3 DEF TableRows
    <3>2. rows[1] \in Elements(rows) /\ DOMAIN rows = {1} /\ rows = <<rows[1]>>
      BY <3>1 DEF Elements
    <3>3. rows \in Seq(Elements(rows))
      <4>1. \A S : \A x \in S : <<x>> \in Seq(S)
        OBVIOUS
      <4> QED BY <3>2, <4>1
    <3>4. \A k \in DOMAIN rows : rows[k].table = name
      BY <3>1, <3>2
    <3> QED BY <2>1, <3>3, <3>4 DEF RowsOf
  <2> QED BY <2>2, <2>3
<1> QED BY <1>1, KeptFirst DEF Resolved

LEMMA Phrase == \A x, S : \A b \in BOOLEAN : (x \in S <=> b) => (x \in S) = b
<1> SUFFICES ASSUME NEW x, NEW S, NEW b \in BOOLEAN, x \in S <=> b PROVE (x \in S) = b
  OBVIOUS
<1>1. CASE b = TRUE
  BY <1>1
<1>2. CASE b = FALSE
  BY <1>2
<1> QED BY <1>1, <1>2

\* Every phrase of EXTRA is one fact, so that a column comes back as it is.
LEMMA ColumnExact ==
  ASSUME NEW c, IsColumn(c), NEW row, row.column = c, row.extra = Extra(c)
  PROVE  CapturedColumn(row) = c
<1>1. /\ "DEFAULT_GENERATED" \in Extra(c) <=> c.expression
      /\ "AUTO_INCREMENT" \in Extra(c) <=> c.facts["AutoIncrement"]
      /\ "INVISIBLE" \in Extra(c) <=> c.facts["Visibility"] = "invisible"
      /\ "ON UPDATE" \in Extra(c) <=> c.facts["OnUpdate"]
      /\ "VIRTUAL GENERATED" \in Extra(c) <=> c.facts["Generated"] = "virtual"
      /\ "STORED GENERATED" \in Extra(c) <=> c.facts["Generated"] = "stored"
  BY DEF Extra
<1>2. GeneratedKind(row.extra) = c.facts["Generated"]
  BY <1>1 DEF GeneratedKind, IsColumn
<1>3. (IF "INVISIBLE" \in row.extra THEN "invisible" ELSE "visible") = c.facts["Visibility"]
  BY <1>1 DEF IsColumn
<1>4. ("DEFAULT_GENERATED" \in row.extra) = c.expression
  <2>1. c.expression \in BOOLEAN
    BY DEF IsColumn
  <2>2. "DEFAULT_GENERATED" \in row.extra <=> c.expression
    BY <1>1
  <2> QED BY <2>1, <2>2, Phrase
<1>5. ("AUTO_INCREMENT" \in row.extra) = c.facts["AutoIncrement"]
  <2>1. c.facts["AutoIncrement"] \in BOOLEAN
    BY DEF IsColumn
  <2>2. "AUTO_INCREMENT" \in row.extra <=> c.facts["AutoIncrement"]
    BY <1>1
  <2> QED BY <2>1, <2>2, Phrase
<1>6. ("ON UPDATE" \in row.extra) = c.facts["OnUpdate"]
  <2>1. c.facts["OnUpdate"] \in BOOLEAN
    BY DEF IsColumn
  <2>2. "ON UPDATE" \in row.extra <=> c.facts["OnUpdate"]
    BY <1>1
  <2> QED BY <2>1, <2>2, Phrase
<1>7. PICK facts : facts = c.facts
  OBVIOUS
<1>8. [facts EXCEPT !["AutoIncrement"] = facts["AutoIncrement"],
                    !["Visibility"] = facts["Visibility"],
                    !["OnUpdate"] = facts["OnUpdate"],
                    !["Generated"] = facts["Generated"]] = facts
  <2>1. facts = [f \in DOMAIN facts |-> facts[f]]
    BY <1>7 DEF IsColumn
  <2> QED BY <2>1
<1>9. [c EXCEPT !.expression = c.expression, !.facts = c.facts] = c
  <2>1. c = [f \in DOMAIN c |-> c[f]]
    BY DEF IsColumn
  <2> QED BY <2>1
<1>10. CapturedColumn(row) = [c EXCEPT !.expression = c.expression, !.facts = c.facts]
  BY <1>2, <1>3, <1>4, <1>5, <1>6, <1>7, <1>8 DEF CapturedColumn
<1> QED BY <1>9, <1>10

LEMMA ColumnsExact ==
  ASSUME IsTable(table)
  PROVE  CapturedColumns = table.columns
<1>1. ASSUME NEW name, NEW t, IsTable(t)
      PROVE  /\ RowsOf(name, ColumnRows(name, t))
             /\ \A x \in Elements(ColumnRows(name, t)) : x.column.ordinal \in Nat
  <2>1. PICK cs : cs = t.columns
    OBVIOUS
  <2>2. PICK rows : rows = ColumnRows(name, t)
    OBVIOUS
  <2>3. PICK n \in Nat : DOMAIN cs = 1..n /\ \A k \in 1..n : cs[k].ordinal \in Nat
    BY <1>1, <2>1, TableColumns
  <2>4. rows = [k \in 1..n |-> [table |-> name, column |-> cs[k], extra |-> Extra(cs[k])]]
    BY <2>1, <2>2, <2>3 DEF ColumnRows
  <2>5. DOMAIN rows = 1..n /\ rows = [k \in 1..n |-> rows[k]]
        /\ \A k \in 1..n : rows[k].table = name /\ rows[k].column = cs[k]
    BY <2>4
  <2>6. \A k \in 1..n : cs[k].ordinal \in Nat
    BY <2>3
  <2>7. rows \in Seq(Elements(rows))
    <3>1. PICK S : S = Elements(rows)
      OBVIOUS
    <3>2. rows \in [1..n -> S]
      BY <2>5, <3>1 DEF Elements
    <3>3. \A f \in [1..n -> S] : f \in Seq(S)
      OBVIOUS
    <3> QED BY <3>1, <3>2, <3>3
  <2>8. \A x \in Elements(rows) : x.column.ordinal \in Nat
    BY <2>5, <2>6 DEF Elements
  <2> QED BY <2>2, <2>5, <2>7, <2>8 DEF RowsOf
<1>0. PICK n \in Nat :
        /\ DOMAIN table.columns = 1..n /\ table.columns = [k \in 1..n |-> table.columns[k]]
        /\ \A k \in 1..n : IsColumn(table.columns[k])
        /\ \A j, k \in 1..n : j < k => table.columns[j].ordinal < table.columns[k].ordinal
  BY TableColumns
<1>2. PICK own : own = ColumnRows(Requested, table)
  OBVIOUS
<1>3. PICK others : others = ColumnRows(Variant, Neighbour)
  OBVIOUS
<1>4. PICK sent : sent = Delivered(own, others)
  OBVIOUS
<1>5. PICK before : before = ByOrdinal(Elements(sent))
  OBVIOUS
<1>6. /\ RowsOf(Requested, own) /\ RowsOf(Variant, others)
      /\ \A x \in Elements(own) \cup Elements(others) : x.column.ordinal \in Nat
  BY <1>1, <1>2, <1>3, SpecCaptureAssumption
<1>7. \A x \in Elements(sent) : x.column.ordinal \in Nat
  <2>1. PICK m \in Nat : DOMAIN sent = 1..m /\ \A k \in 1..m : sent[k] \in Elements(own) \cup Elements(others)
    BY <1>4, <1>6, DeliveredRows
  <2> QED BY <1>6, <2>1 DEF Elements
<1>8. \A x, y \in Elements(sent) : <<x, y>> \in before <=> x.column.ordinal < y.column.ordinal
  BY <1>5 DEF ByOrdinal
<1>9. StrictWeak(Elements(sent), before)
  BY <1>7, <1>8 DEF StrictWeak
<1>10. \A k \in DOMAIN own : own[k].column = table.columns[k] /\ own[k].extra = Extra(table.columns[k])
  BY <1>2 DEF ColumnRows
<1>11. DOMAIN own = DOMAIN table.columns
  BY <1>2 DEF ColumnRows
<1>12. \A j, k \in DOMAIN own : j < k => <<own[k], own[j]>> \notin before
  <2>1. SUFFICES ASSUME NEW j \in DOMAIN own, NEW k \in DOMAIN own, j < k PROVE <<own[k], own[j]>> \notin before
    OBVIOUS
  <2>2. own[j].column.ordinal < own[k].column.ordinal
    BY <1>0, <1>10, <1>11, <2>1
  <2>3. own[j].column.ordinal \in Nat /\ own[k].column.ordinal \in Nat
    BY <1>6 DEF Elements
  <2> QED BY <1>5, <2>2, <2>3 DEF ByOrdinal
<1>13. Kept(SortedBy(sent, before)) = own
  BY <1>4, <1>6, <1>9, <1>12, KeptOwn
<1>14. CapturedColumns = [k \in DOMAIN own |-> CapturedColumn(own[k])]
  BY <1>2, <1>3, <1>4, <1>5, <1>13 DEF CapturedColumns
<1>15. \A k \in DOMAIN own : CapturedColumn(own[k]) = table.columns[k]
  <2>1. \A k \in DOMAIN own : IsColumn(table.columns[k])
    BY <1>0, <1>11
  <2> QED BY <1>10, <2>1, ColumnExact
<1> QED BY <1>0, <1>11, <1>14, <1>15

\* What each object of a table becomes, in rows of its own.
IndexRow(name, x, i) ==
  [table |-> name, name |-> x.name, seq |-> i, facts |-> x.facts,
   column |-> x.parts[i].column, subPart |-> x.parts[i].rest.prefix,
   collation |-> IF x.parts[i].rest.descending THEN "D" ELSE "A"]
IndexLists(name, t) == [k \in DOMAIN t.indexes |-> [i \in DOMAIN t.indexes[k].parts |->
                          IndexRow(name, t.indexes[k], i)]]
IndexNames(t) == [k \in DOMAIN t.indexes |-> t.indexes[k].name]

\* A list of rows made from a list, one from each of its entries.
LEMMA RowsFrom ==
  ASSUME NEW parts, parts \in Seq(Elements(parts)), parts # <<>>, NEW rows, DOMAIN rows = DOMAIN parts,
         rows = [i \in DOMAIN parts |-> rows[i]]
  PROVE  rows \in Seq(Elements(rows)) /\ rows # <<>> /\ 1 \in DOMAIN rows
<1>1. Len(parts) \in Nat /\ DOMAIN parts = 1..Len(parts) /\ Len(parts) # 0
  BY ListEntries
<1>2. PICK n \in Nat \ {0} : DOMAIN rows = 1..n /\ rows = [i \in 1..n |-> rows[i]]
  BY <1>1
<1>3. PICK S : S = Elements(rows)
  OBVIOUS
<1>4. rows \in [1..n -> S]
  BY <1>2, <1>3 DEF Elements
<1>5. \A f \in [1..n -> S] : f \in Seq(S)
  OBVIOUS
<1>6. 1 \in DOMAIN rows /\ DOMAIN <<>> = {}
  BY <1>2
<1> QED BY <1>3, <1>4, <1>5, <1>6

LEMMA TableIndexes ==
  ASSUME NEW t, IsTable(t)
  PROVE  \E n \in Nat :
           /\ DOMAIN t.indexes = 1..n /\ t.indexes = [k \in 1..n |-> t.indexes[k]]
           /\ \A k \in 1..n : IsIndex(t.indexes[k]) /\ t.indexes[k].name \in DOMAIN Rank
           /\ \A j, k \in 1..n : j < k => Rank[t.indexes[j].name] < Rank[t.indexes[k].name]
<1>1. PICK xs : xs = t.indexes
  OBVIOUS
<1>2. /\ xs \in Seq(Elements(xs)) /\ \A x \in Elements(xs) : IsIndex(x) /\ x.name \in DOMAIN Rank
      /\ \A j, k \in DOMAIN xs : j < k => Rank[xs[j].name] < Rank[xs[k].name]
  BY <1>1 DEF IsTable
<1>3. /\ Len(xs) \in Nat /\ DOMAIN xs = 1..Len(xs) /\ xs = [k \in 1..Len(xs) |-> xs[k]]
      /\ \A k \in 1..Len(xs) : xs[k] \in Elements(xs)
  BY <1>2, ListEntries
<1> QED BY <1>1, <1>2, <1>3

LEMMA IndexListsNamed ==
  ASSUME NEW t, IsTable(t), NEW name, NEW n \in Nat, DOMAIN t.indexes = 1..n
  PROVE  /\ NamedLists(IndexLists(name, t), n, IndexNames(t))
         /\ \A i \in 1..n : \A j \in DOMAIN IndexLists(name, t)[i] : IndexLists(name, t)[i][j].table = name
         /\ IndexRows(name, t) = Flattened(IndexLists(name, t))
<1>1. PICK xs : xs = t.indexes
  OBVIOUS
<1>2. PICK lists : lists = IndexLists(name, t)
  OBVIOUS
<1>3. PICK names : names = IndexNames(t)
  OBVIOUS
<1>4. /\ \A k \in 1..n : IsIndex(xs[k]) /\ xs[k].name \in DOMAIN Rank
      /\ \A j, k \in 1..n : j < k => Rank[xs[j].name] < Rank[xs[k].name]
  BY <1>1, TableIndexes
<1>5. lists = [k \in 1..n |-> [i \in DOMAIN xs[k].parts |-> IndexRow(name, xs[k], i)]]
  BY <1>1, <1>2 DEF IndexLists
<1>6. names = [k \in 1..n |-> xs[k].name]
  BY <1>1, <1>3 DEF IndexNames
<1>7. ASSUME NEW k \in 1..n
      PROVE  /\ lists[k] \in Seq(Elements(lists[k])) /\ lists[k] # <<>>
             /\ \A j \in DOMAIN lists[k] :
                  lists[k][j].name = names[k] /\ lists[k][j].seq = j /\ lists[k][j].table = name
  <2>1. PICK parts : parts = xs[k].parts
    OBVIOUS
  <2>2. PICK rows : rows = lists[k]
    OBVIOUS
  <2>3. parts \in Seq(Elements(parts)) /\ parts # <<>>
    BY <1>4, <2>1 DEF IsIndex
  <2>4. rows = [i \in DOMAIN parts |-> IndexRow(name, xs[k], i)]
    BY <1>5, <2>1, <2>2
  <2>5. DOMAIN rows = DOMAIN parts /\ rows = [i \in DOMAIN parts |-> rows[i]]
    BY <2>4
  <2>6. rows \in Seq(Elements(rows)) /\ rows # <<>>
    BY <2>3, <2>5, RowsFrom
  <2>7. \A j \in DOMAIN rows : rows[j].name = xs[k].name /\ rows[j].seq = j /\ rows[j].table = name
    BY <2>4 DEF IndexRow
  <2> QED BY <1>6, <2>2, <2>6, <2>7
<1>8. NamedLists(lists, n, names)
  BY <1>4, <1>5, <1>6, <1>7 DEF NamedLists
<1>9. IndexRows(name, t) = Flattened(lists)
  BY <1>2 DEF IndexRows, IndexLists, IndexRow
<1> QED BY <1>2, <1>3, <1>7, <1>8, <1>9

LEMMA IndexesExact ==
  ASSUME IsTable(table)
  PROVE  CapturedIndexes = table.indexes
<1>1. PICK xs : xs = table.indexes
  OBVIOUS
<1>2. PICK n \in Nat : /\ DOMAIN xs = 1..n /\ xs = [k \in 1..n |-> xs[k]]
                       /\ \A k \in 1..n : IsIndex(xs[k])
  BY <1>1, TableIndexes
<1>3. PICK lists : lists = IndexLists(Requested, table)
  OBVIOUS
<1>4. PICK own : own = IndexRows(Requested, table)
  OBVIOUS
<1>5. PICK others : others = IndexRows(Variant, Neighbour)
  OBVIOUS
<1>6. /\ NamedLists(lists, n, IndexNames(table)) /\ own = Flattened(lists)
      /\ NamedRows(own) /\ RowsOf(Requested, own)
  <2>1. /\ NamedLists(lists, n, IndexNames(table)) /\ own = Flattened(lists)
        /\ \A i \in 1..n : \A j \in DOMAIN lists[i] : lists[i][j].table = Requested
    BY <1>1, <1>2, <1>3, <1>4, IndexListsNamed, ZenonT(60)
  <2> QED BY <2>1, NamedFlattened
<1>7. NamedRows(others) /\ RowsOf(Variant, others)
  <2>1. IsTable(Neighbour)
    BY SpecCaptureAssumption
  <2>2. PICK m \in Nat : DOMAIN Neighbour.indexes = 1..m
    BY <2>1, TableIndexes
  <2>3. PICK ls : ls = IndexLists(Variant, Neighbour)
    OBVIOUS
  <2>4. /\ NamedLists(ls, m, IndexNames(Neighbour)) /\ others = Flattened(ls)
        /\ \A i \in 1..m : \A j \in DOMAIN ls[i] : ls[i][j].table = Variant
    BY <1>5, <2>1, <2>2, <2>3, IndexListsNamed
  <2> QED BY <2>4, NamedFlattened
<1>8. Kept(InNameOrder(Delivered(own, others))) = own
  BY <1>6, <1>7, KeptNamed
<1>9. PICK runs : runs = Runs(own)
  OBVIOUS
<1>10. runs = [k \in 1..n |-> lists[k]]
  BY <1>6, <1>9, RunsOfLists
<1>11. CapturedIndexes = [k \in DOMAIN runs |->
         [name |-> runs[k][1].name, facts |-> runs[k][1].facts,
          parts |-> [i \in DOMAIN runs[k] |-> Part(runs[k][i])]]]
  BY <1>4, <1>5, <1>8, <1>9 DEF CapturedIndexes
<1>12. ASSUME NEW k \in 1..n
       PROVE  [name |-> runs[k][1].name, facts |-> runs[k][1].facts,
               parts |-> [i \in DOMAIN runs[k] |-> Part(runs[k][i])]] = xs[k]
  <2>1. PICK x : x = xs[k]
    OBVIOUS
  <2>2. IsIndex(x)
    BY <1>2, <2>1
  <2>3. PICK rows : rows = runs[k]
    OBVIOUS
  <2>4. rows = [i \in DOMAIN x.parts |-> IndexRow(Requested, x, i)]
    BY <1>1, <1>2, <1>3, <1>10, <2>1, <2>3 DEF IndexLists
  <2>5. PICK parts : parts = x.parts
    OBVIOUS
  <2>6. /\ parts \in Seq(Elements(parts)) /\ parts # <<>>
        /\ \A q \in Elements(parts) :
             /\ q = [column |-> q.column,
                     rest |-> [prefix |-> q.rest.prefix, descending |-> q.rest.descending]]
             /\ q.rest.descending \in BOOLEAN
    BY <2>2, <2>5 DEF IsIndex
  <2>7. DOMAIN rows = DOMAIN parts /\ rows = [i \in DOMAIN parts |-> rows[i]]
    BY <2>4, <2>5
  <2>8. 1 \in DOMAIN rows
    BY <2>6, <2>7, RowsFrom
  <2>9. rows[1].name = x.name /\ rows[1].facts = x.facts
    BY <2>4, <2>8 DEF IndexRow
  <2>10. ASSUME NEW i \in DOMAIN parts PROVE Part(rows[i]) = parts[i]
    <3>1. /\ rows[i].column = parts[i].column /\ rows[i].subPart = parts[i].rest.prefix
          /\ rows[i].collation = IF parts[i].rest.descending THEN "D" ELSE "A"
      BY <2>4, <2>5 DEF IndexRow
    <3>2. PICK q \in Elements(parts) : q = parts[i]
      BY DEF Elements
    <3>3. q.rest.descending \in BOOLEAN
      BY <2>6
    <3>4. (rows[i].collation = "D") = q.rest.descending
      <4>1. CASE q.rest.descending = TRUE
        BY <3>1, <3>2, <4>1
      <4>2. CASE q.rest.descending = FALSE
        BY <3>1, <3>2, <4>2
      <4> QED BY <3>3, <4>1, <4>2
    <3>5. Part(rows[i]) = [column |-> q.column,
                           rest |-> [prefix |-> q.rest.prefix, descending |-> q.rest.descending]]
      BY <3>1, <3>2, <3>4 DEF Part
    <3> QED BY <2>6, <3>2, <3>5
  <2>11. [i \in DOMAIN rows |-> Part(rows[i])] = parts
    <3>1. parts = [i \in DOMAIN parts |-> parts[i]]
      BY <2>6, ListEntries
    <3> QED BY <2>7, <2>10, <3>1
  <2>12. x = [name |-> x.name, facts |-> x.facts, parts |-> x.parts]
    BY <2>2 DEF IsIndex
  <2> QED BY <2>1, <2>3, <2>5, <2>9, <2>11, <2>12
<1>13. CapturedIndexes = [k \in 1..n |-> xs[k]]
  BY <1>10, <1>11, <1>12
<1> QED BY <1>1, <1>2, <1>13

\* The constraints of a table, in the order sortConstraints gives them.
InOrderOfKind(c, d) ==
  \/ Rank[c.name] < Rank[d.name]
  \/ c.name = d.name /\ c.kind = "check" /\ d.kind = "foreignKey"

LEMMA TableConstraints ==
  ASSUME NEW t, IsTable(t)
  PROVE  \E n \in Nat :
           /\ DOMAIN t.constraints = 1..n /\ t.constraints = [k \in 1..n |-> t.constraints[k]]
           /\ \A k \in 1..n : IsConstraint(t.constraints[k]) /\ t.constraints[k].name \in DOMAIN Rank
           /\ \A j, k \in 1..n : j < k => InOrderOfKind(t.constraints[j], t.constraints[k])
<1>1. PICK cs : cs = t.constraints
  OBVIOUS
<1>2. /\ cs \in Seq(Elements(cs)) /\ \A c \in Elements(cs) : IsConstraint(c) /\ c.name \in DOMAIN Rank
      /\ \A j, k \in DOMAIN cs : j < k => InOrderOfKind(cs[j], cs[k])
  BY <1>1 DEF IsTable, InOrderOfKind
<1>3. /\ Len(cs) \in Nat /\ DOMAIN cs = 1..Len(cs) /\ cs = [k \in 1..Len(cs) |-> cs[k]]
      /\ \A k \in 1..Len(cs) : cs[k] \in Elements(cs)
  BY <1>2, ListEntries
<1> QED BY <1>1, <1>2, <1>3

\* Those of one kind, in the order of their names.
OfKind(cs, kind, n) ==
  /\ DOMAIN cs = 1..n /\ cs = [k \in 1..n |-> cs[k]]
  /\ \A k \in 1..n : cs[k].kind = kind /\ IsConstraint(cs[k]) /\ cs[k].name \in DOMAIN Rank
  /\ \A j, k \in 1..n : j < k => Rank[cs[j].name] < Rank[cs[k].name]

LEMMA ConstraintsOfKind ==
  ASSUME NEW t, IsTable(t), NEW kind
  PROVE  /\ \E n \in Nat : OfKind(ConstraintsOf(t, kind), kind, n)
         /\ Elements(ConstraintsOf(t, kind)) = {c \in Elements(t.constraints) : c.kind = kind}
<1>1. PICK cs : cs = t.constraints
  OBVIOUS
<1>2. PICK n \in Nat :
        /\ DOMAIN cs = 1..n /\ \A k \in 1..n : IsConstraint(cs[k]) /\ cs[k].name \in DOMAIN Rank
        /\ \A j, k \in 1..n : j < k => InOrderOfKind(cs[j], cs[k])
  BY <1>1, TableConstraints
<1>3. PICK K : K = {k \in 1..n : cs[k].kind = kind}
  OBVIOUS
<1>4. PICK ds : ds = ConstraintsOf(t, kind)
  OBVIOUS
<1>5. ds = Chosen(cs, K) /\ K \in SUBSET (1..n)
  BY <1>1, <1>2, <1>3, <1>4 DEF ConstraintsOf
<1>6. PICK m \in Nat : DOMAIN ds = 1..m /\ ds = [k \in 1..m |-> ds[k]]
  <2>1. ds \in Seq(Elements(cs)) /\ DOMAIN ds = 1..Cardinality(K) /\ Cardinality(K) \in Nat
    BY <1>2, <1>5, ChosenElements
  <2>2. \A S : \A ys \in Seq(S) : ys = [k \in DOMAIN ys |-> ys[k]]
    OBVIOUS
  <2> QED BY <2>1, <2>2
<1>7. Elements(ds) = {cs[i] : i \in K}
  <2>1. DOMAIN cs = 1..n /\ K \in SUBSET (1..n)
    BY <1>2, <1>5
  <2>2. Elements(Chosen(cs, K)) = {cs[i] : i \in K}
    <3>1. \A ys, M : \A k \in Nat : DOMAIN ys = 1..k /\ M \in SUBSET (1..k) =>
            Elements(Chosen(ys, M)) = {ys[i] : i \in M}
      BY ChosenElements, SMTT(40)
    <3> QED BY <2>1, <3>1
  <2> QED BY <1>5, <2>2, ZenonT(60)
<1>8. /\ \A k \in 1..m : \E i \in K : ds[k] = cs[i]
      /\ \A j, k \in 1..m : j < k => \E h, i \in K : h < i /\ ds[j] = cs[h] /\ ds[k] = cs[i]
  <2>1. /\ \A k \in DOMAIN ds : \E i \in K : ds[k] = cs[i]
        /\ \A j, k \in DOMAIN ds : j < k => \E h, i \in K : h < i /\ ds[j] = cs[h] /\ ds[k] = cs[i]
    BY <1>2, <1>5, ChosenOrder, SMTT(40)
  <2> QED BY <1>6, <2>1
<1>9. \A k \in 1..m : ds[k].kind = kind /\ IsConstraint(ds[k]) /\ ds[k].name \in DOMAIN Rank
  BY <1>2, <1>3, <1>8
<1>10. ASSUME NEW j \in 1..m, NEW k \in 1..m, j < k PROVE Rank[ds[j].name] < Rank[ds[k].name]
  <2>1. PICK h, i \in K : h < i /\ ds[j] = cs[h] /\ ds[k] = cs[i]
    BY <1>8, <1>10
  <2>2. InOrderOfKind(ds[j], ds[k])
    BY <1>2, <1>3, <2>1
  <2>3. ds[j].kind = ds[k].kind
    BY <1>9
  <2> QED BY <2>2, <2>3 DEF InOrderOfKind
<1>11. OfKind(ds, kind, m)
  BY <1>6, <1>9, <1>10 DEF OfKind
<1>12. Elements(ds) = {c \in Elements(cs) : c.kind = kind}
  <2>1. \A c : (\E i \in K : c = cs[i]) <=> c \in Elements(cs) /\ c.kind = kind
    BY <1>2, <1>3 DEF Elements
  <2> QED BY <1>7, <2>1
<1> QED BY <1>1, <1>4, <1>11, <1>12

LEMMA OfKindOnce ==
  ASSUME NEW n \in Nat, NEW cs, NEW kind, OfKind(cs, kind, n)
  PROVE  \A j, k \in 1..n : cs[j] = cs[k] => j = k
<1>1. /\ \A k \in 1..n : Rank[cs[k].name] \in Nat
      /\ \A j, k \in 1..n : j < k => Rank[cs[j].name] < Rank[cs[k].name]
  BY SpecCaptureAssumption DEF OfKind
<1>2. SUFFICES ASSUME NEW j \in 1..n, NEW k \in 1..n, cs[j] = cs[k] PROVE j = k
  OBVIOUS
<1>3. ~(Rank[cs[j].name] < Rank[cs[k].name]) /\ ~(Rank[cs[k].name] < Rank[cs[j].name])
  <2>1. PICK r \in Nat : r = Rank[cs[j].name] /\ r = Rank[cs[k].name]
    BY <1>1, <1>2
  <2>2. ~(r < r)
    OBVIOUS
  <2> QED BY <2>1, <2>2
<1> QED BY <1>1, <1>3

\* The order of names and kinds is strict and total on the constraints of a table.
LEMMA ByKindStrict ==
  ASSUME NEW t, IsTable(t)
  PROVE  StrictOrder(Elements(t.constraints), ByNameAndKind(Elements(t.constraints)))
<1>1. PICK cs : cs = t.constraints
  OBVIOUS
<1>2. PICK n \in Nat :
        /\ DOMAIN cs = 1..n /\ \A k \in 1..n : IsConstraint(cs[k]) /\ cs[k].name \in DOMAIN Rank
        /\ \A j, k \in 1..n : j < k => InOrderOfKind(cs[j], cs[k])
  BY <1>1, TableConstraints
<1>3. PICK E : E = Elements(cs)
  OBVIOUS
<1>4. PICK order : order = ByNameAndKind(E)
  OBVIOUS
<1>5. \A x \in E : x.kind \in {"check", "foreignKey"} /\ Rank[x.name] \in Nat
  BY <1>2, <1>3, SpecCaptureAssumption DEF Elements, IsConstraint
<1>6. \A x, y \in E : <<x, y>> \in order <=> InOrderOfKind(x, y)
  BY <1>4, <1>5 DEF ByNameAndKind, InOrderOfKind
<1>7. \A x \in E : ~InOrderOfKind(x, x)
  BY <1>5 DEF InOrderOfKind
<1>8. ASSUME NEW x \in E, NEW y \in E, x # y PROVE InOrderOfKind(x, y) \/ InOrderOfKind(y, x)
  <2>1. PICK i \in 1..n : x = cs[i]
    BY <1>2, <1>3 DEF Elements
  <2>2. PICK j \in 1..n : y = cs[j]
    BY <1>2, <1>3 DEF Elements
  <2>3. i < j \/ j < i
    BY <1>8, <2>1, <2>2
  <2> QED BY <1>2, <2>1, <2>2, <2>3
<1>9. ASSUME NEW x \in E, NEW y \in E, NEW z \in E, InOrderOfKind(x, y), InOrderOfKind(y, z)
      PROVE  InOrderOfKind(x, z)
  BY <1>5, <1>9 DEF InOrderOfKind
<1> QED BY <1>1, <1>3, <1>4, <1>6, <1>7, <1>8, <1>9 DEF StrictOrder

\* Sorting the constraints of one kind changes nothing.
LEMMA OnlyOfKind ==
  ASSUME NEW t, IsTable(t), NEW kind
  PROVE  Only(t, kind) = ConstraintsOf(t, kind)
<1>1. PICK ds : ds = ConstraintsOf(t, kind)
  OBVIOUS
<1>2. PICK n \in Nat : OfKind(ds, kind, n)
  BY <1>1, ConstraintsOfKind
<1>3. /\ DOMAIN ds = 1..n /\ ds = [k \in 1..n |-> ds[k]]
      /\ \A k \in 1..n : ds[k].kind = kind /\ Rank[ds[k].name] \in Nat
      /\ \A j, k \in 1..n : j < k => Rank[ds[j].name] < Rank[ds[k].name]
  BY <1>2, SpecCaptureAssumption DEF OfKind
<1>4. PICK order : order = ByNameAndKind(Elements(ds))
  OBVIOUS
<1>5. \A x \in Elements(ds) : x.kind = kind /\ Rank[x.name] \in Nat
  BY <1>3 DEF Elements
<1>6. \A x, y \in Elements(ds) : <<x, y>> \in order <=> Rank[x.name] < Rank[y.name]
  BY <1>4, <1>5 DEF ByNameAndKind
<1>7. StrictWeak(Elements(ds), order)
  BY <1>5, <1>6 DEF StrictWeak
<1>8. \A j, k \in 1..n : j < k => <<ds[k], ds[j]>> \notin order
  BY <1>3, <1>6 DEF Elements
<1>9. SortedBy(ds, order) = ds
  BY <1>3, <1>7, <1>8, SortedAlready
<1> QED BY <1>1, <1>4, <1>9 DEF Only, Sorted

\* Once joined, the checks and the foreign keys are sorted into what they were.
LEMMA HalvesSorted ==
  ASSUME NEW t, IsTable(t)
  PROVE  /\ Sorted(t.constraints) = t.constraints
         /\ Sorted(Only(t, "check") \o Only(t, "foreignKey")) = t.constraints
<1>1. PICK cs : cs = t.constraints
  OBVIOUS
<1>2. PICK n \in Nat :
        /\ DOMAIN cs = 1..n /\ cs = [k \in 1..n |-> cs[k]]
        /\ \A k \in 1..n : IsConstraint(cs[k]) /\ cs[k].name \in DOMAIN Rank
        /\ \A j, k \in 1..n : j < k => InOrderOfKind(cs[j], cs[k])
  BY <1>1, TableConstraints
<1>3. PICK E : E = Elements(cs)
  OBVIOUS
<1>4. PICK order : order = ByNameAndKind(E)
  OBVIOUS
<1>5. StrictOrder(E, order)
  BY <1>1, <1>3, <1>4, ByKindStrict
<1>6. \A k \in 1..n : cs[k] \in E /\ cs[k].kind \in {"check", "foreignKey"}
  BY <1>2, <1>3 DEF Elements, IsConstraint
<1>7. \A j, k \in 1..n : j < k => <<cs[j], cs[k]>> \in order
  BY <1>2, <1>4, <1>6 DEF InOrderOfKind, ByNameAndKind
<1>8. \A j, k \in 1..n : cs[j] = cs[k] => j = k
  <2>1. \A j, k \in 1..n : j < k => cs[j] # cs[k]
    BY <1>5, <1>6, <1>7 DEF StrictOrder
  <2> QED BY <2>1
<1>9. Sorted(cs) = cs
  <2>1. SortedBy(cs, order) = cs
    BY <1>2, <1>3, <1>5, <1>7, <1>8, SortedUnique
  <2> QED BY <1>3, <1>4, <2>1 DEF Sorted
<1>10. PICK gs : gs = ConstraintsOf(t, "check")
  OBVIOUS
<1>11. PICK fs : fs = ConstraintsOf(t, "foreignKey")
  OBVIOUS
<1>12. PICK a \in Nat : OfKind(gs, "check", a)
  BY <1>10, ConstraintsOfKind
<1>13. PICK f \in Nat : OfKind(fs, "foreignKey", f)
  BY <1>11, ConstraintsOfKind
<1>14. /\ DOMAIN gs = 1..a /\ gs = [k \in 1..a |-> gs[k]] /\ \A k \in 1..a : gs[k].kind = "check"
       /\ \A j, k \in 1..a : gs[j] = gs[k] => j = k
  <2>1. /\ DOMAIN gs = 1..a /\ gs = [k \in 1..a |-> gs[k]]
        /\ \A k \in 1..a : gs[k].kind = "check" /\ Rank[gs[k].name] \in Nat
        /\ \A j, k \in 1..a : j < k => Rank[gs[j].name] < Rank[gs[k].name]
    BY <1>12, SpecCaptureAssumption DEF OfKind
  <2>2. \A j, k \in 1..a : gs[j] = gs[k] => j = k
    BY <1>12, OfKindOnce
  <2> QED BY <2>1, <2>2
<1>15. /\ DOMAIN fs = 1..f /\ fs = [k \in 1..f |-> fs[k]] /\ \A k \in 1..f : fs[k].kind = "foreignKey"
       /\ \A j, k \in 1..f : fs[j] = fs[k] => j = k
  <2>1. /\ DOMAIN fs = 1..f /\ fs = [k \in 1..f |-> fs[k]]
        /\ \A k \in 1..f : fs[k].kind = "foreignKey" /\ Rank[fs[k].name] \in Nat
        /\ \A j, k \in 1..f : j < k => Rank[fs[j].name] < Rank[fs[k].name]
    BY <1>13, SpecCaptureAssumption DEF OfKind
  <2>2. \A j, k \in 1..f : fs[j] = fs[k] => j = k
    BY <1>13, OfKindOnce
  <2> QED BY <2>1, <2>2
<1>16. PICK ws : ws = gs \o fs
  OBVIOUS
<1>17. /\ DOMAIN ws = 1..(a + f)
       /\ \A k \in 1..a : ws[k] = gs[k]
       /\ \A k \in 1..f : ws[a + k] = fs[k]
  <2>1. \A m \in Nat : \A xs : DOMAIN xs = 1..m /\ xs = [k \in 1..m |-> xs[k]] =>
          xs \in Seq(Elements(xs)) /\ Len(xs) = m
    <3>1. SUFFICES ASSUME NEW m \in Nat, NEW xs, DOMAIN xs = 1..m, xs = [k \in 1..m |-> xs[k]]
                   PROVE  xs \in Seq(Elements(xs)) /\ Len(xs) = m
      OBVIOUS
    <3>2. PICK S : S = Elements(xs)
      OBVIOUS
    <3>3. xs \in [1..m -> S]
      BY <3>1, <3>2 DEF Elements
    <3>4. \A g \in [1..m -> S] : g \in Seq(S) /\ Len(g) = m
      OBVIOUS
    <3> QED BY <3>2, <3>3, <3>4
  <2>2. gs \in Seq(Elements(gs)) /\ Len(gs) = a
    BY <1>14, <2>1
  <2>3. fs \in Seq(Elements(fs)) /\ Len(fs) = f
    BY <1>15, <2>1
  <2>4. /\ DOMAIN ws = 1..(Len(gs) + Len(fs))
        /\ \A k \in 1..Len(gs) : ws[k] = gs[k]
        /\ \A k \in 1..Len(fs) : ws[Len(gs) + k] = fs[k]
    <3>1. PICK S, T : gs \in Seq(S) /\ fs \in Seq(T)
      BY <2>2, <2>3
    <3> HIDE <2>2, <2>3
    <3> QED BY <1>16, <3>1, Joined
  <2> QED BY <2>2, <2>3, <2>4
<1>18. \A k \in 1..(a + f) : \/ k \in 1..a /\ ws[k] = gs[k] /\ ws[k].kind = "check"
                             \/ k - a \in 1..f /\ ws[k] = fs[k - a] /\ ws[k].kind = "foreignKey"
  <2>1. SUFFICES ASSUME NEW k \in 1..(a + f)
                 PROVE  \/ k \in 1..a /\ ws[k] = gs[k] /\ ws[k].kind = "check"
                        \/ k - a \in 1..f /\ ws[k] = fs[k - a] /\ ws[k].kind = "foreignKey"
    OBVIOUS
  <2>2. CASE k <= a
    <3>1. k \in 1..a
      BY <2>2
    <3> QED BY <1>14, <1>17, <3>1
  <2>3. CASE ~(k <= a)
    <3>1. PICK i : i = k - a
      OBVIOUS
    <3>2. i \in 1..f /\ k = a + i
      BY <2>3, <3>1
    <3>3. ws[k] = fs[i]
      BY <1>17, <3>2
    <3>4. fs[i].kind = "foreignKey"
      BY <1>15, <3>2
    <3> QED BY <3>1, <3>2, <3>3, <3>4
  <2> QED BY <2>2, <2>3
<1>19. \A j, k \in 1..(a + f) : ws[j] = ws[k] => j = k
  <2>1. SUFFICES ASSUME NEW j \in 1..(a + f), NEW k \in 1..(a + f), ws[j] = ws[k] PROVE j = k
    OBVIOUS
  <2>2. CASE j \in 1..a /\ ws[j] = gs[j] /\ ws[j].kind = "check"
    BY <1>14, <1>18, <2>1, <2>2
  <2>3. CASE j - a \in 1..f /\ ws[j] = fs[j - a] /\ ws[j].kind = "foreignKey"
    <3>1. k - a \in 1..f /\ ws[k] = fs[k - a]
      BY <1>18, <2>1, <2>3
    <3>2. j - a = k - a
      BY <1>15, <2>1, <2>3, <3>1
    <3> QED BY <3>2
  <2> QED BY <1>18, <2>2, <2>3
<1>20. Elements(ws) = E
  <2>1. Elements(gs) = {c \in E : c.kind = "check"} /\ Elements(fs) = {c \in E : c.kind = "foreignKey"}
    BY <1>1, <1>3, <1>10, <1>11, ConstraintsOfKind
  <2>2. ASSUME NEW x \in Elements(ws) PROVE x \in E
    <3>1. PICK k \in 1..(a + f) : x = ws[k]
      BY <1>17 DEF Elements
    <3>2. x \in Elements(gs) \/ x \in Elements(fs)
      BY <1>14, <1>15, <1>18, <3>1, ZenonT(60) DEF Elements
    <3> QED BY <2>1, <3>2
  <2>3. ASSUME NEW x \in E PROVE x \in Elements(ws)
    <3>1. x \in Elements(gs) \/ x \in Elements(fs)
      BY <1>2, <1>3, <1>6, <2>1, SMTT(40) DEF Elements
    <3>2. CASE x \in Elements(gs)
      <4>1. PICK k \in 1..a : x = gs[k]
        BY <1>14, <3>2 DEF Elements
      <4>2. k \in 1..(a + f)
        BY <4>1
      <4>3. x = ws[k]
        BY <1>17, <4>1
      <4> QED BY <1>17, <4>2, <4>3 DEF Elements
    <3>3. CASE x \in Elements(fs)
      <4>1. PICK k \in 1..f : x = fs[k]
        BY <1>15, <3>3 DEF Elements
      <4>2. a + k \in 1..(a + f) /\ x = ws[a + k]
        BY <1>17, <4>1
      <4> QED BY <1>17, <4>2 DEF Elements
    <3> QED BY <3>1, <3>2, <3>3
  <2> QED BY <2>2, <2>3
<1>21. Sorted(ws) = cs
  <2>1. SortedBy(ws, order) = cs
    <3>1. a + f \in Nat /\ StrictOrder(Elements(ws), order) /\ Elements(cs) = Elements(ws)
      BY <1>3, <1>5, <1>20
    <3> QED BY <1>2, <1>7, <1>17, <1>19, <3>1, SortedUnique
  <2> QED BY <1>4, <1>20, <2>1 DEF Sorted
<1>22. Only(t, "check") \o Only(t, "foreignKey") = ws
  BY <1>10, <1>11, <1>16, OnlyOfKind
<1> QED BY <1>1, <1>9, <1>21, <1>22

LEMMA CheckRowsNamed ==
  ASSUME NEW t, IsTable(t), NEW name
  PROVE  NamedRows(CheckRows(name, t)) /\ RowsOf(name, CheckRows(name, t))
<1>1. PICK cs : cs = ConstraintsOf(t, "check")
  OBVIOUS
<1>2. PICK rows : rows = CheckRows(name, t)
  OBVIOUS
<1>3. PICK n \in Nat : OfKind(cs, "check", n)
  BY <1>1, ConstraintsOfKind
<1>4. /\ DOMAIN cs = 1..n /\ \A k \in 1..n : cs[k].name \in DOMAIN Rank
      /\ \A j, k \in 1..n : j < k => Rank[cs[j].name] < Rank[cs[k].name]
  BY <1>3 DEF OfKind
<1>5. rows = [k \in 1..n |-> [table |-> name, name |-> cs[k].name, seq |-> 1, facts |-> cs[k].facts]]
  BY <1>1, <1>2, <1>4 DEF CheckRows
<1>6. /\ DOMAIN rows = 1..n /\ rows = [k \in 1..n |-> rows[k]]
      /\ \A k \in 1..n : rows[k].table = name /\ rows[k].name = cs[k].name /\ rows[k].seq = 1
  BY <1>5
<1>7. rows \in Seq(Elements(rows))
  <2>1. PICK S : S = Elements(rows)
    OBVIOUS
  <2>2. rows \in [1..n -> S]
    BY <1>6, <2>1 DEF Elements
  <2>3. \A f \in [1..n -> S] : f \in Seq(S)
    OBVIOUS
  <2> QED BY <2>1, <2>2, <2>3
<1>8. NamedRows(rows)
  BY <1>4, <1>6 DEF NamedRows
<1> QED BY <1>2, <1>6, <1>7, <1>8 DEF RowsOf

LEMMA ChecksExact ==
  ASSUME IsTable(table)
  PROVE  CapturedChecks = Only(table, "check")
<1>1. PICK cs : cs = ConstraintsOf(table, "check")
  OBVIOUS
<1>2. PICK n \in Nat : OfKind(cs, "check", n)
  BY <1>1, ConstraintsOfKind
<1>3. /\ DOMAIN cs = 1..n /\ cs = [k \in 1..n |-> cs[k]]
      /\ \A k \in 1..n : cs[k].kind = "check" /\ IsConstraint(cs[k])
  BY <1>2 DEF OfKind
<1>4. PICK own : own = CheckRows(Requested, table)
  OBVIOUS
<1>5. PICK others : others = CheckRows(Variant, Neighbour)
  OBVIOUS
<1>6. Kept(InNameOrder(Delivered(own, others))) = own
  BY <1>4, <1>5, CheckRowsNamed, KeptNamed, SpecCaptureAssumption
<1>7. CapturedChecks = [k \in DOMAIN own |-> [name |-> own[k].name, kind |-> "check", facts |-> own[k].facts]]
  BY <1>4, <1>5, <1>6 DEF CapturedChecks
<1>8. own = [k \in 1..n |-> [table |-> Requested, name |-> cs[k].name, seq |-> 1, facts |-> cs[k].facts]]
  BY <1>1, <1>3, <1>4 DEF CheckRows
<1>9. CapturedChecks = [k \in 1..n |-> [name |-> cs[k].name, kind |-> "check", facts |-> cs[k].facts]]
  BY <1>7, <1>8
<1>10. \A k \in 1..n : [name |-> cs[k].name, kind |-> "check", facts |-> cs[k].facts] = cs[k]
  BY <1>3 DEF IsConstraint
<1>11. CapturedChecks = cs
  BY <1>3, <1>9, <1>10
<1> QED BY <1>1, <1>11, OnlyOfKind

KeyRow(name, c, i) ==
  [table |-> name, name |-> c.name, seq |-> i, rule |-> c.facts.Rule,
   column |-> c.facts.Columns[i], refTable |-> c.facts.Reference[1],
   refColumn |-> c.facts.Reference[2][i]]
KeyLists(name, keys) == [k \in DOMAIN keys |-> [i \in DOMAIN keys[k].facts.Columns |-> KeyRow(name, keys[k], i)]]
KeyNames(keys) == [k \in DOMAIN keys |-> keys[k].name]

LEMMA KeyListsNamed ==
  ASSUME NEW t, IsTable(t), NEW name, NEW keys, keys = ConstraintsOf(t, "foreignKey"),
         NEW n \in Nat, DOMAIN keys = 1..n
  PROVE  /\ NamedLists(KeyLists(name, keys), n, KeyNames(keys))
         /\ \A i \in 1..n : \A j \in DOMAIN KeyLists(name, keys)[i] : KeyLists(name, keys)[i][j].table = name
         /\ ForeignKeyRows(name, t) = Flattened(KeyLists(name, keys))
<1>1. PICK m \in Nat : OfKind(keys, "foreignKey", m)
  BY ConstraintsOfKind
<1>2. m = n
  <2>1. 1..m = 1..n
    BY <1>1 DEF OfKind
  <2> QED BY <2>1
<1>3. /\ \A k \in 1..n : /\ keys[k].kind = "foreignKey" /\ IsConstraint(keys[k])
                         /\ keys[k].name \in DOMAIN Rank
      /\ \A j, k \in 1..n : j < k => Rank[keys[j].name] < Rank[keys[k].name]
  BY <1>1, <1>2 DEF OfKind
<1>4. PICK lists : lists = KeyLists(name, keys)
  OBVIOUS
<1>5. PICK names : names = KeyNames(keys)
  OBVIOUS
<1>6. lists = [k \in 1..n |-> [i \in DOMAIN keys[k].facts.Columns |-> KeyRow(name, keys[k], i)]]
  BY <1>4 DEF KeyLists
<1>7. names = [k \in 1..n |-> keys[k].name]
  BY <1>5 DEF KeyNames
<1>8. ASSUME NEW k \in 1..n
      PROVE  /\ lists[k] \in Seq(Elements(lists[k])) /\ lists[k] # <<>>
             /\ \A j \in DOMAIN lists[k] :
                  lists[k][j].name = names[k] /\ lists[k][j].seq = j /\ lists[k][j].table = name
  <2>1. PICK columns : columns = keys[k].facts.Columns
    OBVIOUS
  <2>2. PICK rows : rows = lists[k]
    OBVIOUS
  <2>3. columns \in Seq(Elements(columns)) /\ columns # <<>>
    BY <1>3, <2>1 DEF IsConstraint, IsForeignKey
  <2>4. rows = [i \in DOMAIN columns |-> KeyRow(name, keys[k], i)]
    BY <1>6, <2>1, <2>2
  <2>5. DOMAIN rows = DOMAIN columns /\ rows = [i \in DOMAIN columns |-> rows[i]]
    BY <2>4
  <2>6. rows \in Seq(Elements(rows)) /\ rows # <<>>
    BY <2>3, <2>5, RowsFrom
  <2>7. \A j \in DOMAIN rows : rows[j].name = keys[k].name /\ rows[j].seq = j /\ rows[j].table = name
    BY <2>4 DEF KeyRow
  <2> QED BY <1>7, <2>2, <2>6, <2>7
<1>9. NamedLists(lists, n, names)
  BY <1>3, <1>6, <1>7, <1>8 DEF NamedLists
<1>10. ForeignKeyRows(name, t) = Flattened(lists)
  BY <1>4 DEF ForeignKeyRows, KeyLists, KeyRow
<1> QED BY <1>4, <1>5, <1>8, <1>9, <1>10

LEMMA KeyRowsNamed ==
  ASSUME NEW t, IsTable(t), NEW name
  PROVE  NamedRows(ForeignKeyRows(name, t)) /\ RowsOf(name, ForeignKeyRows(name, t))
<1>1. PICK keys : keys = ConstraintsOf(t, "foreignKey")
  OBVIOUS
<1>2. PICK n \in Nat : DOMAIN keys = 1..n
  BY <1>1, ConstraintsOfKind DEF OfKind
<1>3. PICK lists : lists = KeyLists(name, keys)
  OBVIOUS
<1>4. /\ NamedLists(lists, n, KeyNames(keys)) /\ ForeignKeyRows(name, t) = Flattened(lists)
      /\ \A i \in 1..n : \A j \in DOMAIN lists[i] : lists[i][j].table = name
  BY <1>1, <1>2, <1>3, KeyListsNamed
<1> QED BY <1>4, NamedFlattened

LEMMA ForeignKeysExact ==
  ASSUME IsTable(table)
  PROVE  CapturedForeignKeys = Only(table, "foreignKey")
<1>1. PICK keys : keys = ConstraintsOf(table, "foreignKey")
  OBVIOUS
<1>2. PICK n \in Nat : OfKind(keys, "foreignKey", n)
  BY <1>1, ConstraintsOfKind
<1>3. /\ DOMAIN keys = 1..n /\ keys = [k \in 1..n |-> keys[k]]
      /\ \A k \in 1..n : keys[k].kind = "foreignKey" /\ IsConstraint(keys[k])
  BY <1>2 DEF OfKind
<1>4. PICK lists : lists = KeyLists(Requested, keys)
  OBVIOUS
<1>5. PICK own : own = ForeignKeyRows(Requested, table)
  OBVIOUS
<1>6. PICK others : others = ForeignKeyRows(Variant, Neighbour)
  OBVIOUS
<1>7. /\ NamedLists(lists, n, KeyNames(keys)) /\ own = Flattened(lists)
      /\ NamedRows(own) /\ RowsOf(Requested, own)
  <2>1. /\ NamedLists(lists, n, KeyNames(keys)) /\ own = Flattened(lists)
        /\ \A i \in 1..n : \A j \in DOMAIN lists[i] : lists[i][j].table = Requested
    BY <1>1, <1>3, <1>4, <1>5, KeyListsNamed
  <2> QED BY <2>1, NamedFlattened
<1>8. NamedRows(others) /\ RowsOf(Variant, others)
  BY <1>6, KeyRowsNamed, SpecCaptureAssumption
<1>9. Kept(InNameOrder(Delivered(own, others))) = own
  BY <1>7, <1>8, KeptNamed
<1>10. PICK runs : runs = Runs(own)
  OBVIOUS
<1>11. runs = [k \in 1..n |-> lists[k]]
  BY <1>7, <1>10, RunsOfLists
<1>12. CapturedForeignKeys = [k \in DOMAIN runs |->
         [name |-> runs[k][1].name, kind |-> "foreignKey",
          facts |-> [Columns |-> [i \in DOMAIN runs[k] |-> runs[k][i].column],
                     Reference |-> <<runs[k][1].refTable, [i \in DOMAIN runs[k] |-> runs[k][i].refColumn]>>,
                     Rule |-> runs[k][1].rule]]]
  BY <1>5, <1>6, <1>9, <1>10 DEF CapturedForeignKeys
<1>13. ASSUME NEW k \in 1..n
       PROVE  [name |-> runs[k][1].name, kind |-> "foreignKey",
               facts |-> [Columns |-> [i \in DOMAIN runs[k] |-> runs[k][i].column],
                          Reference |-> <<runs[k][1].refTable, [i \in DOMAIN runs[k] |-> runs[k][i].refColumn]>>,
                          Rule |-> runs[k][1].rule]] = keys[k]
  <2>1. PICK c : c = keys[k]
    OBVIOUS
  <2>2. IsForeignKey(c) /\ c = [name |-> c.name, kind |-> "foreignKey", facts |-> c.facts]
    <3>1. IsConstraint(c) /\ c.kind = "foreignKey"
      BY <1>3, <2>1
    <3> QED BY <3>1 DEF IsConstraint
  <2>3. PICK rows : rows = runs[k]
    OBVIOUS
  <2>4. PICK columns : columns = c.facts.Columns
    OBVIOUS
  <2>5. rows = [i \in DOMAIN columns |-> KeyRow(Requested, c, i)]
    BY <1>3, <1>4, <1>11, <2>1, <2>3, <2>4 DEF KeyLists
  <2>6. /\ columns \in Seq(Elements(columns)) /\ columns # <<>>
        /\ c.facts = [Columns |-> columns, Reference |-> c.facts.Reference, Rule |-> c.facts.Rule]
        /\ c.facts.Reference = <<c.facts.Reference[1], [i \in DOMAIN columns |-> c.facts.Reference[2][i]]>>
    BY <2>2, <2>4 DEF IsForeignKey
  <2>7. DOMAIN rows = DOMAIN columns /\ rows = [i \in DOMAIN columns |-> rows[i]]
    BY <2>5
  <2>8. 1 \in DOMAIN rows
    BY <2>6, <2>7, RowsFrom
  <2>9. rows[1].name = c.name /\ rows[1].refTable = c.facts.Reference[1] /\ rows[1].rule = c.facts.Rule
    BY <2>5, <2>8 DEF KeyRow
  <2>10. \A i \in DOMAIN columns : rows[i].column = columns[i] /\ rows[i].refColumn = c.facts.Reference[2][i]
    BY <2>4, <2>5 DEF KeyRow
  <2>11. [i \in DOMAIN rows |-> rows[i].column] = columns
    <3>1. columns = [i \in DOMAIN columns |-> columns[i]]
      BY <2>6, ListEntries
    <3> QED BY <2>7, <2>10, <3>1
  <2>12. [i \in DOMAIN rows |-> rows[i].refColumn] = [i \in DOMAIN columns |-> c.facts.Reference[2][i]]
    BY <2>7, <2>10
  <2>13. <<rows[1].refTable, [i \in DOMAIN rows |-> rows[i].refColumn]>> = c.facts.Reference
    BY <2>6, <2>9, <2>12
  <2> QED BY <2>1, <2>2, <2>3, <2>6, <2>9, <2>11, <2>13
<1>14. CapturedForeignKeys = [k \in 1..n |-> keys[k]]
  BY <1>11, <1>12, <1>13
<1>15. CapturedForeignKeys = keys
  BY <1>3, <1>14
<1> QED BY <1>1, <1>15, OnlyOfKind

\* Whatever the table and its neighbour.
LEMMA RowsFaithfulAlways == table \in Definition => RowsFaithful
<1> SUFFICES ASSUME table \in Definition PROVE RowsFaithful
  OBVIOUS
<1>1. IsTable(table)
  BY SpecCaptureAssumption
<1> QED BY <1>1, ResolvedExact, ColumnsExact, IndexesExact, ChecksExact, ForeignKeysExact, HalvesSorted
       DEF RowsFaithful

----------------------------------------------------------------------------
(* Types.                                                                  *)

Stage == {"idle", "resolve", "columns", "indexes", "checks", "foreignKeys", "done"}
Underway == pc \notin {"idle", "done"}

SpecFields == {"level", "comment", "columns", "indexes", "constraints", "captured"}

\* TypeOK, and what it rests on: before the table is resolved there is no spec.
TInv ==
  /\ TypeOK
  /\ DOMAIN versions = 1..Len(versions) /\ Len(versions) \in Nat \ {0}
  /\ DOMAIN spec = SpecFields
  /\ spec = [f \in SpecFields |-> spec[f]]
  /\ pc \in {"idle", "resolve"} => spec = ZeroSpec
  /\ pc \notin {"idle", "resolve"} /\ error = "none" => spec.captured = request

LEMMA ZeroSpecFields ==
  /\ DOMAIN ZeroSpec = SpecFields
  /\ ZeroSpec = [f \in SpecFields |-> ZeroSpec[f]]
  /\ ZeroSpec.captured = {}
  BY DEF ZeroSpec, SpecFields

LEMMA TInvReturn ==
  ASSUME TInv, NEW err \in {"InvalidInspector", "InvalidTableRef", "NotFound", "Unsupported", "Failed"},
         Return(err), UNCHANGED <<table, versions, request>>
  PROVE  TInv'
  BY ZeroSpecFields DEF TInv, TypeOK, Return

LEMMA TInvAnswered ==
  ASSUME TInv, NEW stage \in {"columns", "indexes", "checks", "foreignKeys"}, Answered(stage),
         NEW field \in {"columns", "indexes", "constraints"}, NEW value,
         spec' = [spec EXCEPT ![field] = value]
  PROVE  TInv'
<1>1. /\ pc = stage /\ pc' \in {"indexes", "checks", "foreignKeys", "done"}
      /\ UNCHANGED <<table, versions, request, error>>
  BY DEF Answered, After
<1>2. error = "none"
  BY <1>1 DEF TInv, TypeOK
<1>3. /\ DOMAIN spec' = SpecFields /\ spec' = [f \in SpecFields |-> spec'[f]]
      /\ spec'.captured = spec.captured
  BY DEF TInv, SpecFields
<1>4. QED
  BY <1>1, <1>2, <1>3 DEF TInv, TypeOK

LEMMA TInvStart ==
  ASSUME TInv, versions' = <<table>>, table' = table
  PROVE  /\ versions' \in Seq(Definition) /\ table' = versions'[Len(versions')]
         /\ DOMAIN versions' = 1..Len(versions') /\ Len(versions') \in Nat \ {0}
  BY DEF TInv, TypeOK

LEMMA TInvStep == TInv /\ [Next]_captureVars => TInv'
<1> SUFFICES ASSUME TInv, [Next]_captureVars PROVE TInv'
  OBVIOUS
<1>1. CASE Call
  BY <1>1, TInvStart, ZeroSpecFields DEF Call, TInv, TypeOK
<1>2. CASE Refuse
  <2>1. PICK err \in {"InvalidInspector", "InvalidTableRef", "NotFound"} : Return(err)
    BY <1>2 DEF Refuse
  <2>2. QED
    BY <1>2, <2>1, TInvStart, ZeroSpecFields DEF Refuse, Return, TInv, TypeOK
<1>3. CASE Resolve
  <2>1. CASE Return("NotFound") \/ Return("Unsupported")
    BY <1>3, <2>1, TInvReturn DEF Resolve
  <2>2. CASE \E found :
               /\ spec' = [ZeroSpec EXCEPT
                           !.level = found.level, !.captured = request,
                           !.comment = IF "Comment" \in request THEN found.comment ELSE ""]
               /\ pc' = "columns" /\ error' = error
    <3>1. /\ DOMAIN spec' = SpecFields /\ spec' = [f \in SpecFields |-> spec'[f]]
          /\ spec'.captured = request
      BY <2>2 DEF ZeroSpec, SpecFields
    <3>2. /\ UNCHANGED <<table, versions, request>> /\ pc = "resolve"
          /\ pc' = "columns" /\ error' = error
      BY <1>3, <2>2 DEF Resolve
    <3>3. QED
      BY <3>1, <3>2 DEF TInv, TypeOK
  <2>3. QED
    BY <1>3, <2>1, <2>2 DEF Resolve
<1>4. CASE Fail
  BY <1>4, TInvReturn DEF Fail
<1>5. CASE CaptureColumns
  BY <1>5, TInvAnswered DEF CaptureColumns
<1>6. CASE CaptureIndexes
  BY <1>6, TInvAnswered DEF CaptureIndexes
<1>7. CASE CaptureCheckConstraints
  BY <1>7, TInvAnswered DEF CaptureCheckConstraints
<1>8. CASE CaptureForeignKeyConstraints
  BY <1>8, TInvAnswered DEF CaptureForeignKeyConstraints
<1>9. CASE Ddl
  <2>1. /\ table' \in Definition /\ versions' = Append(versions, table')
        /\ UNCHANGED <<request, pc, spec, error>>
    BY <1>9 DEF Ddl
  <2>2. /\ versions' \in Seq(Definition) /\ table' = versions'[Len(versions')]
        /\ DOMAIN versions' = 1..Len(versions') /\ Len(versions') \in Nat \ {0}
    BY <2>1 DEF TInv, TypeOK
  <2>3. QED
    BY <2>1, <2>2 DEF TInv, TypeOK
<1>10. CASE UNCHANGED captureVars
  BY <1>10 DEF captureVars, TInv, TypeOK
<1>11. QED
  BY <1>1, <1>2, <1>3, <1>4, <1>5, <1>6, <1>7, <1>8, <1>9, <1>10 DEF Next, Capture

LEMMA TInvariance == Spec => []TInv
<1>1. Init => TInv
  BY ZeroSpecFields DEF Init, TInv, TypeOK
<1>2. QED
  BY <1>1, TInvStep, PTL DEF Spec

LEMMA DoneIsDone == pc = "done" => ~Next
BY DEF Next, Capture, Call, Refuse, Resolve, Fail, CaptureColumns, CaptureIndexes,
       CaptureCheckConstraints, CaptureForeignKeyConstraints, Answered, Ddl

\* A call goes through its statements in order, and an error comes with no
\* specification, never with the part of one already read.
THEOREM TypeCorrect == Spec => []TypeOK
<1>1. TInv => TypeOK
  BY DEF TInv
<1>2. QED
  BY <1>1, TInvariance, PTL

\* In every state of a call the rows of each statement amount to the section as
\* the table has it, for any table, any neighbour whose rows the collation lets
\* in, and any order of names: the predicate kept in Go, the runs cut at a change
\* of name and the phrases of EXTRA lose nothing and split nothing.
THEOREM RowsAreFaithful == Spec => []RowsFaithful
<1>1. TInv => RowsFaithful
  BY RowsFaithfulAlways DEF TInv, TypeOK
<1>2. QED
  BY <1>1, TInvariance, PTL

----------------------------------------------------------------------------
(* Sections in order.                                                      *)

\* What the spec holds of each section is what the table had at a moment no
\* later than the n-th version, each section no earlier than the one before it.
LevelBy(n) ==
  \E i \in 1..n : /\ versions[i].type = "BASE TABLE" /\ spec.level = versions[i].level
                  /\ "Comment" \in request => spec.comment = versions[i].comment
ColumnsBy(n) == \E j \in 1..n : spec.columns = versions[j].columns /\ LevelBy(j)
IndexesBy(n) ==
  \E k \in 1..n : ("Index" \in request => spec.indexes = versions[k].indexes) /\ ColumnsBy(k)
ChecksBy(n) ==
  \E l \in 1..n : spec.constraints = Only(versions[l], "check") /\ IndexesBy(l)
ConstraintsBy(n) ==
  \E l, m \in 1..n :
    /\ l <= m /\ IndexesBy(l)
    /\ spec.constraints = Sorted(Only(versions[l], "check") \o Only(versions[m], "foreignKey"))

OInv ==
  /\ pc = "columns" => LevelBy(Len(versions))
  /\ pc = "indexes" => "Index" \in request /\ ColumnsBy(Len(versions))
  /\ pc = "checks" => "Constraint" \in request /\ IndexesBy(Len(versions))
  /\ pc = "foreignKeys" => "Constraint" \in request /\ ChecksBy(Len(versions))
  /\ pc = "done" /\ error = "none" =>
       IF "Constraint" \in request THEN ConstraintsBy(Len(versions)) ELSE IndexesBy(Len(versions))

LEMMA Within == ASSUME NEW a \in Nat, NEW n \in 1..a, NEW i \in 1..n PROVE i \in 1..a
  OBVIOUS

LEMMA Beyond == ASSUME NEW a \in Nat, NEW i \in 1..a PROVE i \in 1..(a + 1)
  OBVIOUS

\* DDL adds a version and takes back none.
LEMMA OInvDdl ==
  ASSUME TInv, OInv, Ddl
  PROVE  OInv'
<1>0. /\ versions' = Append(versions, table') /\ UNCHANGED <<request, pc, spec, error>>
      /\ pc # "done"
  BY DEF Ddl
<1>1. Len(versions) \in Nat /\ Len(versions') \in Nat /\ Len(versions') = Len(versions) + 1
  BY <1>0 DEF TInv, TypeOK
<1>10. \A i \in 1..Len(versions) : versions'[i] = versions[i]
  BY <1>0 DEF TInv, TypeOK
<1>11. \A n \in 1..Len(versions) : \A i \in 1..n : i \in 1..Len(versions)
  BY <1>1, Within
<1>12. \A i \in 1..Len(versions) : i \in 1..Len(versions')
  BY <1>1, Beyond
<1>2. \A n \in 1..Len(versions) : LevelBy(n) => LevelBy(n)'
  <2> SUFFICES ASSUME NEW n \in 1..Len(versions), NEW i \in 1..n,
                      versions[i].type = "BASE TABLE", spec.level = versions[i].level,
                      "Comment" \in request => spec.comment = versions[i].comment
               PROVE  LevelBy(n)'
    BY DEF LevelBy
  <2>1. i \in 1..Len(versions)
    BY <1>11
  <2>2. versions'[i] = versions[i]
    BY <1>10, <2>1
  <2>3. QED
    BY <1>0, <2>2 DEF LevelBy
<1>3. \A n \in 1..Len(versions) : ColumnsBy(n) => ColumnsBy(n)'
  BY <1>0, <1>1, <1>10, <1>2 DEF ColumnsBy
<1>4. \A n \in 1..Len(versions) : IndexesBy(n) => IndexesBy(n)'
  BY <1>0, <1>1, <1>10, <1>3 DEF IndexesBy
<1>5. LevelBy(Len(versions)) => LevelBy(Len(versions))'
  <2> SUFFICES ASSUME NEW i \in 1..Len(versions),
                      versions[i].type = "BASE TABLE", spec.level = versions[i].level,
                      "Comment" \in request => spec.comment = versions[i].comment
               PROVE  LevelBy(Len(versions))'
    BY DEF LevelBy
  <2>1. versions'[i] = versions[i]
    BY <1>10
  <2>2. i \in 1..Len(versions')
    BY <1>12
  <2>3. QED
    BY <1>0, <2>1, <2>2 DEF LevelBy
<1>6. ColumnsBy(Len(versions)) => ColumnsBy(Len(versions))'
  BY <1>0, <1>1, <1>10, <1>2 DEF ColumnsBy
<1>7. IndexesBy(Len(versions)) => IndexesBy(Len(versions))'
  BY <1>0, <1>1, <1>10, <1>3 DEF IndexesBy
<1>8. ChecksBy(Len(versions)) => ChecksBy(Len(versions))'
  BY <1>0, <1>1, <1>10, <1>4 DEF ChecksBy
<1>9. QED
  BY <1>0, <1>5, <1>6, <1>7, <1>8 DEF OInv

\* A statement that is answered adds the section of the last version.
LEMMA OInvAnswered ==
  ASSUME TInv, OInv, RowsFaithful, Capture, pc \in {"columns", "indexes", "checks", "foreignKeys"},
         ~Fail
  PROVE  OInv'
<1>0. /\ Len(versions) \in Nat \ {0} /\ table = versions[Len(versions)]
      /\ DOMAIN spec = SpecFields /\ error = "none"
      /\ UNCHANGED <<versions, request, error>>
  BY DEF TInv, TypeOK, Capture, Call, Refuse, Resolve, Answered, CaptureColumns, CaptureIndexes,
     CaptureCheckConstraints, CaptureForeignKeyConstraints
<1>00. Len(versions) \in 1..Len(versions) /\ versions' = versions /\ request' = request
  BY <1>0
<1>1. CASE pc = "columns"
  <2>1. /\ spec' = [spec EXCEPT !.columns = table.columns] /\ pc' = After("columns")
    BY <1>1 DEF Capture, Call, Refuse, Resolve, Answered, CaptureColumns, CaptureIndexes,
       CaptureCheckConstraints, CaptureForeignKeyConstraints, RowsFaithful
  <2>2. /\ spec'.columns = table.columns /\ spec'.level = spec.level /\ spec'.comment = spec.comment
    BY <1>0, <2>1 DEF SpecFields
  <2>3. LevelBy(Len(versions))'
    BY <1>0, <1>1, <2>2 DEF OInv, LevelBy
  <2>4. ColumnsBy(Len(versions))'
    BY <1>0, <1>00, <2>2, <2>3 DEF ColumnsBy
  <2>5. "Index" \notin request => IndexesBy(Len(versions))'
    BY <1>0, <1>00, <2>4 DEF IndexesBy
  <2>6. QED
    BY <1>0, <2>1, <2>4, <2>5 DEF OInv, After
<1>2. CASE pc = "indexes"
  <2>1. /\ spec' = [spec EXCEPT !.indexes = table.indexes] /\ pc' = After("indexes")
    BY <1>2 DEF Capture, Call, Refuse, Resolve, Answered, CaptureColumns, CaptureIndexes,
       CaptureCheckConstraints, CaptureForeignKeyConstraints, RowsFaithful
  <2>2. /\ spec'.indexes = table.indexes /\ spec'.columns = spec.columns
        /\ spec'.level = spec.level /\ spec'.comment = spec.comment
    BY <1>0, <2>1 DEF SpecFields
  <2>3. ColumnsBy(Len(versions))'
    BY <1>0, <1>2, <2>2 DEF OInv, ColumnsBy, LevelBy
  <2>4. IndexesBy(Len(versions))'
    BY <1>0, <1>00, <2>2, <2>3 DEF IndexesBy
  <2>5. QED
    BY <1>0, <2>1, <2>4 DEF OInv, After
<1>3. CASE pc = "checks"
  <2>1. /\ spec' = [spec EXCEPT !.constraints = Only(table, "check")] /\ pc' = After("checks")
    BY <1>3 DEF Capture, Call, Refuse, Resolve, Answered, CaptureColumns, CaptureIndexes,
       CaptureCheckConstraints, CaptureForeignKeyConstraints, RowsFaithful
  <2>2. /\ spec'.constraints = Only(table, "check") /\ spec'.indexes = spec.indexes
        /\ spec'.columns = spec.columns /\ spec'.level = spec.level /\ spec'.comment = spec.comment
    BY <1>0, <2>1 DEF SpecFields
  <2>3. IndexesBy(Len(versions))'
    BY <1>0, <1>3, <2>2 DEF OInv, IndexesBy, ColumnsBy, LevelBy
  <2>4. ChecksBy(Len(versions))'
    BY <1>0, <1>00, <2>2, <2>3 DEF ChecksBy, Only
  <2>5. QED
    BY <1>0, <1>3, <2>1, <2>4 DEF OInv, After
<1>4. CASE pc = "foreignKeys"
  <2>1. /\ spec' = [spec EXCEPT !.constraints = Sorted(@ \o Only(table, "foreignKey"))]
        /\ pc' = After("foreignKeys")
    BY <1>4 DEF Capture, Call, Refuse, Resolve, Answered, CaptureColumns, CaptureIndexes,
       CaptureCheckConstraints, CaptureForeignKeyConstraints, RowsFaithful
  <2>2. /\ spec'.constraints = Sorted(spec.constraints \o Only(table, "foreignKey"))
        /\ spec'.indexes = spec.indexes /\ spec'.columns = spec.columns
        /\ spec'.level = spec.level /\ spec'.comment = spec.comment
    BY <1>0, <2>1 DEF SpecFields
  <2>3. PICK l \in 1..Len(versions) : spec.constraints = Only(versions[l], "check") /\ IndexesBy(l)
    BY <1>4 DEF OInv, ChecksBy
  <2>4. IndexesBy(l)'
    BY <1>0, <2>2, <2>3 DEF IndexesBy, ColumnsBy, LevelBy
  <2>5. ConstraintsBy(Len(versions))'
    <3>1. spec'.constraints = Sorted(Only(versions[l], "check") \o Only(versions[Len(versions)], "foreignKey"))
      BY <1>0, <2>2, <2>3
    <3>2. l <= Len(versions) /\ Len(versions) \in 1..Len(versions)
      BY <1>0
    <3>3. QED
      BY <1>0, <2>4, <3>1, <3>2 DEF ConstraintsBy, Only
  <2>6. QED
    BY <1>0, <1>4, <2>1, <2>5 DEF OInv, After
<1>5. QED
  BY <1>1, <1>2, <1>3, <1>4

LEMMA OInvStep == TInv /\ OInv /\ RowsFaithful /\ [Next]_captureVars => OInv'
<1> SUFFICES ASSUME TInv, OInv, RowsFaithful, [Next]_captureVars PROVE OInv'
  OBVIOUS
<1>1. CASE UNCHANGED captureVars
  BY <1>1, ZenonT(60) DEF captureVars, OInv, LevelBy, ColumnsBy, IndexesBy, ChecksBy, ConstraintsBy
<1>2. CASE Ddl
  BY <1>2, OInvDdl
<1>3. CASE Call
  BY <1>3 DEF Call, OInv
<1>4. CASE Refuse \/ Fail
  BY <1>4 DEF Refuse, Fail, Return, OInv
<1>5. CASE Resolve
  <2>1. CASE Return("NotFound") \/ Return("Unsupported")
    BY <2>1 DEF Return, OInv
  <2>2. CASE ~(Return("NotFound") \/ Return("Unsupported"))
    <3>1. /\ pc = "resolve" /\ UNCHANGED <<table, versions, request>>
          /\ Len(versions) \in Nat \ {0} /\ table = versions[Len(versions)]
      BY <1>5 DEF Resolve, TInv, TypeOK
    <3>2. Resolved = TableRows(Requested, table)
      BY <3>1 DEF RowsFaithful
    <3>3. Resolved = <<[table |-> Requested, definition |-> table]>>
      BY <1>5, <2>2, <3>2 DEF Resolve, TableRows
    <3>4. Resolved[Len(Resolved)].definition = table
      BY <3>3
    <3>5. /\ table.type = "BASE TABLE" /\ pc' = "columns"
          /\ spec' = [ZeroSpec EXCEPT
                       !.level = table.level, !.captured = request,
                       !.comment = IF "Comment" \in request THEN table.comment ELSE ""]
      BY <1>5, <2>2, <3>4 DEF Resolve
    <3>6. /\ spec'.level = table.level
          /\ "Comment" \in request => spec'.comment = table.comment
      BY <3>5 DEF ZeroSpec
    <3>7. LevelBy(Len(versions))'
      <4>1. Len(versions) \in 1..Len(versions')
        BY <3>1
      <4>2. /\ versions'[Len(versions)].type = "BASE TABLE"
            /\ spec'.level = versions'[Len(versions)].level
            /\ "Comment" \in request' => spec'.comment = versions'[Len(versions)].comment
        BY <3>1, <3>5, <3>6
      <4>3. QED
        BY <4>1, <4>2 DEF LevelBy
    <3>8. QED
      BY <3>1, <3>5, <3>7 DEF OInv
  <2>3. QED
    BY <2>1, <2>2
<1>6. CASE (CaptureColumns \/ CaptureIndexes \/ CaptureCheckConstraints \/ CaptureForeignKeyConstraints)
           /\ ~Fail
  <2>1. pc \in {"columns", "indexes", "checks", "foreignKeys"}
    BY <1>6 DEF CaptureColumns, CaptureIndexes, CaptureCheckConstraints,
       CaptureForeignKeyConstraints, Answered
  <2>2. QED
    BY <1>6, <2>1, OInvAnswered DEF Capture
<1>7. QED
  BY <1>1, <1>2, <1>3, <1>4, <1>5, <1>6 DEF Next, Capture

\* Under any number of DDL statements, the spec a call returns holds each section
\* as the table had it at some moment of the call, and no section is older than
\* one read before it.
THEOREM SpecInOrder == Spec => []SectionsInOrder
<1>1. Init => OInv
  BY DEF Init, OInv
<1>2. TInv /\ OInv => SectionsInOrder
  <2> SUFFICES ASSUME TInv, OInv, pc = "done", error = "none" PROVE SectionsInOrder
    BY DEF SectionsInOrder
  <2>0. Len(versions) \in Nat \ {0} /\ DOMAIN versions = 1..Len(versions)
    BY DEF TInv
  <2>1. PICK l \in 1..Len(versions) :
          /\ IndexesBy(l)
          /\ "Constraint" \in request =>
               \E m \in l..Len(versions) :
                 spec.constraints = Sorted(Only(versions[l], "check") \o Only(versions[m], "foreignKey"))
    <3>1. CASE "Constraint" \in request
      BY <2>0, <3>1 DEF OInv, ConstraintsBy
    <3>2. CASE "Constraint" \notin request
      BY <2>0, <3>2 DEF OInv, IndexesBy
    <3>3. QED
      BY <3>1, <3>2
  <2>2. PICK k \in 1..l : ("Index" \in request => spec.indexes = versions[k].indexes) /\ ColumnsBy(k)
    BY <2>1 DEF IndexesBy
  <2>3. PICK j \in 1..k : spec.columns = versions[j].columns /\ LevelBy(j)
    BY <2>2 DEF ColumnsBy
  <2>4. PICK i \in 1..j : /\ versions[i].type = "BASE TABLE" /\ spec.level = versions[i].level
                          /\ "Comment" \in request => spec.comment = versions[i].comment
    BY <2>3 DEF LevelBy
  <2>5. /\ l \in Nat /\ k \in Nat /\ j \in Nat /\ i \in Nat
        /\ 1 <= i /\ i <= j /\ j <= k /\ k <= l /\ l <= Len(versions)
    <3>1. l \in 1..Len(versions)
      BY <2>1
    <3>2. k \in 1..l
      BY <2>2
    <3>3. j \in 1..k
      BY <2>3
    <3>4. i \in 1..j
      BY <2>4
    <3>5. QED
      BY <2>0, <3>1, <3>2, <3>3, <3>4
  <2>6. PICK m \in l..Len(versions) : "Constraint" \in request =>
          spec.constraints = Sorted(Only(versions[l], "check") \o Only(versions[m], "foreignKey"))
    BY <2>0, <2>1
  <2>7. QED
    <3>1. /\ i \in DOMAIN versions /\ j \in i..Len(versions) /\ k \in j..Len(versions)
          /\ l \in k..Len(versions)
      BY <2>0, <2>5
    <3>2. QED
      BY <2>2, <2>3, <2>4, <2>6, <3>1 DEF SectionsInOrder
<1>3. QED
  BY <1>1, <1>2, OInvStep, TInvariance, RowsAreFaithful, PTL DEF Spec

----------------------------------------------------------------------------
(* A table that keeps still.                                               *)

Comment == IF "Comment" \in request THEN table.comment ELSE ""

\* The spec of the table as it is, as far as three of its sections go.
Partial(columns, indexes, constraints) ==
  [level |-> table.level, comment |-> Comment,
   columns |-> columns, indexes |-> indexes, constraints |-> constraints, captured |-> request]

Indexes == IF "Index" \in request THEN table.indexes ELSE <<>>

QInv ==
  Len(versions) = 1 =>
    /\ pc \in {"columns", "indexes", "checks", "foreignKeys"} => table.type = "BASE TABLE"
    /\ pc = "columns" => spec = Partial(<<>>, <<>>, <<>>)
    /\ pc = "indexes" => "Index" \in request /\ spec = Partial(table.columns, <<>>, <<>>)
    /\ pc = "checks" => "Constraint" \in request /\ spec = Partial(table.columns, Indexes, <<>>)
    /\ pc = "foreignKeys" =>
         "Constraint" \in request /\ spec = Partial(table.columns, Indexes, Only(table, "check"))
    /\ pc = "done" /\ error = "none" => table.type = "BASE TABLE" /\ spec = SpecOf(table, request)
    /\ error = "NotFound" => table.type = "none"
    /\ error = "Unsupported" => table.type = "VIEW"

LEMMA PartialUpdate ==
  ASSUME NEW a, NEW b, NEW c, NEW value
  PROVE  /\ [Partial(a, b, c) EXCEPT !.columns = value] = Partial(value, b, c)
         /\ [Partial(a, b, c) EXCEPT !.indexes = value] = Partial(a, value, c)
         /\ [Partial(a, b, c) EXCEPT !.constraints = value] = Partial(a, b, value)
         /\ Partial(a, b, c).constraints = c
<1>1. [Partial(a, b, c) EXCEPT !.columns = value] = Partial(value, b, c)
  BY DEF Partial
<1>2. [Partial(a, b, c) EXCEPT !.indexes = value] = Partial(a, value, c)
  BY DEF Partial
<1>3. [Partial(a, b, c) EXCEPT !.constraints = value] = Partial(a, b, value)
  BY DEF Partial
<1>4. Partial(a, b, c).constraints = c
  BY DEF Partial
<1>5. QED
  BY <1>1, <1>2, <1>3, <1>4

\* The invariant across a statement that is answered.
LEMMA QInvAnswered ==
  ASSUME TInv, QInv, RowsFaithful,
         CaptureColumns \/ CaptureIndexes \/ CaptureCheckConstraints \/ CaptureForeignKeyConstraints
  PROVE  QInv'
<1> SUFFICES ASSUME Len(versions) = 1 PROVE QInv'
  BY DEF QInv, CaptureColumns, CaptureIndexes, CaptureCheckConstraints,
     CaptureForeignKeyConstraints, Answered
<1>0. /\ UNCHANGED <<table, versions, request, error>> /\ error = "none"
      /\ pc \in {"columns", "indexes", "checks", "foreignKeys"} /\ table.type = "BASE TABLE"
      /\ CapturedColumns = table.columns /\ CapturedIndexes = table.indexes
      /\ CapturedChecks = Only(table, "check") /\ CapturedForeignKeys = Only(table, "foreignKey")
      /\ Sorted(Only(table, "check") \o Only(table, "foreignKey")) = Sorted(table.constraints)
  BY DEF CaptureColumns, CaptureIndexes, CaptureCheckConstraints, CaptureForeignKeyConstraints,
     Answered, TInv, TypeOK, RowsFaithful, QInv
<1>1. \A columns, indexes, constraints : Partial(columns, indexes, constraints)' = Partial(columns, indexes, constraints)
  BY <1>0 DEF Partial, Comment
<1>2. Indexes' = Indexes
  BY <1>0 DEF Indexes
<1>3. SpecOf(table, request) =
        Partial(table.columns, Indexes,
                IF "Constraint" \in request THEN Sorted(table.constraints) ELSE <<>>)
  BY DEF SpecOf, Partial, Comment, Indexes
<1>4. CASE CaptureColumns
  <2>1. spec' = Partial(table.columns, <<>>, <<>>)
    <3>1. spec = Partial(<<>>, <<>>, <<>>) /\ spec' = [spec EXCEPT !.columns = table.columns]
      BY <1>0, <1>4 DEF CaptureColumns, Answered, QInv
    <3>2. QED
      BY <3>1, PartialUpdate
  <2>2. "Index" \notin request => Indexes = <<>>
    BY DEF Indexes
  <2>3. pc' = After("columns")
    BY <1>4 DEF CaptureColumns, Answered
  <2>4. QED
    BY <1>0, <1>1, <1>2, <1>3, <2>1, <2>2, <2>3 DEF QInv, After
<1>5. CASE CaptureIndexes
  <2>1. "Index" \in request /\ spec' = Partial(table.columns, table.indexes, <<>>)
    <3>1. /\ "Index" \in request /\ spec = Partial(table.columns, <<>>, <<>>)
          /\ spec' = [spec EXCEPT !.indexes = table.indexes]
      BY <1>0, <1>5 DEF CaptureIndexes, Answered, QInv
    <3>2. [Partial(table.columns, <<>>, <<>>) EXCEPT !.indexes = table.indexes]
            = Partial(table.columns, table.indexes, <<>>)
      BY DEF Partial
    <3>3. QED
      BY <3>1, <3>2
  <2>2. Indexes = table.indexes
    BY <2>1 DEF Indexes
  <2>3. pc' = After("indexes")
    BY <1>5 DEF CaptureIndexes, Answered
  <2>4. QED
    BY <1>0, <1>1, <1>2, <1>3, <2>1, <2>2, <2>3 DEF QInv, After
<1>6. CASE CaptureCheckConstraints
  <2>1. "Constraint" \in request /\ spec' = Partial(table.columns, Indexes, Only(table, "check"))
    <3>1. /\ "Constraint" \in request /\ spec = Partial(table.columns, Indexes, <<>>)
          /\ spec' = [spec EXCEPT !.constraints = Only(table, "check")]
      BY <1>0, <1>6 DEF CaptureCheckConstraints, Answered, QInv
    <3>2. QED
      BY <3>1, PartialUpdate
  <2>2. pc' = "foreignKeys"
    BY <1>6 DEF CaptureCheckConstraints, Answered, After
  <2>3. Only(table, "check")' = Only(table, "check")
    BY <1>0 DEF Only
  <2>4. QED
    BY <1>0, <1>1, <1>2, <2>1, <2>2, <2>3 DEF QInv
<1>7. CASE CaptureForeignKeyConstraints
  <2>1. "Constraint" \in request /\ spec' = Partial(table.columns, Indexes, Sorted(table.constraints))
    <3>1. /\ "Constraint" \in request /\ spec = Partial(table.columns, Indexes, Only(table, "check"))
          /\ spec' = [spec EXCEPT !.constraints = Sorted(spec.constraints \o Only(table, "foreignKey"))]
      BY <1>0, <1>7 DEF CaptureForeignKeyConstraints, Answered, QInv
    <3>2. spec.constraints = Only(table, "check")
      BY <3>1, PartialUpdate
    <3>3. Sorted(spec.constraints \o Only(table, "foreignKey")) = Sorted(table.constraints)
      BY <1>0, <3>2
    <3>4. [Partial(table.columns, Indexes, Only(table, "check")) EXCEPT !.constraints = Sorted(table.constraints)]
            = Partial(table.columns, Indexes, Sorted(table.constraints))
      BY PartialUpdate
    <3>5. QED
      BY <3>1, <3>3, <3>4
  <2>2. pc' = "done"
    BY <1>7 DEF CaptureForeignKeyConstraints, Answered, After
  <2>3. SpecOf(table, request)' = SpecOf(table, request)
    BY <1>0
  <2>4. QED
    BY <1>0, <1>3, <2>1, <2>2, <2>3 DEF QInv
<1>8. QED
  BY <1>4, <1>5, <1>6, <1>7

LEMMA QInvStep == TInv /\ QInv /\ RowsFaithful /\ [Next]_captureVars => QInv'
<1> SUFFICES ASSUME TInv, QInv, RowsFaithful, [Next]_captureVars PROVE QInv'
  OBVIOUS
<1>1. CASE UNCHANGED captureVars
  BY <1>1 DEF captureVars, QInv, Partial, Comment, Indexes, Only, SpecOf
<1>2. CASE Ddl
  <2>1. Len(versions') = Len(versions) + 1 /\ Len(versions) \in Nat \ {0}
    BY <1>2 DEF Ddl, TInv, TypeOK
  <2>2. Len(versions') # 1
    BY <2>1
  <2>3. QED
    BY <2>2 DEF QInv
<1>3. CASE Call
  <2>1. error' = "none" /\ pc' = "resolve"
    BY <1>3 DEF Call, TInv, TypeOK
  <2>2. QED
    BY <2>1 DEF QInv
<1>4. CASE Refuse
  <2>1. pc' = "done" /\ error' \in {"InvalidInspector", "InvalidTableRef", "NotFound"}
    BY <1>4 DEF Refuse, Return
  <2>2. table' = table /\ (error' = "NotFound" => table.type = "none")
    BY <1>4 DEF Refuse, Return
  <2>3. QED
    BY <2>1, <2>2 DEF QInv
<1>5. CASE Fail
  BY <1>5 DEF Fail, Return, QInv
<1>6. CASE Resolve
  <2>0. /\ pc = "resolve" /\ error = "none" /\ UNCHANGED <<table, versions, request>>
        /\ table.type \in {"BASE TABLE", "VIEW", "none"}
    <3>1. \A t \in Definition : t.type \in {"BASE TABLE", "VIEW", "none"}
      BY SpecCaptureAssumption DEF IsTable
    <3>2. table \in Definition
      BY DEF TInv, TypeOK
    <3>3. /\ pc = "resolve" /\ error = "none" /\ UNCHANGED <<table, versions, request>>
      BY <1>6 DEF Resolve, TInv, TypeOK
    <3> QED BY <3>1, <3>2, <3>3
  <2>1. Resolved = TableRows(Requested, table)
    BY <2>0 DEF RowsFaithful
  <2>2. CASE table.type = "none"
    BY <1>6, <2>0, <2>1, <2>2 DEF Resolve, TableRows, Return, QInv
  <2>3. CASE table.type # "none"
    <3>1. Resolved = <<[table |-> Requested, definition |-> table]>>
      BY <2>1, <2>3 DEF TableRows
    <3>2. Resolved # <<>> /\ Resolved[Len(Resolved)].definition = table
      BY <3>1
    <3>3. CASE table.type = "VIEW"
      BY <1>6, <2>0, <3>2, <3>3 DEF Resolve, Return, QInv
    <3>4. CASE table.type = "BASE TABLE"
      <4>1. /\ pc' = "columns" /\ error' = error
            /\ spec' = [ZeroSpec EXCEPT
                         !.level = table.level, !.captured = request,
                         !.comment = IF "Comment" \in request THEN table.comment ELSE ""]
        BY <1>6, <3>2, <3>4 DEF Resolve
      <4>2. spec' = Partial(<<>>, <<>>, <<>>)
        BY <4>1 DEF ZeroSpec, Partial, Comment
      <4>3. Partial(<<>>, <<>>, <<>>)' = Partial(<<>>, <<>>, <<>>)
        BY <2>0 DEF Partial, Comment
      <4>4. QED
        BY <2>0, <3>4, <4>1, <4>2, <4>3 DEF QInv
    <3>5. QED
      BY <2>0, <2>3, <3>3, <3>4
  <2>4. QED
    BY <2>2, <2>3
<1>7. CASE CaptureColumns \/ CaptureIndexes \/ CaptureCheckConstraints \/ CaptureForeignKeyConstraints
  BY <1>7, QInvAnswered
<1>8. QED
  BY <1>1, <1>2, <1>3, <1>4, <1>5, <1>6, <1>7 DEF Next, Capture

\* While no DDL runs, the spec a call returns is the table's in every section
\* asked for, and only an absent table and a view are reported as such.
THEOREM QuietSpec == Spec => []QuietSpecExact
<1>1. Init => QInv
  BY DEF Init, QInv
<1>2. QInv => QuietSpecExact
  BY DEF QInv, QuietSpecExact
<1>3. QED
  BY <1>1, <1>2, QInvStep, TInvariance, RowsAreFaithful, PTL DEF Spec

=============================================================================
