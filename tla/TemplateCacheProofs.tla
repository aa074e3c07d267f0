------------------------ MODULE TemplateCacheProofs -------------------------
(***************************************************************************)
(* Proofs about TemplateCache.  The map of templates is followed through   *)
(* the sequence q of its entries in the order of their last use: erasing,  *)
(* touching and putting change q at one place or at its front, the list of *)
(* RecencyList is q with sizes, and the loop of put() removes a prefix.    *)
(***************************************************************************)
EXTENDS TemplateCache, TLAPS

(***************************************************************************)
(* Removing the element at position p, and what lies behind position k.    *)
(***************************************************************************)
Removed(l, p) == SubSeq(l, 1, p - 1) \o SubSeq(l, p + 1, Len(l))

Behind(l, k) == SubSeq(l, k + 1, Len(l))

(* Sequences with the same length and elements are equal. *)
LEMMA SeqSame ==
  ASSUME NEW S, NEW T, NEW l \in Seq(S), NEW m \in Seq(T), Len(l) = Len(m), \A i \in 1 .. Len(l) : l[i] = m[i]
  PROVE  l = m
  OBVIOUS

(* A concatenation is a sequence as long as its parts. *)
LEMMA ConcatIs ==
  ASSUME NEW S, NEW l \in Seq(S), NEW m \in Seq(S)
  PROVE  l \o m \in Seq(S) /\ Len(l \o m) = Len(l) + Len(m)
  OBVIOUS

(* Removing a position shifts what lies behind it. *)
LEMMA RemovedIs ==
  ASSUME NEW S, NEW l \in Seq(S), NEW p \in 1 .. Len(l)
  PROVE  /\ Removed(l, p) \in Seq(S) /\ Len(Removed(l, p)) = Len(l) - 1
         /\ \A i \in 1 .. Len(l) - 1 : Removed(l, p)[i] = IF i < p THEN l[i] ELSE l[i + 1]
<1> DEFINE a == SubSeq(l, 1, p - 1)
           b == SubSeq(l, p + 1, Len(l))
<1>1. a \in Seq(S) /\ Len(a) = p - 1 /\ \A i \in 1 .. p - 1 : a[i] = l[i]
  OBVIOUS
<1>2. b \in Seq(S) /\ Len(b) = Len(l) - p /\ \A i \in 1 .. Len(l) - p : b[i] = l[i + p]
  OBVIOUS
<1> HIDE DEF a, b
<1>3. a \o b \in Seq(S) /\ Len(a \o b) = Len(l) - 1
  <2>1. a \o b \in Seq(S) /\ Len(a \o b) = Len(a) + Len(b)
    BY <1>1, <1>2, ConcatIs, Zenon
  <2> QED BY <1>1, <1>2, <2>1
<1>4. ASSUME NEW i \in 1 .. Len(l) - 1 PROVE (a \o b)[i] = IF i < p THEN l[i] ELSE l[i + 1]
  <2>1. CASE i < p
    BY <1>1, <1>2, <2>1
  <2>2. CASE ~(i < p)
    <3>1. (a \o b)[i] = b[i - (p - 1)]
      BY <1>1, <1>2, <2>2
    <3>2. i - (p - 1) \in 1 .. Len(l) - p /\ i - (p - 1) + p = i + 1
      BY <2>2
    <3>3. b[i - (p - 1)] = l[i - (p - 1) + p]
      BY <1>2, <3>2, Zenon
    <3> QED BY <2>2, <3>1, <3>2, <3>3, Zenon
  <2> QED BY <2>1, <2>2, Zenon
<1> QED BY <1>3, <1>4, Zenon DEF Removed, a, b

(* What lies behind a position, element by element. *)
LEMMA BehindIs ==
  ASSUME NEW S, NEW l \in Seq(S), NEW k \in 0 .. Len(l)
  PROVE  /\ Behind(l, k) \in Seq(S) /\ Len(Behind(l, k)) = Len(l) - k
         /\ \A i \in 1 .. Len(l) - k : Behind(l, k)[i] = l[i + k]
  BY DEF Behind

(* Appending, element by element. *)
LEMMA AppendIs ==
  ASSUME NEW S, NEW l \in Seq(S), NEW e \in S
  PROVE  /\ Append(l, e) \in Seq(S) /\ Len(Append(l, e)) = Len(l) + 1
         /\ \A i \in 1 .. Len(l) : Append(l, e)[i] = l[i]
         /\ Append(l, e)[Len(l) + 1] = e
  OBVIOUS

-----------------------------------------------------------------------------
INSTANCE FiniteSetTheorems

(***************************************************************************)
(* The templates of f, byte by byte.                                       *)
(***************************************************************************)
Cells(f) == UNION {{x} \X (1 .. f[x].bytes) : x \in DOMAIN f}

Counts(f) == IsFiniteSet(DOMAIN f) /\ \A x \in DOMAIN f : f[x].bytes \in Nat

(* A template has as many cells as bytes. *)
LEMMA RowHolds ==
  ASSUME NEW x, NEW n \in Nat
  PROVE  IsFiniteSet({x} \X (1 .. n)) /\ Cardinality({x} \X (1 .. n)) = n
<1>1. IsFiniteSet(1 .. n) /\ Cardinality(1 .. n) = n
  <2>1. IsFiniteSet(1 .. n) /\ Cardinality(1 .. n) = IF 1 > n THEN 0 ELSE n - 1 + 1
    BY FS_Interval
  <2> QED BY <2>1
<1>2. IsFiniteSet({x}) /\ Cardinality({x}) = 1
  BY FS_Singleton, Zenon
<1>3. /\ IsFiniteSet({x} \X (1 .. n))
      /\ Cardinality({x} \X (1 .. n)) = Cardinality({x}) * Cardinality(1 .. n)
  BY <1>1, <1>2, FS_Product, Zenon
<1> QED BY <1>1, <1>2, <1>3

(* The cells of a finite map can be counted. *)
LEMMA CellsFinite ==
  ASSUME NEW f, Counts(f)
  PROVE  IsFiniteSet(Cells(f)) /\ Total(f) \in Nat /\ Total(f) = Cardinality(Cells(f))
<1> DEFINE Rows == {{x} \X (1 .. f[x].bytes) : x \in DOMAIN f}
           row == [x \in DOMAIN f |-> {x} \X (1 .. f[x].bytes)]
<1>1. row \in Surjection(DOMAIN f, Rows)
  BY Zenon DEF Surjection
<1>2. IsFiniteSet(Rows)
  BY <1>1, FS_Surjection, Zenon DEF Counts
<1>3. \A r \in Rows : IsFiniteSet(r)
  <2> SUFFICES ASSUME NEW x \in DOMAIN f PROVE IsFiniteSet({x} \X (1 .. f[x].bytes))
    BY Zenon
  <2> QED BY RowHolds, Zenon DEF Counts
<1>4. IsFiniteSet(UNION Rows)
  BY <1>2, <1>3, FS_UNION, Zenon
<1>5. IsFiniteSet(Cells(f)) /\ Total(f) = Cardinality(Cells(f))
  BY <1>4, Zenon DEF Cells, Total
<1> QED BY <1>5, FS_CardinalityType, Zenon

(***************************************************************************)
(* One template more adds its bytes.                                       *)
(***************************************************************************)
LEMMA TotalAdds ==
  ASSUME NEW f, Counts(f), NEW g, NEW e, e \notin DOMAIN f, DOMAIN g = DOMAIN f \cup {e},
         \A x \in DOMAIN f : g[x].bytes = f[x].bytes, g[e].bytes \in Nat
  PROVE  Counts(g) /\ Total(g) = Total(f) + g[e].bytes
<1> DEFINE Row == {e} \X (1 .. g[e].bytes)
<1>1. Counts(g)
  <2>1. IsFiniteSet(DOMAIN f \cup {e})
    BY FS_AddElement, Zenon DEF Counts
  <2> QED BY <2>1, Zenon DEF Counts
<1>2. Cells(g) = Cells(f) \cup Row
  <2>1. \A c : c \in Cells(g) <=> \E x \in DOMAIN f \cup {e} : c \in {x} \X (1 .. g[x].bytes)
    BY Zenon DEF Cells
  <2>2. \A c : c \in Cells(f) <=> \E x \in DOMAIN f : c \in {x} \X (1 .. f[x].bytes)
    BY Zenon DEF Cells
  <2>3. \A c : c \in Cells(g) <=> c \in Cells(f) \cup Row
    BY <2>1, <2>2, Zenon
  <2> QED BY <2>3, Zenon
<1>3. Cells(f) \cap Row = {}
  <2>1. \A c \in Cells(f) : c[1] \in DOMAIN f
    BY DEF Cells
  <2>2. \A c \in Row : c[1] = e
    OBVIOUS
  <2> QED BY <2>1, <2>2, Zenon
<1>4. IsFiniteSet(Row) /\ Cardinality(Row) = g[e].bytes
  BY RowHolds, Zenon
<1>5. IsFiniteSet(Cells(f)) /\ Total(f) \in Nat /\ Total(f) = Cardinality(Cells(f)) /\ Total(g) = Cardinality(Cells(g))
  BY <1>1, CellsFinite, Zenon
<1>6. Cardinality(Cells(f) \cup Row) = Cardinality(Cells(f)) + Cardinality(Row) - Cardinality(Cells(f) \cap Row)
  BY <1>4, <1>5, FS_Union, Zenon
<1>7. Cardinality(Cells(f) \cap Row) = 0
  BY <1>3, FS_EmptySet, Zenon
<1> HIDE DEF Row
<1>8. Total(g) = Total(f) + g[e].bytes
  <2>1. Total(g) = Total(f) + g[e].bytes - 0
    BY <1>2, <1>4, <1>5, <1>6, <1>7, Zenon
  <2> QED BY <1>5, <2>1
<1> QED BY <1>1, <1>8, Zenon

(* No templates, no bytes. *)
LEMMA TotalNothing ==
  ASSUME NEW f, DOMAIN f = {}
  PROVE  Counts(f) /\ Total(f) = 0
<1>1. UNION {{x} \X (1 .. f[x].bytes) : x \in DOMAIN f} = {}
  BY Zenon
<1> QED BY <1>1, FS_EmptySet, Zenon DEF Counts, Total

(***************************************************************************)
(* A set with as many names as there are numbers up to m has m elements.   *)
(***************************************************************************)
LEMMA Numbered ==
  ASSUME NEW m \in Nat, NEW T, NEW g \in [1 .. m -> T],
         \A i, j \in 1 .. m : g[i] = g[j] => i = j, \A t \in T : \E i \in 1 .. m : g[i] = t
  PROVE  IsFiniteSet(T) /\ Cardinality(T) = m
<1>1. IsFiniteSet(1 .. m) /\ Cardinality(1 .. m) = m
  <2>1. IsFiniteSet(1 .. m) /\ Cardinality(1 .. m) = IF 1 > m THEN 0 ELSE m - 1 + 1
    BY FS_Interval
  <2> QED BY <2>1
<1>2. g \in Injection(1 .. m, T)
  BY Zenon DEF Injection, IsInjective
<1>3. g \in Surjection(1 .. m, T)
  BY Zenon DEF Surjection
<1>4. ExistsBijection(1 .. m, T)
  BY <1>2, <1>3, Zenon DEF ExistsBijection, Bijection
<1>5. IsFiniteSet(T) /\ Cardinality(T) = Cardinality(1 .. m)
  BY <1>1, <1>4, FS_Bijection, Zenon
<1> QED BY <1>1, <1>5, Zenon

(***************************************************************************)
(* The same templates under other names have the same total.               *)
(***************************************************************************)
LEMMA TotalMoves ==
  ASSUME NEW f, Counts(f), NEW g, NEW m \in [DOMAIN f -> DOMAIN g],
         \A x, y \in DOMAIN f : m[x] = m[y] => x = y, \A z \in DOMAIN g : \E x \in DOMAIN f : m[x] = z,
         \A x \in DOMAIN f : g[m[x]].bytes = f[x].bytes
  PROVE  Counts(g) /\ Total(g) = Total(f)
<1> DEFINE h == [c \in Cells(f) |-> <<m[c[1]], c[2]>>]
<1>1. \A c \in Cells(f) : c[1] \in DOMAIN f /\ c[2] \in 1 .. f[c[1]].bytes /\ c = <<c[1], c[2]>>
  BY DEF Cells
<1>2. \A x \in DOMAIN f : \A b \in 1 .. f[x].bytes : <<x, b>> \in Cells(f)
  <2> SUFFICES ASSUME NEW x \in DOMAIN f, NEW b \in 1 .. f[x].bytes PROVE <<x, b>> \in Cells(f)
    BY Zenon
  <2>1. <<x, b>> \in {x} \X (1 .. f[x].bytes)
    OBVIOUS
  <2> QED BY <2>1, SMT DEF Cells
<1>3. \A c \in Cells(g) : c[1] \in DOMAIN g /\ c[2] \in 1 .. g[c[1]].bytes /\ c = <<c[1], c[2]>>
  BY DEF Cells
<1>4. \A x \in DOMAIN g : \A b \in 1 .. g[x].bytes : <<x, b>> \in Cells(g)
  <2> SUFFICES ASSUME NEW x \in DOMAIN g, NEW b \in 1 .. g[x].bytes PROVE <<x, b>> \in Cells(g)
    BY Zenon
  <2>1. <<x, b>> \in {x} \X (1 .. g[x].bytes)
    OBVIOUS
  <2> QED BY <2>1, SMT DEF Cells
<1>5. \A c \in Cells(f) : <<m[c[1]], c[2]>> \in Cells(g)
  <2> SUFFICES ASSUME NEW c \in Cells(f) PROVE <<m[c[1]], c[2]>> \in Cells(g)
    BY Zenon
  <2>1. m[c[1]] \in DOMAIN g /\ c[2] \in 1 .. g[m[c[1]]].bytes
    BY <1>1, Zenon
  <2> QED BY <1>4, <2>1, SMT
<1>6. h \in Injection(Cells(f), Cells(g))
  <2>1. h \in [Cells(f) -> Cells(g)]
    BY <1>5, Zenon
  <2>2. ASSUME NEW c \in Cells(f), NEW d \in Cells(f), h[c] = h[d] PROVE c = d
    <3>1. m[c[1]] = m[d[1]] /\ c[2] = d[2]
      BY <2>2
    <3>2. c[1] = d[1]
      BY <1>1, <3>1
    <3> QED BY <1>1, <3>1, <3>2, SMT
  <2> HIDE DEF h
  <2> QED BY <2>1, <2>2, Zenon DEF Injection, IsInjective
<1>7. h \in Surjection(Cells(f), Cells(g))
  <2>1. h \in [Cells(f) -> Cells(g)]
    BY <1>5, Zenon
  <2>2. ASSUME NEW d \in Cells(g) PROVE \E c \in Cells(f) : h[c] = d
    <3>1. PICK x \in DOMAIN f : m[x] = d[1]
      BY <1>3, Zenon
    <3>2. d[2] \in 1 .. f[x].bytes
      BY <1>3, <3>1, Zenon
    <3>3. <<x, d[2]>> \in Cells(f)
      BY <1>2, <3>2
    <3>4. h[<<x, d[2]>>] = <<m[x], d[2]>>
      BY <3>3
    <3> QED BY <1>3, <3>1, <3>3, <3>4
  <2> HIDE DEF h
  <2> QED BY <2>1, <2>2, Zenon DEF Surjection
<1> HIDE DEF h
<1>8. ExistsBijection(Cells(f), Cells(g))
  BY <1>6, <1>7, Zenon DEF ExistsBijection, Bijection
<1>9. Cardinality(Cells(g)) = Cardinality(Cells(f))
  BY <1>8, CellsFinite, FS_Bijection, Zenon
<1>10. Counts(g)
  <2>1. m \in Surjection(DOMAIN f, DOMAIN g)
    BY Zenon DEF Surjection
  <2>2. IsFiniteSet(DOMAIN g)
    BY <2>1, FS_Surjection, Zenon DEF Counts
  <2>3. ASSUME NEW z \in DOMAIN g PROVE g[z].bytes \in Nat
    <3>1. PICK x \in DOMAIN f : m[x] = z
      BY Zenon
    <3> QED BY <3>1, Zenon DEF Counts
  <2> QED BY <2>2, <2>3, Zenon DEF Counts
<1> QED BY <1>9, <1>10, CellsFinite, Zenon

(***************************************************************************)
(* The cache's map of templates, and its entries from the least recently   *)
(* used to the most recently used.                                         *)
(***************************************************************************)
Cached(f) == f \in [DOMAIN f -> Template] /\ DOMAIN f \subseteq Entries

Ordered(q, f) ==
  /\ q \in Seq(DOMAIN f)
  /\ \A e \in DOMAIN f : \E i \in 1 .. Len(q) : q[i] = e
  /\ \A i, j \in 1 .. Len(q) : i < j => f[q[i]].used < f[q[j]].used

Listed(q, f) == [i \in 1 .. Len(q) |-> [entry |-> q[i], bytes |-> f[q[i]].bytes]]

(* The fields of a cached template. *)
LEMMA CachedIs ==
  ASSUME NEW f, Cached(f)
  PROVE  \A e \in DOMAIN f : f[e].bytes \in Bytes /\ f[e].bytes \in Nat /\ f[e].used \in Nat /\ f[e].used <= MaxClock
<1>1. \A e \in DOMAIN f : f[e] \in Template
  BY Zenon DEF Cached
<1>2. \A e \in DOMAIN f : f[e].bytes \in Bytes /\ f[e].used \in 0 .. MaxClock
  BY <1>1 DEF Template
<1>3. Bytes \subseteq Nat /\ \A u \in 0 .. MaxClock : u \in Nat /\ u <= MaxClock
  BY ConstantsAssumption
<1> QED BY <1>2, <1>3, Zenon

(* A function on 1 .. n is a sequence of length n. *)
LEMMA FunctionIsSeq ==
  ASSUME NEW n \in Nat, NEW S, NEW l \in [1 .. n -> S]
  PROVE  l \in Seq(S) /\ Len(l) = n
  OBVIOUS

(* The order has no repetition and is the order of use. *)
LEMMA OrderedIs ==
  ASSUME NEW f, Cached(f), NEW q, Ordered(q, f)
  PROVE  /\ Len(q) \in Nat /\ q \in [1 .. Len(q) -> DOMAIN f]
         /\ \A i, j \in 1 .. Len(q) : q[i] = q[j] => i = j
         /\ \A i, j \in 1 .. Len(q) : f[q[i]].used <= f[q[j]].used <=> i <= j
<1>1. q \in Seq(DOMAIN f) /\ \A i, j \in 1 .. Len(q) : i < j => f[q[i]].used < f[q[j]].used
  BY Zenon DEF Ordered
<1>2. Len(q) \in Nat /\ q \in [1 .. Len(q) -> DOMAIN f]
  BY <1>1
<1>3. \A i \in 1 .. Len(q) : f[q[i]].used \in Nat
  BY <1>2, CachedIs, Zenon
<1>4. \A i, j \in 1 .. Len(q) : f[q[i]].used <= f[q[j]].used <=> i <= j
  BY <1>1, <1>2, <1>3
<1>5. \A i, j \in 1 .. Len(q) : q[i] = q[j] => i = j
  <2> SUFFICES ASSUME NEW i \in 1 .. Len(q), NEW j \in 1 .. Len(q), q[i] = q[j] PROVE i = j
    BY Zenon
  <2>1. f[q[i]].used <= f[q[j]].used /\ f[q[j]].used <= f[q[i]].used
    BY <1>3
  <2>2. i <= j /\ j <= i
    BY <1>4, <2>1, Zenon
  <2> QED BY <1>2, <2>2
<1> QED BY <1>2, <1>4, <1>5, Zenon

(***************************************************************************)
(* The number of templates used no later is the place in the order.        *)
(***************************************************************************)
LEMMA RankIs ==
  ASSUME NEW f, Cached(f), NEW q, Ordered(q, f), NEW i \in 1 .. Len(q)
  PROVE  Cardinality({d \in DOMAIN f : f[d].used <= f[q[i]].used}) = i
<1> DEFINE T == {d \in DOMAIN f : f[d].used <= f[q[i]].used}
           g == [j \in 1 .. i |-> q[j]]
<1>1. /\ Len(q) \in Nat /\ q \in [1 .. Len(q) -> DOMAIN f]
      /\ \A j, k \in 1 .. Len(q) : q[j] = q[k] => j = k
      /\ \A j, k \in 1 .. Len(q) : f[q[j]].used <= f[q[k]].used <=> j <= k
  BY OrderedIs, Zenon
<1>2. i \in Nat /\ \A j : j \in 1 .. i <=> j \in 1 .. Len(q) /\ j <= i
  BY <1>1
<1>3. g \in [1 .. i -> T]
  BY <1>1, <1>2, Zenon
<1>4. \A j, k \in 1 .. i : g[j] = g[k] => j = k
  BY <1>1, <1>2, Zenon
<1>5. \A t \in T : \E j \in 1 .. i : g[j] = t
  <2> SUFFICES ASSUME NEW t \in T PROVE \E j \in 1 .. i : g[j] = t
    BY Zenon
  <2>1. PICK j \in 1 .. Len(q) : q[j] = t
    BY Zenon DEF Ordered
  <2>2. j <= i
    BY <1>1, <2>1, Zenon
  <2>3. j \in 1 .. i
    BY <1>2, <2>2, Zenon
  <2> QED BY <2>1, <2>3, Zenon
<1> HIDE DEF T, g
<1>6. Cardinality(T) = i
  BY <1>2, <1>3, <1>4, <1>5, Numbered, Zenon
<1> QED BY <1>6, Zenon DEF T

(***************************************************************************)
(* Sorting by the number of templates used no later gives the order.       *)
(***************************************************************************)
LEMMA ByUseIs ==
  ASSUME NEW f, Cached(f), NEW q, Ordered(q, f)
  PROVE  /\ IsFiniteSet(DOMAIN f) /\ Cardinality(DOMAIN f) = Len(q)
         /\ ByUse(f) = Listed(q, f)
<1> DEFINE at(e) == Cardinality({d \in DOMAIN f : f[d].used <= f[e].used})
           pick(i) == CHOOSE d \in DOMAIN f : at(d) = i
<1>1. /\ Len(q) \in Nat /\ q \in [1 .. Len(q) -> DOMAIN f]
      /\ \A i, j \in 1 .. Len(q) : q[i] = q[j] => i = j
      /\ \A t \in DOMAIN f : \E i \in 1 .. Len(q) : q[i] = t
  BY OrderedIs, Zenon DEF Ordered
<1>2. IsFiniteSet(DOMAIN f) /\ Cardinality(DOMAIN f) = Len(q)
  BY <1>1, Numbered, Zenon
<1>3. \A i \in 1 .. Len(q) : at(q[i]) = i
  BY RankIs, Zenon
<1>4. \A i \in 1 .. Len(q) : pick(i) = q[i]
  <2> SUFFICES ASSUME NEW i \in 1 .. Len(q) PROVE pick(i) = q[i]
    BY Zenon
  <2> HIDE DEF at
  <2>1. q[i] \in DOMAIN f /\ at(q[i]) = i
    BY <1>1, <1>3, Zenon
  <2>2. pick(i) \in DOMAIN f /\ at(pick(i)) = i
    BY <2>1, Zenon
  <2> HIDE DEF pick
  <2>3. PICK j \in 1 .. Len(q) : q[j] = pick(i)
    BY <1>1, <2>2, Zenon
  <2>4. at(q[j]) = j
    BY <1>3, Zenon
  <2> QED BY <2>2, <2>3, <2>4, Zenon
<1>5. ByUse(f) = [i \in 1 .. Len(q) |-> [entry |-> pick(i), bytes |-> f[pick(i)].bytes]]
  BY <1>2, Zenon DEF ByUse
<1> HIDE DEF pick
<1>6. ByUse(f) = Listed(q, f)
  BY <1>4, <1>5, Zenon DEF Listed
<1> QED BY <1>2, <1>6, Zenon

(* The list of a map, element by element. *)
LEMMA ListedIs ==
  ASSUME NEW f, Cached(f), NEW q, Ordered(q, f)
  PROVE  /\ Listed(q, f) \in Seq([entry : Entries, bytes : Bytes]) /\ Len(Listed(q, f)) = Len(q)
         /\ \A i \in 1 .. Len(q) : Listed(q, f)[i] = [entry |-> q[i], bytes |-> f[q[i]].bytes]
<1>1. Len(q) \in Nat /\ q \in [1 .. Len(q) -> DOMAIN f]
  BY OrderedIs, Zenon
<1>2. \A i \in 1 .. Len(q) : q[i] \in Entries /\ f[q[i]].bytes \in Bytes
  BY <1>1, CachedIs, Zenon DEF Cached
<1>3. \A i \in 1 .. Len(q) : [entry |-> q[i], bytes |-> f[q[i]].bytes] \in [entry : Entries, bytes : Bytes]
  BY <1>2
<1>4. Listed(q, f) \in [1 .. Len(q) -> [entry : Entries, bytes : Bytes]]
  BY <1>3, Zenon DEF Listed
<1>5. Listed(q, f) \in Seq([entry : Entries, bytes : Bytes]) /\ Len(Listed(q, f)) = Len(q)
  BY <1>1, <1>4, FunctionIsSeq, Zenon
<1> QED BY <1>5, Zenon DEF Listed

(***************************************************************************)
(* The list has the bytes of the map.                                      *)
(***************************************************************************)
LEMMA TotalListed ==
  ASSUME NEW f, Cached(f), NEW q, Ordered(q, f)
  PROVE  Counts(f) /\ Total(Listed(q, f)) = Total(f)
<1> DEFINE l == Listed(q, f)
<1>1. /\ Len(q) \in Nat /\ q \in [1 .. Len(q) -> DOMAIN f]
      /\ \A i, j \in 1 .. Len(q) : q[i] = q[j] => i = j
      /\ \A t \in DOMAIN f : \E i \in 1 .. Len(q) : q[i] = t
  BY OrderedIs, Zenon DEF Ordered
<1>2. DOMAIN l = 1 .. Len(q)
  BY Zenon DEF Listed
<1>3. \A i \in 1 .. Len(q) : l[i].bytes = f[q[i]].bytes
  BY DEF Listed
<1> HIDE DEF l
<1>4. IsFiniteSet(DOMAIN l)
  <2>1. IsFiniteSet(1 .. Len(q))
    BY <1>1, FS_Interval
  <2> QED BY <1>2, <2>1, Zenon
<1>5. \A i \in DOMAIN l : l[i].bytes \in Nat
  <2> SUFFICES ASSUME NEW i \in 1 .. Len(q) PROVE f[q[i]].bytes \in Nat
    BY <1>2, <1>3
  <2>1. q[i] \in DOMAIN f
    BY <1>1, Zenon
  <2> QED BY <2>1, CachedIs, Zenon
<1>6. Counts(l)
  BY <1>4, <1>5, Zenon DEF Counts
<1>7. /\ q \in [DOMAIN l -> DOMAIN f]
      /\ \A i, j \in DOMAIN l : q[i] = q[j] => i = j
      /\ \A t \in DOMAIN f : \E i \in DOMAIN l : q[i] = t
      /\ \A i \in DOMAIN l : f[q[i]].bytes = l[i].bytes
  BY <1>1, <1>2, <1>3
<1>8. Counts(f) /\ Total(f) = Total(l)
  BY <1>6, <1>7, TotalMoves, Zenon
<1> QED BY <1>8, Zenon DEF l

Limited(f, S) == [x \in S |-> f[x]]

(* A part of a map of templates is one. *)
LEMMA LimitedIs ==
  ASSUME NEW f, Cached(f), NEW S, S \subseteq DOMAIN f
  PROVE  /\ Cached(Limited(f, S)) /\ DOMAIN Limited(f, S) = S
         /\ \A x \in S : Limited(f, S)[x] = f[x]
  BY Zenon DEF Cached, Limited

(***************************************************************************)
(* A part of the order is the order of the part: the elements of q at the  *)
(* positions m[1], ..., m[n].                                              *)
(***************************************************************************)
Rising(m, n, s) ==
  n \in Nat /\ m \in [1 .. n -> 1 .. s] /\ \A i, j \in 1 .. n : i < j => m[i] < m[j]

Picked(q, m, n) == [i \in 1 .. n |-> q[m[i]]]

Taken(q, m, n) == {q[m[i]] : i \in 1 .. n}

(* A rising choice of positions orders the map of what it picks. *)
LEMMA PartOrdered ==
  ASSUME NEW f, Cached(f), NEW q, Ordered(q, f), NEW m, NEW n, Rising(m, n, Len(q))
  PROVE  LET g == Limited(f, Taken(q, m, n))
         IN  /\ Cached(g) /\ Ordered(Picked(q, m, n), g)
             /\ Listed(Picked(q, m, n), g) = Picked(Listed(q, f), m, n)
<1> DEFINE S == Taken(q, m, n)
           g == Limited(f, S)
           r == Picked(q, m, n)
<1>0. n \in Nat /\ m \in [1 .. n -> 1 .. Len(q)] /\ \A i, j \in 1 .. n : i < j => m[i] < m[j]
  BY Zenon DEF Rising
<1>1. /\ Len(q) \in Nat /\ q \in [1 .. Len(q) -> DOMAIN f]
      /\ \A i, j \in 1 .. Len(q) : i < j => f[q[i]].used < f[q[j]].used
  BY OrderedIs, Zenon DEF Ordered
<1>2. S \subseteq DOMAIN f
  BY <1>0, <1>1, Zenon DEF Taken
<1> HIDE DEF S
<1>3. Cached(g) /\ DOMAIN g = S /\ \A x \in S : g[x] = f[x]
  BY <1>2, LimitedIs, Zenon
<1> HIDE DEF g
<1>a. \A i \in 1 .. n : r[i] = q[m[i]] /\ r[i] \in S /\ m[i] \in 1 .. Len(q)
  BY <1>0, Zenon DEF Picked, Taken, S
<1>4. r \in Seq(S) /\ Len(r) = n
  <2>1. r \in [1 .. n -> S]
    BY Zenon DEF Picked, Taken, S
  <2> QED BY <1>0, <2>1, FunctionIsSeq, Zenon
<1>5. \A e \in S : \E i \in 1 .. n : r[i] = e
  BY Zenon DEF Picked, Taken, S
<1> HIDE DEF r
<1>6. \A i \in 1 .. n : r[i] = q[m[i]] /\ m[i] \in 1 .. Len(q) /\ g[r[i]] = f[q[m[i]]]
  BY <1>3, <1>a, Zenon
<1>7. \A i, j \in 1 .. n : i < j => g[r[i]].used < g[r[j]].used
  BY <1>0, <1>1, <1>6, Zenon
<1>8. Ordered(r, g)
  BY <1>3, <1>4, <1>5, <1>7, Zenon DEF Ordered
<1>9. Listed(r, g) = Picked(Listed(q, f), m, n)
  <2>0. \A k \in 1 .. Len(q) : Listed(q, f)[k] = [entry |-> q[k], bytes |-> f[q[k]].bytes]
    BY Zenon DEF Listed
  <2>1. \A i \in 1 .. n : Listed(q, f)[m[i]] = [entry |-> q[m[i]], bytes |-> f[q[m[i]]].bytes]
    BY <1>6, <2>0, Zenon
  <2>2. \A i \in 1 .. n : [entry |-> r[i], bytes |-> g[r[i]].bytes] = Listed(q, f)[m[i]]
    BY <1>6, <2>1, Zenon
  <2>3. Listed(r, g) = [i \in 1 .. n |-> [entry |-> r[i], bytes |-> g[r[i]].bytes]]
    BY <1>4, Zenon DEF Listed
  <2> QED BY <2>2, <2>3, Zenon DEF Picked
<1> QED BY <1>3, <1>8, <1>9, Zenon DEF S, r, g

Skip(p, n) == [i \in 1 .. n |-> IF i < p THEN i ELSE i + 1]

Shift(k, n) == [i \in 1 .. n |-> i + k]

(* Removing a position picks all the others. *)
LEMMA RemovedPicked ==
  ASSUME NEW S, NEW l \in Seq(S), NEW p \in 1 .. Len(l)
  PROVE  Removed(l, p) = Picked(l, Skip(p, Len(l) - 1), Len(l) - 1)
<1> DEFINE n == Len(l) - 1
           r == Removed(l, p)
<1>1. r \in Seq(S) /\ Len(r) = n /\ \A i \in 1 .. n : r[i] = IF i < p THEN l[i] ELSE l[i + 1]
  BY RemovedIs, Zenon
<1>2. \A i \in 1 .. n : Skip(p, n)[i] = IF i < p THEN i ELSE i + 1
  BY Zenon DEF Skip
<1> HIDE DEF r, n
<1>3. r = [i \in 1 .. n |-> r[i]]
  BY <1>1
<1>4. \A i \in 1 .. n : r[i] = l[Skip(p, n)[i]]
  BY <1>1, <1>2, Zenon
<1>5. r = Picked(l, Skip(p, n), n)
  BY <1>3, <1>4, Zenon DEF Picked
<1> QED BY <1>5, Zenon DEF r, n

(* What lies behind a position is picked by a shift. *)
LEMMA BehindPicked ==
  ASSUME NEW S, NEW l \in Seq(S), NEW k \in 0 .. Len(l)
  PROVE  Behind(l, k) = Picked(l, Shift(k, Len(l) - k), Len(l) - k)
<1> DEFINE n == Len(l) - k
           r == Behind(l, k)
<1>1. r \in Seq(S) /\ Len(r) = n /\ \A i \in 1 .. n : r[i] = l[i + k]
  BY BehindIs, Zenon
<1>2. \A i \in 1 .. n : Shift(k, n)[i] = i + k
  BY Zenon DEF Shift
<1> HIDE DEF r, n
<1>3. r = [i \in 1 .. n |-> r[i]]
  BY <1>1
<1>4. \A i \in 1 .. n : r[i] = l[Shift(k, n)[i]]
  BY <1>1, <1>2, Zenon
<1>5. r = Picked(l, Shift(k, n), n)
  BY <1>3, <1>4, Zenon DEF Picked
<1> QED BY <1>5, Zenon DEF r, n

(***************************************************************************)
(* The list without an entry is the list of the map without it.            *)
(***************************************************************************)
LEMMA OrderedWithout ==
  ASSUME NEW f, Cached(f), NEW q, Ordered(q, f), NEW p \in 1 .. Len(q)
  PROVE  LET g == Limited(f, DOMAIN f \ {q[p]})
         IN  /\ Cached(g) /\ Ordered(Removed(q, p), g)
             /\ Listed(Removed(q, p), g) = Removed(Listed(q, f), p)
<1> DEFINE n == Len(q) - 1
           m == Skip(p, n)
           S == DOMAIN f \ {q[p]}
           l == Listed(q, f)
<1>1. /\ Len(q) \in Nat /\ q \in [1 .. Len(q) -> DOMAIN f] /\ q \in Seq(DOMAIN f)
      /\ \A i, j \in 1 .. Len(q) : q[i] = q[j] => i = j
      /\ \A e \in DOMAIN f : \E i \in 1 .. Len(q) : q[i] = e
  BY OrderedIs, Zenon DEF Ordered
<1>2. Rising(m, n, Len(q))
  BY <1>1 DEF Rising, Skip
<1>4. \A i \in 1 .. n : m[i] = IF i < p THEN i ELSE i + 1
  BY Zenon DEF Skip
<1>b. \A i \in 1 .. n : m[i] \in 1 .. Len(q)
  BY <1>2, Zenon DEF Rising
<1>c. n = Len(q) - 1
  OBVIOUS
<1> HIDE DEF m, n
<1>5. \A k \in 1 .. Len(q) : k # p <=> \E i \in 1 .. n : m[i] = k
  <2> SUFFICES ASSUME NEW k \in 1 .. Len(q) PROVE k # p <=> \E i \in 1 .. n : m[i] = k
    BY Zenon
  <2>1. CASE k = p
    BY <1>1, <1>4, <1>c, <2>1
  <2>2. CASE k < p
    <3>1. k \in 1 .. n /\ k # p
      BY <1>1, <1>c, <2>2
    <3> QED BY <1>4, <2>2, <3>1, Zenon
  <2>3. CASE k > p
    <3>1. k - 1 \in 1 .. n /\ k # p /\ ~(k - 1 < p) /\ k - 1 + 1 = k
      BY <1>1, <1>c, <2>3
    <3> QED BY <1>4, <3>1, Zenon
  <2> QED BY <1>1, <2>1, <2>2, <2>3
<1>6. S = Taken(q, m, n)
  <2>1. ASSUME NEW e \in S PROVE e \in Taken(q, m, n)
    <3>1. PICK k \in 1 .. Len(q) : q[k] = e
      BY <1>1, Zenon
    <3>2. k # p
      BY <3>1, Zenon
    <3>3. PICK i \in 1 .. n : m[i] = k
      BY <1>5, <3>2, Zenon
    <3> QED BY <3>1, <3>3, Zenon DEF Taken
  <2>2. ASSUME NEW e \in Taken(q, m, n) PROVE e \in S
    <3>0. PICK i \in 1 .. n : e = q[m[i]]
      BY <2>2, Zenon DEF Taken
    <3>1. m[i] \in 1 .. Len(q) /\ m[i] # p
      BY <1>b, <1>5, Zenon
    <3>2. q[m[i]] # q[p] /\ q[m[i]] \in DOMAIN f
      BY <1>1, <3>1, Zenon
    <3> QED BY <3>0, <3>2, Zenon
  <2> QED BY <2>1, <2>2, Zenon
<1>7. Removed(q, p) = Picked(q, m, n)
  BY <1>1, RemovedPicked, Zenon DEF m, n
<1>8. Removed(l, p) = Picked(l, m, n)
  <2>1. l \in Seq([entry : Entries, bytes : Bytes]) /\ Len(l) = Len(q)
    BY ListedIs, Zenon
  <2> HIDE DEF l
  <2>2. Removed(l, p) = Picked(l, Skip(p, Len(l) - 1), Len(l) - 1)
    BY <2>1, RemovedPicked, Zenon
  <2> QED BY <2>1, <2>2, Zenon DEF m, n
<1> HIDE DEF S
<1>9. /\ Cached(Limited(f, S)) /\ Ordered(Picked(q, m, n), Limited(f, S))
      /\ Listed(Picked(q, m, n), Limited(f, S)) = Picked(l, m, n)
  BY <1>2, <1>6, PartOrdered, ZenonT(30)
<1> QED BY <1>7, <1>8, <1>9, Zenon DEF S

(***************************************************************************)
(* The end of the list is the list of the entries used last.               *)
(***************************************************************************)
Last(q, k) == {q[i] : i \in k + 1 .. Len(q)}

(* The end of the order is the order of the map cut down to it. *)
LEMMA OrderedBehind ==
  ASSUME NEW f, Cached(f), NEW q, Ordered(q, f), NEW k \in 0 .. Len(q)
  PROVE  LET g == Limited(f, Last(q, k))
         IN  /\ Cached(g) /\ Ordered(Behind(q, k), g)
             /\ Listed(Behind(q, k), g) = Behind(Listed(q, f), k)
<1> DEFINE n == Len(q) - k
           m == Shift(k, n)
           S == Last(q, k)
           l == Listed(q, f)
<1>1. Len(q) \in Nat /\ q \in Seq(DOMAIN f)
  BY OrderedIs, Zenon DEF Ordered
<1>2. Rising(m, n, Len(q))
  BY <1>1 DEF Rising, Shift
<1>4. \A i \in 1 .. n : m[i] = i + k
  BY Zenon DEF Shift
<1>5. S = Taken(q, m, n)
  <2>1. \A j \in k + 1 .. Len(q) : j - k \in 1 .. n /\ j - k + k = j
    BY <1>1
  <2>2. \A i \in 1 .. n : i + k \in k + 1 .. Len(q)
    BY <1>1
  <2> HIDE DEF m, n
  <2>3. ASSUME NEW e \in S PROVE e \in Taken(q, m, n)
    <3>1. PICK j \in k + 1 .. Len(q) : e = q[j]
      BY Zenon DEF Last
    <3>2. j - k \in 1 .. n /\ m[j - k] = j
      BY <1>4, <2>1, Zenon
    <3> QED BY <3>1, <3>2, Zenon DEF Taken
  <2>4. ASSUME NEW e \in Taken(q, m, n) PROVE e \in S
    <3>1. PICK i \in 1 .. n : e = q[m[i]]
      BY <2>4, Zenon DEF Taken
    <3>2. m[i] \in k + 1 .. Len(q)
      BY <1>4, <2>2, Zenon
    <3> QED BY <3>1, <3>2, Zenon DEF Last
  <2> QED BY <2>3, <2>4, Zenon
<1>6. Behind(q, k) = Picked(q, m, n)
  BY <1>1, BehindPicked, Zenon
<1>7. Behind(l, k) = Picked(l, m, n)
  <2>1. l \in Seq([entry : Entries, bytes : Bytes]) /\ Len(l) = Len(q)
    BY ListedIs, Zenon
  <2> HIDE DEF l
  <2>2. Behind(l, k) = Picked(l, Shift(k, Len(l) - k), Len(l) - k)
    BY <2>1, BehindPicked, Zenon
  <2> QED BY <2>1, <2>2, Zenon
<1> HIDE DEF n, m, S
<1>8. /\ Cached(Limited(f, S)) /\ Ordered(Picked(q, m, n), Limited(f, S))
      /\ Listed(Picked(q, m, n), Limited(f, S)) = Picked(l, m, n)
  BY <1>2, <1>5, PartOrdered, Zenon
<1> QED BY <1>6, <1>7, <1>8, Zenon DEF S

(***************************************************************************)
(* A template used later than all others goes to the end of the list.      *)
(***************************************************************************)
ItemOf(e, n) == [entry |-> e, bytes |-> n]

Joined(f, e, g) ==
  /\ e \notin DOMAIN f /\ DOMAIN g = DOMAIN f \cup {e} /\ \A x \in DOMAIN f : g[x] = f[x]

Later(f, e, g) == \A x \in DOMAIN f : f[x].used < g[e].used

(* The order and the list with one more recent template. *)
LEMMA OrderedAppend ==
  ASSUME NEW f, Cached(f), NEW q, Ordered(q, f),
         NEW g, Cached(g), NEW e, Joined(f, e, g), Later(f, e, g)
  PROVE  /\ Ordered(Append(q, e), g)
         /\ Listed(Append(q, e), g) = Append(Listed(q, f), ItemOf(e, g[e].bytes))
<1> DEFINE r == Append(q, e)
           l == Listed(q, f)
           item == ItemOf(e, g[e].bytes)
           Item == [entry : Entries, bytes : Bytes]
<1>1. /\ Len(q) \in Nat /\ q \in [1 .. Len(q) -> DOMAIN f] /\ q \in Seq(DOMAIN f)
      /\ \A x \in DOMAIN f : \E i \in 1 .. Len(q) : q[i] = x
      /\ \A i, j \in 1 .. Len(q) : i < j => f[q[i]].used < f[q[j]].used
  BY OrderedIs, Zenon DEF Ordered
<1>2. q \in Seq(DOMAIN g) /\ e \in DOMAIN g
  BY <1>1 DEF Joined
<1>3. /\ r \in Seq(DOMAIN g) /\ Len(r) = Len(q) + 1
      /\ \A i \in 1 .. Len(q) : r[i] = q[i]
      /\ r[Len(q) + 1] = e
  BY <1>2, AppendIs, Zenon
<1> HIDE DEF r
<1>4. \A i \in 1 .. Len(r) : i \in 1 .. Len(q) \/ i = Len(q) + 1
  BY <1>1, <1>3
<1>d. \A i \in 1 .. Len(q) : i \in 1 .. Len(r)
  BY <1>1, <1>3
<1>e. \A x \in DOMAIN f : g[x] = f[x] /\ f[x].used < g[e].used
  BY Zenon DEF Joined, Later
<1>5. \A i \in 1 .. Len(q) : r[i] = q[i] /\ q[i] \in DOMAIN f /\ g[r[i]] = f[q[i]] /\ f[q[i]].used < g[e].used
  BY <1>1, <1>3, <1>e, Zenon
<1>6. Len(q) + 1 \in 1 .. Len(r)
  BY <1>1, <1>3
<1>7. \A x \in DOMAIN g : \E i \in 1 .. Len(r) : r[i] = x
  <2> SUFFICES ASSUME NEW x \in DOMAIN g PROVE \E i \in 1 .. Len(r) : r[i] = x
    BY Zenon
  <2>1. CASE x \in DOMAIN f
    <3>1. PICK i \in 1 .. Len(q) : q[i] = x
      BY <1>1, <2>1, Zenon
    <3> QED BY <1>5, <1>d, <3>1, Zenon
  <2>2. CASE x = e
    BY <1>3, <1>6, <2>2, Zenon
  <2> QED BY <2>1, <2>2, Zenon DEF Joined
<1>8. \A i, j \in 1 .. Len(r) : i < j => g[r[i]].used < g[r[j]].used
  <2> SUFFICES ASSUME NEW i \in 1 .. Len(r), NEW j \in 1 .. Len(r), i < j PROVE g[r[i]].used < g[r[j]].used
    BY Zenon
  <2>1. i \in 1 .. Len(q)
    BY <1>1, <1>3
  <2>2. CASE j \in 1 .. Len(q)
    BY <1>1, <1>5, <2>1, <2>2, Zenon
  <2>3. CASE j = Len(q) + 1
    BY <1>3, <1>5, <2>1, <2>3, Zenon
  <2> QED BY <1>4, <2>2, <2>3, Zenon
<1>9. Ordered(r, g)
  BY <1>3, <1>7, <1>8, Zenon DEF Ordered
<1>10. Listed(r, g) = Append(l, item)
  <2>1. Listed(r, g) \in Seq(Item) /\ Len(Listed(r, g)) = Len(r)
    BY <1>9, ListedIs, Zenon
  <2>2. l \in Seq(Item) /\ Len(l) = Len(q)
    BY ListedIs, Zenon
  <2>7. \A i \in 1 .. Len(r) : Listed(r, g)[i] = [entry |-> r[i], bytes |-> g[r[i]].bytes]
    BY Zenon DEF Listed
  <2>8. \A i \in 1 .. Len(q) : l[i] = [entry |-> q[i], bytes |-> f[q[i]].bytes]
    BY Zenon DEF Listed
  <2> HIDE DEF l
  <2>3. item \in Item
    <3>1. e \in Entries /\ g[e].bytes \in Bytes
      BY <1>2, CachedIs, Zenon DEF Cached
    <3> QED BY <3>1 DEF ItemOf
  <2>6. item = [entry |-> e, bytes |-> g[e].bytes]
    BY Zenon DEF ItemOf
  <2> HIDE DEF Item, item
  <2>4. /\ Append(l, item) \in Seq(Item) /\ Len(Append(l, item)) = Len(l) + 1
        /\ \A i \in 1 .. Len(l) : Append(l, item)[i] = l[i]
        /\ Append(l, item)[Len(l) + 1] = item
    BY <2>2, <2>3, AppendIs, ZenonT(30)
  <2>5. \A i \in 1 .. Len(r) : Listed(r, g)[i] = Append(l, item)[i]
    <3> SUFFICES ASSUME NEW i \in 1 .. Len(r) PROVE Listed(r, g)[i] = Append(l, item)[i]
      BY Zenon
    <3>1. CASE i \in 1 .. Len(q)
      <4>1. Listed(r, g)[i] = [entry |-> q[i], bytes |-> f[q[i]].bytes]
        BY <1>5, <2>7, <3>1, Zenon
      <4>2. Append(l, item)[i] = l[i]
        BY <2>2, <2>4, <3>1, Zenon
      <4> QED BY <2>8, <3>1, <4>1, <4>2, Zenon
    <3>2. CASE i = Len(q) + 1
      BY <1>3, <2>2, <2>4, <2>6, <2>7, <3>2, Zenon
    <3> QED BY <1>4, <3>1, <3>2, Zenon
  <2> QED BY <1>3, <2>1, <2>2, <2>4, <2>5, SeqSame, Zenon
<1> QED BY <1>9, <1>10, Zenon DEF r

(***************************************************************************)
(* A cache whose count of bytes is right.                                  *)
(***************************************************************************)
Whole(f) == [entries |-> f, retained |-> Total(f)]

(* The fields of such a cache. *)
LEMMA WholeIs ==
  ASSUME NEW f
  PROVE  Whole(f).entries = f /\ Whole(f).retained = Total(f)
  BY DEF Whole

(***************************************************************************)
(* erase() on such a cache.                                                *)
(***************************************************************************)
LEMMA ErasedIs ==
  ASSUME NEW f, Cached(f), NEW q, Ordered(q, f), NEW p \in 1 .. Len(q)
  PROVE  Erased(Whole(f), q[p]) = Whole(Limited(f, DOMAIN f \ {q[p]}))
<1> DEFINE e == q[p]
           g == Limited(f, DOMAIN f \ {e})
<1>1. e \in DOMAIN f
  BY OrderedIs, ZenonT(30)
<1>2. Ordered(Removed(q, p), g) /\ Cached(g)
  BY OrderedWithout, Zenon
<1>3. DOMAIN g = DOMAIN f \ {e} /\ \A x \in DOMAIN g : g[x] = f[x]
  BY Zenon DEF Limited
<1>4. Erased(Whole(f), e) = [entries |-> g, retained |-> Total(f) - f[e].bytes]
  BY <1>1, WholeIs, Zenon DEF Erased, Limited
<1> HIDE DEF g, e
<1>5. f[e].bytes \in Nat
  BY <1>1, CachedIs, Zenon
<1>6. Counts(g)
  BY <1>2, TotalListed, Zenon
<1>7. Total(f) = Total(g) + f[e].bytes
  <2>1. DOMAIN f = DOMAIN g \cup {e} /\ e \notin DOMAIN g /\ \A x \in DOMAIN g : f[x] = g[x]
    BY <1>1, <1>3, Zenon
  <2> QED BY <1>5, <1>6, <2>1, TotalAdds, ZenonT(30)
<1>8. Total(g) \in Nat
  BY <1>6, CellsFinite, Zenon
<1>9. Total(f) - f[e].bytes = Total(g)
  BY <1>5, <1>7, <1>8
<1>10. Erased(Whole(f), e) = Whole(g)
  BY <1>4, <1>9, Zenon DEF Whole
<1> QED BY <1>10, Zenon DEF g, e

(* erase() of an absent entry changes nothing. *)
LEMMA ErasedNothing ==
  ASSUME NEW f, NEW e, e \notin DOMAIN f
  PROVE  Erased(Whole(f), e) = Whole(f)
  BY WholeIs, Zenon DEF Erased

(* The entry with the smallest time is the first of the order. *)
LEMMA OldestIs ==
  ASSUME NEW f, Cached(f), NEW q, Ordered(q, f), Len(q) # 0
  PROVE  Oldest(Whole(f)) = q[1]
<1>1. /\ Len(q) \in Nat /\ q \in [1 .. Len(q) -> DOMAIN f]
      /\ \A i, j \in 1 .. Len(q) : q[i] = q[j] => i = j
      /\ \A e \in DOMAIN f : \E i \in 1 .. Len(q) : q[i] = e
      /\ \A i, j \in 1 .. Len(q) : f[q[i]].used <= f[q[j]].used <=> i <= j
  BY OrderedIs, ZenonT(30) DEF Ordered
<1>2. 1 \in 1 .. Len(q) /\ \A i \in 1 .. Len(q) : 1 <= i /\ (i <= 1 => i = 1)
  BY <1>1
<1> DEFINE Least(e) == \A d \in DOMAIN f : f[e].used <= f[d].used
<1>3. q[1] \in DOMAIN f /\ Least(q[1])
  <2>1. ASSUME NEW d \in DOMAIN f PROVE f[q[1]].used <= f[d].used
    <3>1. PICK i \in 1 .. Len(q) : q[i] = d
      BY <1>1, Zenon
    <3> QED BY <1>1, <1>2, <3>1, Zenon
  <2> QED BY <1>1, <1>2, <2>1, Zenon
<1>4. ASSUME NEW e \in DOMAIN f, Least(e) PROVE e = q[1]
  <2>1. PICK i \in 1 .. Len(q) : q[i] = e
    BY <1>1, Zenon
  <2>2. f[q[i]].used <= f[q[1]].used
    BY <1>3, <1>4, <2>1, Zenon
  <2>3. i <= 1
    BY <1>1, <1>2, <2>2, Zenon
  <2> QED BY <1>2, <2>1, <2>3, Zenon
<1>5. Oldest(Whole(f)) = CHOOSE e \in DOMAIN f : Least(e)
  BY WholeIs, Zenon DEF Oldest
<1> HIDE DEF Least
<1> QED BY <1>3, <1>4, <1>5, Zenon

(***************************************************************************)
(* The cache after k iterations of the loop of put().                      *)
(***************************************************************************)
Cut(f, q, k) == Limited(f, Last(q, k))

(* The cache after k iterations: its map, its order and its sizes. *)
LEMMA CutIs ==
  ASSUME NEW f, Cached(f), NEW q, Ordered(q, f), NEW k \in 0 .. Len(q)
  PROVE  /\ Cached(Cut(f, q, k)) /\ Ordered(Behind(q, k), Cut(f, q, k))
         /\ DOMAIN Cut(f, q, k) = Last(q, k) /\ Last(q, k) \subseteq DOMAIN f
         /\ \A x \in Last(q, k) : Cut(f, q, k)[x] = f[x]
         /\ Len(Behind(q, k)) = Len(q) - k /\ Cardinality(Last(q, k)) = Len(q) - k
         /\ Counts(Cut(f, q, k)) /\ Total(Cut(f, q, k)) \in Nat
<1> DEFINE g == Cut(f, q, k)
<1>1. Cached(g) /\ Ordered(Behind(q, k), g)
  BY OrderedBehind, Zenon DEF Cut
<1>2. DOMAIN g = Last(q, k) /\ \A x \in Last(q, k) : g[x] = f[x]
  BY Zenon DEF Cut, Limited
<1>3. Last(q, k) \subseteq DOMAIN f
  <2>1. q \in [1 .. Len(q) -> DOMAIN f] /\ Len(q) \in Nat
    BY OrderedIs, Zenon
  <2>2. \A i \in k + 1 .. Len(q) : i \in 1 .. Len(q)
    BY <2>1
  <2> QED BY <2>1, <2>2, Zenon DEF Last
<1>4. Len(Behind(q, k)) = Len(q) - k
  BY BehindIs, Zenon DEF Ordered
<1> HIDE DEF g
<1>5. Cardinality(Last(q, k)) = Len(q) - k
  <2>1. Cardinality(DOMAIN g) = Len(Behind(q, k))
    BY <1>1, ByUseIs, Zenon
  <2> QED BY <1>2, <1>4, <2>1, Zenon
<1>6. Counts(g)
  BY <1>1, TotalListed, Zenon
<1>7. Total(g) \in Nat
  BY <1>6, CellsFinite, Zenon
<1> QED BY <1>1, <1>2, <1>3, <1>4, <1>5, <1>6, <1>7, Zenon DEF g

(* No iteration leaves the map as it is, as many as templates leave it empty. *)
LEMMA CutNothing ==
  ASSUME NEW f, Cached(f), NEW q, Ordered(q, f)
  PROVE  Cut(f, q, 0) = f /\ DOMAIN Cut(f, q, Len(q)) = {}
<1>1. Len(q) \in Nat /\ q \in [1 .. Len(q) -> DOMAIN f] /\ \A e \in DOMAIN f : \E i \in 1 .. Len(q) : q[i] = e
  BY OrderedIs, Zenon DEF Ordered
<1>2. 0 + 1 = 1 /\ \A i \in Len(q) + 1 .. Len(q) : FALSE
  BY <1>1
<1>3. Last(q, 0) = DOMAIN f
  <2>1. Last(q, 0) = {q[i] : i \in 1 .. Len(q)}
    BY <1>2, Zenon DEF Last
  <2> QED BY <1>1, <2>1, Zenon
<1>4. f = [x \in DOMAIN f |-> f[x]]
  BY Zenon DEF Cached
<1>5. Last(q, Len(q)) = {}
  BY <1>2, Zenon DEF Last
<1> QED BY <1>3, <1>4, <1>5, Zenon DEF Cut, Limited

(* One more iteration erases the first of what is left. *)
LEMMA CutFurther ==
  ASSUME NEW f, Cached(f), NEW q, Ordered(q, f), NEW k \in 0 .. Len(q), k # Len(q)
  PROVE  Erased(Whole(Cut(f, q, k)), Oldest(Whole(Cut(f, q, k)))) = Whole(Cut(f, q, k + 1))
<1> DEFINE g == Cut(f, q, k)
           r == Behind(q, k)
<1>0. \A x \in Last(q, k) : g[x] = f[x]
  BY Zenon DEF Cut, Limited
<1>1. Cached(g) /\ Ordered(r, g) /\ DOMAIN g = Last(q, k) /\ Len(r) = Len(q) - k
  BY CutIs, Zenon
<1>2. /\ Len(q) \in Nat /\ \A i, j \in 1 .. Len(q) : q[i] = q[j] => i = j
  BY OrderedIs, Zenon
<1>3. Len(r) # 0 /\ 1 \in 1 .. Len(r)
  BY <1>1, <1>2, CutIs
<1>4. r[1] = q[k + 1]
  <2>1. \A i \in 1 .. Len(q) - k : r[i] = q[i + k]
    BY BehindIs, Zenon DEF Ordered
  <2>2. 1 \in 1 .. Len(q) - k /\ 1 + k = k + 1
    BY <1>2
  <2> QED BY <2>1, <2>2, Zenon
<1> HIDE DEF g, r
<1>5. Oldest(Whole(g)) = q[k + 1]
  BY <1>1, <1>3, <1>4, OldestIs, Zenon
<1>6. Erased(Whole(g), q[k + 1]) = Whole(Limited(g, DOMAIN g \ {q[k + 1]}))
  <2>1. \A p \in 1 .. Len(r) : Erased(Whole(g), r[p]) = Whole(Limited(g, DOMAIN g \ {r[p]}))
    BY <1>1, ErasedIs, Zenon
  <2> QED BY <1>3, <1>4, <2>1, Zenon
<1>7. DOMAIN g \ {q[k + 1]} = Last(q, k + 1)
  <2>1. \A i : i \in k + 1 .. Len(q) <=> i = k + 1 \/ i \in k + 1 + 1 .. Len(q)
    BY <1>2
  <2>2. \A i \in k + 1 + 1 .. Len(q) : q[i] # q[k + 1]
    <3>1. \A i \in k + 1 + 1 .. Len(q) : i \in 1 .. Len(q) /\ k + 1 \in 1 .. Len(q) /\ i # k + 1
      BY <1>2
    <3> QED BY <1>2, <3>1, Zenon
  <2>3. Last(q, k) \ {q[k + 1]} = Last(q, k + 1)
    <3>1. ASSUME NEW x \in Last(q, k) \ {q[k + 1]} PROVE x \in Last(q, k + 1)
      <4>1. PICK i \in k + 1 .. Len(q) : x = q[i]
        BY Zenon DEF Last
      <4>2. i \in k + 1 + 1 .. Len(q)
        BY <2>1, <3>1, <4>1, Zenon
      <4> QED BY <4>1, <4>2, Zenon DEF Last
    <3>2. ASSUME NEW x \in Last(q, k + 1) PROVE x \in Last(q, k) \ {q[k + 1]}
      <4>1. PICK i \in k + 1 + 1 .. Len(q) : x = q[i]
        BY Zenon DEF Last
      <4>2. i \in k + 1 .. Len(q)
        BY <2>1, Zenon
      <4> QED BY <2>2, <4>1, <4>2, Zenon DEF Last
    <3> QED BY <3>1, <3>2, Zenon
  <2> QED BY <1>1, <2>3, Zenon
<1>8. Limited(g, Last(q, k + 1)) = Cut(f, q, k + 1)
  <2>1. \A x \in Last(q, k + 1) : x \in Last(q, k)
    BY <1>1, <1>7, Zenon
  <2>2. \A x \in Last(q, k + 1) : g[x] = f[x]
    BY <1>0, <2>1, Zenon
  <2> QED BY <2>2, Zenon DEF Cut, Limited
<1> QED BY <1>5, <1>6, <1>7, <1>8, Zenon DEF g

(* A set of numbers that is not empty has a least element. *)
LEMMA LeastElement ==
  ASSUME NEW T \in SUBSET Nat, T # {}
  PROVE  \E n \in T : \A m \in T : n <= m
<1>1. PICK x \in T : \A y \in T : ~(<<y, x>> \in OpToRel(<, Nat))
  BY NatLessThanWellFounded, WFMin, Zenon
<1>2. \A y \in T : ~(y < x)
  BY <1>1, Zenon DEF OpToRel
<1> QED BY <1>2

(***************************************************************************)
(* Where the loop of put() stops.                                          *)
(***************************************************************************)
Stops(f, q, n, k) ==
  /\ k \in 0 .. Len(q) /\ ~Crowded(Whole(Cut(f, q, k)), n)
  /\ \A j \in 0 .. Len(q) : j < k => Crowded(Whole(Cut(f, q, j)), n)

(* The loop of put() stops, at the latest with an empty cache. *)
LEMMA LoopStops ==
  ASSUME NEW f, Cached(f), NEW q, Ordered(q, f), NEW n
  PROVE  \E k \in 0 .. Len(q) : Stops(f, q, n, k)
<1> DEFINE T == {j \in 0 .. Len(q) : ~Crowded(Whole(Cut(f, q, j)), n)}
<1>1. Len(q) \in Nat
  BY OrderedIs, Zenon
<1>2. Len(q) \in T
  <2>1. Len(q) \in 0 .. Len(q)
    BY <1>1
  <2>2. ~Crowded(Whole(Cut(f, q, Len(q))), n)
    <3>1. DOMAIN Cut(f, q, Len(q)) = {}
      BY CutNothing, Zenon
    <3>2. Whole(Cut(f, q, Len(q))).entries = Cut(f, q, Len(q))
      BY WholeIs, Zenon
    <3> QED BY <3>1, <3>2, Zenon DEF Crowded
  <2> QED BY <2>1, <2>2, Zenon
<1>3. T \in SUBSET Nat
  BY <1>1
<1>4. PICK k \in T : \A m \in T : k <= m
  BY <1>2, <1>3, LeastElement, Zenon
<1>5. \A j \in 0 .. Len(q) : j < k => ~(k <= j)
  BY <1>1, <1>4
<1> QED BY <1>4, <1>5, Zenon DEF Stops

(* The loop of put() leaves the cache cut where it stops. *)
LEMMA ShrunkIs ==
  ASSUME NEW f, Cached(f), NEW q, Ordered(q, f), NEW n, NEW k, Stops(f, q, n, k)
  PROVE  Shrunk(Whole(f), n) = Whole(Cut(f, q, k))
<1> DEFINE most == Cardinality(DOMAIN f)
           at(i) == IF i < k THEN i ELSE k
           g == [i \in 0 .. most |-> Whole(Cut(f, q, at(i)))]
           Run(h) == h = [i \in 0 .. most |-> IF i = 0 THEN Whole(f) ELSE Iteration(h[i - 1], n)]
           after == CHOOSE h : Run(h)
<1>1. most = Len(q) /\ most \in Nat
  <2>1. most = Len(q)
    BY ByUseIs, Zenon
  <2>2. Len(q) \in Nat
    BY OrderedIs, Zenon
  <2> HIDE DEF most
  <2> QED BY <2>1, <2>2, Zenon
<1>2. k \in 0 .. most /\ k \in Nat
  BY <1>1 DEF Stops
<1>a. /\ \A i \in 0 .. most : at(i) \in 0 .. most
      /\ \A i \in 0 .. most : i # 0 => i - 1 \in 0 .. most
      /\ \A i \in 0 .. most : i # 0 /\ i - 1 < k => at(i - 1) = i - 1 /\ at(i) = i - 1 + 1 /\ i - 1 # most
      /\ \A i \in 0 .. most : i # 0 /\ ~(i - 1 < k) => at(i - 1) = k /\ at(i) = k
      /\ at(0) = 0 /\ at(most) = k /\ 0 \in 0 .. most /\ most \in 0 .. most
  BY <1>1, <1>2
<1> HIDE DEF at
<1>3. \A i \in 0 .. most : g[i] = Whole(Cut(f, q, at(i)))
  BY Zenon
<1>4. Shrunk(Whole(f), n) = after[most]
  BY WholeIs, Zenon DEF Shrunk
<1> HIDE DEF most
<1>5. g[0] = Whole(f)
  BY <1>3, <1>a, CutNothing, Zenon
<1>6. ASSUME NEW i \in 0 .. most, i # 0 PROVE g[i] = Iteration(g[i - 1], n)
  <2>0. i - 1 \in 0 .. most /\ g[i] = Whole(Cut(f, q, at(i))) /\ g[i - 1] = Whole(Cut(f, q, at(i - 1)))
    BY <1>3, <1>6, <1>a, Zenon
  <2>1. CASE i - 1 < k
    <3>1. at(i - 1) = i - 1 /\ at(i) = i - 1 + 1 /\ i - 1 # most
      BY <1>6, <1>a, <2>1, Zenon
    <3>2. Crowded(Whole(Cut(f, q, i - 1)), n)
      BY <1>1, <2>0, <2>1, Zenon DEF Stops
    <3>3. Erased(Whole(Cut(f, q, i - 1)), Oldest(Whole(Cut(f, q, i - 1)))) = Whole(Cut(f, q, i - 1 + 1))
      BY <1>1, <2>0, <3>1, CutFurther, Zenon
    <3> QED BY <2>0, <3>1, <3>2, <3>3, Zenon DEF Iteration
  <2>2. CASE ~(i - 1 < k)
    <3>1. at(i - 1) = k /\ at(i) = k
      BY <1>6, <1>a, <2>2, Zenon
    <3>2. ~Crowded(Whole(Cut(f, q, k)), n)
      BY Zenon DEF Stops
    <3> QED BY <2>0, <3>1, <3>2, Zenon DEF Iteration
  <2> QED BY <2>1, <2>2, Zenon
<1>7. Run(g)
  <2>1. \A i \in 0 .. most : g[i] = IF i = 0 THEN Whole(f) ELSE Iteration(g[i - 1], n)
    BY <1>5, <1>6, Zenon
  <2>2. g = [i \in 0 .. most |-> g[i]]
    BY Zenon
  <2> HIDE DEF g
  <2> QED BY <2>1, <2>2, Zenon
<1>8. Run(after)
  <2> HIDE DEF Run
  <2> QED BY <1>7, Zenon
<1> HIDE DEF g, after
<1>9. \A i \in 0 .. most : after[i] = g[i]
  <2> DEFINE T == {i \in 0 .. most : after[i] # g[i]}
  <2> SUFFICES ASSUME T # {} PROVE FALSE
    BY Zenon
  <2>1. T \in SUBSET Nat
    BY <1>1
  <2>2. PICK i \in T : \A m \in T : i <= m
    BY <2>1, LeastElement, Zenon
  <2>3. after[i] = IF i = 0 THEN Whole(f) ELSE Iteration(after[i - 1], n)
    BY <1>8, <2>2, Zenon
  <2>4. i # 0
    BY <1>5, <2>2, <2>3, Zenon
  <2>5. i - 1 \in 0 .. most /\ ~(i <= i - 1)
    BY <1>1, <2>4
  <2>6. after[i - 1] = g[i - 1]
    BY <2>2, <2>5, Zenon
  <2> QED BY <1>6, <2>2, <2>3, <2>4, <2>6, Zenon
<1>10. after[most] = Whole(Cut(f, q, k))
  BY <1>3, <1>9, <1>a, Zenon
<1> QED BY <1>4, <1>10, Zenon

(***************************************************************************)
(* The operators of the abstract list on the list of a map.                *)
(***************************************************************************)
LEMMA KeysListed ==
  ASSUME NEW f, Cached(f), NEW q, Ordered(q, f)
  PROVE  /\ Recency!Keys(Listed(q, f)) = DOMAIN f
         /\ \A p \in 1 .. Len(q) : Recency!Position(Listed(q, f), q[p]) = p
<1> DEFINE l == Listed(q, f)
<1>1. q \in [1 .. Len(q) -> DOMAIN f] /\ \A e \in DOMAIN f : \E i \in 1 .. Len(q) : q[i] = e
  BY OrderedIs, Zenon DEF Ordered
<1>6. \A i, j \in 1 .. Len(q) : q[i] = q[j] => i = j
  BY OrderedIs, Zenon
<1>2. DOMAIN l = 1 .. Len(q)
  BY Zenon DEF Listed
<1>3. \A i \in 1 .. Len(q) : l[i].entry = q[i]
  BY DEF Listed
<1> HIDE DEF l
<1>4. Recency!Keys(l) = DOMAIN f
  <2>1. Recency!Keys(l) = {l[i].entry : i \in 1 .. Len(q)}
    BY <1>2, Zenon DEF Recency!Keys
  <2>2. Recency!Keys(l) = {q[i] : i \in 1 .. Len(q)}
    BY <1>3, <2>1, Zenon
  <2>3. \A i \in 1 .. Len(q) : q[i] \in DOMAIN f
    BY <1>1, Zenon
  <2> QED BY <1>1, <2>2, <2>3, Zenon
<1>5. ASSUME NEW p \in 1 .. Len(q) PROVE Recency!Position(l, q[p]) = p
  <2>1. Recency!Position(l, q[p]) = CHOOSE i \in 1 .. Len(q) : l[i].entry = q[p]
    BY <1>2, Zenon DEF Recency!Position
  <2>2. \A i \in 1 .. Len(q) : l[i].entry = q[p] <=> i = p
    BY <1>3, <1>6, Zenon
  <2> QED BY <2>1, <2>2, Zenon
<1> QED BY <1>4, <1>5, Zenon DEF l

(* A present key stands where its entry stands in the order. *)
LEMMA WithoutPresent ==
  ASSUME NEW f, Cached(f), NEW q, Ordered(q, f), NEW p \in 1 .. Len(q)
  PROVE  /\ Recency!Without(Listed(q, f), q[p]) = Removed(Listed(q, f), p)
         /\ Recency!Lookup(Listed(q, f), q[p]) = [entry |-> q[p], bytes |-> f[q[p]].bytes]
<1> DEFINE l == Listed(q, f)
<1>1. q[p] \in DOMAIN f
  BY OrderedIs, ZenonT(30)
<1>2. Recency!Keys(l) = DOMAIN f
  BY KeysListed, Zenon
<1>3. Recency!Position(l, q[p]) = p
  BY KeysListed, Zenon
<1>4. l[p] = [entry |-> q[p], bytes |-> f[q[p]].bytes]
  BY Zenon DEF Listed
<1> HIDE DEF l
<1>5. Recency!Without(l, q[p]) = Removed(l, p)
  BY <1>1, <1>2, <1>3, Zenon DEF Recency!Without, Removed
<1>6. Recency!Lookup(l, q[p]) = l[p]
  BY <1>3, Zenon DEF Recency!Lookup
<1> QED BY <1>4, <1>5, <1>6, Zenon DEF l

(* Removing an absent key changes nothing. *)
LEMMA WithoutAbsent ==
  ASSUME NEW f, Cached(f), NEW q, Ordered(q, f), NEW e, e \notin DOMAIN f
  PROVE  Recency!Without(Listed(q, f), e) = Listed(q, f)
<1>1. Recency!Keys(Listed(q, f)) = DOMAIN f
  BY KeysListed, Zenon
<1> QED BY <1>1, Zenon DEF Recency!Without

TemplateOf(n, u) == [bytes |-> n, used |-> u]

(***************************************************************************)
(* The map with one template more.                                         *)
(***************************************************************************)
Plus(f, e, t) == [d \in DOMAIN f \cup {e} |-> IF d = e THEN t ELSE f[d]]

(* One template more keeps the map a map of templates. *)
LEMMA PlusIs ==
  ASSUME NEW f, Cached(f), NEW e \in Entries, e \notin DOMAIN f, NEW t \in Template
  PROVE  Cached(Plus(f, e, t)) /\ Joined(f, e, Plus(f, e, t)) /\ Plus(f, e, t)[e] = t
<1> DEFINE g == Plus(f, e, t)
<1>1. DOMAIN g = DOMAIN f \cup {e} /\ g[e] = t
  BY Zenon DEF Plus
<1>2. \A x \in DOMAIN f : g[x] = f[x]
  BY Zenon DEF Plus
<1>3. g \in [DOMAIN f \cup {e} -> Template]
  BY Zenon DEF Plus, Cached
<1>4. DOMAIN f \cup {e} \subseteq Entries
  BY Zenon DEF Cached
<1> HIDE DEF g
<1>5. Cached(g)
  BY <1>1, <1>3, <1>4, Zenon DEF Cached
<1> QED BY <1>1, <1>2, <1>5, Zenon DEF Joined, g

(***************************************************************************)
(* An entry that is absent, a size, and a time later than every use.       *)
(***************************************************************************)
Newer(f, e, n, u) ==
  /\ e \in Entries /\ e \notin DOMAIN f /\ n \in Bytes /\ u \in 0 .. MaxClock
  /\ \A x \in DOMAIN f : f[x].used < u

(***************************************************************************)
(* Putting a template at the end.                                          *)
(***************************************************************************)
LEMMA PlusOrdered ==
  ASSUME NEW f, Cached(f), NEW q, Ordered(q, f), NEW e, NEW n, NEW u, Newer(f, e, n, u)
  PROVE  LET h == Plus(f, e, TemplateOf(n, u))
         IN  /\ Cached(h) /\ Ordered(Append(q, e), h)
             /\ Listed(Append(q, e), h) = Append(Listed(q, f), ItemOf(e, n))
             /\ Total(h) = Total(f) + n
             /\ Len(Append(q, e)) = Len(q) + 1
<1> DEFINE t == TemplateOf(n, u)
           h == Plus(f, e, t)
<1>0. /\ e \in Entries /\ e \notin DOMAIN f /\ n \in Bytes /\ u \in 0 .. MaxClock
      /\ \A x \in DOMAIN f : f[x].used < u
  BY Zenon DEF Newer
<1>1. Counts(f)
  BY TotalListed, Zenon
<1>2. t \in Template /\ t.bytes = n /\ t.used = u
  BY <1>0 DEF Template, TemplateOf
<1>3. n \in Nat
  BY <1>0, ConstantsAssumption
<1> HIDE DEF t
<1>4. Cached(h) /\ Joined(f, e, h) /\ h[e] = t
  BY <1>0, <1>2, PlusIs, Zenon
<1> HIDE DEF h
<1>5. Later(f, e, h)
  BY <1>0, <1>2, <1>4, Zenon DEF Later
<1>6. Ordered(Append(q, e), h)
  BY <1>4, <1>5, OrderedAppend, Zenon
<1>7. Listed(Append(q, e), h) = Append(Listed(q, f), ItemOf(e, n))
  <2>1. Listed(Append(q, e), h) = Append(Listed(q, f), ItemOf(e, h[e].bytes))
    BY <1>4, <1>5, OrderedAppend
  <2> QED BY <1>2, <1>4, <2>1, Zenon
<1>8. Total(h) = Total(f) + n
  <2>1. DOMAIN h = DOMAIN f \cup {e} /\ \A x \in DOMAIN f : h[x].bytes = f[x].bytes
    BY <1>4, Zenon DEF Joined
  <2>2. h[e].bytes = n
    BY <1>2, <1>4, Zenon
  <2>3. h[e].bytes \in Nat
    BY <1>3, <2>2, Zenon
  <2>4. Total(h) = Total(f) + h[e].bytes
    BY <1>0, <1>1, <2>1, <2>3, TotalAdds
  <2> QED BY <2>2, <2>4, Zenon
<1>9. Len(Append(q, e)) = Len(q) + 1
  <2>1. q \in Seq(DOMAIN f)
    BY Zenon DEF Ordered
  <2> QED BY <2>1
<1> QED BY <1>4, <1>6, <1>7, <1>8, <1>9, Zenon DEF t, h

(***************************************************************************)
(* Putting a template at the end after j iterations of the loop: what the  *)
(* abstract list asks of the limits is what the loop asks.                 *)
(***************************************************************************)
LEMMA PlusCut ==
  ASSUME NEW f, Cached(f), NEW q, Ordered(q, f), NEW j \in 0 .. Len(q),
         NEW e, NEW n, NEW u, Newer(f, e, n, u)
  PROVE  LET h == Plus(Cut(f, q, j), e, TemplateOf(n, u))
             r == Append(Behind(q, j), e)
         IN  /\ Cached(h) /\ Ordered(r, h)
             /\ Listed(r, h) = Append(Behind(Listed(q, f), j), ItemOf(e, n))
             /\ Total(h) = Total(Cut(f, q, j)) + n
             /\ Len(r) = Len(q) - j + 1
<1> DEFINE g == Cut(f, q, j)
           h == Plus(g, e, TemplateOf(n, u))
           b == Behind(q, j)
<1>1. Cached(g) /\ Ordered(b, g)
  BY OrderedBehind, Zenon DEF Cut
<1>2. DOMAIN g = Last(q, j) /\ Last(q, j) \subseteq DOMAIN f /\ Len(b) = Len(q) - j
  BY CutIs, Zenon
<1>3. \A x \in DOMAIN g : g[x] = f[x]
  BY Zenon DEF Cut, Limited
<1>4. Listed(b, g) = Behind(Listed(q, f), j)
  BY OrderedBehind, Zenon DEF Cut
<1> HIDE DEF g, b
<1>5. Newer(g, e, n, u)
  <2>1. \A x \in DOMAIN g : x \in DOMAIN f
    BY <1>2, Zenon
  <2> QED BY <1>3, <2>1, Zenon DEF Newer
<1>6. Cached(h) /\ Ordered(Append(b, e), h)
  BY <1>1, <1>5, PlusOrdered, Zenon
<1>7. Listed(Append(b, e), h) = Append(Listed(b, g), ItemOf(e, n)) /\ Total(h) = Total(g) + n /\ Len(Append(b, e)) = Len(b) + 1
  BY <1>1, <1>5, PlusOrdered
<1> HIDE DEF h
<1> QED BY <1>2, <1>4, <1>6, <1>7, Zenon DEF g, h, b

(* The list from j on fits with the new item where the loop would stop. *)
LEMMA FitsIffNotCrowded ==
  ASSUME NEW f, Cached(f), NEW q, Ordered(q, f), NEW j \in 0 .. Len(q),
         NEW e, NEW n, NEW u, Newer(f, e, n, u)
  PROVE  (FitsAll(Append(Behind(Listed(q, f), j), ItemOf(e, n))) \/ j = Len(q))
         <=> ~Crowded(Whole(Cut(f, q, j)), n)
<1> DEFINE g == Cut(f, q, j)
           h == Plus(g, e, TemplateOf(n, u))
           r == Append(Behind(q, j), e)
           l == Append(Behind(Listed(q, f), j), ItemOf(e, n))
<1>1. Cached(h) /\ Ordered(r, h) /\ Listed(r, h) = l
  <2>1. Cached(h) /\ Ordered(r, h)
    BY PlusCut, Zenon
  <2>2. Listed(r, h) = l
    BY PlusCut
  <2> QED BY <2>1, <2>2, Zenon
<1>a. Total(h) = Total(g) + n /\ Len(r) = Len(q) - j + 1
  BY PlusCut
<1>2. DOMAIN g = Last(q, j) /\ Cardinality(Last(q, j)) = Len(q) - j /\ Total(g) \in Nat
  BY CutIs, Zenon
<1>3. Len(q) \in Nat
  BY OrderedIs, Zenon
<1>4. Last(q, j) = {} <=> j = Len(q)
  <2>1. CASE j = Len(q)
    <3>1. \A i \in j + 1 .. Len(q) : FALSE
      BY <1>3, <2>1
    <3> QED BY <2>1, <3>1, Zenon DEF Last
  <2>2. CASE j # Len(q)
    <3>1. j + 1 \in j + 1 .. Len(q)
      BY <1>3, <2>2
    <3> QED BY <2>2, <3>1, Zenon DEF Last
  <2> QED BY <2>1, <2>2, Zenon
<1>5. Crowded(Whole(g), n) <=> Last(q, j) # {} /\ (Total(g) + n > LIMIT \/ Cardinality(Last(q, j)) >= MaxEntries)
  <2>1. Whole(g).entries = g /\ Whole(g).retained = Total(g)
    BY WholeIs, Zenon
  <2> QED BY <1>2, <2>1, Zenon DEF Crowded
<1> HIDE DEF g, h, r, l
<1>6. Total(l) = Total(g) + n /\ Len(l) = Len(q) - j + 1
  <2>1. Total(Listed(r, h)) = Total(h)
    BY <1>1, TotalListed, Zenon
  <2>2. Len(Listed(r, h)) = Len(r)
    BY <1>1, ListedIs, Zenon
  <2> QED BY <1>1, <1>a, <2>1, <2>2, Zenon
<1>7. FitsAll(l) <=> Total(g) + n <= LIMIT /\ Len(q) - j + 1 <= MaxEntries
  BY <1>6, Zenon DEF FitsAll
<1>8. n \in Nat /\ LIMIT \in Nat /\ MaxEntries \in Nat
  BY ConstantsAssumption DEF Newer
<1>9. (FitsAll(l) \/ j = Len(q)) <=> ~Crowded(Whole(g), n)
  BY <1>2, <1>3, <1>4, <1>5, <1>7, <1>8, SMTT(20)
<1> QED BY <1>9, Zenon DEF g, l

(***************************************************************************)
(* What put() leaves is what the abstract list admits.                     *)
(***************************************************************************)
LEMMA AdmittedIs ==
  ASSUME NEW f, Cached(f), NEW q, Ordered(q, f),
         NEW e, NEW n, NEW u, Newer(f, e, n, u),
         NEW k, Stops(f, q, n, k), NEW l, Recency!Without(l, e) = Listed(q, f)
  PROVE  Recency!Admitted(l, ItemOf(e, n)) =
           Append(Behind(Listed(q, f), k), ItemOf(e, n))
<1> DEFINE item == ItemOf(e, n)
           rest == Listed(q, f)
           from(i) == Append(SubSeq(rest, i, Len(rest)), item)
           Good(i) == (FitsAll(from(i)) \/ i = Len(rest) + 1) /\ \A j \in 1 .. i - 1 : ~FitsAll(from(j))
           first == CHOOSE i \in 1 .. Len(rest) + 1 : Good(i)
<1>1. item.entry = e
  BY DEF ItemOf
<1>2. Len(rest) = Len(q)
  BY ListedIs, Zenon
<1>3. Len(q) \in Nat
  BY OrderedIs, Zenon
<1> HIDE DEF item, rest
<1>4. Recency!Admitted(l, item) = from(first)
  BY <1>1, Zenon DEF Recency!Admitted, rest
<1>5. \A i \in 1 .. Len(rest) + 1 : i - 1 \in 0 .. Len(q) /\ i - 1 + 1 = i
  BY <1>2, <1>3
<1>6. \A i \in 1 .. Len(rest) + 1 : from(i) = Append(Behind(rest, i - 1), item)
  BY <1>5, Zenon DEF Behind
<1>7. \A i \in 1 .. Len(rest) + 1 : (FitsAll(from(i)) \/ i - 1 = Len(q)) <=> ~Crowded(Whole(Cut(f, q, i - 1)), n)
  <2>1. \A j \in 0 .. Len(q) : (FitsAll(Append(Behind(rest, j), item)) \/ j = Len(q)) <=> ~Crowded(Whole(Cut(f, q, j)), n)
    BY FitsIffNotCrowded, Zenon DEF rest, item
  <2> HIDE DEF from
  <2> QED BY <1>5, <1>6, <2>1, Zenon
<1> HIDE DEF from
<1>8. /\ k \in 0 .. Len(q) /\ ~Crowded(Whole(Cut(f, q, k)), n)
      /\ \A j \in 0 .. Len(q) : j < k => Crowded(Whole(Cut(f, q, j)), n)
  BY Zenon DEF Stops
<1>9. k + 1 \in 1 .. Len(rest) + 1 /\ (k + 1) - 1 = k
  BY <1>2, <1>3, <1>8
<1>10. Good(k + 1)
  <2>1. FitsAll(from(k + 1)) \/ k + 1 = Len(rest) + 1
    <3>1. FitsAll(from(k + 1)) \/ k = Len(q)
      BY <1>7, <1>8, <1>9, Zenon
    <3> QED BY <1>2, <3>1, Zenon
  <2>2. ASSUME NEW j \in 1 .. (k + 1) - 1 PROVE ~FitsAll(from(j))
    <3>1. j \in 1 .. Len(rest) + 1 /\ j - 1 \in 0 .. Len(q) /\ j - 1 < k
      BY <1>2, <1>3, <1>8
    <3> QED BY <1>7, <1>8, <3>1, Zenon
  <2> QED BY <2>1, <2>2, Zenon
<1>11. ASSUME NEW i \in 1 .. Len(rest) + 1, Good(i) PROVE i = k + 1
  <2>1. ~(i - 1 < k)
    <3>1. i - 1 = Len(q) <=> i = Len(rest) + 1
      BY <1>2, <1>3
    <3>2. ~Crowded(Whole(Cut(f, q, i - 1)), n)
      BY <1>7, <1>11, <3>1, Zenon
    <3> QED BY <1>5, <1>8, <3>2, Zenon
  <2>2. ~(k + 1 < i)
    <3> SUFFICES ASSUME k + 1 < i PROVE FALSE
      BY Zenon
    <3>1. k + 1 \in 1 .. i - 1 /\ k # Len(q)
      BY <1>2, <1>3, <1>8
    <3>2. ~FitsAll(from(k + 1))
      BY <1>11, <3>1, Zenon
    <3> QED BY <1>7, <1>8, <1>9, <3>1, <3>2, Zenon
  <2> QED BY <1>3, <1>8, <2>1, <2>2
<1>12. first = k + 1
  <2> HIDE DEF Good
  <2> QED BY <1>9, <1>10, <1>11, Zenon
<1>13. Recency!Admitted(l, item) = Append(Behind(rest, k), item)
  <2> HIDE DEF first
  <2> QED BY <1>4, <1>6, <1>9, <1>12, Zenon
<1> QED BY <1>13, Zenon DEF item, rest

(***************************************************************************)
(* erase() of any entry, present or not.                                   *)
(***************************************************************************)
Less(f, e) == IF e \in DOMAIN f THEN Limited(f, DOMAIN f \ {e}) ELSE f

(* erase() leaves a right count and the list without the key. *)
LEMMA EraseAny ==
  ASSUME NEW f, Cached(f), NEW q, Ordered(q, f), NEW e
  PROVE  /\ Cached(Less(f, e)) /\ Erased(Whole(f), e) = Whole(Less(f, e))
         /\ \E r : Ordered(r, Less(f, e)) /\ Listed(r, Less(f, e)) = Recency!Without(Listed(q, f), e)
<1>1. CASE e \in DOMAIN f
  <2>1. PICK p \in 1 .. Len(q) : q[p] = e
    BY <1>1, Zenon DEF Ordered
  <2>2. Less(f, e) = Limited(f, DOMAIN f \ {q[p]})
    BY <1>1, <2>1, Zenon DEF Less
  <2> DEFINE g == Limited(f, DOMAIN f \ {q[p]})
  <2>3. Cached(g) /\ Ordered(Removed(q, p), g) /\ Listed(Removed(q, p), g) = Removed(Listed(q, f), p)
    BY OrderedWithout, Zenon
  <2>4. Erased(Whole(f), q[p]) = Whole(g)
    BY ErasedIs, Zenon
  <2>5. Recency!Without(Listed(q, f), q[p]) = Removed(Listed(q, f), p)
    BY WithoutPresent, Zenon
  <2> HIDE DEF g
  <2>6. Ordered(Removed(q, p), g) /\ Listed(Removed(q, p), g) = Recency!Without(Listed(q, f), e)
    BY <2>1, <2>3, <2>5, Zenon
  <2>7. Less(f, e) = g
    BY <2>2, Zenon DEF g
  <2> QED BY <2>1, <2>3, <2>4, <2>6, <2>7, Zenon
<1>2. CASE e \notin DOMAIN f
  <2>1. Less(f, e) = f
    BY <1>2, Zenon DEF Less
  <2>2. Erased(Whole(f), e) = Whole(f)
    BY <1>2, ErasedNothing, Zenon
  <2>3. Recency!Without(Listed(q, f), e) = Listed(q, f)
    BY <1>2, WithoutAbsent, Zenon
  <2> QED BY <2>1, <2>2, <2>3, Zenon
<1> QED BY <1>1, <1>2, Zenon

(* The map without an entry. *)
LEMMA LessIs ==
  ASSUME NEW f, NEW e
  PROVE  DOMAIN Less(f, e) = DOMAIN f \ {e} /\ \A x \in DOMAIN Less(f, e) : Less(f, e)[x] = f[x]
<1>1. CASE e \in DOMAIN f
  <2>1. Less(f, e) = [x \in DOMAIN f \ {e} |-> f[x]]
    BY <1>1, Zenon DEF Less, Limited
  <2> QED BY <2>1, Zenon
<1>2. CASE e \notin DOMAIN f
  BY <1>2, Zenon DEF Less
<1> QED BY <1>1, <1>2, Zenon

(***************************************************************************)
(* get() of a present entry.                                               *)
(***************************************************************************)
LEMMA GetAny ==
  ASSUME NEW f, Cached(f), NEW q, Ordered(q, f), NEW e \in DOMAIN f,
         NEW u \in 0 .. MaxClock, \A x \in DOMAIN f : f[x].used < u
  PROVE  LET h == [f EXCEPT ![e].used = u]
         IN  /\ Cached(h) /\ DOMAIN h = DOMAIN f /\ Total(h) = Total(f)
             /\ \A x \in DOMAIN f : h[x].used <= u
             /\ \E r : Ordered(r, h) /\ Listed(r, h) = Recency!Touched(Listed(q, f), e)
<1> DEFINE h == [f EXCEPT ![e].used = u]
           g == Less(f, e)
           n == f[e].bytes
<1>1. Cached(g) /\ Erased(Whole(f), e) = Whole(g)
  BY EraseAny, Zenon
<1>2. PICK r : Ordered(r, g) /\ Listed(r, g) = Recency!Without(Listed(q, f), e)
  BY EraseAny, Zenon
<1>3. DOMAIN g = DOMAIN f \ {e} /\ \A x \in DOMAIN g : g[x] = f[x]
  BY LessIs, Zenon
<1> HIDE DEF g
<1>4. n \in Bytes /\ n \in Nat /\ e \in Entries
  BY CachedIs, Zenon DEF Cached
<1>5. Newer(g, e, n, u)
  BY <1>3, <1>4, Zenon DEF Newer
<1>6. \A x \in DOMAIN f : f[x] \in Template /\ f[x].used \in Nat
  BY CachedIs, Zenon DEF Cached
<1>7. h = Plus(g, e, TemplateOf(n, u))
  <2>1. [f[e] EXCEPT !.used = u] = TemplateOf(n, u)
    BY <1>6 DEF Template, TemplateOf
  <2>2. h = [x \in DOMAIN f |-> IF x = e THEN [f[e] EXCEPT !.used = u] ELSE f[x]]
    BY Zenon DEF Cached
  <2>3. DOMAIN f = DOMAIN g \cup {e}
    BY <1>3, Zenon
  <2>4. h = [x \in DOMAIN f |-> IF x = e THEN TemplateOf(n, u) ELSE f[x]]
    BY <2>1, <2>2, Zenon
  <2>5. \A x \in DOMAIN f : x # e => f[x] = g[x]
    BY <1>3, Zenon
  <2>6. h = [x \in DOMAIN f |-> IF x = e THEN TemplateOf(n, u) ELSE g[x]]
    BY <2>4, <2>5, Zenon
  <2> QED BY <2>3, <2>6, Zenon DEF Plus
<1>12. DOMAIN h = DOMAIN f
  BY Zenon
<1>14. \A x \in DOMAIN f : x # e => h[x] = f[x]
  BY Zenon DEF Cached
<1> HIDE DEF h, n
<1>8. Cached(h) /\ Ordered(Append(r, e), h)
  BY <1>1, <1>2, <1>5, <1>7, PlusOrdered, Zenon
<1>9. Listed(Append(r, e), h) = Append(Listed(r, g), ItemOf(e, n)) /\ Total(h) = Total(g) + n
  BY <1>1, <1>2, <1>5, <1>7, PlusOrdered, SMTT(20)
<1>10. Listed(Append(r, e), h) = Recency!Touched(Listed(q, f), e)
  <2>1. Recency!Lookup(Listed(q, f), e) = ItemOf(e, n)
    <3>1. PICK p \in 1 .. Len(q) : q[p] = e
      BY Zenon DEF Ordered
    <3>2. Recency!Lookup(Listed(q, f), q[p]) = [entry |-> q[p], bytes |-> f[q[p]].bytes]
      BY WithoutPresent, Zenon
    <3> QED BY <3>1, <3>2, Zenon DEF ItemOf, n
  <2> QED BY <1>2, <1>9, <2>1, Zenon DEF Recency!Touched
<1>11. Total(h) = Total(f)
  <2>1. Counts(g)
    BY <1>1, <1>2, TotalListed, Zenon
  <2>2. DOMAIN f = DOMAIN g \cup {e} /\ e \notin DOMAIN g /\ \A x \in DOMAIN g : f[x].bytes = g[x].bytes
    BY <1>3, Zenon
  <2>3. Total(f) = Total(g) + f[e].bytes
    BY <1>4, <2>1, <2>2, TotalAdds DEF n
  <2> QED BY <1>9, <2>3, Zenon DEF n
<1>13. \A x \in DOMAIN f : h[x].used <= u
  <2>1. TemplateOf(n, u).used = u /\ u <= u
    BY ConstantsAssumption DEF TemplateOf
  <2>2. h[e] = TemplateOf(n, u)
    BY <1>7, Zenon DEF Plus
  <2>4. \A x \in DOMAIN f : f[x].used <= u
    <3>1. \A x \in DOMAIN f : f[x].used \in Nat /\ f[x].used < u
      BY <1>6, Zenon
    <3> QED BY <3>1, ConstantsAssumption
  <2> QED BY <1>14, <2>1, <2>2, <2>4, Zenon
<1> QED BY <1>8, <1>10, <1>11, <1>12, <1>13, Zenon DEF h

(***************************************************************************)
(* put() of a template that is not too large.                              *)
(***************************************************************************)
LEMMA OneFits ==
  ASSUME NEW e, NEW n \in Bytes, n <= LIMIT
  PROVE  FitsAll(<<ItemOf(e, n)>>)
<1> DEFINE l == <<ItemOf(e, n)>>
<1>1. DOMAIN << >> = {} /\ DOMAIN l = {1} /\ l[1].bytes = n /\ Len(l) = 1
  BY DEF ItemOf
<1>2. n \in Nat /\ 1 <= MaxEntries
  BY ConstantsAssumption
<1> HIDE DEF l
<1> DEFINE z == << >>
<1>3. Counts(z) /\ Total(z) = 0 /\ DOMAIN z = {}
  BY <1>1, TotalNothing, Zenon
<1> HIDE DEF z
<1>4. Total(l) = Total(z) + l[1].bytes
  <2>1. 1 \notin DOMAIN z /\ DOMAIN l = DOMAIN z \cup {1} /\ \A x \in DOMAIN z : l[x].bytes = z[x].bytes
    BY <1>1, <1>3, Zenon
  <2>2. l[1].bytes \in Nat
    BY <1>1, <1>2, Zenon
  <2> QED BY <1>3, <2>1, <2>2, TotalAdds
<1>5. Total(l) = n
  BY <1>1, <1>2, <1>3, <1>4
<1> QED BY <1>1, <1>2, <1>5, Zenon DEF FitsAll, l

(* put() keeps the count and the limits and leaves what the list admits. *)
LEMMA PutAny ==
  ASSUME NEW f, Cached(f), NEW q, Ordered(q, f), NEW e \in Entries, NEW n \in Bytes, n <= LIMIT,
         NEW u \in 0 .. MaxClock, \A x \in DOMAIN f : f[x].used < u,
         NEW c, c = Shrunk(Erased(Whole(f), e), n), NEW h, h = Plus(c.entries, e, TemplateOf(n, u))
  PROVE  /\ Cached(h) /\ Total(h) = c.retained + n /\ Total(h) <= LIMIT
         /\ Cardinality(DOMAIN h) <= MaxEntries
         /\ \A x \in DOMAIN h : h[x].used <= u
         /\ \E r : Ordered(r, h) /\ Listed(r, h) = Recency!Admitted(Listed(q, f), ItemOf(e, n))
<1> DEFINE d == Less(f, e)
           l == Listed(q, f)
           item == ItemOf(e, n)
<1>1. Cached(d) /\ Erased(Whole(f), e) = Whole(d)
  BY EraseAny, Zenon
<1>2. PICK r : Ordered(r, d) /\ Listed(r, d) = Recency!Without(l, e)
  BY EraseAny, Zenon
<1>3. DOMAIN d = DOMAIN f \ {e} /\ \A x \in DOMAIN d : d[x] = f[x]
  BY LessIs, Zenon
<1> HIDE DEF d
<1>4. Newer(d, e, n, u)
  BY <1>3, Zenon DEF Newer
<1>5. PICK k \in 0 .. Len(r) : Stops(d, r, n, k)
  BY <1>1, <1>2, LoopStops, Zenon
<1> DEFINE g == Cut(d, r, k)
           s == Append(Behind(r, k), e)
<1>6. c = Whole(g)
  BY <1>1, <1>2, <1>5, ShrunkIs, Zenon
<1>7. c.entries = g /\ c.retained = Total(g)
  BY <1>6, WholeIs, Zenon
<1>8. h = Plus(g, e, TemplateOf(n, u))
  BY <1>7, Zenon
<1>9. Cached(h) /\ Ordered(s, h)
  BY <1>1, <1>2, <1>4, <1>8, PlusCut, ZenonT(30)
<1>10. Listed(s, h) = Append(Behind(Listed(r, d), k), item) /\ Total(h) = Total(g) + n /\ Len(s) = Len(r) - k + 1
  BY <1>1, <1>2, <1>4, <1>8, PlusCut, SMTT(20)
<1>11. Recency!Admitted(l, item) = Append(Behind(Listed(r, d), k), item)
  BY <1>1, <1>2, <1>4, <1>5, AdmittedIs, SMTT(20)
<1>12. (FitsAll(Append(Behind(Listed(r, d), k), item)) \/ k = Len(r)) <=> ~Crowded(Whole(g), n)
  BY <1>1, <1>2, <1>4, FitsIffNotCrowded
<1>13. Cardinality(DOMAIN h) = Len(s)
  BY <1>9, ByUseIs, Zenon
<1>14. Total(Listed(s, h)) = Total(h)
  BY <1>9, TotalListed, Zenon
<1>15. Len(Listed(s, h)) = Len(s)
  BY <1>9, ListedIs, Zenon
<1>16. n \in Nat /\ LIMIT \in Nat /\ 1 <= MaxEntries
  BY ConstantsAssumption
<1>17. Total(h) <= LIMIT /\ Cardinality(DOMAIN h) <= MaxEntries
  <2>1. CASE FitsAll(Append(Behind(Listed(r, d), k), item))
    <3>1. FitsAll(Listed(s, h))
      BY <1>10, <2>1, Zenon
    <3> QED BY <1>13, <1>14, <1>15, <3>1, Zenon DEF FitsAll
  <2>2. CASE k = Len(r)
    <3>1. DOMAIN g = {}
      BY <1>1, <1>2, <2>2, CutNothing, Zenon
    <3>2. Total(g) = 0
      BY <3>1, TotalNothing, Zenon
    <3>3. Len(r) \in Nat
      BY <1>1, <1>2, OrderedIs, Zenon
    <3> HIDE DEF g, s, item
    <3>4. Total(h) = n /\ Len(s) = 1
      BY <1>10, <1>16, <2>2, <3>2, <3>3
    <3> QED BY <1>13, <1>16, <3>4, Zenon
  <2>3. ~Crowded(Whole(g), n)
    BY <1>5, Zenon DEF Stops
  <2> QED BY <1>12, <2>1, <2>2, <2>3, Zenon
<1>18. \A x \in DOMAIN h : h[x].used <= u
  <2>1. TemplateOf(n, u).used = u /\ u <= u
    BY ConstantsAssumption DEF TemplateOf
  <2>2. h[e] = TemplateOf(n, u) /\ DOMAIN h = DOMAIN g \cup {e}
    BY <1>8, Zenon DEF Plus
  <2>3. DOMAIN g \subseteq DOMAIN d
    <3>1. DOMAIN g = Last(r, k) /\ Last(r, k) \subseteq DOMAIN d
      BY <1>1, <1>2, CutIs, Zenon
    <3> QED BY <3>1, Zenon
  <2>4. \A x \in DOMAIN g : g[x] = d[x]
    BY Zenon DEF Cut, Limited
  <2>5. \A x \in DOMAIN g : x # e => h[x] = g[x]
    BY <1>8, Zenon DEF Plus
  <2>6. \A x \in DOMAIN f : f[x].used <= u
    <3>1. \A x \in DOMAIN f : f[x].used \in Nat /\ f[x].used < u
      BY CachedIs, Zenon
    <3> QED BY <3>1, ConstantsAssumption
  <2> HIDE DEF g
  <2>7. \A x \in DOMAIN g : x \in DOMAIN f /\ x # e /\ h[x] = f[x]
    BY <1>3, <2>3, <2>4, <2>5, Zenon
  <2> QED BY <2>1, <2>2, <2>6, <2>7, Zenon
<1>19. Ordered(s, h) /\ Listed(s, h) = Recency!Admitted(l, item)
  BY <1>9, <1>10, <1>11, Zenon
<1>20. Total(h) = c.retained + n
  BY <1>7, <1>10, Zenon
<1> QED BY <1>9, <1>17, <1>18, <1>19, <1>20, Zenon

(***************************************************************************)
(* The inductive invariant: the count of bytes is right, the limits hold,  *)
(* and no two templates were last used at the same time, so that they      *)
(* stand in an order.                                                      *)
(***************************************************************************)
Sound(f, c, b, p) ==
  /\ Cached(f) /\ c \in 0 .. MaxClock /\ \A x \in DOMAIN f : f[x].used <= c
  /\ b = Total(f) /\ b <= p /\ p \in Nat /\ p <= LIMIT /\ Cardinality(DOMAIN f) <= MaxEntries

TInv == Sound(entries, clock, retained, peak_bytes) /\ \E q : Ordered(q, entries)

(* The conjuncts of the invariant, in the current state. *)
LEMMA SoundNow ==
  ASSUME TInv
  PROVE  /\ Cached(entries) /\ clock \in 0 .. MaxClock /\ \A x \in Present : entries[x].used <= clock
         /\ retained = Total(entries) /\ retained <= peak_bytes /\ peak_bytes \in Nat /\ peak_bytes <= LIMIT
         /\ Cardinality(Present) <= MaxEntries
  BY Zenon DEF TInv, Sound, Present

(* The next time is later than every use. *)
LEMMA TickIs ==
  ASSUME TInv, clock < MaxClock
  PROVE  clock + 1 \in 0 .. MaxClock /\ \A x \in DOMAIN entries : entries[x].used < clock + 1
<1>1. Cached(entries) /\ clock \in 0 .. MaxClock
  BY SoundNow, Zenon
<1>2. \A x \in DOMAIN entries : entries[x].used <= clock
  BY SoundNow, Zenon DEF Present
<1>3. \A x \in DOMAIN entries : entries[x].used \in Nat
  BY <1>1, CachedIs, Zenon
<1> QED BY <1>1, <1>2, <1>3, ConstantsAssumption

(* A new cache has the invariant and maps to the empty list. *)
LEMMA InitSound ==
  ASSUME Init
  PROVE  TInv /\ Recency!Init
<1>1. entries = << >> /\ DOMAIN entries = {} /\ clock = 0 /\ retained = 0 /\ peak_bytes = 0 /\ recent = None
  BY DEF Init
<1>2. Cached(entries)
  BY <1>1 DEF Cached
<1>3. Ordered(<< >>, entries)
  BY <1>1 DEF Ordered
<1>4. Total(entries) = 0
  BY <1>1, TotalNothing, Zenon
<1>5. Cardinality(DOMAIN entries) = 0
  BY <1>1, FS_EmptySet, Zenon
<1>6. ByUse(entries) = << >>
  <2>1. ByUse(entries) = Listed(<< >>, entries)
    BY <1>2, <1>3, ByUseIs
  <2> QED BY <2>1 DEF Listed
<1>7. 0 \in 0 .. MaxClock /\ 0 <= LIMIT /\ 0 <= MaxEntries /\ 0 \in Nat /\ 0 <= 0
  BY ConstantsAssumption
<1>8. Sound(entries, clock, retained, peak_bytes)
  BY <1>1, <1>2, <1>4, <1>5, <1>7, Zenon DEF Sound
<1> QED BY <1>1, <1>3, <1>6, <1>8, Zenon DEF TInv, Recency!Init

(* get() keeps the invariant and maps to a hit of the list. *)
LEMMA GetSound ==
  ASSUME TInv, NEW e \in Entries, Get(e)
  PROVE  TInv' /\ Recency!Next
<1>1. PICK q : Ordered(q, entries)
  BY Zenon DEF TInv
<1> DEFINE h == [entries EXCEPT ![e].used = clock + 1]
<1>2. e \in DOMAIN entries /\ clock < MaxClock
  BY Zenon DEF Get, Present
<1>a. /\ clock' = clock + 1 /\ recent' = e /\ entries' = h
      /\ retained' = retained /\ peak_bytes' = peak_bytes
  BY Zenon DEF Get
<1>3. clock + 1 \in 0 .. MaxClock /\ \A x \in DOMAIN entries : entries[x].used < clock + 1
  BY <1>2, TickIs, Zenon
<1>4. Cached(entries)
  BY SoundNow, Zenon
<1>5. /\ Cached(h) /\ DOMAIN h = DOMAIN entries /\ Total(h) = Total(entries)
      /\ \A x \in DOMAIN entries : h[x].used <= clock + 1
      /\ \E r : Ordered(r, h) /\ Listed(r, h) = Recency!Touched(Listed(q, entries), e)
  BY <1>1, <1>2, <1>3, <1>4, GetAny, Zenon
<1> HIDE DEF h
<1>6. PICK r : Ordered(r, h) /\ Listed(r, h) = Recency!Touched(Listed(q, entries), e)
  BY <1>5, Zenon
<1>7. Sound(entries', clock', retained', peak_bytes')
  <2>1. retained = Total(entries) /\ retained <= peak_bytes /\ peak_bytes \in Nat /\ peak_bytes <= LIMIT
        /\ Cardinality(DOMAIN entries) <= MaxEntries
    BY SoundNow, Zenon DEF Present
  <2> QED BY <1>3, <1>5, <1>a, <2>1, Zenon DEF Sound
<1>8. TInv'
  BY <1>6, <1>7, <1>a, Zenon DEF TInv
<1>9. ByUse(entries) = Listed(q, entries) /\ ByUse(entries') = Listed(r, h)
  BY <1>1, <1>4, <1>5, <1>6, <1>a, ByUseIs, Zenon
<1>10. e \in Recency!Keys(ByUse(entries))
  <2>1. Recency!Keys(Listed(q, entries)) = DOMAIN entries
    BY <1>1, <1>4, KeysListed, Zenon
  <2> QED BY <1>2, <1>9, <2>1, Zenon
<1>11. Recency!Get(e)
  BY <1>6, <1>9, <1>10, <1>a, Zenon DEF Recency!Get
<1> QED BY <1>8, <1>10, <1>11, Zenon DEF Recency!Next

(* erase() keeps the invariant and maps to an erasure or to no change. *)
LEMMA EraseSound ==
  ASSUME TInv, NEW e \in Entries, Erase(e)
  PROVE  TInv' /\ (Recency!Next \/ UNCHANGED <<ByUse(entries), recent>>)
<1>1. PICK q : Ordered(q, entries)
  BY Zenon DEF TInv
<1>2. Cached(entries) /\ retained = Total(entries)
  BY SoundNow, Zenon
<1> DEFINE c == Erased([entries |-> entries, retained |-> retained], e)
           d == Less(entries, e)
<1>3. entries' = c.entries /\ retained' = c.retained /\ clock' = clock /\ peak_bytes' = peak_bytes /\ recent' = recent
  BY Zenon DEF Erase
<1>4. [entries |-> entries, retained |-> retained] = Whole(entries)
  BY <1>2, Zenon DEF Whole
<1>5. Cached(d) /\ c = Whole(d)
  BY <1>1, <1>2, <1>4, EraseAny, Zenon
<1>6. PICK r : Ordered(r, d) /\ Listed(r, d) = Recency!Without(Listed(q, entries), e)
  BY <1>1, <1>2, EraseAny, Zenon
<1> HIDE DEF c
<1>7. entries' = d /\ retained' = Total(d)
  BY <1>3, <1>5, WholeIs, Zenon
<1>8. DOMAIN d = DOMAIN entries \ {e} /\ \A x \in DOMAIN d : d[x] = entries[x]
  BY LessIs, Zenon
<1> HIDE DEF d
<1>9. Total(d) <= Total(entries) /\ Cardinality(DOMAIN d) <= MaxEntries
  <2>1. CASE e \in DOMAIN entries
    <3>1. Counts(d) /\ Counts(entries)
      BY <1>1, <1>2, <1>5, <1>6, TotalListed, Zenon
    <3>2. DOMAIN entries = DOMAIN d \cup {e} /\ e \notin DOMAIN d /\ \A x \in DOMAIN d : entries[x].bytes = d[x].bytes
      BY <1>8, <2>1, Zenon
    <3>3. entries[e].bytes \in Nat
      BY <1>2, <2>1, CachedIs, Zenon
    <3>4. Total(entries) = Total(d) + entries[e].bytes
      BY <3>1, <3>2, <3>3, TotalAdds
    <3>5. Total(d) \in Nat
      BY <3>1, CellsFinite, Zenon
    <3>6. IsFiniteSet(DOMAIN d) /\ Cardinality(DOMAIN entries) = Cardinality(DOMAIN d) + 1 /\ Cardinality(DOMAIN d) \in Nat
      BY <3>1, <3>2, FS_AddElement, FS_CardinalityType, Zenon DEF Counts
    <3>7. Cardinality(DOMAIN entries) <= MaxEntries
      BY SoundNow, Zenon DEF Present
    <3> QED BY <3>3, <3>4, <3>5, <3>6, <3>7, ConstantsAssumption, SMTT(20)
  <2>2. CASE e \notin DOMAIN entries
    <3>1. d = entries
      BY <2>2, Zenon DEF d, Less
    <3>2. Counts(entries)
      BY <1>1, <1>2, TotalListed, Zenon
    <3>3. Total(entries) \in Nat
      BY <3>2, CellsFinite, Zenon
    <3>4. Total(entries) <= Total(entries)
      BY <3>3
    <3>5. Cardinality(DOMAIN entries) <= MaxEntries
      BY SoundNow, Zenon DEF Present
    <3> QED BY <3>1, <3>4, <3>5, Zenon
  <2> QED BY <2>1, <2>2, Zenon
<1>10. Sound(entries', clock', retained', peak_bytes')
  <2>1. /\ clock \in 0 .. MaxClock /\ retained <= peak_bytes /\ peak_bytes \in Nat /\ peak_bytes <= LIMIT
    BY SoundNow, Zenon
  <2>2. \A x \in DOMAIN entries : entries[x].used <= clock
    BY SoundNow, Zenon DEF Present
  <2>3. \A x \in DOMAIN d : d[x].used <= clock
    BY <1>8, <2>2, Zenon
  <2>4. Total(d) \in Nat /\ Total(entries) \in Nat
    <3>1. Counts(d) /\ Counts(entries)
      BY <1>1, <1>2, <1>5, <1>6, TotalListed, Zenon
    <3> QED BY <3>1, CellsFinite, Zenon
  <2>5. Total(d) <= peak_bytes
    BY <1>2, <1>9, <2>1, <2>4
  <2> QED BY <1>3, <1>5, <1>7, <1>9, <2>1, <2>3, <2>5, Zenon DEF Sound
<1>11. TInv'
  BY <1>6, <1>7, <1>10, Zenon DEF TInv
<1>12. ByUse(entries) = Listed(q, entries) /\ ByUse(entries') = Listed(r, d)
  BY <1>1, <1>2, <1>5, <1>6, <1>7, ByUseIs, Zenon
<1>13. Recency!Keys(ByUse(entries)) = DOMAIN entries
  BY <1>1, <1>2, <1>12, KeysListed, Zenon
<1>14. CASE e \in DOMAIN entries
  <2>1. Recency!Erase(e)
    BY <1>3, <1>6, <1>12, Zenon DEF Recency!Erase
  <2> QED BY <1>11, <1>13, <1>14, <2>1, Zenon DEF Recency!Next
<1>15. CASE e \notin DOMAIN entries
  <2>1. entries' = entries
    BY <1>7, <1>15, Zenon DEF d, Less
  <2> QED BY <1>3, <1>11, <2>1, Zenon
<1> QED BY <1>14, <1>15, Zenon

(* put() keeps the invariant and maps to an insertion in the list. *)
LEMMA PutSound ==
  ASSUME TInv, NEW e \in Entries, NEW n \in Bytes, Put(e, n)
  PROVE  TInv' /\ Recency!Next
<1>1. PICK q : Ordered(q, entries)
  BY Zenon DEF TInv
<1>2. Cached(entries) /\ retained = Total(entries)
  BY SoundNow, Zenon
<1> DEFINE c == Shrunk(Erased([entries |-> entries, retained |-> retained], e), n)
           h == Plus(c.entries, e, TemplateOf(n, clock + 1))
<1>3. /\ clock < MaxClock /\ n <= LIMIT /\ clock' = clock + 1 /\ recent' = e
      /\ entries' = h /\ retained' = c.retained + n
      /\ peak_bytes' = IF retained' > peak_bytes THEN retained' ELSE peak_bytes
  BY Zenon DEF Put, Plus, TemplateOf
<1>4. c = Shrunk(Erased(Whole(entries), e), n)
  BY <1>2, Zenon DEF Whole
<1> HIDE DEF c
<1>5. clock + 1 \in 0 .. MaxClock /\ \A x \in DOMAIN entries : entries[x].used < clock + 1
  BY <1>3, TickIs, ZenonT(30)
<1>6. /\ Cached(h) /\ Total(h) = c.retained + n /\ Total(h) <= LIMIT /\ Cardinality(DOMAIN h) <= MaxEntries
      /\ \A x \in DOMAIN h : h[x].used <= clock + 1
      /\ \E r : Ordered(r, h) /\ Listed(r, h) = Recency!Admitted(Listed(q, entries), ItemOf(e, n))
  BY <1>1, <1>2, <1>3, <1>4, <1>5, PutAny, SMTT(20)
<1> HIDE DEF h
<1>7. PICK r : Ordered(r, h) /\ Listed(r, h) = Recency!Admitted(Listed(q, entries), ItemOf(e, n))
  BY <1>6, Zenon
<1>8. Sound(entries', clock', retained', peak_bytes')
  <2>1. peak_bytes \in Nat /\ peak_bytes <= LIMIT
    BY SoundNow, Zenon
  <2>2. Counts(h)
    BY <1>6, <1>7, TotalListed, Zenon
  <2>3. Total(h) \in Nat /\ retained' = Total(h)
    BY <1>3, <1>6, <2>2, CellsFinite, ZenonT(30)
  <2>4. retained' <= peak_bytes' /\ peak_bytes' \in Nat /\ peak_bytes' <= LIMIT
    BY <1>3, <1>6, <2>1, <2>3
  <2> QED BY <1>3, <1>5, <1>6, <2>3, <2>4, Zenon DEF Sound
<1>9. TInv'
  BY <1>3, <1>7, <1>8, Zenon DEF TInv
<1>10. ByUse(entries) = Listed(q, entries) /\ ByUse(entries') = Listed(r, h)
  BY <1>1, <1>2, <1>3, <1>6, <1>7, ByUseIs, Zenon
<1> DEFINE item == ItemOf(e, n)
<1>11. item \in [entry : Entries, bytes : Bytes] /\ item.entry = e
  BY DEF ItemOf
<1>12. FitsAll(<<item>>)
  BY <1>3, OneFits, Zenon
<1> HIDE DEF item
<1>13. Recency!Put(item)
  <2>1. ByUse(entries') = Recency!Admitted(ByUse(entries), item)
    BY <1>7, <1>10, Zenon DEF item
  <2> QED BY <1>3, <1>11, <1>12, <2>1, Zenon DEF Recency!Put
<1> QED BY <1>9, <1>11, <1>13, Zenon DEF Recency!Next

(* Every step keeps the invariant and maps to a step of the list. *)
LEMMA StepSound ==
  ASSUME TInv, [Next]_vars
  PROVE  TInv' /\ [Recency!Next]_<<ByUse(entries), recent>>
<1>1. CASE UNCHANGED vars
  <2>1. entries' = entries /\ clock' = clock /\ retained' = retained /\ peak_bytes' = peak_bytes /\ recent' = recent
    BY <1>1, Zenon DEF vars
  <2> QED BY <2>1, Zenon DEF TInv
<1>2. ASSUME NEW e \in Entries, Get(e) PROVE TInv' /\ [Recency!Next]_<<ByUse(entries), recent>>
  BY <1>2, GetSound, Zenon
<1>3. ASSUME NEW e \in Entries, Erase(e) PROVE TInv' /\ [Recency!Next]_<<ByUse(entries), recent>>
  BY <1>3, EraseSound, Zenon
<1>4. ASSUME NEW e \in Entries, NEW n \in Bytes, Put(e, n) PROVE TInv' /\ [Recency!Next]_<<ByUse(entries), recent>>
  BY <1>4, PutSound, Zenon
<1>5. ASSUME NEW e \in Entries, NEW n \in Bytes, PutTooLarge(e, n) PROVE UNCHANGED vars
  BY <1>5, Zenon DEF PutTooLarge
<1> QED BY <1>1, <1>2, <1>3, <1>4, <1>5, Zenon DEF Next

(***************************************************************************)
(* The bytes the cache says it retains are the bytes of its templates,     *)
(* never more than the peak it reports nor than the limit, and there are   *)
(* never more templates than allowed: for every set of producers, every    *)
(* sizes and limits, whatever get(), put() and erase() came before.        *)
(***************************************************************************)
THEOREM RetainedIsExact == Spec => []RetainedExact
<1>1. Init => TInv
  BY InitSound, Zenon
<1>2. TInv /\ [Next]_vars => TInv'
  BY StepSound, Zenon
<1>3. TInv => RetainedExact
  BY SoundNow, Zenon DEF RetainedExact
<1> QED BY <1>1, <1>2, <1>3, PTL DEF Spec

(***************************************************************************)
(* The cache implements RecencyList: a hit makes a template the most       *)
(* recent, and put() evicts the least recently used ones first and stops   *)
(* at the first moment the new template fits.                              *)
(***************************************************************************)
THEOREM CacheForgetsOldest == Spec => ForgetsOldest
<1>1. Init => TInv /\ Recency!Init
  BY InitSound, Zenon
<1>2. TInv /\ [Next]_vars => TInv' /\ [Recency!Next]_<<ByUse(entries), recent>>
  BY StepSound, Zenon
<1> QED BY <1>1, <1>2, PTL DEF Spec, ForgetsOldest, Recency!Spec

=============================================================================
