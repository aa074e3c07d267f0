--------------------------- MODULE PagerInvariant ---------------------------
(***************************************************************************)
(* The inductive invariant of Pager, IInv: what the operations do to one   *)
(* slot of the table, as lemmas about records and then about a table in    *)
(* which one slot or a set of slots changes; and that each action of the   *)
(* application and of the runtime preserves it.                            *)
(***************************************************************************)
EXTENDS Pager, FiniteSetTheorems, TLAPS

ResidentSet(r) == {i \in Page : r.page[i] # Cold}

(***************************************************************************)
(* What holds of every slot r whose recipe computes w.                     *)
(***************************************************************************)
SlotOK(r, w) ==
  /\ r \in BufferRecord
  /\ ShapeOK(r) /\ ProtectionOK(r) /\ StateOK(r)
  /\ WholeOK(r) /\ CountOK(r) /\ CleanOK(r, w)

-----------------------------------------------------------------------------

(***************************************************************************)
(* The page numbers are finitely many.                                     *)
(***************************************************************************)
LEMMA PageFinite == IsFiniteSet(Page) /\ Page \subseteq Nat
  BY ConstantsAssumption, FS_Interval DEF Page

(***************************************************************************)
(* The sizes of the buffers are natural numbers.                           *)
(***************************************************************************)
LEMMA SizesAreNat ==
  /\ MaxPages \in Nat /\ 1 .. MaxPages \subseteq Nat
  /\ \A r \in BufferRecord : r.size \in Nat
  BY ConstantsAssumption DEF BufferRecord

(* So are the retained bytes and the measured costs of a submission.      *)
LEMMA CostsAreNat ==
  (\A bytes \in Retained : bytes \in Nat) /\ (\A ns \in Costs : ns \in Nat)
  BY ConstantsAssumption, Zenon

(* The sum of two natural numbers is one: what retained bytes add up to.   *)
LEMMA SumsAreNat ==
  \A m, n \in Nat : m + n \in Nat
  OBVIOUS

(***************************************************************************)
(* Cardinalities of disjoint unions, and of the pages of one buffer as     *)
(* pairs.                                                                  *)
(***************************************************************************)
LEMMA DisjointUnion ==
  ASSUME NEW S, NEW T, IsFiniteSet(S), IsFiniteSet(T), S \cap T = {}
  PROVE  /\ IsFiniteSet(S \cup T)
         /\ Cardinality(S \cup T) = Cardinality(S) + Cardinality(T)
         /\ Cardinality(S) \in Nat /\ Cardinality(T) \in Nat
<1>1. Cardinality(S) \in Nat /\ Cardinality(T) \in Nat
  BY FS_CardinalityType, Zenon
<1>2. Cardinality(S \cap T) = 0
  BY FS_EmptySet, Zenon
<1>3. /\ IsFiniteSet(S \cup T)
      /\ Cardinality(S \cup T) = Cardinality(S) + Cardinality(T) - Cardinality(S \cap T)
  BY FS_Union, Zenon
<1> QED
  BY <1>1, <1>2, <1>3

LEMMA PairsOfOne ==
  ASSUME NEW b, NEW S, IsFiniteSet(S)
  PROVE  IsFiniteSet({b} \X S) /\ Cardinality({b} \X S) = Cardinality(S)
<1>1. IsFiniteSet({b}) /\ Cardinality({b}) = 1
  BY FS_Singleton, Zenon
<1>2. Cardinality(S) \in Nat
  BY FS_CardinalityType, Zenon
<1> QED
  BY <1>1, <1>2, FS_Product

(***************************************************************************)
(* A slot all of whose pages are counted resident has no cold page.        *)
(***************************************************************************)
LEMMA FullCount ==
  ASSUME NEW r \in BufferRecord, ShapeOK(r)
  PROVE  Cardinality(ResidentSet(r)) = r.size <=> ~HasCold(r)
<1> DEFINE R == ResidentSet(r)
<1>0. r.size \in 0 .. MaxPages
  BY Zenon DEF BufferRecord
<1>1. R \subseteq Mapped(r)
  BY Zenon DEF ShapeOK, ResidentSet
<1>2. IsFiniteSet(Mapped(r)) /\ Cardinality(Mapped(r)) = r.size
  <2>1. r.size \in Nat
    BY <1>0, ConstantsAssumption
  <2>2. 0 \in Int /\ r.size - 1 \in Int
    BY <2>1
  <2>3. /\ IsFiniteSet(0 .. r.size - 1)
        /\ Cardinality(0 .. r.size - 1) = IF 0 > r.size - 1 THEN 0 ELSE (r.size - 1) - 0 + 1
    BY <2>2, FS_Interval, Zenon
  <2> QED
    BY <2>1, <2>3 DEF Mapped
<1>3. Cardinality(R) = r.size <=> R = Mapped(r)
  BY <1>1, <1>2, FS_Subset, Zenon
<1>4. Mapped(r) \subseteq Page
  BY <1>0, ConstantsAssumption DEF Mapped, Page
<1>5. R = Mapped(r) <=> ~HasCold(r)
  BY <1>1, <1>4, Zenon DEF HasCold, ResidentSet
<1> QED
  BY <1>3, <1>5, Zenon

(***************************************************************************)
(* Updating a slot field by field: what each field is afterwards, and that *)
(* the result is a slot again.                                             *)
(***************************************************************************)
LEMMA PageUpdate ==
  ASSUME NEW r \in BufferRecord, NEW P, NEW Q, NEW H, NEW c, NEW s
  PROVE  LET q == [r EXCEPT !.page = P, !.prot = Q, !.phys = H, !.count = c, !.state = s]
         IN  /\ q.page = P /\ q.prot = Q /\ q.phys = H /\ q.count = c /\ q.state = s
             /\ q.size = r.size /\ q.first = r.first /\ q.last = r.last
             /\ q.sliced = r.sliced /\ q.id = r.id /\ q.live = r.live
  BY Zenon DEF BufferRecord

LEMMA PageUpdateType ==
  ASSUME NEW r \in BufferRecord,
         NEW P \in [Page -> {Cold, Clean, Dirty}],
         NEW Q \in [Page -> {"none", "r", "rw"}],
         NEW H \in [Page -> Values], NEW c \in Int, NEW s \in States
  PROVE  [r EXCEPT !.page = P, !.prot = Q, !.phys = H, !.count = c, !.state = s]
           \in BufferRecord
  BY Zenon DEF BufferRecord

(***************************************************************************)
(* The fields of a slot after restore_span.                                *)
(***************************************************************************)
LEMMA RestoredFields ==
  ASSUME NEW r \in BufferRecord, NEW F, F # {}, NEW w
  PROVE  LET q == Restored(r, F, w) IN
         /\ q.page = [i \in Page |-> IF i \in F THEN Clean ELSE r.page[i]]
         /\ q.prot = [i \in Page |-> IF i \in F THEN "r" ELSE r.prot[i]]
         /\ q.phys = [i \in Page |-> IF i \in F THEN w[i] ELSE r.phys[i]]
         /\ q.count = r.count + Cardinality(F)
         /\ q.state = IF r.count + Cardinality(F) = r.size /\ r.state # "PINNED"
                      THEN "SEALED" ELSE r.state
         /\ q.size = r.size /\ q.first = r.first /\ q.last = r.last
         /\ q.sliced = r.sliced /\ q.id = r.id /\ q.live = r.live
         /\ w \in [Page -> Values] /\ Cardinality(F) \in Int => q \in BufferRecord
<1> DEFINE P == [i \in Page |-> IF i \in F THEN Clean ELSE r.page[i]]
           Q == [i \in Page |-> IF i \in F THEN "r" ELSE r.prot[i]]
           H == [i \in Page |-> IF i \in F THEN w[i] ELSE r.phys[i]]
           c == r.count + Cardinality(F)
           s == IF r.count + Cardinality(F) = r.size /\ r.state # "PINNED"
                THEN "SEALED" ELSE r.state
<1>1. Restored(r, F, w)
        = [r EXCEPT !.page = P, !.prot = Q, !.phys = H, !.count = c, !.state = s]
  BY Zenon DEF Restored
<1>2. /\ P \in [Page -> {Cold, Clean, Dirty}]
      /\ Q \in [Page -> {"none", "r", "rw"}]
      /\ w \in [Page -> Values] => H \in [Page -> Values]
      /\ s \in States
      /\ Cardinality(F) \in Int => c \in Int
  BY DEF BufferRecord, States
<1> HIDE DEF P, Q, H, c, s
<1>3. LET q == Restored(r, F, w) IN
        /\ q.page = P /\ q.prot = Q /\ q.phys = H /\ q.count = c /\ q.state = s
        /\ q.size = r.size /\ q.first = r.first /\ q.last = r.last
        /\ q.sliced = r.sliced /\ q.id = r.id /\ q.live = r.live
  BY <1>1, PageUpdate
<1>4. ASSUME w \in [Page -> Values], Cardinality(F) \in Int
      PROVE  Restored(r, F, w) \in BufferRecord
  <2>1. H \in [Page -> Values] /\ c \in Int
    BY <1>2, <1>4, Zenon
  <2>2. [r EXCEPT !.page = P, !.prot = Q, !.phys = H, !.count = c, !.state = s]
          \in BufferRecord
    BY <1>2, <2>1, PageUpdateType, Zenon
  <2> QED
    BY <1>1, <2>2, Zenon
<1> QED
  BY <1>3, <1>4, Zenon DEF P, Q, H, c, s

-----------------------------------------------------------------------------

(***************************************************************************)
(* The pages restore_span fetches are cold pages of the region, and among  *)
(* them are all the cold pages that were asked for.                        *)
(***************************************************************************)
LEMMA RegionInPage ==
  ASSUME NEW r \in BufferRecord, ShapeOK(r)
  PROVE  /\ Region(r) \subseteq Mapped(r) /\ Mapped(r) \subseteq Page
         /\ IsFiniteSet(Region(r)) /\ IsFiniteSet(Mapped(r))
<1>1. r.size \in 0 .. MaxPages /\ r.first \in 0 .. MaxPages /\ r.last \in 0 .. MaxPages
  BY Zenon DEF BufferRecord
<1>2. r.state # "FREE" => r.last <= r.size
  BY Zenon DEF ShapeOK
<1>3. r.state = "FREE" => r.first = 0 /\ r.last = 0
  BY DEF ShapeOK, Cleared
<1>4. Region(r) \subseteq Mapped(r) /\ Mapped(r) \subseteq Page
  BY <1>1, <1>2, <1>3, ConstantsAssumption DEF Region, Mapped, Page
<1> QED
  BY <1>4, PageFinite, FS_Subset, Zenon

LEMMA FreeIsEmpty ==
  ASSUME NEW r, ShapeOK(r), r.state = "FREE"
  PROVE  r.size = 0 /\ Mapped(r) = {}
<1>1. r = Cleared
  BY Zenon DEF ShapeOK
<1>2. r.size = 0
  BY <1>1, Zenon DEF Cleared
<1> QED
  BY <1>2 DEF Mapped

LEMMA FetchedFacts ==
  ASSUME NEW r, NEW w, SlotOK(r, w), NEW S \in SUBSET Mapped(r)
  PROVE  LET F == Fetched(r, ColdIn(r, S)) IN
         /\ F \subseteq Region(r) /\ ColdIn(r, S) \subseteq F
         /\ IsFiniteSet(F) /\ Cardinality(F) \in Nat
         /\ \A i \in F : r.page[i] = Cold
         /\ F # {} => r.state \in {"EVICTED", "PINNED"}
         /\ F # {} /\ ~r.sliced => F = Region(r) /\ r.state = "EVICTED"
<1> DEFINE F == Fetched(r, ColdIn(r, S))
<1>0. r \in BufferRecord /\ ShapeOK(r)
  BY Zenon DEF SlotOK
<1>1. ASSUME NEW i \in Mapped(r), r.page[i] = Cold
      PROVE  i \in Region(r) /\ r.state \in {"EVICTED", "PINNED"}
  <2>1. r.state \in States /\ r.state # "FREE"
    BY <1>0 DEF BufferRecord, ShapeOK, Cleared, Mapped
  <2>2. ~(i \notin Region(r) \/ r.state = "RESIDENT") /\ ~(i \in Region(r) /\ r.state = "SEALED")
    BY <1>1 DEF SlotOK, StateOK, Cold, Clean, Dirty
  <2> QED
    BY <2>1, <2>2, Zenon DEF States
<1>2. \A i \in ColdIn(r, S) : i \in Region(r) /\ r.page[i] = Cold /\ r.state \in {"EVICTED", "PINNED"}
  BY <1>1, Zenon DEF ColdIn
<1>3. ~r.sliced /\ ColdIn(r, S) # {} =>
        r.state = "EVICTED" /\ \A i \in Region(r) : r.page[i] = Cold
  BY <1>2, Zenon DEF SlotOK, WholeOK
<1>4. /\ F \subseteq Region(r) /\ ColdIn(r, S) \subseteq F
      /\ \A i \in F : r.page[i] = Cold
      /\ F # {} => r.state \in {"EVICTED", "PINNED"}
      /\ F # {} /\ ~r.sliced => F = Region(r) /\ r.state = "EVICTED"
  BY <1>2, <1>3, Zenon DEF Fetched
<1>5. IsFiniteSet(F) /\ Cardinality(F) \in Nat
  BY <1>0, <1>4, RegionInPage, FS_Subset, FS_CardinalityType, Zenon
<1> QED
  BY <1>4, <1>5, Zenon

(***************************************************************************)
(* restore_span keeps a slot well formed, changes no byte of its logical   *)
(* contents, and makes exactly the fetched pages resident.                 *)
(***************************************************************************)
LEMMA RestoredOK ==
  ASSUME NEW r, NEW w \in [Page -> Values], SlotOK(r, w), NEW S \in SUBSET Mapped(r)
  PROVE  LET F == Fetched(r, ColdIn(r, S))
             q == Restored(r, F, w)
         IN  /\ SlotOK(q, w)
             /\ ResidentSet(q) = ResidentSet(r) \cup F
             /\ \A i \in S : q.page[i] # Cold
             /\ Logical(q, w) = Logical(r, w)
             /\ q.size = r.size /\ q.first = r.first /\ q.last = r.last
             /\ q.sliced = r.sliced /\ q.id = r.id /\ q.live = r.live
             /\ q.count = r.count + Cardinality(F)
             /\ q.state = r.state \/ (r.state = "EVICTED" /\ q.state = "SEALED")
<1> DEFINE F == Fetched(r, ColdIn(r, S))
           q == Restored(r, F, w)
<1>0. r \in BufferRecord /\ ShapeOK(r)
  BY Zenon DEF SlotOK
<1>1. /\ F \subseteq Region(r) /\ ColdIn(r, S) \subseteq F
      /\ IsFiniteSet(F) /\ Cardinality(F) \in Nat
      /\ \A i \in F : r.page[i] = Cold
      /\ F # {} => r.state \in {"EVICTED", "PINNED"}
      /\ F # {} /\ ~r.sliced => F = Region(r) /\ r.state = "EVICTED"
  BY FetchedFacts, Zenon
<1>2. Region(r) \subseteq Mapped(r) /\ Mapped(r) \subseteq Page
  BY <1>0, RegionInPage, Zenon
<1>3. CASE F = {}
  <2>1. q = r
    BY <1>3, Zenon DEF Restored
  <2>2. \A i \in S : r.page[i] # Cold
    BY <1>1, <1>3, Zenon DEF ColdIn
  <2>3. r.count = r.count + Cardinality(F)
    <3>1. r.count \in Int /\ Cardinality(F) = 0
      BY <1>0, <1>3, FS_EmptySet, Zenon DEF BufferRecord
    <3> QED
      BY <3>1
  <2>4. ResidentSet(r) = ResidentSet(r) \cup F
    BY <1>3, Zenon
  <2> QED
    BY <2>1, <2>2, <2>3, <2>4, Zenon
<1>4. CASE F # {}
  <2> HIDE DEF F
  <2>1. /\ q.page = [i \in Page |-> IF i \in F THEN Clean ELSE r.page[i]]
        /\ q.prot = [i \in Page |-> IF i \in F THEN "r" ELSE r.prot[i]]
        /\ q.phys = [i \in Page |-> IF i \in F THEN w[i] ELSE r.phys[i]]
        /\ q.count = r.count + Cardinality(F)
        /\ q.state = IF r.count + Cardinality(F) = r.size /\ r.state # "PINNED"
                     THEN "SEALED" ELSE r.state
        /\ q.size = r.size /\ q.first = r.first /\ q.last = r.last
        /\ q.sliced = r.sliced /\ q.id = r.id /\ q.live = r.live
        /\ q \in BufferRecord
    <3>1. Cardinality(F) \in Int
      BY <1>1
    <3> QED
      BY <1>0, <1>4, <3>1, RestoredFields
  <2> HIDE DEF q
  <2>2. Mapped(q) = Mapped(r) /\ Region(q) = Region(r)
    BY <2>1, Zenon DEF Mapped, Region
  <2>3. ResidentSet(q) = ResidentSet(r) \cup F
    BY <1>1, <1>2, <2>1 DEF ResidentSet, Cold, Clean
  <2>4. ShapeOK(q)
    <3>1. r.state \in {"EVICTED", "PINNED"} /\ q.state # "FREE"
      BY <1>1, <1>4, <2>1, Zenon
    <3> QED
      BY <1>0, <1>1, <1>2, <2>1, <2>2, <3>1 DEF ShapeOK
  <2>5. CountOK(q)
    <3>1. IsFiniteSet(ResidentSet(r)) /\ ResidentSet(r) \cap F = {}
      BY <1>1, PageFinite, FS_Subset, Zenon DEF ResidentSet
    <3>2. Cardinality(ResidentSet(r) \cup F) = Cardinality(ResidentSet(r)) + Cardinality(F)
      BY <1>1, <3>1, DisjointUnion, Zenon
    <3>3. r.count = Cardinality(ResidentSet(r))
      BY Zenon DEF SlotOK, CountOK, ResidentSet
    <3> QED
      BY <2>1, <2>3, <3>2, <3>3, Zenon DEF CountOK, ResidentSet
  <2>6. q.state = "SEALED" => ~HasCold(q)
    <3>1. Cardinality(ResidentSet(q)) = q.count
      BY <2>5, Zenon DEF CountOK, ResidentSet
    <3>2. q.state = "SEALED" => q.count = q.size
      BY <1>1, <1>4, <2>1, Zenon
    <3> QED
      BY <2>1, <2>4, <3>1, <3>2, FullCount, Zenon
  <2>7. ProtectionOK(q)
    BY <1>1, <1>2, <2>1, <2>2 DEF SlotOK, ProtectionOK, Cold, Clean, Dirty
  <2>8. StateOK(q)
    <3>1. r.state \in {"EVICTED", "PINNED"}
      BY <1>1, <1>4, Zenon
    <3>2. \A i \in Mapped(q) : q.page[i] = IF i \in F THEN Clean ELSE r.page[i]
      BY <1>2, <2>1, <2>2, Zenon
    <3>3. \A i \in Mapped(q) : i \notin Region(q) => q.page[i] = Dirty
      BY <1>1, <2>2, <3>2 DEF SlotOK, StateOK
    <3>4. q.state \in {"SEALED", "EVICTED"} => r.state = "EVICTED"
      BY <2>1, <3>1, Zenon
    <3>5. \A i \in Region(q) : q.state \in {"SEALED", "EVICTED"} => q.page[i] \in {Cold, Clean}
      <4>1. \A i \in Region(r) : r.state = "EVICTED" => r.page[i] \in {Cold, Clean}
        BY <1>0, <1>2, Zenon DEF SlotOK, StateOK, BufferRecord, Cold, Clean, Dirty
      <4> QED
        BY <1>2, <2>2, <3>2, <3>4, <4>1, Zenon
    <3>6. \A i \in Region(q) : q.state = "SEALED" => q.page[i] = Clean
      BY <1>2, <2>2, <2>6, <3>5, Zenon DEF HasCold
    <3>7. q.state # "RESIDENT"
      BY <2>1, <3>1, Zenon
    <3> QED
      BY <3>3, <3>5, <3>6, <3>7 DEF StateOK, Cold, Clean, Dirty
  <2>9. WholeOK(q)
    BY <1>1, <1>2, <1>4, <2>1, <2>2, SMTT(30) DEF WholeOK, Cold, Clean
  <2>10. CleanOK(q, w)
    BY <1>2, <2>1, <2>2 DEF SlotOK, CleanOK
  <2>11. Logical(q, w) = Logical(r, w)
    BY <1>1, <1>2, <2>1, <2>2, Zenon DEF Logical, Cold, Clean
  <2>12. \A i \in S : q.page[i] # Cold
    BY <1>1, <1>2, <2>1 DEF ColdIn, Cold, Clean
  <2>13. q.state = r.state \/ (r.state = "EVICTED" /\ q.state = "SEALED")
    BY <1>1, <1>4, <2>1, Zenon
  <2> QED
    BY <2>1, <2>3, <2>4, <2>5, <2>7, <2>8, <2>9, <2>10, <2>11, <2>12, <2>13, Zenon
    DEF SlotOK, q, F
<1> QED
  BY <1>3, <1>4, Zenon

(***************************************************************************)
(* Making resident pages writable keeps the slot well formed; a write into *)
(* the region pins the buffer.                                             *)
(***************************************************************************)
LEMMA WrittenOK ==
  ASSUME NEW r, NEW w, SlotOK(r, w), NEW S \in SUBSET Mapped(r), S # {},
         \A i \in S : r.page[i] # Cold
  PROVE  LET q == Written(r, S)
         IN  /\ SlotOK(q, w)
             /\ ResidentSet(q) = ResidentSet(r)
             /\ Logical(q, w) = Logical(r, w)
             /\ \A i \in S : q.page[i] = Dirty
             /\ q.size = r.size /\ q.first = r.first /\ q.last = r.last /\ q.count = r.count
             /\ q.sliced = r.sliced /\ q.id = r.id /\ q.live = r.live
             /\ q.state = r.state \/ (r.state \notin {"FREE", "RESIDENT"} /\ q.state = "PINNED")
<1> DEFINE P == [i \in Page |-> IF i \in S THEN Dirty ELSE r.page[i]]
           Q == [i \in Page |-> IF i \in S THEN "rw" ELSE r.prot[i]]
           s == IF r.state # "RESIDENT" /\ S \cap Region(r) # {} THEN "PINNED" ELSE r.state
           q == Written(r, S)
<1>0. r \in BufferRecord /\ ShapeOK(r) /\ r.state # "FREE"
  BY FreeIsEmpty, Zenon DEF SlotOK
<1>1. q = [r EXCEPT !.page = P, !.prot = Q, !.state = s]
  BY Zenon DEF Written
<1>2. /\ P \in [Page -> {Cold, Clean, Dirty}]
      /\ Q \in [Page -> {"none", "r", "rw"}]
      /\ s \in States
  BY <1>0, Zenon DEF BufferRecord, States
<1>3. Region(r) \subseteq Mapped(r) /\ Mapped(r) \subseteq Page
  BY <1>0, RegionInPage, Zenon
<1>4. /\ q.page = P /\ q.prot = Q /\ q.state = s /\ q.phys = r.phys /\ q.count = r.count
      /\ q.size = r.size /\ q.first = r.first /\ q.last = r.last
      /\ q.sliced = r.sliced /\ q.id = r.id /\ q.live = r.live
      /\ q \in BufferRecord
  <2> HIDE DEF P, Q, s, q
  <2>1. [r EXCEPT !.page = P, !.prot = Q, !.state = s] \in BufferRecord
    BY <1>0, <1>2, Zenon DEF BufferRecord
  <2>2. LET t == [r EXCEPT !.page = P, !.prot = Q, !.state = s]
        IN  /\ t.page = P /\ t.prot = Q /\ t.state = s /\ t.phys = r.phys /\ t.count = r.count
            /\ t.size = r.size /\ t.first = r.first /\ t.last = r.last
            /\ t.sliced = r.sliced /\ t.id = r.id /\ t.live = r.live
    BY <1>0, Zenon DEF BufferRecord
  <2> QED
    BY <1>1, <2>1, <2>2, Zenon
<1> HIDE DEF q
<1>5. Mapped(q) = Mapped(r) /\ Region(q) = Region(r)
  BY <1>4, Zenon DEF Mapped, Region
<1>6. ResidentSet(q) = ResidentSet(r)
  BY <1>4 DEF ResidentSet, Cold, Dirty
<1>7. s # r.state => s = "PINNED" /\ r.state # "RESIDENT" /\ S \cap Region(r) # {}
  BY Zenon
<1>8. ShapeOK(q)
  BY <1>0, <1>4, <1>5, <1>7, SMTT(30) DEF ShapeOK
<1>9. ProtectionOK(q)
  BY <1>3, <1>4, <1>5 DEF SlotOK, ProtectionOK, Cold, Clean, Dirty
<1>10. StateOK(q)
  <2>1. q.state \in {"SEALED", "EVICTED"} => q.state = r.state /\ S \cap Region(r) = {}
    BY <1>0, <1>4, Zenon
  <2>2. q.state = "RESIDENT" => r.state = "RESIDENT"
    BY <1>4, Zenon
  <2> QED
    BY <1>3, <1>4, <1>5, <2>1, <2>2 DEF SlotOK, StateOK
<1>11. WholeOK(q)
  <2> SUFFICES ASSUME ~q.sliced, NEW i \in Region(q), NEW j \in Region(q), q.page[i] = Cold
               PROVE  q.state = "EVICTED" /\ q.page[j] = Cold
    BY Zenon DEF WholeOK
  <2>1. i \notin S /\ r.page[i] = Cold
    BY <1>3, <1>4, <1>5 DEF Cold, Dirty
  <2>2. r.state = "EVICTED" /\ \A k \in Region(r) : r.page[k] = Cold
    BY <1>4, <1>5, <2>1 DEF SlotOK, WholeOK
  <2>3. S \cap Region(r) = {}
    BY <2>2, Zenon
  <2> QED
    BY <1>3, <1>4, <1>5, <2>2, <2>3
<1>12. CountOK(q)
  BY <1>4, <1>6, Zenon DEF SlotOK, CountOK, ResidentSet
<1>13. CleanOK(q, w)
  BY <1>3, <1>4, <1>5 DEF SlotOK, CleanOK, Clean, Dirty
<1>14. Logical(q, w) = Logical(r, w)
  BY <1>3, <1>4, <1>5 DEF Logical, Cold, Dirty
<1>15. \A i \in S : q.page[i] = Dirty
  BY <1>3, <1>4, Zenon
<1> QED
  BY <1>0, <1>4, <1>6, <1>7, <1>8, <1>9, <1>10, <1>11, <1>12, <1>13, <1>14, <1>15, Zenon
  DEF SlotOK, q

(***************************************************************************)
(* A store into a writable page changes that page of the logical contents  *)
(* and nothing else.                                                       *)
(***************************************************************************)
LEMMA StoredOK ==
  ASSUME NEW r, NEW w, SlotOK(r, w), NEW i \in Mapped(r), r.page[i] = Dirty, NEW v \in Values
  PROVE  LET q == Stored(r, i, v)
         IN  /\ SlotOK(q, w)
             /\ q.page = r.page /\ q.prot = r.prot /\ q.state = r.state /\ q.count = r.count
             /\ q.size = r.size /\ q.first = r.first /\ q.last = r.last
             /\ q.sliced = r.sliced /\ q.id = r.id /\ q.live = r.live
             /\ Logical(q, w) = [Logical(r, w) EXCEPT ![i] = v]
<1> DEFINE q == Stored(r, i, v)
           H == [r.phys EXCEPT ![i] = v]
<1>0. r \in BufferRecord /\ ShapeOK(r) /\ r.state # "FREE"
  BY FreeIsEmpty, Zenon DEF SlotOK
<1>1. Region(r) \subseteq Mapped(r) /\ Mapped(r) \subseteq Page
  BY <1>0, RegionInPage, Zenon
<1>2. r.phys \in [Page -> Values] /\ H \in [Page -> Values]
  BY <1>0, <1>1, Zenon DEF BufferRecord
<1>3. /\ q.page = r.page /\ q.prot = r.prot /\ q.state = r.state /\ q.count = r.count
      /\ q.size = r.size /\ q.first = r.first /\ q.last = r.last
      /\ q.sliced = r.sliced /\ q.id = r.id /\ q.live = r.live /\ q.phys = H
      /\ q \in BufferRecord
  <2>1. q = [r EXCEPT !.phys = H]
    BY Zenon DEF Stored
  <2> HIDE DEF q, H
  <2>2. [r EXCEPT !.phys = H] \in BufferRecord
    BY <1>0, <1>2, Zenon DEF BufferRecord
  <2>3. LET t == [r EXCEPT !.phys = H]
        IN  /\ t.page = r.page /\ t.prot = r.prot /\ t.state = r.state /\ t.count = r.count
            /\ t.size = r.size /\ t.first = r.first /\ t.last = r.last
            /\ t.sliced = r.sliced /\ t.id = r.id /\ t.live = r.live /\ t.phys = H
    BY <1>0, Zenon DEF BufferRecord
  <2> QED
    BY <2>1, <2>2, <2>3, Zenon
<1> HIDE DEF q
<1>4. Mapped(q) = Mapped(r) /\ Region(q) = Region(r)
  BY <1>3, Zenon DEF Mapped, Region
<1>5. ShapeOK(q)
  BY <1>0, <1>1, <1>2, <1>3, <1>4, Zenon DEF ShapeOK
<1>6. ProtectionOK(q) /\ StateOK(q) /\ WholeOK(q) /\ CountOK(q)
  <2>1. ProtectionOK(q) /\ CountOK(q)
    BY <1>3, <1>4 DEF SlotOK, ProtectionOK, CountOK
  <2>2. StateOK(q)
    BY <1>3, <1>4, Zenon DEF SlotOK, StateOK
  <2>3. WholeOK(q)
    BY <1>3, <1>4 DEF SlotOK, WholeOK
  <2> QED
    BY <2>1, <2>2, <2>3, Zenon
<1>7. CleanOK(q, w)
  BY <1>1, <1>2, <1>3, <1>4 DEF SlotOK, CleanOK, Clean, Dirty
<1>8. Logical(q, w) = [Logical(r, w) EXCEPT ![i] = v]
  <2>1. q.phys = [j \in Page |-> IF j = i THEN v ELSE r.phys[j]]
    BY <1>1, <1>2, <1>3, Zenon
  <2>2. [Logical(r, w) EXCEPT ![i] = v]
          = [j \in Page |-> IF j = i THEN v ELSE Logical(r, w)[j]]
    BY <1>1, Zenon DEF Logical
  <2>3. \A j \in Page :
          (IF j \in Mapped(q) /\ q.page[j] = Cold THEN w[j] ELSE q.phys[j])
            = IF j = i THEN v ELSE Logical(r, w)[j]
    BY <1>1, <1>3, <1>4, <2>1 DEF Logical, Cold, Dirty
  <2>4. Logical(q, w) = [j \in Page |-> IF j = i THEN v ELSE Logical(r, w)[j]]
    BY <2>3, Zenon DEF Logical
  <2> QED
    BY <2>2, <2>4, Zenon
<1> QED
  BY <1>3, <1>5, <1>6, <1>7, <1>8, Zenon DEF SlotOK, q

(***************************************************************************)
(* Evicting a sealed or evicted buffer loses nothing: every page of the    *)
(* region is already what the recipe computes.                             *)
(***************************************************************************)
LEMMA EvictedOK ==
  ASSUME NEW r, NEW w, SlotOK(r, w), r.state \in {"SEALED", "EVICTED"}
  PROVE  LET q == Evicted(r)
         IN  /\ SlotOK(q, w)
             /\ ResidentSet(q) = ResidentSet(r) \ Region(r)
             /\ Logical(q, w) = Logical(r, w)
             /\ q.state = "EVICTED"
             /\ q.size = r.size /\ q.first = r.first /\ q.last = r.last
             /\ q.sliced = r.sliced /\ q.id = r.id /\ q.live = r.live
<1> DEFINE P == [i \in Page |-> IF i \in Region(r) THEN Cold ELSE r.page[i]]
           Q == [i \in Page |-> IF i \in Region(r) THEN "none" ELSE r.prot[i]]
           H == [i \in Page |-> IF i \in Region(r) THEN Zero ELSE r.phys[i]]
           gone == {i \in Region(r) : r.page[i] # Cold}
           c == r.count - Cardinality(gone)
           s == "EVICTED"
           q == Evicted(r)
<1>0. r \in BufferRecord /\ ShapeOK(r)
  BY Zenon DEF SlotOK
<1>1. q = [r EXCEPT !.state = s, !.page = P, !.prot = Q, !.phys = H, !.count = c]
  BY Zenon DEF Evicted
<1>2. /\ Region(r) \subseteq Mapped(r) /\ Mapped(r) \subseteq Page
      /\ IsFiniteSet(Region(r))
  BY <1>0, RegionInPage, Zenon
<1>3. IsFiniteSet(gone) /\ Cardinality(gone) \in Nat
  BY <1>2, FS_Subset, FS_CardinalityType, Zenon
<1>4. /\ P \in [Page -> {Cold, Clean, Dirty}]
      /\ Q \in [Page -> {"none", "r", "rw"}]
      /\ H \in [Page -> Values]
      /\ c \in Int /\ s \in States
  <2>1. r.count \in Int
    BY <1>0, Zenon DEF BufferRecord
  <2>2. c \in Int
    BY <1>3, <2>1
  <2> QED
    BY <1>0, <2>2, ConstantsAssumption, Zenon DEF BufferRecord, States
<1>5. /\ q.page = P /\ q.prot = Q /\ q.state = s /\ q.phys = H /\ q.count = c
      /\ q.size = r.size /\ q.first = r.first /\ q.last = r.last
      /\ q.sliced = r.sliced /\ q.id = r.id /\ q.live = r.live
      /\ q \in BufferRecord
  <2> HIDE DEF P, Q, H, c, s, q
  <2> DEFINE t == [r EXCEPT !.state = s, !.page = P, !.prot = Q, !.phys = H, !.count = c]
  <2>1. t \in BufferRecord
    BY <1>0, <1>4, Zenon DEF BufferRecord
  <2>2. /\ t.page = P /\ t.prot = Q /\ t.state = s /\ t.phys = H /\ t.count = c
        /\ t.size = r.size /\ t.first = r.first /\ t.last = r.last
        /\ t.sliced = r.sliced /\ t.id = r.id /\ t.live = r.live
    BY <1>0, Zenon DEF BufferRecord
  <2> QED
    BY <1>1, <2>1, <2>2, Zenon
<1> HIDE DEF q
<1>6. Mapped(q) = Mapped(r) /\ Region(q) = Region(r)
  BY <1>5, Zenon DEF Mapped, Region
<1>7. ResidentSet(q) = ResidentSet(r) \ Region(r)
  BY <1>5, Zenon DEF ResidentSet, Cold
<1>8. \A i \in Region(r) : r.page[i] \in {Cold, Clean}
  BY <1>0, <1>2, Zenon DEF SlotOK, StateOK, BufferRecord, Cold, Clean, Dirty
<1>9. ShapeOK(q)
  BY <1>0, <1>2, <1>5, <1>6, Zenon DEF ShapeOK
<1>10. ProtectionOK(q)
  BY <1>2, <1>5, <1>6, SMTT(30) DEF SlotOK, ProtectionOK, Cold, Clean, Dirty
<1>11. StateOK(q)
  <2>1. \A i \in Page : q.page[i] = IF i \in Region(r) THEN Cold ELSE r.page[i]
    BY <1>5, Zenon
  <2>2. \A i \in Mapped(r) : i \in Page /\ (i \notin Region(r) => r.page[i] = Dirty)
    BY <1>0, <1>2, Zenon DEF SlotOK, StateOK, Mapped, Page, BufferRecord
  <2> HIDE DEF P, Q, H, c, gone
  <2> QED
    BY <1>5, <1>6, <2>1, <2>2 DEF StateOK, Cold, Clean, Dirty
<1>12. WholeOK(q)
  BY <1>2, <1>5, <1>6, Zenon DEF WholeOK
<1>13. CountOK(q)
  <2>1. IsFiniteSet(ResidentSet(r))
    BY PageFinite, FS_Subset, Zenon DEF ResidentSet
  <2>2. ResidentSet(r) \cap Region(r) = gone
    BY <1>2, Zenon DEF ResidentSet
  <2>3. Cardinality(ResidentSet(r) \ Region(r))
          = Cardinality(ResidentSet(r)) - Cardinality(ResidentSet(r) \cap Region(r))
    BY <2>1, FS_Difference, Zenon
  <2>4. r.count = Cardinality(ResidentSet(r))
    BY Zenon DEF SlotOK, CountOK, ResidentSet
  <2>5. q.count = Cardinality(ResidentSet(q))
    BY <1>5, <1>7, <2>2, <2>3, <2>4, Zenon
  <2> QED
    BY <2>5, Zenon DEF CountOK, ResidentSet
<1>14. CleanOK(q, w)
  BY <1>2, <1>5, <1>6 DEF SlotOK, CleanOK, Cold, Clean
<1>15. Logical(q, w) = Logical(r, w)
  <2>1. \A i \in Region(r) : r.page[i] = Clean => r.phys[i] = w[i]
    BY <1>2, Zenon DEF SlotOK, CleanOK
  <2>2. \A i \in Page : (IF i \in Mapped(q) /\ q.page[i] = Cold THEN w[i] ELSE q.phys[i])
                      = (IF i \in Mapped(r) /\ r.page[i] = Cold THEN w[i] ELSE r.phys[i])
    BY <1>2, <1>5, <1>6, <1>8, <2>1
  <2> QED
    BY <2>2, Zenon DEF Logical
<1> QED
  BY <1>5, <1>7, <1>9, <1>10, <1>11, <1>12, <1>13, <1>14, <1>15, Zenon DEF SlotOK, q

(***************************************************************************)
(* After a failed MADV_DONTNEED the rollback restores the slot exactly.    *)
(***************************************************************************)
LEMMA RolledBackSame ==
  ASSUME NEW r, NEW w, SlotOK(r, w), r.state \in {"SEALED", "EVICTED"}
  PROVE  RolledBack(r) = r
<1> DEFINE Q == [i \in Page |->
                  IF i \in Region(r) THEN (IF r.page[i] # Cold THEN "r" ELSE "none")
                                     ELSE r.prot[i]]
<1>0. r \in BufferRecord /\ ShapeOK(r) /\ r.prot \in [Page -> {"none", "r", "rw"}]
  BY Zenon DEF SlotOK, BufferRecord
<1>1. Region(r) \subseteq Mapped(r) /\ Mapped(r) \subseteq Page
  BY <1>0, RegionInPage, Zenon
<1>2. \A i \in Region(r) : r.page[i] \in {Cold, Clean}
  BY <1>0, <1>1, Zenon DEF SlotOK, StateOK, BufferRecord, Cold, Clean, Dirty
<1>3. \A i \in Page : Q[i] = r.prot[i]
  BY <1>1, <1>2, Zenon DEF SlotOK, ProtectionOK, Cold, Clean
<1>4. Q = r.prot
  BY <1>0, <1>3, Zenon
<1>5. RolledBack(r) = [r EXCEPT !.prot = Q]
  BY Zenon DEF RolledBack
<1> HIDE DEF Q
<1>6. [r EXCEPT !.prot = r.prot] = r
  BY <1>0, Zenon DEF BufferRecord
<1> QED
  BY <1>4, <1>5, <1>6, Zenon

(***************************************************************************)
(* A slot that is free or holds plain memory says nothing about a recipe.  *)
(***************************************************************************)
LEMMA PlainSlot ==
  ASSUME NEW r, NEW w, SlotOK(r, w), r.state \in {"FREE", "RESIDENT"}, NEW x
  PROVE  /\ SlotOK(r, x) /\ Logical(r, x) = r.phys
         /\ \A i \in Mapped(r) : r.page[i] = Dirty
<1>1. \A i \in Mapped(r) : r.page[i] = Dirty
  <2>1. CASE r.state = "RESIDENT"
    BY <2>1, Zenon DEF SlotOK, StateOK
  <2>2. CASE r.state = "FREE"
    BY <2>2, FreeIsEmpty, Zenon DEF SlotOK
  <2> QED
    BY <2>1, <2>2, Zenon
<1>2. CleanOK(r, x)
  BY <1>1 DEF CleanOK, Clean, Dirty
<1>3. r.phys \in [Page -> Values]
  BY Zenon DEF SlotOK, BufferRecord
<1>4. Logical(r, x) = r.phys
  BY <1>1, <1>3 DEF Logical, Cold, Dirty
<1> QED
  BY <1>1, <1>2, <1>4, Zenon DEF SlotOK

(***************************************************************************)
(* A free slot, and one af_alloc has just filled.                          *)
(***************************************************************************)
LEMMA ClearedOK ==
  ASSUME NEW w
  PROVE  /\ SlotOK(Cleared, w)
         /\ Cleared.state = "FREE" /\ Cleared.size = 0 /\ Cleared.id = 0
         /\ ~Cleared.live /\ Cleared.count = 0
         /\ Logical(Cleared, w) = [i \in Page |-> Zero]
<1>1. /\ Cleared.state = "FREE" /\ Cleared.size = 0 /\ Cleared.id = 0
      /\ Cleared.live = FALSE /\ Cleared.count = 0
      /\ Cleared.first = 0 /\ Cleared.last = 0 /\ Cleared.sliced = FALSE
      /\ Cleared.page = [i \in Page |-> Cold]
      /\ Cleared.phys = [i \in Page |-> Zero]
  BY Zenon DEF Cleared
<1>2. Cleared \in BufferRecord
  BY ConstantsAssumption DEF Cleared, BufferRecord, States
<1>3. Mapped(Cleared) = {} /\ Region(Cleared) = {}
  BY <1>1 DEF Mapped, Region
<1>4. CountOK(Cleared)
  <2>1. {i \in Page : Cleared.page[i] # Cold} = {}
    BY <1>1, Zenon
  <2> QED
    BY <1>1, <2>1, FS_EmptySet, Zenon DEF CountOK
<1>5. ShapeOK(Cleared)
  BY <1>1, <1>3, Zenon DEF ShapeOK
<1>6. /\ ProtectionOK(Cleared) /\ StateOK(Cleared) /\ WholeOK(Cleared)
      /\ CleanOK(Cleared, w)
  BY <1>3, Zenon DEF ProtectionOK, StateOK, WholeOK, CleanOK
<1>7. Logical(Cleared, w) = [i \in Page |-> Zero]
  BY <1>1, <1>3, Zenon DEF Logical
<1> QED
  BY <1>1, <1>2, <1>4, <1>5, <1>6, <1>7, Zenon DEF SlotOK

LEMMA AllocatedOK ==
  ASSUME NEW n \in 1 .. MaxPages, NEW m \in Ids, NEW w
  PROVE  LET q == Allocated(n, m)
         IN  /\ SlotOK(q, w)
             /\ q.state = "RESIDENT" /\ q.size = n /\ q.id = m /\ ~q.live /\ q.count = n
             /\ Logical(q, w) = [i \in Page |-> Zero]
<1> DEFINE q == Allocated(n, m)
           P == [i \in Page |-> IF i < n THEN Dirty ELSE Cold]
           Q == [i \in Page |-> IF i < n THEN "rw" ELSE "none"]
<1>0. n \in Nat /\ n \in 0 .. MaxPages /\ 0 < n /\ 0 \in 0 .. MaxPages /\ MaxPages \in Nat
  BY ConstantsAssumption
<1>1. /\ q.state = "RESIDENT" /\ q.size = n /\ q.first = 0 /\ q.last = n
      /\ q.count = n /\ q.id = m /\ q.live = FALSE /\ q.sliced = FALSE
      /\ q.page = P /\ q.prot = Q /\ q.phys = [i \in Page |-> Zero]
  BY Zenon DEF Allocated, Cleared
<1>2. q \in BufferRecord
  <2>1. P \in [Page -> {Cold, Clean, Dirty}] /\ Q \in [Page -> {"none", "r", "rw"}]
    BY Zenon
  <2>2. m \in 0 .. MaxId
    BY ConstantsAssumption DEF Ids
  <2>3. [i \in Page |-> Zero] \in [Page -> Values]
    BY ConstantsAssumption, Zenon
  <2> HIDE DEF P, Q
  <2>4. q = [Cleared EXCEPT !.state = "RESIDENT", !.size = n, !.last = n, !.count = n,
                            !.id = m, !.page = P, !.prot = Q]
    BY Zenon DEF Allocated, P, Q
  <2>5. Cleared \in BufferRecord
    BY ClearedOK, Zenon DEF SlotOK
  <2> HIDE DEF q
  <2> DEFINE t == [Cleared EXCEPT !.state = "RESIDENT", !.size = n, !.last = n, !.count = n]
  <2>6. "RESIDENT" \in States /\ n \in Int
    BY <1>0 DEF States
  <2>7. t \in BufferRecord
    BY <1>0, <2>5, <2>6, Zenon DEF BufferRecord
  <2>8. q = [t EXCEPT !.id = m, !.page = P, !.prot = Q]
    BY <2>4, Zenon
  <2> HIDE DEF t
  <2>9. [t EXCEPT !.id = m, !.page = P, !.prot = Q] \in BufferRecord
    BY <2>1, <2>2, <2>7, Zenon DEF BufferRecord
  <2> QED
    BY <2>8, <2>9, Zenon
<1> HIDE DEF q
<1>3. Mapped(q) = 0 .. n - 1 /\ Region(q) = 0 .. n - 1 /\ 0 .. n - 1 \subseteq Page
  BY <1>0, <1>1 DEF Mapped, Region, Page
<1>4. \A i \in Page : i \in Mapped(q) <=> i < n
  BY <1>0, <1>3, PageFinite
<1>5. \A i \in Mapped(q) : q.page[i] = Dirty /\ q.prot[i] = "rw"
  BY <1>1, <1>3, <1>4, Zenon
<1>6. CountOK(q)
  <2>1. {i \in Page : q.page[i] # Cold} = 0 .. n - 1
    BY <1>1, <1>3, <1>4 DEF Cold, Dirty
  <2>2. 0 \in Int /\ n - 1 \in Int
    BY <1>0
  <2>3. Cardinality(0 .. n - 1) = n
    BY <1>0, <2>2, FS_Interval
  <2> QED
    BY <1>1, <2>1, <2>3, Zenon DEF CountOK
<1>7. ShapeOK(q)
  <2>1. \A i \in Page \ Mapped(q) : q.page[i] = Cold /\ q.phys[i] = Zero
    BY <1>1, <1>4, Zenon
  <2> QED
    BY <1>0, <1>1, <2>1 DEF ShapeOK
<1>8. ProtectionOK(q) /\ CleanOK(q, w)
  BY <1>5 DEF ProtectionOK, CleanOK, Cold, Clean, Dirty
<1>9. StateOK(q)
  BY <1>1, <1>5, Zenon DEF StateOK
<1>10. WholeOK(q)
  BY <1>3, <1>5 DEF WholeOK, Cold, Dirty
<1>11. Logical(q, w) = [i \in Page |-> Zero]
  BY <1>1, <1>5 DEF Logical, Cold, Dirty
<1> QED
  BY <1>1, <1>2, <1>6, <1>7, <1>8, <1>9, <1>10, <1>11, Zenon DEF SlotOK, q

(***************************************************************************)
(* Assigning page_bytes of a resident slot, or clearing recipe_live, is    *)
(* seen by no other field.                                                 *)
(***************************************************************************)
LEMMA SlicedChanged ==
  ASSUME NEW r, NEW w, SlotOK(r, w), r.state = "RESIDENT", NEW s \in BOOLEAN, NEW x
  PROVE  LET q == [r EXCEPT !.sliced = s]
         IN  /\ SlotOK(q, x) /\ Logical(q, x) = Logical(r, w)
             /\ q.state = r.state /\ q.size = r.size /\ q.id = r.id /\ q.live = r.live
             /\ q.page = r.page /\ q.count = r.count
<1> DEFINE q == [r EXCEPT !.sliced = s]
<1>0. r \in BufferRecord /\ ShapeOK(r)
  BY Zenon DEF SlotOK
<1>1. /\ q.state = r.state /\ q.size = r.size /\ q.id = r.id /\ q.live = r.live
      /\ q.page = r.page /\ q.count = r.count /\ q.prot = r.prot /\ q.phys = r.phys
      /\ q.first = r.first /\ q.last = r.last
      /\ q \in BufferRecord
  BY <1>0, Zenon DEF BufferRecord
<1> HIDE DEF q
<1>2. Mapped(q) = Mapped(r) /\ Region(q) = Region(r)
  BY <1>1, Zenon DEF Mapped, Region
<1>3. \A i \in Mapped(r) : r.page[i] = Dirty
  BY PlainSlot, Zenon
<1>4. ShapeOK(q) /\ ProtectionOK(q) /\ CountOK(q)
  BY <1>0, <1>1, <1>2, ZenonT(30) DEF SlotOK, ShapeOK, ProtectionOK, CountOK
<1>5. StateOK(q)
  BY <1>1, <1>2, <1>3, Zenon DEF StateOK
<1>6. WholeOK(q)
  BY <1>0, <1>1, <1>2, <1>3, RegionInPage DEF WholeOK, Cold, Dirty
<1>7. CleanOK(q, x)
  BY <1>1, <1>2, <1>3 DEF CleanOK, Clean, Dirty
<1>8. Logical(q, x) = Logical(r, w)
  BY <1>1, <1>2, <1>3 DEF Logical, Cold, Dirty
<1> QED
  BY <1>1, <1>4, <1>5, <1>6, <1>7, <1>8, Zenon DEF SlotOK, q

LEMMA LiveChanged ==
  ASSUME NEW r, NEW w, SlotOK(r, w), r.state # "FREE", NEW l \in BOOLEAN
  PROVE  LET q == [r EXCEPT !.live = l]
         IN  /\ SlotOK(q, w) /\ Logical(q, w) = Logical(r, w)
             /\ q.state = r.state /\ q.size = r.size /\ q.id = r.id /\ q.live = l
             /\ q.page = r.page /\ q.count = r.count
<1> DEFINE q == [r EXCEPT !.live = l]
<1>0. r \in BufferRecord /\ ShapeOK(r)
  BY Zenon DEF SlotOK
<1>1. /\ q.state = r.state /\ q.size = r.size /\ q.id = r.id /\ q.live = l
      /\ q.page = r.page /\ q.count = r.count /\ q.prot = r.prot /\ q.phys = r.phys
      /\ q.first = r.first /\ q.last = r.last /\ q.sliced = r.sliced
      /\ q \in BufferRecord
  BY <1>0, Zenon DEF BufferRecord
<1> HIDE DEF q
<1>2. Mapped(q) = Mapped(r) /\ Region(q) = Region(r)
  BY <1>1, Zenon DEF Mapped, Region
<1>3. ShapeOK(q)
  BY <1>0, <1>1, <1>2, Zenon DEF ShapeOK
<1>4. ProtectionOK(q) /\ CountOK(q)
  BY <1>1, <1>2, Zenon DEF SlotOK, ProtectionOK, CountOK
<1>5. StateOK(q) /\ WholeOK(q) /\ CleanOK(q, w)
  <2>1. StateOK(q)
    BY <1>1, <1>2 DEF SlotOK, StateOK
  <2>2. WholeOK(q)
    BY <1>1, <1>2 DEF SlotOK, WholeOK
  <2>3. CleanOK(q, w)
    BY <1>1, <1>2, Zenon DEF SlotOK, CleanOK
  <2> QED
    BY <2>1, <2>2, <2>3, Zenon
<1>6. Logical(q, w) = Logical(r, w)
  BY <1>1, <1>2, Zenon DEF Logical
<1> QED
  BY <1>1, <1>3, <1>4, <1>5, <1>6, Zenon DEF SlotOK, q

(***************************************************************************)
(* Sealing a resident slot whose bytes are what the recipe computes.       *)
(***************************************************************************)
LEMMA SealedOK ==
  ASSUME NEW r, NEW w, SlotOK(r, w), r.state = "RESIDENT",
         NEW lo \in Page, NEW hi \in 1 .. MaxPages, lo < hi, hi <= r.size,
         NEW slices \in BOOLEAN,
         NEW output \in [Page -> Values], Matches(r, lo, hi, output)
  PROVE  LET q == Sealed(r, lo, hi, slices)
         IN  /\ SlotOK(q, output) /\ Logical(q, output) = Logical(r, w)
             /\ q.state = "SEALED" /\ q.size = r.size /\ q.id = r.id /\ q.live
             /\ q.count = r.count /\ q.phys = r.phys /\ ~HasCold(q)
<1> DEFINE q == Sealed(r, lo, hi, slices)
           P == [i \in Page |-> IF i \in lo .. hi - 1 THEN Clean ELSE r.page[i]]
           Q == [i \in Page |-> IF i \in lo .. hi - 1 THEN "r" ELSE r.prot[i]]
<1>0. /\ r \in BufferRecord /\ ShapeOK(r) /\ lo \in Nat /\ hi \in Nat
      /\ r.size \in Nat /\ r.size <= MaxPages /\ MaxPages \in Nat
      /\ lo \in 0 .. MaxPages /\ hi \in 0 .. MaxPages /\ "SEALED" \in States
  BY ConstantsAssumption DEF SlotOK, BufferRecord, Page, States
<1>1. P \in [Page -> {Cold, Clean, Dirty}] /\ Q \in [Page -> {"none", "r", "rw"}]
  BY <1>0, Zenon DEF BufferRecord
<1>2. q = [r EXCEPT !.state = "SEALED", !.first = lo, !.last = hi, !.live = TRUE,
                    !.sliced = slices, !.page = P, !.prot = Q]
  BY Zenon DEF Sealed
<1>3. /\ q.state = "SEALED" /\ q.first = lo /\ q.last = hi /\ q.live = TRUE
      /\ q.sliced = slices /\ q.page = P /\ q.prot = Q
      /\ q.size = r.size /\ q.id = r.id /\ q.count = r.count /\ q.phys = r.phys
      /\ q \in BufferRecord
  <2> HIDE DEF P, Q, q
  <2> DEFINE t == [r EXCEPT !.state = "SEALED", !.first = lo, !.last = hi, !.live = TRUE]
             u == [t EXCEPT !.sliced = slices, !.page = P, !.prot = Q]
  <2>1. q = u
    BY <1>2, Zenon
  <2>2. /\ t \in BufferRecord
        /\ t.state = "SEALED" /\ t.first = lo /\ t.last = hi /\ t.live = TRUE
        /\ t.size = r.size /\ t.id = r.id /\ t.count = r.count /\ t.phys = r.phys
    BY <1>0, Zenon DEF BufferRecord
  <2> HIDE DEF t
  <2>3. /\ u \in BufferRecord
        /\ u.state = t.state /\ u.first = t.first /\ u.last = t.last /\ u.live = t.live
        /\ u.size = t.size /\ u.id = t.id /\ u.count = t.count /\ u.phys = t.phys
        /\ u.sliced = slices /\ u.page = P /\ u.prot = Q
    BY <1>1, <2>2, Zenon DEF BufferRecord
  <2> HIDE DEF u
  <2> QED
    BY <2>1, <2>2, <2>3, Zenon
<1> HIDE DEF q
<1>4. Mapped(q) = Mapped(r) /\ Region(q) = lo .. hi - 1
  BY <1>3, Zenon DEF Mapped, Region
<1>5. lo .. hi - 1 \subseteq Mapped(r) /\ Mapped(r) \subseteq Page
  BY <1>0 DEF Mapped, Page
<1>6. \A i \in Mapped(r) : r.page[i] = Dirty
  BY PlainSlot, Zenon
<1>7. \A i \in Mapped(r) : q.page[i] = IF i \in lo .. hi - 1 THEN Clean ELSE Dirty
  BY <1>3, <1>5, <1>6
<1>8. ShapeOK(q)
  <2>1. \A i \in Page \ Mapped(q) : q.page[i] = Cold /\ q.phys[i] = Zero
    BY <1>0, <1>3, <1>4, <1>5 DEF ShapeOK
  <2>2. r.id \in Ids
    BY <1>0, Zenon DEF ShapeOK
  <2> QED
    BY <1>3, <2>1, <2>2, Zenon DEF ShapeOK
<1>9. ProtectionOK(q)
  <2>1. \A i \in Mapped(r) : r.prot[i] = "rw"
    BY <1>6, Zenon DEF SlotOK, ProtectionOK
  <2>2. \A i \in Mapped(r) : q.prot[i] = IF i \in lo .. hi - 1 THEN "r" ELSE "rw"
    BY <1>3, <1>5, <2>1, Zenon
  <2> QED
    BY <1>4, <1>7, <2>2, SMTT(30) DEF ProtectionOK, Cold, Clean, Dirty
<1>10. StateOK(q)
  BY <1>3, <1>4, <1>7 DEF StateOK, Cold, Clean, Dirty
<1>11. WholeOK(q)
  BY <1>4, <1>5, <1>7 DEF WholeOK, Cold, Clean, Dirty
<1>12. CountOK(q)
  <2>1. \A i \in Page : q.page[i] # Cold <=> r.page[i] # Cold
    BY <1>3, <1>5, <1>6 DEF Cold, Clean, Dirty
  <2>2. {i \in Page : q.page[i] # Cold} = {i \in Page : r.page[i] # Cold}
    BY <2>1, Zenon
  <2> QED
    BY <1>3, <2>2, Zenon DEF SlotOK, CountOK
<1>13. CleanOK(q, output)
  <2>1. \A i \in Mapped(q) : q.page[i] = Clean => i \in lo .. hi - 1
    BY <1>4, <1>7 DEF Clean, Dirty
  <2>2. q.phys = r.phys
    BY <1>3, Zenon
  <2> QED
    BY <2>1, <2>2, Zenon DEF CleanOK, Matches
<1>14. ~HasCold(q)
  BY <1>4, <1>7 DEF HasCold, Cold, Clean, Dirty
<1>15. Logical(q, output) = Logical(r, w)
  <2>1. \A i \in Page : (IF i \in Mapped(q) /\ q.page[i] = Cold THEN output[i] ELSE q.phys[i])
                      = (IF i \in Mapped(r) /\ r.page[i] = Cold THEN w[i] ELSE r.phys[i])
    BY <1>3, <1>4, <1>6, <1>7 DEF Cold, Clean, Dirty
  <2> QED
    BY <2>1, Zenon DEF Logical
<1> QED
  BY <1>3, <1>8, <1>9, <1>10, <1>11, <1>12, <1>13, <1>14, <1>15, Zenon DEF SlotOK, q

-----------------------------------------------------------------------------

(***************************************************************************)
(* Counting the resident pages of a table of slots.                        *)
(***************************************************************************)
ResidentOf(f) == {p \in Buffer \X Page : f[p[1]].page[p[2]] # Cold}

LEMMA TableFinite ==
  ASSUME NEW f
  PROVE  IsFiniteSet(ResidentOf(f)) /\ Cardinality(ResidentOf(f)) \in Nat
<1>1. IsFiniteSet(Buffer) /\ IsFiniteSet(Page)
  BY PageFinite, ConstantsAssumption, Zenon
<1>2. IsFiniteSet(Buffer \X Page)
  BY <1>1, FS_Product, Zenon
<1>3. ResidentOf(f) \subseteq Buffer \X Page
  BY Zenon DEF ResidentOf
<1> QED
  BY <1>2, <1>3, FS_Subset, FS_CardinalityType, Zenon

LEMMA OneSlotCount ==
  ASSUME NEW f \in [Buffer -> BufferRecord], NEW b \in Buffer, NEW r \in BufferRecord,
         CountOK(f[b]), CountOK(r)
  PROVE  Cardinality(ResidentOf([f EXCEPT ![b] = r]))
           = Cardinality(ResidentOf(f)) - f[b].count + r.count
<1> DEFINE g == [f EXCEPT ![b] = r]
           rest == {p \in ResidentOf(f) : p[1] # b}
           old == {b} \X ResidentSet(f[b])
           new == {b} \X ResidentSet(r)
<1>1. ResidentOf(f) = rest \cup old /\ rest \cap old = {}
  BY Zenon DEF ResidentOf, ResidentSet
<1>2. ResidentOf(g) = rest \cup new /\ rest \cap new = {}
  BY Zenon DEF ResidentOf, ResidentSet
<1>3. IsFiniteSet(rest)
  BY TableFinite, FS_Subset, Zenon
<1>4. IsFiniteSet(ResidentSet(f[b])) /\ IsFiniteSet(ResidentSet(r))
  BY PageFinite, FS_Subset, Zenon DEF ResidentSet
<1>5. /\ IsFiniteSet(old) /\ Cardinality(old) = Cardinality(ResidentSet(f[b]))
      /\ IsFiniteSet(new) /\ Cardinality(new) = Cardinality(ResidentSet(r))
  BY <1>4, PairsOfOne, Zenon
<1>6. Cardinality(old) = f[b].count /\ Cardinality(new) = r.count
  BY <1>5, Zenon DEF CountOK, ResidentSet
<1>7. /\ Cardinality(ResidentOf(f)) = Cardinality(rest) + Cardinality(old)
      /\ Cardinality(ResidentOf(g)) = Cardinality(rest) + Cardinality(new)
      /\ Cardinality(rest) \in Nat /\ Cardinality(old) \in Nat /\ Cardinality(new) \in Nat
  <2> HIDE DEF rest, old, new, g
  <2> QED
    BY <1>1, <1>2, <1>3, <1>5, DisjointUnion, Zenon
<1> HIDE DEF rest, old, new
<1> QED
  BY <1>6, <1>7

(***************************************************************************)
(* Evicting a set of slots takes exactly their resident region pages away. *)
(***************************************************************************)
EvictedTable(E) == [b \in Buffer |-> IF b \in E THEN Evicted(buf[b]) ELSE buf[b]]

LEMMA EvictedCount ==
  ASSUME NEW E \in SUBSET Buffer,
         \A b \in Buffer : SlotOK(buf[b], Recipe(b)),
         \A b \in E : buf[b].state \in {"SEALED", "EVICTED"}
  PROVE  /\ Cardinality(ResidentOf(EvictedTable(E)))
              = Cardinality(ResidentOf(buf)) - Cardinality(ResidentPairs(E))
         /\ Cardinality(ResidentPairs(E)) \in Nat
<1>1. \A b \in E : ResidentSet(Evicted(buf[b])) = ResidentSet(buf[b]) \ Region(buf[b])
  BY EvictedOK, Zenon
<1>2. \A b \in Buffer : Region(buf[b]) \subseteq Page
  BY RegionInPage, Zenon DEF SlotOK
<1>3. ResidentPairs(E) = {p \in ResidentOf(buf) : p[1] \in E /\ p[2] \in Region(buf[p[1]])}
  BY <1>2 DEF ResidentPairs, ResidentOf
<1>4. ResidentOf(EvictedTable(E)) = ResidentOf(buf) \ ResidentPairs(E)
  BY <1>1, <1>3 DEF ResidentOf, ResidentSet, EvictedTable
<1>5. ResidentOf(buf) \cap ResidentPairs(E) = ResidentPairs(E)
  BY <1>3, Zenon
<1>6. Cardinality(ResidentOf(buf) \ ResidentPairs(E))
        = Cardinality(ResidentOf(buf)) - Cardinality(ResidentOf(buf) \cap ResidentPairs(E))
  BY TableFinite, FS_Difference, Zenon
<1>7. IsFiniteSet(ResidentPairs(E))
  BY <1>3, TableFinite, FS_Subset, Zenon
<1> QED
  BY <1>4, <1>5, <1>6, <1>7, FS_CardinalityType, Zenon

-----------------------------------------------------------------------------

(***************************************************************************)
(* The inductive invariant.  Beside what holds of each slot, it says which *)
(* slots keep recipe_live, that live slots have different ids, and that    *)
(* recipe_live agrees with the worker's map while the channel works.       *)
(***************************************************************************)
SlotsOK == \A b \in Buffer : SlotOK(buf[b], Recipe(b))

IdsOK ==
  /\ \A b \in Buffer : buf[b].id < nextid
  /\ \A b, c \in Buffer : b # c /\ IsLive(buf[b]) /\ IsLive(buf[c]) => buf[b].id # buf[c].id

LiveOK(r, lost) ==
  /\ r.state \in {"SEALED", "EVICTED"} => r.live
  /\ HasCold(r) => r.live
  /\ r.live /\ ~lost => \/ r.state \in {"SEALED", "EVICTED"}
                        \/ r.state = "PINNED" /\ HasCold(r)

WorkerAgrees ==
  ~broken => /\ \A n \in held : \E b \in Buffer : buf[b].id = n /\ buf[b].live
             /\ "munmap" \notin Failing =>
                  \A b \in Buffer : buf[b].live => buf[b].id \in held

RecipesOK == (\A b \in Buffer : LiveOK(buf[b], broken)) /\ WorkerAgrees

ResidentCounted == resident = Cardinality(ResidentOf(buf))

TableOK == SlotsOK /\ IdsOK /\ RecipesOK /\ ResidentCounted

IInv == TypeOK /\ TableOK /\ PeakCoversExcess /\ StopsForCause

(***************************************************************************)
(* A slot whose recipe is live is not free.                                *)
(***************************************************************************)
LEMMA LiveIsUsed ==
  ASSUME SlotsOK, NEW b \in Buffer, buf[b].live
  PROVE  IsLive(buf[b])
<1>1. buf[b].state = "FREE" => buf[b] = Cleared
  BY Zenon DEF SlotsOK, SlotOK, ShapeOK
<1>2. ~Cleared.live
  BY ClearedOK, Zenon
<1> QED
  BY <1>1, <1>2, Zenon DEF IsLive

(***************************************************************************)
(* A step that replaces one slot in use, and whose DROP, if any, is for    *)
(* that slot's recipe.                                                     *)
(***************************************************************************)
LEMMA OneSlotStep ==
  ASSUME TableOK, NEW b \in Buffer, NEW r, SlotOK(r, Recipe(b)),
         IsLive(buf[b]), IsLive(r), r.id = buf[b].id,
         buf' = [buf EXCEPT ![b] = r], recipes' = recipes, nextid' = nextid,
         resident' = resident - buf[b].count + r.count,
         LiveOK(r, broken'), broken => broken',
         ~broken' => \/ held' = held /\ r.live = buf[b].live
                     \/ held' = held \ {r.id} /\ ~r.live,
         buf \in [Buffer -> BufferRecord]
  PROVE  TableOK'
<1>1. /\ buf'[b] = r
      /\ \A c \in Buffer : c # b => buf'[c] = buf[c]
      /\ buf' \in [Buffer -> BufferRecord]
  BY Zenon DEF SlotOK
<1>2. SlotsOK'
  BY <1>1, Zenon DEF TableOK, SlotsOK, Recipe
<1>3. IdsOK'
  BY <1>1 DEF TableOK, IdsOK, IsLive
<1>4. \A c \in Buffer : LiveOK(buf'[c], broken')
  BY <1>1, Zenon DEF TableOK, RecipesOK, LiveOK
<1>5. WorkerAgrees'
  <2> SUFFICES ASSUME ~broken'
               PROVE  /\ \A n \in held' : \E c \in Buffer : buf'[c].id = n /\ buf'[c].live
                      /\ "munmap" \notin Failing =>
                           \A c \in Buffer : buf'[c].live => buf'[c].id \in held'
    BY Zenon DEF WorkerAgrees
  <2>1. /\ \A n \in held : \E c \in Buffer : buf[c].id = n /\ buf[c].live
        /\ "munmap" \notin Failing => \A c \in Buffer : buf[c].live => buf[c].id \in held
    BY Zenon DEF TableOK, RecipesOK, WorkerAgrees
  <2>2. \A c \in Buffer : c # b /\ buf[c].live => buf[c].id # r.id
    BY LiveIsUsed, Zenon DEF TableOK, IdsOK
  <2>3. \/ held' = held /\ r.live = buf[b].live
        \/ held' = held \ {r.id} /\ ~r.live
    BY Zenon
  <2>4. ASSUME NEW n \in held'
        PROVE  \E c \in Buffer : buf'[c].id = n /\ buf'[c].live
    <3>1. PICK c \in Buffer : buf[c].id = n /\ buf[c].live
      BY <2>1, <2>3, Zenon
    <3>2. CASE c = b
      BY <1>1, <2>3, <3>1, <3>2, Zenon
    <3>3. CASE c # b
      BY <1>1, <3>1, <3>3, Zenon
    <3> QED
      BY <3>2, <3>3, Zenon
  <2>5. ASSUME "munmap" \notin Failing, NEW c \in Buffer, buf'[c].live
        PROVE  buf'[c].id \in held'
    BY <1>1, <2>1, <2>2, <2>3, <2>5, Zenon
  <2> QED
    BY <2>4, <2>5, Zenon
<1>6. ResidentCounted'
  <2>1. CountOK(buf[b]) /\ CountOK(r) /\ r \in BufferRecord
    BY Zenon DEF TableOK, SlotsOK, SlotOK
  <2>2. Cardinality(ResidentOf(buf')) = Cardinality(ResidentOf(buf)) - buf[b].count + r.count
    BY <2>1, OneSlotCount, Zenon
  <2>3. ResidentOf(buf') = ResidentOf(buf)'
    BY Zenon DEF ResidentOf
  <2> QED
    BY <2>2, <2>3, Zenon DEF TableOK, ResidentCounted
<1> QED
  BY <1>2, <1>3, <1>4, <1>5, <1>6, Zenon DEF TableOK, RecipesOK

(***************************************************************************)
(* The recipe of a slot in use is defined.                                 *)
(***************************************************************************)
LEMMA UsedRecipe ==
  ASSUME TypeOK, SlotsOK, NEW b \in Buffer, IsLive(buf[b])
  PROVE  buf[b].id \in Ids /\ Recipe(b) \in [Page -> Values]
<1>1. buf[b].id \in Ids
  BY Zenon DEF SlotsOK, SlotOK, ShapeOK, IsLive
<1> QED
  BY <1>1, Zenon DEF TypeOK, Recipe

(***************************************************************************)
(* A step that changes no slot, and at most breaks the channel.            *)
(***************************************************************************)
LEMMA SameTableStep ==
  ASSUME TableOK, UNCHANGED <<buf, nextid, resident>>,
         \A b \in Buffer : IsLive(buf[b]) => Recipe(b)' = Recipe(b) \/ buf[b].state = "RESIDENT",
         \/ UNCHANGED <<held, broken>>
         \/ broken' = TRUE
  PROVE  TableOK'
<1>1. SlotsOK'
  <2> SUFFICES ASSUME NEW b \in Buffer
               PROVE  SlotOK(buf[b], Recipe(b)')
    BY Zenon DEF SlotsOK
  <2>1. SlotOK(buf[b], Recipe(b))
    BY Zenon DEF TableOK, SlotsOK
  <2>2. CASE buf[b].state \in {"FREE", "RESIDENT"}
    BY <2>1, <2>2, PlainSlot, Zenon
  <2>3. CASE IsLive(buf[b]) /\ buf[b].state # "RESIDENT"
    BY <2>1, <2>3, Zenon
  <2> QED
    BY <2>2, <2>3, Zenon DEF IsLive
<1>2. IdsOK' /\ ResidentCounted'
  BY Zenon DEF TableOK, IdsOK, ResidentCounted, ResidentOf
<1>3. RecipesOK'
  <2>1. CASE UNCHANGED <<held, broken>>
    BY <2>1, Zenon DEF TableOK, RecipesOK, LiveOK, WorkerAgrees
  <2>2. CASE broken' = TRUE
    BY <2>2, Zenon DEF TableOK, RecipesOK, LiveOK, WorkerAgrees
  <2> QED
    BY <2>1, <2>2, Zenon
<1> QED
  BY <1>1, <1>2, <1>3, Zenon DEF TableOK

LEMMA StutterStep ==
  ASSUME IInv,
         UNCHANGED <<buf, policy, nextid, resident, target, peak, broken, worker, mode, out>>
  PROVE  IInv'
<1>1. TableOK'
  <2>1. UNCHANGED <<buf, nextid, resident>> /\ UNCHANGED <<held, broken>> /\ recipes' = recipes
    BY Zenon DEF worker
  <2>2. \A c \in Buffer : Recipe(c)' = Recipe(c)
    BY <2>1, Zenon DEF Recipe
  <2> QED
    BY <2>1, <2>2, SameTableStep, Zenon DEF IInv
<1>2. TypeOK'
  BY Zenon DEF IInv, TypeOK, policy, worker
<1>3. PeakCoversExcess' /\ StopsForCause'
  BY Zenon DEF IInv, PeakCoversExcess, StopsForCause, Excess
<1> QED
  BY <1>1, <1>2, <1>3, Zenon DEF IInv

-----------------------------------------------------------------------------
(***************************************************************************)
(* The invariant is preserved by the accesses of the application, with the *)
(* faults they raise, and by prepare.                                      *)
(***************************************************************************)

(***************************************************************************)
(* What materialize leaves of a slot, and of the access it served.         *)
(***************************************************************************)
Serves(r, q, F) ==
  /\ ResidentSet(q) = ResidentSet(r) \cup F
  /\ q.count = r.count + Cardinality(F) /\ Cardinality(F) \in Nat
  /\ q.size = r.size /\ q.id = r.id /\ q.live = r.live
  /\ \/ q.state = r.state
     \/ r.state = "EVICTED" /\ q.state = "SEALED"
     \/ r.state \notin {"FREE", "RESIDENT"} /\ q.state = "PINNED"

LEMMA MaterializedOK ==
  ASSUME NEW r, NEW w \in [Page -> Values], SlotOK(r, w),
         NEW S \in SUBSET Mapped(r), S # {}, NEW writing \in BOOLEAN
  PROVE  LET q == Materialized(r, S, writing, w)
         IN  /\ SlotOK(q, w) /\ Serves(r, q, Fetched(r, ColdIn(r, S)))
             /\ Logical(q, w) = Logical(r, w)
             /\ \A i \in S : q.page[i] # Cold
             /\ writing => \A i \in S : q.page[i] = Dirty
<1> DEFINE F == Fetched(r, ColdIn(r, S))
           p == Restored(r, F, w)
           q == Materialized(r, S, writing, w)
<1>0. Cardinality(F) \in Nat
  BY FetchedFacts, Zenon
<1>1. /\ SlotOK(p, w) /\ ResidentSet(p) = ResidentSet(r) \cup F
      /\ \A i \in S : p.page[i] # Cold
      /\ Logical(p, w) = Logical(r, w)
      /\ p.size = r.size /\ p.id = r.id /\ p.live = r.live
      /\ p.state = r.state \/ (r.state = "EVICTED" /\ p.state = "SEALED")
  BY RestoredOK
<1>2. p.count = r.count + Cardinality(F)
  BY RestoredOK, Zenon
<1>3. q = IF writing THEN Written(p, S) ELSE p
  BY Zenon DEF Materialized
<1> HIDE DEF F, p, q
<1>4. CASE ~writing
  <2>1. q = p
    BY <1>3, <1>4, Zenon
  <2> QED
    BY <1>0, <1>1, <1>2, <1>4, <2>1, Zenon DEF Serves, F, q
<1>5. CASE writing
  <2>1. q = Written(p, S)
    BY <1>3, <1>5, Zenon
  <2>2. S \in SUBSET Mapped(p)
    BY <1>1, Zenon DEF Mapped
  <2>3. /\ SlotOK(q, w) /\ ResidentSet(q) = ResidentSet(p) /\ Logical(q, w) = Logical(p, w)
        /\ \A i \in S : q.page[i] = Dirty
        /\ q.size = p.size /\ q.count = p.count /\ q.id = p.id /\ q.live = p.live
        /\ q.state = p.state \/ (p.state \notin {"FREE", "RESIDENT"} /\ q.state = "PINNED")
    BY <1>1, <2>1, <2>2, WrittenOK
  <2>4. \A i \in S : q.page[i] # Cold
    BY <2>3 DEF Cold, Dirty
  <2>5. /\ q.count = r.count + Cardinality(F)
        /\ q.size = r.size /\ q.id = r.id /\ q.live = r.live
        /\ ResidentSet(q) = ResidentSet(r) \cup F
    BY <1>1, <1>2, <2>3, Zenon
  <2>6. \/ q.state = r.state
        \/ r.state = "EVICTED" /\ q.state = "SEALED"
        \/ r.state \notin {"FREE", "RESIDENT"} /\ q.state = "PINNED"
    BY <1>1, <2>3, Zenon
  <2> QED
    BY <1>0, <1>1, <2>3, <2>4, <2>5, <2>6, Zenon DEF Serves, F, q
<1> QED
  BY <1>4, <1>5, Zenon

(***************************************************************************)
(* The step of materialize, with the release of the recipe that may end    *)
(* it, keeps the table.                                                    *)
(***************************************************************************)
LEMMA MaterializeStep ==
  ASSUME TableOK, TypeOK, NEW b \in Buffer, IsLive(buf[b]), NEW S, NEW q,
         SlotOK(q, Recipe(b)), Serves(buf[b], q, Fetched(buf[b], ColdIn(buf[b], S))),
         Materialize(b, S, q)
  PROVE  /\ TableOK'
         /\ held' \subseteq Ids /\ broken' \in BOOLEAN /\ retained' \in [Buffer -> Nat]
         /\ resident' \in Int /\ peak' \in Nat /\ PeakCoversExcess'
         /\ buf' \in [Buffer -> BufferRecord]
         /\ mode' = mode
         /\ broken => broken'
<1> DEFINE F == Fetched(buf[b], ColdIn(buf[b], S))
           r == buf[b]
<1>0. /\ r \in BufferRecord /\ q \in BufferRecord /\ SlotOK(r, Recipe(b))
      /\ buf \in [Buffer -> BufferRecord]
  BY Zenon DEF TypeOK, SlotOK, TableOK, SlotsOK
<1>1. /\ ResidentSet(q) = ResidentSet(r) \cup F
      /\ q.count = r.count + Cardinality(F) /\ Cardinality(F) \in Nat
      /\ q.size = r.size /\ q.id = r.id /\ q.live = r.live
      /\ \/ q.state = r.state
         \/ r.state = "EVICTED" /\ q.state = "SEALED"
         \/ r.state \notin {"FREE", "RESIDENT"} /\ q.state = "PINNED"
  BY Zenon DEF Serves
<1>2. /\ Release(b, q) /\ resident' = resident + Cardinality(F)
      /\ ObserveTarget /\ nextid' = nextid /\ target' = target
      /\ recipes' = recipes /\ mode' = mode
  BY Zenon DEF Materialize
<1> HIDE DEF F
<1>3. resident' = resident - r.count + q.count /\ resident' \in Int
  <2>1. r.count \in Int /\ resident \in Int
    BY <1>0, Zenon DEF TypeOK, BufferRecord
  <2> QED
    BY <1>1, <1>2, <2>1
<1>4. LiveOK(r, broken)
  BY Zenon DEF TableOK, RecipesOK
<1>5. HasCold(q) => HasCold(r)
  <2>1. Mapped(q) = Mapped(r) /\ Mapped(r) \subseteq Page
    BY <1>0, <1>1, RegionInPage, Zenon DEF Mapped, SlotOK
  <2> QED
    BY <1>1, <2>1, Zenon DEF HasCold, ResidentSet
<1>6. /\ q.state \in {"SEALED", "EVICTED"} => q.live
      /\ HasCold(q) => q.live
  BY <1>1, <1>4, <1>5, Zenon DEF LiveOK
<1>7. q.count = q.size <=> ~HasCold(q)
  BY FullCount, Zenon DEF SlotOK, CountOK, ResidentSet
<1>8. IsLive(q)
  BY <1>1, Zenon DEF IsLive
<1>9. /\ TableOK' /\ broken' \in BOOLEAN
      /\ held' \subseteq Ids /\ retained' \in [Buffer -> Nat]
      /\ buf' \in [Buffer -> BufferRecord]
      /\ broken => broken'
  <2>0. /\ q.id = buf[b].id /\ resident' = resident - buf[b].count + q.count
        /\ q.live = buf[b].live
    BY <1>1, <1>3, Zenon
  <2>1. CASE ~NeedsDrop(q) /\ buf' = [buf EXCEPT ![b] = q] /\ UNCHANGED <<held, broken, retained>>
    <3>1. q.live /\ ~broken => \/ q.state \in {"SEALED", "EVICTED"}
                               \/ q.state = "PINNED" /\ HasCold(q)
      BY <1>1, <1>4, <1>7, <2>1, Zenon DEF LiveOK, NeedsDrop
    <3>2. LiveOK(q, broken')
      BY <1>6, <2>1, <3>1, Zenon DEF LiveOK
    <3>3. /\ broken => broken'
          /\ ~broken' => \/ held' = held /\ q.live = buf[b].live
                         \/ held' = held \ {q.id} /\ ~q.live
      BY <2>0, <2>1, Zenon
    <3>4. TableOK'
      BY <1>0, <1>2, <1>8, <2>0, <2>1, <3>2, <3>3, OneSlotStep, Zenon
    <3>5. held' \subseteq Ids /\ retained' \in [Buffer -> Nat] /\ buf' \in [Buffer -> BufferRecord]
      BY <1>0, <2>1, Zenon DEF TypeOK
    <3>6. broken' \in BOOLEAN
      BY <2>1, Zenon DEF TypeOK
    <3> QED
      BY <3>3, <3>4, <3>5, <3>6, Zenon
  <2>2. CASE /\ NeedsDrop(q) /\ ~broken
             /\ buf' = [buf EXCEPT ![b] = [q EXCEPT !.live = FALSE]]
             /\ held' = held \ {q.id}
             /\ retained' = [retained EXCEPT ![b] = q.size]
             /\ UNCHANGED broken
    <3> DEFINE u == [q EXCEPT !.live = FALSE]
    <3>1. /\ SlotOK(u, Recipe(b)) /\ u.state = q.state /\ u.size = q.size /\ u.id = q.id
          /\ ~u.live /\ u.page = q.page /\ u.count = q.count
      BY <1>8, LiveChanged, Zenon DEF IsLive
    <3>2. buf' = [buf EXCEPT ![b] = u]
      BY <2>2, Zenon
    <3> HIDE DEF u
    <3>3. u.state = "PINNED" /\ ~HasCold(u)
      BY <1>7, <2>2, <3>1, Zenon DEF NeedsDrop, HasCold, Mapped
    <3>4. LiveOK(u, broken') /\ IsLive(u)
      BY <3>1, <3>3, Zenon DEF LiveOK, IsLive
    <3>5. /\ u.id = buf[b].id /\ resident' = resident - buf[b].count + u.count
          /\ broken => broken'
          /\ ~broken' => \/ held' = held /\ u.live = buf[b].live
                         \/ held' = held \ {u.id} /\ ~u.live
      BY <2>0, <2>2, <3>1, Zenon
    <3>6. TableOK'
      BY <1>0, <1>2, <3>1, <3>2, <3>4, <3>5, OneSlotStep, Zenon
    <3>7. q.size \in Nat /\ u \in BufferRecord
      <4>1. u \in BufferRecord
        BY <3>1, Zenon DEF SlotOK
      <4>2. u.size \in Nat
        BY <4>1 DEF BufferRecord
      <4> QED
        BY <3>1, <4>1, <4>2, Zenon
    <3>8. held' \subseteq Ids /\ retained' \in [Buffer -> Nat] /\ buf' \in [Buffer -> BufferRecord]
      BY <1>0, <2>2, <3>2, <3>7, Zenon DEF TypeOK
    <3>9. broken' \in BOOLEAN
      BY <2>2, Zenon DEF TypeOK
    <3> QED
      BY <3>5, <3>6, <3>8, <3>9, Zenon
  <2>3. CASE /\ NeedsDrop(q) /\ buf' = [buf EXCEPT ![b] = q]
             /\ broken' = TRUE /\ UNCHANGED <<held, retained>>
    <3>1. LiveOK(q, broken')
      BY <1>6, <2>3, Zenon DEF LiveOK
    <3>2. /\ broken => broken'
          /\ ~broken' => \/ held' = held /\ q.live = buf[b].live
                         \/ held' = held \ {q.id} /\ ~q.live
      BY <2>3, Zenon
    <3>3. TableOK'
      BY <1>0, <1>2, <1>8, <2>0, <2>3, <3>1, <3>2, OneSlotStep, Zenon
    <3>4. held' \subseteq Ids /\ retained' \in [Buffer -> Nat] /\ buf' \in [Buffer -> BufferRecord]
      BY <1>0, <2>3, Zenon DEF TypeOK
    <3> QED
      BY <2>3, <3>2, <3>3, <3>4, Zenon
  <2>4. Release(b, q)
    BY <1>2, Zenon
  <2> QED
    BY <2>1, <2>2, <2>3, <2>4, Zenon DEF Release
<1>10. peak' \in Nat /\ PeakCoversExcess'
  <2>1. peak \in Nat /\ target \in Nat
    BY Zenon DEF TypeOK
  <2>2. peak' = Larger(peak, Excess(resident', target')) /\ target' \in Nat
    BY <1>2, <2>1, Zenon DEF ObserveTarget
  <2>3. Excess(resident', target') \in Nat
    BY <1>3, <2>2 DEF Excess
  <2>4. peak' \in Nat /\ peak' >= Excess(resident', target')
    BY <2>1, <2>2, <2>3 DEF Larger
  <2> QED
    BY <2>4, Zenon DEF PeakCoversExcess, Excess
<1> QED
  BY <1>2, <1>3, <1>9, <1>10, Zenon

(***************************************************************************)
(* Every action preserves the invariant.                                   *)
(***************************************************************************)
LEMMA LoadStep ==
  ASSUME IInv, NEW b \in Buffer, NEW i \in Page, Load(b, i)
  PROVE  IInv'
<1>1. /\ i \in Mapped(buf[b]) /\ out' = buf[b].phys[i]
      /\ UNCHANGED <<buf, policy, nextid, resident, target, peak, broken, worker, mode>>
  BY Zenon DEF Load
<1>2. out' \in Values
  BY <1>1 DEF IInv, TypeOK, BufferRecord
<1>3. TypeOK'
  BY <1>1, <1>2, Zenon DEF IInv, TypeOK, policy, worker
<1>4. TableOK'
  <2>1. UNCHANGED <<buf, nextid, resident>> /\ UNCHANGED <<held, broken>> /\ recipes' = recipes
    BY <1>1, Zenon DEF worker
  <2>2. \A c \in Buffer : Recipe(c)' = Recipe(c)
    BY <2>1, Zenon DEF Recipe
  <2> QED
    BY <2>1, <2>2, SameTableStep, Zenon DEF IInv
<1>5. PeakCoversExcess' /\ StopsForCause'
  BY <1>1, Zenon DEF IInv, PeakCoversExcess, StopsForCause, Excess
<1> QED
  BY <1>3, <1>4, <1>5, Zenon DEF IInv

LEMMA StoreStep ==
  ASSUME IInv, NEW b \in Buffer, NEW i \in Page, NEW v \in Values, Store(b, i, v)
  PROVE  IInv'
<1> DEFINE r == buf[b]
           q == Stored(r, i, v)
<1>1. /\ i \in Mapped(r) /\ r.prot[i] = "rw"
      /\ buf' = [buf EXCEPT ![b] = q]
      /\ UNCHANGED <<policy, nextid, resident, target, peak, broken, worker, mode, out>>
  BY Zenon DEF Store
<1>2. SlotOK(r, Recipe(b)) /\ r \in BufferRecord
  BY Zenon DEF IInv, TableOK, SlotsOK, SlotOK
<1>3. r.page[i] = Dirty
  BY <1>1, <1>2, Zenon DEF SlotOK, ProtectionOK, BufferRecord
<1>4. buf' = [buf EXCEPT ![b] = q]
  BY <1>1, Zenon
<1>5. /\ SlotOK(q, Recipe(b)) /\ q.page = r.page /\ q.state = r.state /\ q.count = r.count
      /\ q.size = r.size /\ q.id = r.id /\ q.live = r.live
  <2>1. /\ SlotOK(r, Recipe(b)) /\ i \in Mapped(r) /\ r.page[i] = Dirty
    BY <1>1, <1>2, <1>3, Zenon
  <2> HIDE DEF r
  <2> QED
    BY <2>1, StoredOK
<1> HIDE DEF q
<1>6. r.count \in Int /\ resident \in Int
  BY <1>2, Zenon DEF IInv, TypeOK, BufferRecord
<1>7. IsLive(r)
  BY <1>1, <1>2, FreeIsEmpty, Zenon DEF SlotOK, IsLive
<1>8. LiveOK(q, broken)
  <2>1. LiveOK(r, broken)
    BY Zenon DEF IInv, TableOK, RecipesOK
  <2> QED
    BY <1>5, <2>1, Zenon DEF LiveOK, HasCold, Mapped
<1>9. TableOK'
  <2>1. /\ TableOK /\ buf \in [Buffer -> BufferRecord] /\ IsLive(buf[b]) /\ IsLive(q)
        /\ q.id = buf[b].id /\ recipes' = recipes /\ nextid' = nextid
        /\ LiveOK(q, broken')
        /\ resident' = resident - buf[b].count + q.count
    BY <1>1, <1>5, <1>6, <1>7, <1>8 DEF IInv, TypeOK, worker, IsLive
  <2>2. /\ broken => broken'
        /\ ~broken' => \/ held' = held /\ q.live = buf[b].live
                       \/ held' = held \ {q.id} /\ ~q.live
    BY <1>1, <1>5, Zenon DEF worker
  <2> QED
    BY <1>4, <1>5, <2>1, <2>2, OneSlotStep, ZenonT(30)
<1>10. TypeOK'
  <2>1. buf' \in [Buffer -> BufferRecord]
    BY <1>4, <1>5, Zenon DEF IInv, TypeOK, SlotOK
  <2> QED
    BY <1>1, <2>1, Zenon DEF IInv, TypeOK, policy, worker
<1>11. PeakCoversExcess' /\ StopsForCause'
  BY <1>1, Zenon DEF IInv, PeakCoversExcess, StopsForCause, Excess
<1> QED
  BY <1>9, <1>10, <1>11, Zenon DEF IInv

(***************************************************************************)
(* Stopping the process leaves the table.  When no call can fail, it       *)
(* happens only after the channel broke: a cold page belongs to a live     *)
(* recipe, and the worker holds those.                                     *)
(***************************************************************************)
LEMMA FailureStep ==
  ASSUME IInv, NEW b \in Buffer, NEW S \in SUBSET Mapped(buf[b]), NEW writing \in BOOLEAN,
         PagerFailure(b, S, writing)
  PROVE  IInv'
<1> DEFINE r == buf[b]
           F == Fetched(r, ColdIn(r, S))
<1>1. /\ mode' = "stopped"
      /\ UNCHANGED <<buf, policy, nextid, resident, target, peak, worker, out>>
  BY Zenon DEF PagerFailure
<1>2. \/ F # {} /\ broken' = TRUE
      \/ F # {} /\ (~WorkerRestores(r, F) \/ "replay" \in Failing) /\ UNCHANGED broken
      \/ "mprotect" \in Failing /\ UNCHANGED broken
  BY Zenon DEF PagerFailure
<1> HIDE DEF F
<1>3. TableOK'
  <2>1. UNCHANGED <<buf, nextid, resident>> /\ held' = held /\ recipes' = recipes
    BY <1>1, Zenon DEF worker
  <2>2. \A c \in Buffer : Recipe(c)' = Recipe(c)
    BY <2>1, Zenon DEF Recipe
  <2>3. UNCHANGED <<held, broken>> \/ broken' = TRUE
    BY <1>2, <2>1, Zenon
  <2> QED
    BY <2>1, <2>2, <2>3, SameTableStep, Zenon DEF IInv
<1>4. TypeOK'
  <2>1. broken' \in BOOLEAN
    BY <1>2, Zenon DEF IInv, TypeOK
  <2> QED
    BY <1>1, <2>1, Zenon DEF IInv, TypeOK, policy, worker
<1>5. PeakCoversExcess'
  BY <1>1, Zenon DEF IInv, PeakCoversExcess, Excess
<1>6. StopsForCause'
  <2> SUFFICES ASSUME Failing = {}, ~broken'
               PROVE  FALSE
    BY Zenon DEF StopsForCause
  <2>1. F # {} /\ ~WorkerRestores(r, F) /\ ~broken
    BY <1>2
  <2>2. SlotOK(r, Recipe(b))
    BY Zenon DEF IInv, TableOK, SlotsOK
  <2>3. F \subseteq Region(r) /\ \A i \in F : r.page[i] = Cold
    BY <2>2, FetchedFacts, Zenon DEF F
  <2>4. Region(r) \subseteq Mapped(r)
    BY <2>2, RegionInPage, Zenon DEF SlotOK
  <2>5. HasCold(r)
    BY <2>1, <2>3, <2>4, Zenon DEF HasCold
  <2>6. r.live
    BY <2>5, Zenon DEF IInv, TableOK, RecipesOK, LiveOK
  <2>7. r.id \in held
    BY <2>1, <2>6, Zenon DEF IInv, TableOK, RecipesOK, WorkerAgrees
  <2> QED
    BY <2>1, <2>3, <2>7, Zenon DEF WorkerRestores
<1> QED
  BY <1>3, <1>4, <1>5, <1>6, Zenon DEF IInv

(***************************************************************************)
(* The part common to the actions that end in a successful materialize.    *)
(***************************************************************************)
LEMMA ServedStep ==
  ASSUME IInv, NEW b \in Buffer, IsLive(buf[b]), NEW S, NEW q,
         SlotOK(q, Recipe(b)), Serves(buf[b], q, Fetched(buf[b], ColdIn(buf[b], S))),
         Materialize(b, S, q),
         evicted' \in [Buffer -> BOOLEAN], faulted' \in [Buffer -> BOOLEAN],
         cost' = cost, lastEnd' \in [Buffer -> 0 .. MaxPages],
         ahead' \in [Buffer -> 1 .. Window], out' \in Values
  PROVE  IInv'
<1>1. /\ TableOK' /\ PeakCoversExcess'
      /\ held' \subseteq Ids /\ broken' \in BOOLEAN /\ retained' \in [Buffer -> Nat]
      /\ resident' \in Int /\ peak' \in Nat
      /\ buf' \in [Buffer -> BufferRecord]
      /\ mode' = mode
      /\ broken => broken'
  BY MaterializeStep, Zenon DEF IInv
<1>2. nextid' = nextid /\ target' = target /\ recipes' = recipes
  BY Zenon DEF Materialize
<1>3. TypeOK'
  BY <1>1, <1>2, Zenon DEF IInv, TypeOK
<1>4. StopsForCause'
  BY <1>1, Zenon DEF IInv, StopsForCause
<1> QED
  BY <1>1, <1>3, <1>4, Zenon DEF IInv

LEMMA MappedIsLive ==
  ASSUME IInv, NEW b \in Buffer, NEW i \in Mapped(buf[b])
  PROVE  /\ IsLive(buf[b]) /\ SlotOK(buf[b], Recipe(b)) /\ Recipe(b) \in [Page -> Values]
         /\ i \in Page
<1>1. SlotOK(buf[b], Recipe(b))
  BY Zenon DEF IInv, TableOK, SlotsOK
<1>2. IsLive(buf[b])
  BY <1>1, FreeIsEmpty, Zenon DEF SlotOK, IsLive
<1>3. Recipe(b) \in [Page -> Values]
  BY <1>2, UsedRecipe, Zenon DEF IInv, TableOK
<1>4. i \in Page
  BY <1>1, RegionInPage, Zenon DEF SlotOK
<1> QED
  BY <1>1, <1>2, <1>3, <1>4, Zenon

LEMMA LoadFaultStep ==
  ASSUME IInv, NEW b \in Buffer, NEW i \in Page, LoadFault(b, i)
  PROVE  IInv'
<1>1. PICK end \in i + 1 .. buf[b].size :
        LET S == i .. end - 1
            r == Materialized(buf[b], S, FALSE, Recipe(b))
        IN  \/ /\ Materialize(b, S, r)
               /\ faulted' = [faulted EXCEPT ![b] = TRUE]
               /\ IF buf[b].sliced
                    THEN /\ ahead' = [ahead EXCEPT ![b] = NextAhead(b, i)]
                         /\ lastEnd' = [lastEnd EXCEPT ![b] = end]
                    ELSE UNCHANGED <<ahead, lastEnd>>
               /\ out' = r.phys[i]
               /\ UNCHANGED <<evicted, cost>>
            \/ PagerFailure(b, S, FALSE)
  BY Zenon DEF LoadFault
<1> DEFINE S == i .. end - 1
           q == Materialized(buf[b], S, FALSE, Recipe(b))
<1>2. i \in Mapped(buf[b])
  BY Zenon DEF LoadFault
<1>3. /\ IsLive(buf[b]) /\ SlotOK(buf[b], Recipe(b)) /\ Recipe(b) \in [Page -> Values]
      /\ buf[b] \in BufferRecord
  BY <1>2, MappedIsLive, Zenon DEF SlotOK
<1>4. buf[b].size \in 0 .. MaxPages /\ MaxPages \in Nat /\ i \in Nat
  BY <1>3, PageFinite, ConstantsAssumption, Zenon DEF BufferRecord
<1>5. /\ S \in SUBSET Mapped(buf[b]) /\ S # {} /\ end \in 0 .. MaxPages
  <2>1. end \in Int /\ end <= buf[b].size /\ i < end
    BY <1>4
  <2>2. i \in S
    BY <1>4, <2>1
  <2>3. S \subseteq Mapped(buf[b])
    BY <1>4, <2>1 DEF Mapped
  <2> QED
    BY <1>4, <2>1, <2>2, <2>3
<1> HIDE DEF S
<1>6. SlotOK(q, Recipe(b)) /\ Serves(buf[b], q, Fetched(buf[b], ColdIn(buf[b], S)))
  BY <1>3, <1>5, MaterializedOK, Zenon
<1> HIDE DEF q
<1>7. CASE PagerFailure(b, S, FALSE)
  BY <1>5, <1>7, FailureStep, Zenon
<1>8. CASE /\ Materialize(b, S, q)
           /\ faulted' = [faulted EXCEPT ![b] = TRUE]
           /\ IF buf[b].sliced
                THEN /\ ahead' = [ahead EXCEPT ![b] = NextAhead(b, i)]
                     /\ lastEnd' = [lastEnd EXCEPT ![b] = end]
                ELSE UNCHANGED <<ahead, lastEnd>>
           /\ out' = q.phys[i]
           /\ UNCHANGED <<evicted, cost>>
  <2>1. out' \in Values
    BY <1>6, <1>8, Zenon DEF SlotOK, BufferRecord
  <2>2. NextAhead(b, i) \in 1 .. Window
    <3>1. ahead[b] \in 1 .. Window /\ Window \in Nat /\ Window >= 1
      BY ConstantsAssumption DEF IInv, TypeOK
    <3>2. ahead[b] \in Int /\ ahead[b] >= 1 /\ 2 * ahead[b] >= 1 /\ 2 * ahead[b] \in Int
      BY <3>1, SMTT(20)
    <3> QED
      BY <3>1, <3>2 DEF NextAhead
  <2>3. lastEnd' \in [Buffer -> 0 .. MaxPages] /\ ahead' \in [Buffer -> 1 .. Window]
    BY <1>5, <1>8, <2>2 DEF IInv, TypeOK
  <2>4. evicted' \in [Buffer -> BOOLEAN] /\ faulted' \in [Buffer -> BOOLEAN] /\ cost' = cost
    BY <1>8, Zenon DEF IInv, TypeOK
  <2> QED
    BY <1>3, <1>6, <1>8, <2>1, <2>3, <2>4, ServedStep, Zenon
<1> QED
  BY <1>1, <1>7, <1>8, Zenon DEF S, q

LEMMA StoreFaultStep ==
  ASSUME IInv, NEW b \in Buffer, NEW i \in Page, NEW v \in Values, StoreFault(b, i, v)
  PROVE  IInv'
<1> DEFINE p == Materialized(buf[b], {i}, TRUE, Recipe(b))
           q == Stored(p, i, v)
           F == Fetched(buf[b], ColdIn(buf[b], {i}))
<1>1. i \in Mapped(buf[b])
  BY Zenon DEF StoreFault
<1>2. /\ IsLive(buf[b]) /\ SlotOK(buf[b], Recipe(b)) /\ Recipe(b) \in [Page -> Values]
      /\ buf[b] \in BufferRecord /\ {i} \in SUBSET Mapped(buf[b]) /\ {i} # {}
  BY <1>1, MappedIsLive, Zenon DEF SlotOK
<1>3. SlotOK(p, Recipe(b)) /\ Serves(buf[b], p, F) /\ p.page[i] = Dirty
  BY <1>2, MaterializedOK, Zenon
<1> HIDE DEF p
<1>4. i \in Mapped(p)
  BY <1>1, <1>3, Zenon DEF Serves, Mapped
<1>5. /\ SlotOK(q, Recipe(b))
      /\ q.page = p.page /\ q.state = p.state /\ q.count = p.count
      /\ q.size = p.size /\ q.id = p.id /\ q.live = p.live
  BY <1>3, <1>4, StoredOK
<1> HIDE DEF q, F
<1>6. Serves(buf[b], q, F)
  BY <1>3, <1>5, Zenon DEF Serves, ResidentSet
<1>7. CASE /\ Materialize(b, {i}, q)
           /\ faulted' = [faulted EXCEPT ![b] = TRUE]
           /\ UNCHANGED <<evicted, cost, lastEnd, ahead, out>>
  <2>1. /\ evicted' \in [Buffer -> BOOLEAN] /\ faulted' \in [Buffer -> BOOLEAN]
        /\ cost' = cost /\ lastEnd' \in [Buffer -> 0 .. MaxPages]
        /\ ahead' \in [Buffer -> 1 .. Window] /\ out' \in Values
    BY <1>7, Zenon DEF IInv, TypeOK
  <2> QED
    BY <1>2, <1>5, <1>6, <1>7, <2>1, ServedStep, Zenon DEF F
<1>8. CASE PagerFailure(b, {i}, TRUE)
  BY <1>2, <1>8, FailureStep, Zenon
<1> QED
  BY <1>7, <1>8, Zenon DEF StoreFault, p, q

LEMMA PrepareStep ==
  ASSUME IInv, NEW b \in Buffer, NEW lo \in Page, NEW hi \in 1 .. MaxPages,
         NEW writing \in BOOLEAN, Prepare(b, lo, hi, writing)
  PROVE  IInv'
<1> DEFINE S == lo .. hi - 1
           q == Materialized(buf[b], S, writing, Recipe(b))
<1>1. lo < hi /\ hi <= buf[b].size /\ lo \in Nat /\ hi \in Nat
  BY PageFinite, SizesAreNat, Zenon DEF Prepare
<1>2. buf[b].size \in Nat
  BY DEF IInv, TypeOK, BufferRecord
<1>3. S \in SUBSET Mapped(buf[b]) /\ lo \in S
  BY <1>1, <1>2 DEF Mapped
<1> HIDE DEF S
<1>4. /\ IsLive(buf[b]) /\ SlotOK(buf[b], Recipe(b)) /\ Recipe(b) \in [Page -> Values]
  BY <1>3, MappedIsLive, Zenon
<1>5. SlotOK(q, Recipe(b)) /\ Serves(buf[b], q, Fetched(buf[b], ColdIn(buf[b], S)))
  BY <1>3, <1>4, MaterializedOK, Zenon
<1> HIDE DEF q
<1>6. CASE Materialize(b, S, q) /\ UNCHANGED <<evicted, faulted, cost, lastEnd, ahead, out>>
  <2>1. /\ evicted' \in [Buffer -> BOOLEAN] /\ faulted' \in [Buffer -> BOOLEAN]
        /\ cost' = cost /\ lastEnd' \in [Buffer -> 0 .. MaxPages]
        /\ ahead' \in [Buffer -> 1 .. Window] /\ out' \in Values
    BY <1>6, Zenon DEF IInv, TypeOK
  <2> QED
    BY <1>4, <1>5, <1>6, <2>1, ServedStep, Zenon
<1>7. CASE PagerFailure(b, S, writing)
  BY <1>3, <1>7, FailureStep, Zenon
<1> QED
  BY <1>6, <1>7, Zenon DEF Prepare, S, q

-----------------------------------------------------------------------------
(***************************************************************************)
(* The invariant is preserved by the calls of the runtime: eviction, the   *)
(* resident target, allocation, submission and af_free.                    *)
(***************************************************************************)

(***************************************************************************)
(* The tables collect and af_evict produce.                                *)
(***************************************************************************)
LEMMA EvictedTableOK ==
  ASSUME TableOK, TypeOK, NEW E \in SUBSET Buffer,
         \A b \in E : buf[b].state \in {"SEALED", "EVICTED"}
  PROVE  /\ EvictedTable(E) \in [Buffer -> BufferRecord]
         /\ \A c \in Buffer :
              LET r == EvictedTable(E)[c] IN
              /\ SlotOK(r, Recipe(c)) /\ LiveOK(r, broken)
              /\ r.id = buf[c].id /\ r.live = buf[c].live /\ r.size = buf[c].size
              /\ IsLive(r) <=> IsLive(buf[c])
              /\ r.state = "PINNED" <=> buf[c].state = "PINNED"
              /\ Logical(r, Recipe(c)) = Logical(buf[c], Recipe(c))
<1>1. ASSUME NEW c \in Buffer
      PROVE  LET r == EvictedTable(E)[c] IN
             /\ SlotOK(r, Recipe(c)) /\ LiveOK(r, broken)
             /\ r.id = buf[c].id /\ r.live = buf[c].live /\ r.size = buf[c].size
             /\ IsLive(r) <=> IsLive(buf[c])
             /\ r.state = "PINNED" <=> buf[c].state = "PINNED"
             /\ Logical(r, Recipe(c)) = Logical(buf[c], Recipe(c))
  <2>1. SlotOK(buf[c], Recipe(c)) /\ LiveOK(buf[c], broken)
    BY Zenon DEF TableOK, SlotsOK, RecipesOK
  <2>2. CASE c \notin E
    <3>1. EvictedTable(E)[c] = buf[c]
      BY <2>2, Zenon DEF EvictedTable
    <3> QED
      BY <2>1, <3>1, Zenon
  <2>3. CASE c \in E
    <3> DEFINE r == Evicted(buf[c])
    <3>1. EvictedTable(E)[c] = r
      BY <2>3, Zenon DEF EvictedTable
    <3>2. /\ SlotOK(r, Recipe(c)) /\ Logical(r, Recipe(c)) = Logical(buf[c], Recipe(c))
          /\ r.state = "EVICTED" /\ r.size = buf[c].size
          /\ r.id = buf[c].id /\ r.live = buf[c].live
      BY <2>1, <2>3, EvictedOK, Zenon
    <3> HIDE DEF r
    <3>3. buf[c].live
      BY <2>1, <2>3, Zenon DEF LiveOK
    <3>4. LiveOK(r, broken)
      BY <3>2, <3>3, Zenon DEF LiveOK
    <3>5. (IsLive(r) <=> IsLive(buf[c])) /\ (r.state = "PINNED" <=> buf[c].state = "PINNED")
      BY <2>3, <3>2, Zenon DEF IsLive
    <3> QED
      BY <3>1, <3>2, <3>4, <3>5, Zenon
  <2> QED
    BY <2>2, <2>3, Zenon
<1>2. EvictedTable(E) \in [Buffer -> BufferRecord]
  <2>1. \A c \in Buffer : EvictedTable(E)[c] \in BufferRecord
    BY <1>1, Zenon DEF SlotOK
  <2> QED
    BY <2>1, Zenon DEF EvictedTable
<1> QED
  BY <1>1, <1>2, Zenon

LEMMA EvictStep ==
  ASSUME TableOK, TypeOK, NEW E \in SUBSET Buffer,
         \A b \in E : buf[b].state \in {"SEALED", "EVICTED"},
         buf' = EvictedTable(E),
         resident' = resident - Cardinality(ResidentPairs(E)) + 0,
         UNCHANGED <<nextid, held, broken, recipes>>
  PROVE  TableOK' /\ buf' \in [Buffer -> BufferRecord] /\ resident' <= resident
<1>1. /\ buf' \in [Buffer -> BufferRecord]
      /\ \A c \in Buffer :
           /\ SlotOK(buf'[c], Recipe(c)) /\ LiveOK(buf'[c], broken)
           /\ buf'[c].id = buf[c].id /\ buf'[c].live = buf[c].live
           /\ IsLive(buf'[c]) <=> IsLive(buf[c])
  BY EvictedTableOK, Zenon
<1>2. SlotsOK'
  <2>1. \A c \in Buffer : Recipe(c)' = Recipe(c)
    BY <1>1, Zenon DEF Recipe
  <2> QED
    BY <1>1, <2>1, Zenon DEF SlotsOK
<1>3. IdsOK'
  BY <1>1, SMTT(20) DEF TableOK, IdsOK
<1>4. RecipesOK'
  BY <1>1 DEF TableOK, RecipesOK, WorkerAgrees
<1>5. ResidentCounted' /\ resident' <= resident
  <2>1. /\ Cardinality(ResidentOf(EvictedTable(E)))
             = Cardinality(ResidentOf(buf)) - Cardinality(ResidentPairs(E))
        /\ Cardinality(ResidentPairs(E)) \in Nat
    BY EvictedCount, Zenon DEF TableOK, SlotsOK
  <2>2. ResidentOf(buf)' = ResidentOf(EvictedTable(E))
    BY Zenon DEF ResidentOf
  <2>3. resident \in Int
    BY Zenon DEF TypeOK
  <2> QED
    BY <2>1, <2>2, <2>3 DEF TableOK, ResidentCounted
<1> QED
  BY <1>1, <1>2, <1>3, <1>4, <1>5, Zenon DEF TableOK

(***************************************************************************)
(* Evictions: by af_evict, or by collect, which may stop at a victim it    *)
(* cannot evict.                                                           *)
(***************************************************************************)
LEMMA EvictAllTypes ==
  ASSUME TypeOK, NEW E, NEW others, NEW n, EvictAll(E, others, n)
  PROVE  /\ evicted' \in [Buffer -> BOOLEAN] /\ faulted' \in [Buffer -> BOOLEAN]
         /\ retained' \in [Buffer -> Nat] /\ cost' \in [Buffer -> Nat]
         /\ lastEnd' \in [Buffer -> 0 .. MaxPages] /\ ahead' \in [Buffer -> 1 .. Window]
<1>1. MaxPages \in 0 .. MaxPages /\ 1 \in 1 .. Window
  BY ConstantsAssumption
<1>2. lastEnd' \in [Buffer -> 0 .. MaxPages] /\ ahead' \in [Buffer -> 1 .. Window]
  BY <1>1, Zenon DEF TypeOK, EvictAll
<1>3. evicted' \in [Buffer -> BOOLEAN]
  BY Zenon DEF TypeOK, EvictAll
<1> QED
  BY <1>2, <1>3, Zenon DEF TypeOK, EvictAll

LEMMA ExcessType ==
  ASSUME NEW m \in Int, NEW t \in Nat
  PROVE  Excess(m, t) \in Nat
  BY DEF Excess

LEMMA ExcessShrinks ==
  ASSUME NEW p \in Nat, NEW t \in Nat, NEW m \in Int, NEW n \in Int, n <= m, p >= Excess(m, t)
  PROVE  p >= Excess(n, t)
  BY DEF Excess

LEMMA EvictAllStep ==
  ASSUME IInv, NEW E \in SUBSET Buffer,
         \A b \in E : buf[b].state \in {"SEALED", "EVICTED"},
         EvictAll(E, buf, 0),
         UNCHANGED <<nextid, target, peak, broken, worker, mode, out>>
  PROVE  IInv'
<1>1. buf' = EvictedTable(E) /\ resident' = resident - Cardinality(ResidentPairs(E)) + 0
  BY Zenon DEF EvictAll, EvictedTable
<1>2. TableOK' /\ buf' \in [Buffer -> BufferRecord] /\ resident' <= resident
  BY <1>1, EvictStep, Zenon DEF IInv, worker
<1>3. resident \in Int /\ resident' \in Int
  <2>1. Cardinality(ResidentPairs(E)) \in Nat
    BY EvictedCount, Zenon DEF IInv, TableOK, SlotsOK
  <2> QED
    BY <1>1, <2>1 DEF IInv, TypeOK
<1>4. TypeOK'
  BY <1>2, <1>3, EvictAllTypes, Zenon DEF IInv, TypeOK, worker
<1>5. PeakCoversExcess'
  <2>1. peak \in Nat /\ target \in Nat /\ peak >= Excess(resident, target)
    BY Zenon DEF IInv, TypeOK, PeakCoversExcess
  <2>2. peak' >= Excess(resident', target')
    BY <1>2, <1>3, <2>1, ExcessShrinks, Zenon
  <2> QED
    BY <2>2, Zenon DEF PeakCoversExcess, Excess
<1>6. StopsForCause'
  BY Zenon DEF IInv, StopsForCause
<1> QED
  BY <1>2, <1>4, <1>5, <1>6, Zenon DEF IInv

LEMMA RollbackFailureStep ==
  ASSUME IInv, RollbackFailure
  PROVE  IInv'
<1>1. /\ "mprotect" \in Failing /\ mode' = "stopped"
      /\ UNCHANGED <<buf, policy, nextid, resident, target, peak, broken, worker, out>>
  BY Zenon DEF RollbackFailure
<1>2. TableOK'
  <2>1. UNCHANGED <<buf, nextid, resident>> /\ UNCHANGED <<held, broken>> /\ recipes' = recipes
    BY <1>1, Zenon DEF worker
  <2>2. \A c \in Buffer : Recipe(c)' = Recipe(c)
    BY <2>1, Zenon DEF Recipe
  <2> QED
    BY <2>1, <2>2, SameTableStep, Zenon DEF IInv
<1>3. TypeOK'
  BY <1>1, Zenon DEF IInv, TypeOK, policy, worker
<1>4. PeakCoversExcess' /\ StopsForCause'
  BY <1>1, Zenon DEF IInv, PeakCoversExcess, StopsForCause, Excess
<1> QED
  BY <1>2, <1>3, <1>4, Zenon DEF IInv

LEMMA FailedEvictionSame ==
  ASSUME IInv, NEW d \in Buffer, buf[d].state \in {"SEALED", "EVICTED"}, NEW after,
         EvictFails(buf[d], after)
  PROVE  after = buf[d] /\ [buf EXCEPT ![d] = after] = buf
<1>1. SlotOK(buf[d], Recipe(d))
  BY Zenon DEF IInv, TableOK, SlotsOK
<1>2. RolledBack(buf[d]) = buf[d]
  BY <1>1, RolledBackSame, Zenon
<1>3. after = buf[d]
  BY <1>2, Zenon DEF EvictFails
<1>4. buf \in [Buffer -> BufferRecord]
  BY Zenon DEF IInv, TypeOK
<1> QED
  BY <1>3, <1>4, Zenon

LEMMA AfEvictStep ==
  ASSUME IInv, NEW b \in Buffer, AfEvict(b)
  PROVE  IInv'
<1>1. buf[b].state \in {"SEALED", "EVICTED"}
  BY Zenon DEF AfEvict
<1>2. CASE EvictAll({b}, buf, 0) /\ UNCHANGED <<nextid, target, peak, broken, worker, mode, out>>
  BY <1>1, <1>2, EvictAllStep
<1>3. CASE /\ \E after \in {buf[b], RolledBack(buf[b])} :
                EvictFails(buf[b], after) /\ buf' = [buf EXCEPT ![b] = after]
           /\ UNCHANGED <<policy, nextid, resident, target, peak, broken, worker, mode, out>>
  <2>1. buf' = buf
    BY <1>1, <1>3, FailedEvictionSame, Zenon
  <2> QED
    BY <1>3, <2>1, StutterStep, Zenon
<1>4. CASE RollbackFailure
  BY <1>4, RollbackFailureStep, Zenon
<1> QED
  BY <1>2, <1>3, <1>4, Zenon DEF AfEvict

LEMMA CollectFailsEvicts ==
  ASSUME IInv, NEW E, NEW n, NEW spared, CollectFails(E, n, spared)
  PROVE  EvictAll(E, buf, 0)
<1>1. PICK d \in Candidates(spared) \ E :
        \E after \in {buf[d], RolledBack(buf[d])} :
          EvictFails(buf[d], after) /\ EvictAll(E, [buf EXCEPT ![d] = after], 0)
  BY Zenon DEF CollectFails
<1>2. d \in Buffer /\ buf[d].state = "SEALED"
  BY Zenon DEF Candidates
<1> QED
  BY <1>1, <1>2, FailedEvictionSame, Zenon

LEMMA CandidatesAreSealed ==
  ASSUME NEW spared, NEW E \in SUBSET Candidates(spared)
  PROVE  E \in SUBSET Buffer /\ \A b \in E : buf[b].state \in {"SEALED", "EVICTED"}
  BY Zenon DEF Candidates

LEMMA AfManageStep ==
  ASSUME IInv, NEW b \in Buffer, AfManage(b)
  PROVE  IInv'
<1>1. CASE AfEvict(b)
  BY <1>1, AfEvictStep, Zenon
<1>2. ASSUME NEW E \in SUBSET Candidates({b}),
             \/ EvictAll(E, buf, 0)
             \/ CollectFails(E, 0, {b}),
             UNCHANGED <<nextid, target, peak, broken, worker, mode, out>>
      PROVE  IInv'
  <2>1. EvictAll(E, buf, 0)
    BY <1>2, CollectFailsEvicts, Zenon
  <2> QED
    BY <1>2, <2>1, CandidatesAreSealed, EvictAllStep
<1>3. CASE RollbackFailure
  BY <1>3, RollbackFailureStep, Zenon
<1> QED
  BY <1>1, <1>2, <1>3, Zenon DEF AfManage

(***************************************************************************)
(* An allocation: a new slot on top of what collect leaves.                *)
(***************************************************************************)
LEMMA AllocStep ==
  ASSUME IInv, NEW b \in Buffer, buf[b].state = "FREE", nextid <= MaxId,
         NEW n \in 1 .. MaxPages, NEW E \in SUBSET Buffer,
         \A c \in E : buf[c].state = "SEALED",
         EvictAll(E, [buf EXCEPT ![b] = Allocated(n, nextid)], n),
         nextid' = nextid + 1, ObserveTarget,
         UNCHANGED <<target, broken, worker, mode, out>>
  PROVE  IInv'
<1> DEFINE T == EvictedTable(E)
           r == Allocated(n, nextid)
<1>0. /\ buf \in [Buffer -> BufferRecord] /\ b \notin E /\ nextid \in Ids /\ resident \in Int
      /\ TypeOK /\ TableOK /\ \A c \in E : buf[c].state \in {"SEALED", "EVICTED"}
  <2>1. TypeOK /\ TableOK
    BY Zenon DEF IInv
  <2>2. buf \in [Buffer -> BufferRecord] /\ nextid \in 1 .. MaxId + 1 /\ resident \in Int
    BY <2>1, Zenon DEF TypeOK
  <2>3. nextid \in Ids
    BY <2>2, ConstantsAssumption DEF Ids
  <2>4. b \notin E /\ \A c \in E : buf[c].state \in {"SEALED", "EVICTED"}
    BY Zenon
  <2> QED
    BY <2>1, <2>2, <2>3, <2>4, Zenon
<1>1. buf' = [T EXCEPT ![b] = r]
  <2>1. buf' = [c \in Buffer |-> IF c \in E THEN Evicted(buf[c]) ELSE [buf EXCEPT ![b] = r][c]]
    BY Zenon DEF EvictAll
  <2>2. \A c \in Buffer : (IF c \in E THEN Evicted(buf[c]) ELSE [buf EXCEPT ![b] = r][c])
                            = IF c = b THEN r ELSE T[c]
    BY <1>0, Zenon DEF EvictedTable
  <2>3. [T EXCEPT ![b] = r] = [c \in Buffer |-> IF c = b THEN r ELSE T[c]]
    BY Zenon DEF EvictedTable
  <2> HIDE DEF T, r
  <2> QED
    BY <2>1, <2>2, <2>3, Zenon
<1>2. /\ T \in [Buffer -> BufferRecord]
      /\ \A c \in Buffer :
           /\ SlotOK(T[c], Recipe(c)) /\ LiveOK(T[c], broken)
           /\ T[c].id = buf[c].id /\ T[c].live = buf[c].live
           /\ IsLive(T[c]) <=> IsLive(buf[c])
  BY <1>0, EvictedTableOK, SMTT(20)
<1>3. /\ \A w : SlotOK(r, w)
      /\ r.state = "RESIDENT" /\ r.id = nextid /\ ~r.live /\ r.count = n
  BY <1>0, AllocatedOK
<1>4. ~buf[b].live /\ T[b].count = 0
  <2>1. buf[b] = Cleared
    BY <1>0, Zenon DEF TableOK, SlotsOK, SlotOK, ShapeOK
  <2>2. T[b] = buf[b]
    BY <1>0, Zenon DEF EvictedTable
  <2> QED
    BY <2>1, <2>2, ClearedOK, Zenon
<1> HIDE DEF T, r
<1>5. /\ buf'[b] = r /\ \A c \in Buffer : c # b => buf'[c] = T[c]
      /\ buf' \in [Buffer -> BufferRecord]
  BY <1>1, <1>2, <1>3, Zenon DEF SlotOK
<1>6. SlotsOK'
  <2>1. \A c \in Buffer : c # b => Recipe(c)' = Recipe(c)
    BY <1>2, <1>5, Zenon DEF Recipe, worker
  <2> QED
    BY <1>2, <1>3, <1>5, <2>1, Zenon DEF SlotsOK
<1>7. IdsOK'
  <2>1. nextid \in Int /\ \A c \in Buffer : buf[c].id \in Int /\ buf[c].id < nextid
    BY <1>0 DEF TableOK, IdsOK, TypeOK, BufferRecord
  <2>2. \A c \in Buffer : buf'[c].id < nextid'
    BY <1>2, <1>3, <1>5, <2>1
  <2>3. ASSUME NEW c \in Buffer, NEW d \in Buffer, c # d, IsLive(buf'[c]), IsLive(buf'[d])
        PROVE  buf'[c].id # buf'[d].id
    <3>1. CASE c # b /\ d # b
      BY <1>0, <1>2, <1>5, <2>3, <3>1, SMTT(30) DEF TableOK, IdsOK
    <3>2. CASE c = b
      BY <1>2, <1>3, <1>5, <2>1, <2>3, <3>2, SMTT(30)
    <3>3. CASE d = b
      BY <1>2, <1>3, <1>5, <2>1, <2>3, <3>3, SMTT(20)
    <3> QED
      BY <3>1, <3>2, <3>3, ZenonT(30)
  <2> QED
    BY <2>2, <2>3, ZenonT(30) DEF IdsOK
<1>8. RecipesOK'
  <2>1. LiveOK(r, broken)
    <3>1. ~HasCold(r)
      <4>1. SlotOK(r, r)
        BY <1>3, Zenon
      <4>2. \A i \in Mapped(r) : r.page[i] = Dirty
        BY <1>3, <4>1, PlainSlot, Zenon
      <4> QED
        BY <4>2 DEF HasCold, Cold, Dirty
    <3> QED
      BY <1>3, <3>1, Zenon DEF LiveOK
  <2>2. \A c \in Buffer : LiveOK(buf'[c], broken')
    BY <1>2, <1>5, <2>1, Zenon
  <2>3. broken' = broken /\ held' = held
    BY Zenon DEF worker
  <2>4. WorkerAgrees'
    BY <1>2, <1>3, <1>4, <1>5, <2>3, <1>0, SMTT(30) DEF TableOK, RecipesOK, WorkerAgrees
  <2> QED
    BY <2>2, <2>4, Zenon DEF RecipesOK
<1>9. ResidentCounted' /\ resident' \in Int
  <2>1. /\ Cardinality(ResidentOf(T)) = Cardinality(ResidentOf(buf)) - Cardinality(ResidentPairs(E))
        /\ Cardinality(ResidentPairs(E)) \in Nat
    BY <1>0, EvictedCount, Zenon DEF TableOK, SlotsOK, T
  <2>2. CountOK(T[b]) /\ CountOK(r) /\ r \in BufferRecord
    BY <1>2, <1>3, Zenon DEF SlotOK
  <2>3. Cardinality(ResidentOf([T EXCEPT ![b] = r])) = Cardinality(ResidentOf(T)) - T[b].count + r.count
    BY <1>2, <2>2, OneSlotCount, Zenon
  <2>4. ResidentOf(buf)' = ResidentOf([T EXCEPT ![b] = r])
    BY <1>1, SMTT(30) DEF ResidentOf
  <2>5. resident' = resident - Cardinality(ResidentPairs(E)) + n /\ n \in Int
    BY SMTT(30) DEF EvictAll
  <2>6. Cardinality(ResidentOf(buf)) = resident
    BY <1>0, Zenon DEF TableOK, ResidentCounted
  <2> QED
    BY <1>0, <1>3, <1>4, <2>1, <2>3, <2>4, <2>5, <2>6, SMTT(30) DEF ResidentCounted
<1>10. peak' \in Nat /\ PeakCoversExcess'
  <2>1. peak \in Nat /\ target \in Nat /\ target' = target
    BY <1>0, Zenon DEF TypeOK
  <2>2. peak' = Larger(peak, Excess(resident', target'))
    BY <2>1, Zenon DEF ObserveTarget
  <2>3. Excess(resident', target') \in Nat
    <3>1. resident' \in Int /\ target' \in Nat
      BY <1>9, <2>1, Zenon
    <3> QED
      BY <3>1, ExcessType, Zenon
  <2>4. peak' \in Nat /\ peak' >= Excess(resident', target')
    BY <2>1, <2>2, <2>3 DEF Larger
  <2> QED
    BY <2>4, Zenon DEF PeakCoversExcess, Excess
<1>11. TypeOK'
  <2>1. nextid' \in 1 .. MaxId + 1
    <3>1. nextid \in Ids
      BY <1>0, Zenon
    <3>2. nextid' = nextid + 1
      BY Zenon
    <3> QED
      BY <3>1, <3>2, ConstantsAssumption DEF Ids
  <2>2. /\ evicted' \in [Buffer -> BOOLEAN] /\ faulted' \in [Buffer -> BOOLEAN]
        /\ retained' \in [Buffer -> Nat] /\ cost' \in [Buffer -> Nat]
        /\ lastEnd' \in [Buffer -> 0 .. MaxPages] /\ ahead' \in [Buffer -> 1 .. Window]
    BY <1>0, EvictAllTypes, Zenon
  <2>3. UNCHANGED <<target, broken, held, recipes, mode, out>>
    BY Zenon DEF worker
  <2> QED
    BY <1>0, <1>5, <1>9, <1>10, <2>1, <2>2, <2>3, Zenon DEF TypeOK
<1>12. StopsForCause'
  BY Zenon DEF IInv, StopsForCause
<1> QED
  BY <1>6, <1>7, <1>8, <1>9, <1>10, <1>11, <1>12, Zenon DEF IInv, TableOK

LEMMA AfAllocStep ==
  ASSUME IInv, NEW b \in Buffer, NEW n \in 1 .. MaxPages, AfAlloc(b, n)
  PROVE  IInv'
<1>1. buf[b].state = "FREE" /\ nextid <= MaxId
  BY Zenon DEF AfAlloc
<1>2. PICK E \in SUBSET Candidates({}) :
        \/ /\ EvictAll(E, [buf EXCEPT ![b] = Allocated(n, nextid)], n)
           /\ nextid' = nextid + 1
           /\ ObserveTarget
           /\ UNCHANGED <<target, broken, worker, mode, out>>
        \/ /\ CollectFails(E, n, {}) \/ EvictAll(E, buf, 0)
           /\ UNCHANGED <<nextid, target, peak, broken, worker, mode, out>>
        \/ RollbackFailure
  BY Zenon DEF AfAlloc
<1>3. /\ E \in SUBSET Buffer /\ \A c \in E : buf[c].state = "SEALED"
      /\ \A c \in E : buf[c].state \in {"SEALED", "EVICTED"}
  BY Zenon DEF Candidates
<1>4. CASE /\ EvictAll(E, [buf EXCEPT ![b] = Allocated(n, nextid)], n)
           /\ nextid' = nextid + 1
           /\ ObserveTarget
           /\ UNCHANGED <<target, broken, worker, mode, out>>
  BY <1>1, <1>3, <1>4, AllocStep, Zenon
<1>5. CASE /\ CollectFails(E, n, {}) \/ EvictAll(E, buf, 0)
           /\ UNCHANGED <<nextid, target, peak, broken, worker, mode, out>>
  <2>1. EvictAll(E, buf, 0)
    BY <1>5, CollectFailsEvicts, Zenon
  <2> QED
    BY <1>3, <1>5, <2>1, EvictAllStep, Zenon
<1>6. CASE RollbackFailure
  BY <1>6, RollbackFailureStep, Zenon
<1> QED
  BY <1>2, <1>4, <1>5, <1>6, Zenon

LEMMA SetTargetStep ==
  ASSUME IInv, NEW t \in Targets, AfSetResidentTarget(t)
  PROVE  IInv'
<1>1. /\ target' = t /\ peak' = Excess(resident, t) /\ t \in Nat
      /\ UNCHANGED <<buf, policy, nextid, resident, broken, worker, mode, out>>
  BY ConstantsAssumption, Zenon DEF AfSetResidentTarget
<1>2. TableOK'
  <2>1. UNCHANGED <<buf, nextid, resident>> /\ UNCHANGED <<held, broken>> /\ recipes' = recipes
    BY <1>1, Zenon DEF worker
  <2>2. \A c \in Buffer : Recipe(c)' = Recipe(c)
    BY <2>1, Zenon DEF Recipe
  <2> QED
    BY <2>1, <2>2, SameTableStep, Zenon DEF IInv
<1>3. resident \in Int /\ Excess(resident, t) \in Nat
  BY <1>1 DEF IInv, TypeOK, Excess
<1>4. TypeOK'
  BY <1>1, <1>3, Zenon DEF IInv, TypeOK, policy, worker
<1>5. PeakCoversExcess'
  BY <1>1, <1>3 DEF PeakCoversExcess, Excess
<1>6. StopsForCause'
  BY <1>1, Zenon DEF IInv, StopsForCause
<1> QED
  BY <1>2, <1>4, <1>5, <1>6, Zenon DEF IInv

(***************************************************************************)
(* A submission changes what the worker holds for one id.  No other slot   *)
(* in use has that id.                                                     *)
(***************************************************************************)
LEMMA SubmitStepTable ==
  ASSUME IInv, NEW b \in Buffer, buf[b].state = "RESIDENT", ~broken, NEW q, NEW output,
         NEW w, SlotOK(q, w), w = output, q.id = buf[b].id, IsLive(q), q.count = buf[b].count,
         buf' = [buf EXCEPT ![b] = q],
         recipes' = [recipes EXCEPT ![buf[b].id] = output], output \in [Page -> Values],
         LiveOK(q, broken'),
         \/ broken' = TRUE
         \/ broken' = broken /\ held' = held \ {buf[b].id} /\ ~q.live
         \/ broken' = broken /\ held' = held \cup {buf[b].id} /\ q.live,
         UNCHANGED <<nextid, resident>>
  PROVE  TableOK' /\ buf' \in [Buffer -> BufferRecord] /\ recipes' \in [Ids -> [Page -> Values]]
<1>0. TypeOK /\ TableOK /\ buf \in [Buffer -> BufferRecord] /\ recipes \in [Ids -> [Page -> Values]]
  BY Zenon DEF IInv, TypeOK
<1>1. buf[b].id \in Ids /\ IsLive(buf[b])
  BY <1>0, UsedRecipe, Zenon DEF IsLive, TableOK
<1>2. recipes' \in [Ids -> [Page -> Values]] /\ recipes'[buf[b].id] = output
  BY <1>0, <1>1, Zenon
<1>3. /\ buf'[b] = q /\ \A c \in Buffer : c # b => buf'[c] = buf[c]
      /\ buf' \in [Buffer -> BufferRecord]
  BY <1>0, Zenon DEF SlotOK
<1>4. \A c \in Buffer : c # b /\ IsLive(buf[c]) => buf[c].id # buf[b].id
  BY <1>0, <1>1, Zenon DEF TableOK, IdsOK
<1>5. SlotsOK'
  <2> SUFFICES ASSUME NEW c \in Buffer
               PROVE  SlotOK(buf'[c], Recipe(c)')
    BY Zenon DEF SlotsOK
  <2>1. CASE c = b
    BY <1>2, <1>3, <2>1, Zenon DEF Recipe
  <2>2. CASE c # b /\ IsLive(buf[c])
    <3>1. buf[c].id \in Ids
      BY <1>0, <2>2, UsedRecipe, Zenon DEF TableOK
    <3>2. Recipe(c)' = Recipe(c)
      BY <1>0, <1>3, <1>4, <2>2, <3>1, Zenon DEF Recipe
    <3> QED
      BY <1>0, <1>3, <2>2, <3>2, Zenon DEF TableOK, SlotsOK
  <2>3. CASE c # b /\ ~IsLive(buf[c])
    <3>1. SlotOK(buf[c], Recipe(c)) /\ buf[c].state = "FREE"
      BY <1>0, <2>3, Zenon DEF TableOK, SlotsOK, IsLive
    <3> QED
      BY <1>3, <2>3, <3>1, PlainSlot, Zenon
  <2> QED
    BY <2>1, <2>2, <2>3, Zenon
<1>6. IdsOK'
  BY <1>0, <1>1, <1>3 DEF TableOK, IdsOK
<1>7. \A c \in Buffer : LiveOK(buf'[c], broken')
  <2>1. ASSUME NEW c \in Buffer, c # b
        PROVE  LiveOK(buf[c], broken')
    <3>1. LiveOK(buf[c], broken)
      BY <1>0, Zenon DEF TableOK, RecipesOK
    <3> QED
      BY <3>1, Zenon DEF LiveOK
  <2> QED
    BY <1>3, <2>1, Zenon
<1>8. WorkerAgrees'
  <2> SUFFICES ASSUME ~broken'
               PROVE  /\ \A n \in held' : \E c \in Buffer : buf'[c].id = n /\ buf'[c].live
                      /\ "munmap" \notin Failing =>
                           \A c \in Buffer : buf'[c].live => buf'[c].id \in held'
    BY Zenon DEF WorkerAgrees
  <2>1. /\ \A n \in held : \E c \in Buffer : buf[c].id = n /\ buf[c].live
        /\ "munmap" \notin Failing => \A c \in Buffer : buf[c].live => buf[c].id \in held
    BY <1>0, Zenon DEF TableOK, RecipesOK, WorkerAgrees
  <2>2. ~buf[b].live
    BY <1>0, Zenon DEF TableOK, RecipesOK, LiveOK
  <2>3. \A c \in Buffer : buf[c].live => c # b /\ buf[c].id # buf[b].id
    BY <1>0, <1>4, <2>2, LiveIsUsed, Zenon DEF TableOK
  <2>4. CASE held' = held \ {buf[b].id} /\ ~q.live
    BY <1>3, <2>1, <2>2, <2>3, <2>4, Zenon
  <2>5. CASE held' = held \cup {buf[b].id} /\ q.live
    <3>1. ASSUME NEW n \in held' PROVE \E c \in Buffer : buf'[c].id = n /\ buf'[c].live
      <4>1. CASE n = buf[b].id
        BY <1>3, <2>5, <4>1, Zenon
      <4>2. CASE n # buf[b].id
        <5>1. PICK c \in Buffer : buf[c].id = n /\ buf[c].live
          BY <2>1, <2>5, <4>2, Zenon
        <5>2. c # b
          BY <5>1, <2>2, Zenon
        <5> QED
          BY <1>3, <5>1, <5>2, Zenon
      <4> QED
        BY <4>1, <4>2, Zenon
    <3>2. "munmap" \notin Failing => \A c \in Buffer : buf'[c].live => buf'[c].id \in held'
      BY <1>3, <2>1, <2>5, ZenonT(30)
    <3> QED
      BY <3>1, <3>2, Zenon
  <2> QED
    BY <2>4, <2>5, Zenon
<1>9. ResidentCounted'
  <2>1. CountOK(buf[b]) /\ CountOK(q) /\ q \in BufferRecord
    BY <1>0, Zenon DEF TableOK, SlotsOK, SlotOK
  <2>2. Cardinality(ResidentOf(buf')) = Cardinality(ResidentOf(buf)) - buf[b].count + q.count
    BY <1>0, <2>1, OneSlotCount, Zenon
  <2>3. ResidentOf(buf') = ResidentOf(buf)'
    BY Zenon DEF ResidentOf
  <2>4. buf[b].count \in Int /\ resident \in Int /\ resident = Cardinality(ResidentOf(buf))
    BY <1>0, Zenon DEF TypeOK, BufferRecord, TableOK, ResidentCounted
  <2> QED
    BY <2>2, <2>3, <2>4 DEF ResidentCounted
<1> QED
  BY <1>2, <1>3, <1>5, <1>6, <1>7, <1>8, <1>9, Zenon DEF TableOK, RecipesOK

LEMMA OutputsType ==
  ASSUME NEW lo, NEW hi, NEW output \in Outputs(lo, hi)
  PROVE  output \in [Page -> Values]
  BY Zenon DEF Outputs

LEMMA SubmitSealsStep ==
  ASSUME IInv, NEW b \in Buffer, NEW lo \in Page, NEW hi \in 1 .. MaxPages,
         NEW output \in Outputs(lo, hi), NEW slices \in Slicing,
         NEW bytes \in Retained, NEW ns \in Costs,
         SubmitSeals(b, lo, hi, output, slices, bytes, ns)
  PROVE  IInv'
<1> DEFINE q == Sealed(buf[b], lo, hi, slices)
<1>1. /\ buf[b].state = "RESIDENT" /\ lo < hi /\ hi <= buf[b].size /\ ~broken
      /\ Matches(buf[b], lo, hi, output)
      /\ buf' = [buf EXCEPT ![b] = q]
      /\ recipes' = [recipes EXCEPT ![buf[b].id] = output]
      /\ held' = held \cup {buf[b].id}
      /\ cost' = [cost EXCEPT ![b] = ns]
      /\ retained' = [retained EXCEPT ![b] = bytes + buf[b].size]
      /\ UNCHANGED <<evicted, faulted, lastEnd, ahead, nextid, resident, target, peak, broken,
                     mode, out>>
  BY Zenon DEF SubmitSeals, Submission
<1>2. /\ TypeOK /\ SlotOK(buf[b], Recipe(b)) /\ output \in [Page -> Values]
      /\ slices \in BOOLEAN /\ IsLive(buf[b])
  BY <1>1, OutputsType, ConstantsAssumption, ZenonT(30) DEF IInv, TableOK, SlotsOK, IsLive
<1>3. /\ SlotOK(q, output) /\ q.state = "SEALED" /\ q.id = buf[b].id /\ q.live
      /\ q.count = buf[b].count /\ ~HasCold(q)
  BY <1>1, <1>2, SealedOK
<1> HIDE DEF q
<1>4. LiveOK(q, broken') /\ IsLive(q)
  BY <1>3, Zenon DEF LiveOK, IsLive
<1>5. TableOK' /\ buf' \in [Buffer -> BufferRecord] /\ recipes' \in [Ids -> [Page -> Values]]
  BY <1>1, <1>2, <1>3, <1>4, SubmitStepTable, Zenon
<1>6. held' \subseteq Ids
  <2>1. buf[b].id \in Ids
    BY <1>2, UsedRecipe, Zenon DEF IInv, TableOK
  <2> QED
    BY <1>1, <1>2, <2>1, Zenon DEF TypeOK
<1>7. cost' \in [Buffer -> Nat] /\ retained' \in [Buffer -> Nat]
  <2>1. buf[b].size \in Nat
    BY <1>2, SizesAreNat, Zenon DEF SlotOK
  <2>2. bytes \in Nat /\ ns \in Nat
    BY CostsAreNat, Zenon
  <2>3. bytes + buf[b].size \in Nat
    BY <2>1, <2>2, SumsAreNat, Zenon
  <2> QED
    BY <1>1, <1>2, <2>2, <2>3, Zenon DEF TypeOK
<1>8. TypeOK'
  BY <1>1, <1>2, <1>5, <1>6, <1>7, Zenon DEF TypeOK
<1>9. PeakCoversExcess' /\ StopsForCause'
  BY <1>1, Zenon DEF IInv, PeakCoversExcess, StopsForCause, Excess
<1> QED
  BY <1>5, <1>8, <1>9, Zenon DEF IInv

LEMMA SubmitDroppedStep ==
  ASSUME IInv, NEW b \in Buffer, NEW lo \in Page, NEW hi \in 1 .. MaxPages,
         NEW output \in Outputs(lo, hi), NEW slices \in Slicing,
         NEW bytes \in Retained, NEW ns \in Costs,
         SubmitDropped(b, lo, hi, output, slices, bytes, ns)
  PROVE  IInv'
<1>1. /\ buf[b].state = "RESIDENT" /\ ~broken
      /\ recipes' = [recipes EXCEPT ![buf[b].id] = output]
      /\ cost' = [cost EXCEPT ![b] = ns]
      /\ UNCHANGED <<evicted, faulted, lastEnd, ahead, nextid, resident, target, peak, mode, out>>
      /\ \/ held' = held \ {buf[b].id} /\ UNCHANGED broken
         \/ held' = held \cup {buf[b].id} /\ broken' = TRUE
      /\ \/ /\ retained' = [retained EXCEPT ![b] = bytes + buf[b].size]
            /\ buf' = [buf EXCEPT ![b].sliced = slices]
         \/ UNCHANGED <<retained, buf>>
  BY Zenon DEF SubmitDropped, Submission
<1>2. /\ TypeOK /\ SlotOK(buf[b], Recipe(b)) /\ output \in [Page -> Values]
      /\ slices \in BOOLEAN /\ IsLive(buf[b]) /\ LiveOK(buf[b], broken)
  BY <1>1, OutputsType, ConstantsAssumption, Zenon DEF IInv, TableOK, SlotsOK, IsLive, RecipesOK
<1>3. ~buf[b].live
  BY <1>1, <1>2, Zenon DEF LiveOK
<1>4. PICK q : /\ buf' = [buf EXCEPT ![b] = q]
               /\ SlotOK(q, output) /\ q.id = buf[b].id /\ q.live = buf[b].live
               /\ q.state = "RESIDENT" /\ q.count = buf[b].count
  <2>1. CASE buf' = [buf EXCEPT ![b].sliced = slices]
    <3> DEFINE q == [buf[b] EXCEPT !.sliced = slices]
    <3>1. /\ SlotOK(q, output) /\ q.id = buf[b].id /\ q.live = buf[b].live
          /\ q.state = buf[b].state /\ q.count = buf[b].count
      BY <1>1, <1>2, SlicedChanged
    <3>2. buf' = [buf EXCEPT ![b] = q]
      BY <2>1, Zenon
    <3> HIDE DEF q
    <3> QED
      BY <1>1, <3>1, <3>2, Zenon
  <2>2. CASE buf' = buf
    <3>1. buf' = [buf EXCEPT ![b] = buf[b]]
      BY <1>2, <2>2, Zenon DEF TypeOK
    <3>2. SlotOK(buf[b], output)
      BY <1>1, <1>2, PlainSlot, Zenon
    <3> QED
      BY <1>1, <3>1, <3>2, Zenon
  <2> QED
    BY <1>1, <2>1, <2>2, Zenon
<1>5. LiveOK(q, broken') /\ IsLive(q) /\ ~q.live
  <2>1. \A i \in Mapped(q) : q.page[i] = Dirty
    BY <1>4, PlainSlot, ZenonT(30)
  <2>2. ~HasCold(q)
    BY <2>1 DEF HasCold, Cold, Dirty
  <2> QED
    BY <1>3, <1>4, <2>2, Zenon DEF LiveOK, IsLive
<1>6. \/ broken' = TRUE
      \/ broken' = broken /\ held' = held \ {buf[b].id} /\ ~q.live
      \/ broken' = broken /\ held' = held \cup {buf[b].id} /\ q.live
  BY <1>1, <1>5, Zenon
<1>7. TableOK' /\ buf' \in [Buffer -> BufferRecord] /\ recipes' \in [Ids -> [Page -> Values]]
  BY <1>1, <1>2, <1>4, <1>5, <1>6, SubmitStepTable, Zenon
<1>8. held' \subseteq Ids
  <2>1. buf[b].id \in Ids
    BY <1>2, UsedRecipe, Zenon DEF IInv, TableOK
  <2> QED
    BY <1>1, <1>2, <2>1, Zenon DEF TypeOK
<1>9. broken' \in BOOLEAN
  BY <1>1, <1>2, Zenon DEF TypeOK
<1>10. cost' \in [Buffer -> Nat] /\ retained' \in [Buffer -> Nat]
  <2>1. buf[b].size \in Nat
    BY <1>2, SizesAreNat, Zenon DEF SlotOK
  <2>2. bytes \in Nat /\ ns \in Nat
    BY CostsAreNat, Zenon
  <2>3. bytes + buf[b].size \in Nat
    BY <2>1, <2>2, SumsAreNat, Zenon
  <2> QED
    BY <1>1, <1>2, <2>2, <2>3 DEF TypeOK
<1>11. TypeOK'
  BY <1>1, <1>2, <1>7, <1>8, <1>9, <1>10, Zenon DEF TypeOK
<1>12. PeakCoversExcess' /\ StopsForCause'
  BY <1>1, Zenon DEF IInv, PeakCoversExcess, StopsForCause, Excess
<1> QED
  BY <1>7, <1>11, <1>12, Zenon DEF IInv

LEMMA SubmitBrokenStep ==
  ASSUME IInv, NEW b \in Buffer, NEW lo, NEW hi, NEW output \in Outputs(lo, hi),
         SubmitBroken(b, output)
  PROVE  IInv'
<1>1. /\ buf[b].state = "RESIDENT" /\ broken' = TRUE
      /\ \/ held' = held /\ recipes' = recipes
         \/ /\ held' = held \cup {buf[b].id}
            /\ recipes' = [recipes EXCEPT ![buf[b].id] = output]
      /\ UNCHANGED <<buf, policy, nextid, resident, target, peak, mode, out>>
  BY Zenon DEF SubmitBroken, worker
<1>2. /\ TypeOK /\ TableOK /\ output \in [Page -> Values] /\ IsLive(buf[b])
  BY <1>1, OutputsType, Zenon DEF IInv, IsLive
<1>3. buf[b].id \in Ids
  BY <1>2, UsedRecipe, Zenon DEF TableOK
<1>4. held' \subseteq Ids /\ recipes' \in [Ids -> [Page -> Values]]
  BY <1>1, <1>2, <1>3, Zenon DEF TypeOK
<1>5. ASSUME NEW c \in Buffer, IsLive(buf[c])
      PROVE  Recipe(c)' = Recipe(c) \/ buf[c].state = "RESIDENT"
  <2>1. CASE c = b
    BY <1>1, <2>1, Zenon
  <2>2. CASE c # b
    <3>1. buf[c].id # buf[b].id /\ buf[c].id \in Ids
      BY <1>2, <1>5, <2>2, UsedRecipe, Zenon DEF TableOK, IdsOK
    <3> QED
      BY <1>1, <1>2, <3>1, Zenon DEF Recipe, TypeOK
  <2> QED
    BY <2>1, <2>2, Zenon
<1>6. TableOK'
  BY <1>1, <1>2, <1>5, SameTableStep, Zenon
<1>7. TypeOK'
  BY <1>1, <1>2, <1>4, Zenon DEF TypeOK, policy
<1>8. PeakCoversExcess' /\ StopsForCause'
  BY <1>1, Zenon DEF IInv, PeakCoversExcess, StopsForCause, Excess
<1> QED
  BY <1>6, <1>7, <1>8, Zenon DEF IInv

LEMMA AfFreeStep ==
  ASSUME IInv, NEW b \in Buffer, AfFree(b)
  PROVE  IInv'
<1>1. /\ IsLive(buf[b])
      /\ \/ ~buf[b].live /\ held' = held /\ broken' = broken
         \/ buf[b].live /\ ~broken /\ held' = held \ {buf[b].id} /\ broken' = broken
         \/ buf[b].live /\ broken' = TRUE /\ held' = held
      /\ UNCHANGED <<nextid, target, peak, recipes, mode, out>>
  BY Zenon DEF AfFree
<1>2. TypeOK /\ TableOK /\ buf \in [Buffer -> BufferRecord]
  BY Zenon DEF IInv, TypeOK
<1>3. held' \subseteq Ids /\ broken' \in BOOLEAN
  BY <1>1, <1>2, Zenon DEF TypeOK
<1>4. /\ ~broken' => /\ ~broken
                     /\ \A n \in held : \E c \in Buffer : buf[c].id = n /\ buf[c].live
                     /\ "munmap" \notin Failing =>
                          \A c \in Buffer : buf[c].live => buf[c].id \in held
      /\ \A c \in Buffer : c # b /\ buf[c].live => buf[c].id # buf[b].id
  <2>1. ~broken' => ~broken
    BY <1>1, Zenon
  <2>2. \A c \in Buffer : c # b /\ buf[c].live => buf[c].id # buf[b].id
    BY <1>1, <1>2, LiveIsUsed, Zenon DEF TableOK, IdsOK
  <2> QED
    BY <1>2, <2>1, <2>2, Zenon DEF TableOK, RecipesOK, WorkerAgrees
<1>5. StopsForCause'
  <2>1. mode' = mode /\ (broken => broken')
    BY <1>1
  <2> QED
    BY <2>1, Zenon DEF IInv, StopsForCause
<1>6. CASE "munmap" \in Failing /\ UNCHANGED <<buf, policy, resident>>
  <2>1. SlotsOK' /\ IdsOK' /\ ResidentCounted'
    BY <1>1, <1>2, <1>6, Zenon DEF TableOK, SlotsOK, Recipe, IdsOK, ResidentCounted, ResidentOf
  <2>2. \A c \in Buffer : LiveOK(buf'[c], broken')
    <3>1. \A c \in Buffer : LiveOK(buf[c], broken)
      BY <1>2, Zenon DEF TableOK, RecipesOK
    <3> QED
      BY <1>4, <1>6, <3>1, Zenon DEF LiveOK
  <2>3. WorkerAgrees'
    <3> SUFFICES ASSUME ~broken', NEW n \in held'
                 PROVE  \E c \in Buffer : buf'[c].id = n /\ buf'[c].live
      BY <1>6, Zenon DEF WorkerAgrees
    <3>1. n \in held
      BY <1>1, Zenon
    <3> QED
      BY <1>4, <1>6, <3>1, Zenon
  <2>4. TypeOK'
    BY <1>1, <1>2, <1>3, <1>6, Zenon DEF TypeOK, policy
  <2>5. PeakCoversExcess'
    BY <1>1, <1>6, Zenon DEF IInv, PeakCoversExcess, Excess
  <2> QED
    BY <1>5, <2>1, <2>2, <2>3, <2>4, <2>5, Zenon DEF IInv, TableOK, RecipesOK
<1>7. CASE /\ buf' = [buf EXCEPT ![b] = Cleared]
           /\ evicted' = [evicted EXCEPT ![b] = FALSE]
           /\ faulted' = [faulted EXCEPT ![b] = FALSE]
           /\ retained' = [retained EXCEPT ![b] = 0]
           /\ cost' = [cost EXCEPT ![b] = 1]
           /\ lastEnd' = [lastEnd EXCEPT ![b] = MaxPages]
           /\ ahead' = [ahead EXCEPT ![b] = 1]
           /\ resident' = resident - buf[b].count
  <2>0. /\ \A w : SlotOK(Cleared, w)
        /\ Cleared.state = "FREE" /\ Cleared.id = 0 /\ ~Cleared.live /\ Cleared.count = 0
        /\ Cleared \in BufferRecord /\ CountOK(Cleared)
    BY ClearedOK, Zenon DEF SlotOK
  <2>1. /\ buf'[b] = Cleared /\ \A c \in Buffer : c # b => buf'[c] = buf[c]
        /\ buf' \in [Buffer -> BufferRecord]
    BY <1>2, <1>7, <2>0, Zenon
  <2>2. SlotsOK'
    BY <1>1, <1>2, <2>0, <2>1, Zenon DEF TableOK, SlotsOK, Recipe
  <2>3. IdsOK'
    <3>1. nextid > 0
      BY <1>2 DEF TypeOK
    <3> QED
      BY <1>1, <1>2, <2>0, <2>1, <3>1, SMTT(20) DEF TableOK, IdsOK, IsLive
  <2>4. \A c \in Buffer : LiveOK(buf'[c], broken')
    <3>1. \A c \in Buffer : LiveOK(buf[c], broken)
      BY <1>2, Zenon DEF TableOK, RecipesOK
    <3>2. \A c \in Buffer : LiveOK(buf[c], broken')
      BY <1>4, <3>1, Zenon DEF LiveOK
    <3>3. ~HasCold(Cleared)
      BY <2>0, FreeIsEmpty, Zenon DEF SlotOK, HasCold
    <3>4. LiveOK(Cleared, broken')
      BY <2>0, <3>3, Zenon DEF LiveOK
    <3> QED
      BY <2>1, <3>2, <3>4, Zenon
  <2>5. WorkerAgrees'
    <3> SUFFICES ASSUME ~broken'
                 PROVE  /\ \A n \in held' : \E c \in Buffer : buf'[c].id = n /\ buf'[c].live
                        /\ "munmap" \notin Failing =>
                             \A c \in Buffer : buf'[c].live => buf'[c].id \in held'
      BY Zenon DEF WorkerAgrees
    <3>1. \/ ~buf[b].live /\ held' = held
          \/ buf[b].live /\ held' = held \ {buf[b].id}
      BY <1>1, Zenon
    <3>2. ASSUME NEW n \in held' PROVE \E c \in Buffer : buf'[c].id = n /\ buf'[c].live
      <4>1. PICK c \in Buffer : buf[c].id = n /\ buf[c].live
        BY <1>4, <3>1, <3>2, Zenon
      <4>2. c # b
        BY <3>1, <3>2, <4>1, ZenonT(30)
      <4> QED
        BY <2>1, <4>1, <4>2, Zenon
    <3>3. ASSUME "munmap" \notin Failing, NEW c \in Buffer, buf'[c].live
          PROVE  buf'[c].id \in held'
      BY <1>4, <2>0, <2>1, <3>1, <3>3
    <3> QED
      BY <3>2, <3>3, Zenon
  <2>6. resident \in Int /\ buf[b].count \in Nat
    <3>1. SlotOK(buf[b], Recipe(b))
      BY <1>2, Zenon DEF TableOK, SlotsOK
    <3>2. IsFiniteSet({i \in Page : buf[b].page[i] # Cold})
      BY PageFinite, FS_Subset, Zenon
    <3> QED
      BY <1>2, <3>1, <3>2, FS_CardinalityType, Zenon DEF TypeOK, SlotOK, CountOK
  <2>7. ResidentCounted'
    <3>1. CountOK(buf[b])
      BY <1>2, Zenon DEF TableOK, SlotsOK, SlotOK
    <3>2. Cardinality(ResidentOf([buf EXCEPT ![b] = Cleared]))
            = Cardinality(ResidentOf(buf)) - buf[b].count + Cleared.count
      BY <1>2, <2>0, <3>1, OneSlotCount, Zenon
    <3>3. ResidentOf(buf)' = ResidentOf([buf EXCEPT ![b] = Cleared])
      BY <1>7, Zenon DEF ResidentOf
    <3> QED
      BY <1>2, <1>7, <2>0, <2>6, <3>2, <3>3, SMTT(20) DEF TableOK, ResidentCounted
  <2>8. TypeOK'
    <3>1. MaxPages \in 0 .. MaxPages /\ 1 \in 1 .. Window
      BY ConstantsAssumption
    <3>2. resident' \in Int
      BY <1>7, <2>6
    <3> QED
      BY <1>1, <1>2, <1>3, <1>7, <2>1, <3>1, <3>2, Zenon DEF TypeOK
  <2>9. PeakCoversExcess'
    <3>1. peak \in Nat /\ target \in Nat /\ peak >= Excess(resident, target)
      BY Zenon DEF IInv, TypeOK, PeakCoversExcess
    <3>2. resident' \in Int /\ resident' <= resident
      BY <1>7, <2>6
    <3>3. peak' >= Excess(resident', target')
      BY <1>1, <2>6, <3>1, <3>2, ExcessShrinks, Zenon
    <3> QED
      BY <3>3, Zenon DEF PeakCoversExcess, Excess
  <2> QED
    BY <1>5, <2>2, <2>3, <2>4, <2>5, <2>7, <2>8, <2>9, Zenon DEF IInv, TableOK, RecipesOK
<1> QED
  BY <1>6, <1>7, Zenon DEF AfFree
=============================================================================
