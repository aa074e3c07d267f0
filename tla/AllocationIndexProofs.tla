----------------------- MODULE AllocationIndexProofs ------------------------
(***************************************************************************)
(* The index of allocations is right for every number of slots, page size  *)
(* and address space: it lists the live buffers in order, a search finds   *)
(* the owner of an address, index_remove never aborts, and prepare covers  *)
(* exactly the pages of its range.                                         *)
(***************************************************************************)
EXTENDS AllocationIndex, FiniteSetTheorems, TLAPS

(***************************************************************************)
(* The buffers listed are the live ones but the one being inserted, each   *)
(* once; live buffers have a length and do not overlap; and the search has *)
(* the starts at or before the address below `low' and the others from     *)
(* `high' on.  That there is room for an insertion needs the count to be   *)
(* the number of buffers listed.                                           *)
(***************************************************************************)
Types ==
  /\ data \in [Slots -> Nat] /\ mapped \in [Slots -> Nat]
  /\ index \in [Cells -> 0 .. MaxSlots] /\ count \in 0 .. MaxSlots
  /\ req \in [op : {"insert", "find", "remove", "fault", "prepare"},
              address : Nat, size : Nat, slot : 0 .. MaxSlots]
  /\ low \in Nat /\ high \in Nat
  /\ pc \in {"idle", "search", "walk"}

Listed == {s \in Live : ~Inserting(s)}

Cell(k) == k \in Nat /\ k < count

Lists ==
  /\ \A k : Cell(k) => index[k] \in Listed
  /\ \A s \in Listed : \E k : Cell(k) /\ index[k] = s
  /\ Ordered
  /\ IsFiniteSet(Listed) /\ Cardinality(Listed) = count

Apart ==
  /\ \A s \in Live : mapped[s] > 0
  /\ \A s, t \in Live : s # t => data[s] + mapped[s] <= data[t] \/ data[t] + mapped[t] <= data[s]

Narrowed ==
  pc = "search" =>
    /\ low <= high /\ high <= count
    /\ \A k : Cell(k) /\ k < low => data[index[k]] <= req.address
    /\ \A k : Cell(k) /\ high <= k => req.address < data[index[k]]

Asked ==
  /\ pc = "search" /\ req.op = "insert" => req.slot \in Live /\ data[req.slot] = req.address
  /\ pc = "search" /\ req.op = "remove" => req.slot \in Live /\ data[req.slot] = req.address

AInv == Types /\ Lists /\ Apart /\ Narrowed /\ Asked

-----------------------------------------------------------------------------
(***************************************************************************)
(* Cells and slots: what the index lists are slots.                        *)
(***************************************************************************)
LEMMA CellFacts ==
  ASSUME AInv
  PROVE  /\ count \in Nat /\ count <= MaxSlots /\ MaxSlots \in Nat /\ Live \subseteq Slots
         /\ \A k : Cell(k) => k \in Cells /\ index[k] \in Slots /\ index[k] \in Live
         /\ \A s \in Slots : data[s] \in Nat /\ mapped[s] \in Nat
<1>1. count \in Nat /\ count <= MaxSlots /\ MaxSlots \in Nat /\ Live \subseteq Slots
  BY ConstantsAssumption DEF AInv, Types, Live
<1>2. \A k : Cell(k) => k \in Cells
  BY <1>1 DEF Cell, Cells
<1>3. \A k : Cell(k) => index[k] \in Live
  BY Zenon DEF AInv, Lists, Listed
<1>4. \A s \in Slots : data[s] \in Nat /\ mapped[s] \in Nat
  BY Zenon DEF AInv, Types
<1> QED BY <1>1, <1>2, <1>3, <1>4, Zenon

(***************************************************************************)
(* A later cell holds a buffer that starts later.                          *)
(***************************************************************************)
LEMMA CellsAscend ==
  ASSUME AInv, NEW j, NEW k, Cell(j), Cell(k), j < k
  PROVE  /\ data[index[j]] + mapped[index[j]] <= data[index[k]]
         /\ data[index[j]] < data[index[k]] /\ index[j] # index[k]
<1>1. j \in 0 .. count - 1 /\ k \in 0 .. count - 1
  BY CellFacts DEF Cell
<1>2. data[index[j]] + mapped[index[j]] <= data[index[k]]
  BY <1>1, Zenon DEF AInv, Lists, Ordered
<1>3. mapped[index[j]] > 0
  BY CellFacts, Zenon DEF AInv, Apart
<1> QED BY <1>2, <1>3, CellFacts

(***************************************************************************)
(* A finished search has found the owner of the address.                   *)
(***************************************************************************)
LEMMA OwnerFound ==
  ASSUME AInv, pc = "search", low = high
  PROVE  \A s \in Slots : Containing = s <=> Owns(s, req.address)
<1>1. low \in Nat /\ low <= count /\ req.address \in Nat
  BY Zenon DEF AInv, Types, Narrowed
<1>2. low # 0 => Cell(low - 1) /\ data[Before] <= req.address /\ Before \in Listed
  <2> SUFFICES ASSUME low # 0
               PROVE  Cell(low - 1) /\ data[Before] <= req.address /\ Before \in Listed
    BY Zenon
  <2>1. Cell(low - 1) /\ low - 1 < low
    BY <1>1, CellFacts DEF Cell
  <2> QED BY <2>1, Zenon DEF AInv, Narrowed, Lists, Before
<1>3. ASSUME NEW s \in Slots, Owns(s, req.address)
      PROVE  Containing = s
  <2>1. s \in Listed /\ data[s] <= req.address /\ req.address < data[s] + mapped[s]
    BY <1>3, Zenon DEF Owns, Listed
  <2>2. PICK k : Cell(k) /\ index[k] = s
    BY <2>1, Zenon DEF AInv, Lists
  <2>3. k \in Nat /\ k < low
    <3>1. k \in Nat
      BY <2>2, Zenon DEF Cell
    <3>2. ~(high <= k)
      BY <1>3, <2>1, <2>2, CellFacts, <1>1 DEF AInv, Narrowed
    <3> QED BY <1>1, <3>1, <3>2
  <2>4. k = low - 1
    <3> SUFFICES ASSUME k < low - 1 PROVE FALSE
      BY <1>1, <2>3
    <3>1. Cell(low - 1) /\ data[Before] <= req.address /\ Before \in Slots
      BY <1>1, <1>2, <2>3, CellFacts DEF Before
    <3>2. data[s] + mapped[s] <= data[Before]
      BY <2>2, <3>1, CellsAscend, Zenon DEF Before
    <3> QED BY <1>1, <2>1, <3>1, <3>2, CellFacts
  <2>5. low # 0 /\ Before = s
    BY <1>1, <2>2, <2>3, <2>4 DEF Before
  <2>6. req.address - data[Before] < mapped[Before]
    BY <1>1, <2>1, <2>5, CellFacts
  <2> QED BY <2>5, <2>6, Zenon DEF Containing
<1>4. ASSUME NEW s \in Slots, Containing = s
      PROVE  Owns(s, req.address)
  <2>1. s # NoSlot
    BY ConstantsAssumption DEF Slots, NoSlot
  <2>2. low # 0 /\ Before = s /\ req.address - data[s] < mapped[s]
    BY <1>4, <2>1, Zenon DEF Containing
  <2>3. s \in Listed /\ data[s] <= req.address
    BY <1>2, <2>2, Zenon
  <2>4. req.address < data[s] + mapped[s]
    BY <1>1, <2>2, CellFacts
  <2> QED BY <2>3, <2>4, Zenon DEF Owns, Listed
<1> QED BY <1>3, <1>4, Zenon

(***************************************************************************)
(* A search for the start of a listed buffer ends right after it.          *)
(***************************************************************************)
LEMMA StartFound ==
  ASSUME AInv, pc = "search", ~(low < high), NEW s \in Listed, data[s] = req.address
  PROVE  low # 0 /\ Cell(low - 1) /\ index[low - 1] = s
<1>1. low = high /\ low \in Nat /\ low <= count
  BY DEF AInv, Types, Narrowed
<1>2. s \in Slots /\ Owns(s, req.address)
  <2>1. s \in Live /\ ~Inserting(s) /\ s \in Slots /\ mapped[s] > 0
    BY CellFacts, Zenon DEF Listed, AInv, Apart
  <2> QED BY <2>1, CellFacts DEF Owns
<1>3. Containing = s
  BY <1>1, <1>2, OwnerFound, Zenon
<1>4. s # NoSlot
  BY <1>2, ConstantsAssumption DEF Slots, NoSlot
<1> QED BY <1>1, <1>3, <1>4, CellFacts DEF Containing, Before, Cell

-----------------------------------------------------------------------------
(***************************************************************************)
(* What is listed stays so while the table does not change.                *)
(***************************************************************************)
LEMMA TableKept ==
  ASSUME AInv, UNCHANGED table, \A s : ~Inserting(s), \A s : ~Inserting(s)'
  PROVE  Lists' /\ Apart'
<1>1. UNCHANGED <<data, mapped, index, count>>
  BY Zenon DEF table
<1>2. Live' = Live
  BY <1>1, Zenon DEF Live
<1>3. Listed' = Listed
  BY <1>2, Zenon DEF Listed
<1>4. \A k : Cell(k)' <=> Cell(k)
  BY <1>1, Zenon DEF Cell
<1>5. Ordered'
  BY <1>1, Zenon DEF AInv, Lists, Ordered
<1> QED BY <1>1, <1>2, <1>3, <1>4, <1>5, Zenon DEF AInv, Lists, Apart

(***************************************************************************)
(* A call that looks an address up begins; or a find turns into a removal. *)
(***************************************************************************)
LEMMA SearchKeeps ==
  ASSUME AInv, UNCHANGED table, \A s : ~Inserting(s),
         NEW op \in {"find", "remove", "fault", "prepare"}, NEW address \in Nat, NEW size \in Nat,
         NEW slot \in 0 .. MaxSlots, Search(op, address, size, slot),
         op = "remove" => slot \in Live /\ data[slot] = address
  PROVE  AInv'
<1>1. /\ pc' = "search" /\ low' = 0 /\ high' = count
      /\ req' = [op |-> op, address |-> address, size |-> size, slot |-> slot]
  BY Zenon DEF Search
<1>2. UNCHANGED <<data, mapped, index, count>>
  BY Zenon DEF table
<1>3. \A s : ~Inserting(s)'
  BY <1>1, Zenon DEF Inserting
<1>4. Lists' /\ Apart'
  BY <1>3, TableKept, Zenon
<1>5. Types'
  BY <1>1, <1>2, CellFacts, Zenon DEF AInv, Types
<1>6. Narrowed'
  BY <1>1, <1>2, CellFacts DEF Narrowed, Cell
<1>7. Asked'
  BY <1>1, <1>2, Zenon DEF Asked, Live
<1> QED BY <1>4, <1>5, <1>6, <1>7, Zenon DEF AInv

(***************************************************************************)
(* A call returns, or goes on to walk, with the table as it was.           *)
(***************************************************************************)
LEMMA LeaveKeeps ==
  ASSUME AInv, UNCHANGED table, \A s : ~Inserting(s), pc' \in {"idle", "walk"},
         req' \in {req, Nothing}, low' \in Nat, high' \in Nat
  PROVE  AInv'
<1>1. \A s : ~Inserting(s)'
  BY Zenon DEF Inserting
<1>2. Lists' /\ Apart'
  BY <1>1, TableKept, Zenon
<1>3. Types'
  BY ConstantsAssumption DEF AInv, Types, table, Nothing, NoSlot
<1> QED BY <1>2, <1>3, Zenon DEF AInv, Narrowed, Asked

(***************************************************************************)
(* af_alloc fills a slot whose buffer is not listed yet.                   *)
(***************************************************************************)
LEMMA AllocKeeps ==
  ASSUME AInv, NEW s \in Slots, NEW p \in Nat, p # 0, NEW n \in Nat, n > 0, AfAlloc(s, p, n)
  PROVE  AInv'
<1>1. /\ pc = "idle" /\ s \notin Live /\ FreeRange(p, n)
      /\ data' = [data EXCEPT ![s] = p] /\ mapped' = [mapped EXCEPT ![s] = n]
      /\ UNCHANGED <<index, count>>
  BY Zenon DEF AfAlloc
<1>2. /\ pc' = "search" /\ low' = 0 /\ high' = count
      /\ req' = [op |-> "insert", address |-> p, size |-> 0, slot |-> s]
  BY Zenon DEF AfAlloc, Search
<1>3. /\ \A t \in Slots : data'[t] = IF t = s THEN p ELSE data[t]
      /\ \A t \in Slots : mapped'[t] = IF t = s THEN n ELSE mapped[t]
      /\ data' \in [Slots -> Nat] /\ mapped' \in [Slots -> Nat]
  BY <1>1, Zenon DEF AInv, Types
<1>4. Live' = Live \cup {s}
  BY <1>3, Zenon DEF Live
<1>5. Listed = Live /\ Listed' = Live
  <2>1. \A t : ~Inserting(t) /\ (Inserting(t)' <=> t = s)
    BY <1>1, <1>2, Zenon DEF Inserting
  <2> QED BY <1>1, <1>4, <2>1, Zenon DEF Listed
<1>6. Types'
  BY <1>1, <1>2, <1>3, CellFacts DEF AInv, Types, Slots
<1>7. Lists'
  <2>1. \A k : Cell(k)' <=> Cell(k)
    BY <1>1, Zenon DEF Cell
  <2>2. Ordered'
    <3> SUFFICES ASSUME NEW j \in 0 .. count - 1, NEW k \in 0 .. count - 1, j < k
                 PROVE  data'[index[j]] + mapped'[index[j]] <= data'[index[k]]
      BY <1>1, Zenon DEF Ordered
    <3>1. Cell(j) /\ Cell(k)
      BY CellFacts DEF Cell
    <3>2. index[j] \in Live /\ index[k] \in Live /\ index[j] \in Slots /\ index[k] \in Slots
      BY <3>1, CellFacts, Zenon
    <3> QED BY <1>1, <1>3, <3>1, <3>2, CellsAscend, Zenon
  <2> QED BY <1>1, <1>5, <2>1, <2>2, Zenon DEF AInv, Lists
<1>8. Apart'
  <2>1. \A t \in Live : t \in Slots /\ t # s
    BY <1>1, CellFacts, Zenon
  <2> QED BY <1>1, <1>3, <1>4, <2>1 DEF AInv, Apart, FreeRange
<1>9. Narrowed'
  BY <1>1, <1>2, CellFacts DEF Narrowed, Cell
<1>10. Asked'
  BY <1>2, <1>3, <1>4, Zenon DEF Asked
<1> QED BY <1>6, <1>7, <1>8, <1>9, <1>10, Zenon DEF AInv

(***************************************************************************)
(* One iteration of the search.                                            *)
(***************************************************************************)
LEMMA BisectKeeps ==
  ASSUME AInv, Bisect
  PROVE  AInv'
<1>1. /\ pc = "search" /\ low < high
      /\ UNCHANGED <<data, mapped, index, count, pc, req>>
      /\ \/ data[index[Mid]] <= req.address /\ low' = Mid + 1 /\ high' = high
         \/ ~(data[index[Mid]] <= req.address) /\ high' = Mid /\ low' = low
  BY Zenon DEF Bisect, table
<1>2. low \in Nat /\ high \in Nat /\ high <= count /\ req.address \in Nat
  BY <1>1, Zenon DEF AInv, Types, Narrowed
<1>3. Mid \in Nat /\ low <= Mid /\ Mid < high
  BY <1>1, <1>2 DEF Mid
<1>4. Cell(Mid)
  BY <1>2, <1>3, CellFacts DEF Cell
<1> HIDE DEF Mid
<1>5. Types'
  BY <1>1, <1>2, <1>3 DEF AInv, Types
<1>6. Lists' /\ Apart' /\ Asked'
  <2>1. Live' = Live /\ (\A s : Inserting(s)' <=> Inserting(s)) /\ (\A k : Cell(k)' <=> Cell(k))
    BY <1>1, Zenon DEF Live, Inserting, Cell
  <2>2. Listed' = Listed
    BY <2>1, Zenon DEF Listed
  <2>3. Ordered'
    BY <1>1, Zenon DEF AInv, Lists, Ordered
  <2> QED BY <1>1, <2>1, <2>2, <2>3, Zenon DEF AInv, Lists, Apart, Asked
<1>7. Narrowed'
  <2>1. \A k : Cell(k)' <=> Cell(k)
    BY <1>1, Zenon DEF Cell
  <2>2. CASE data[index[Mid]] <= req.address /\ low' = Mid + 1 /\ high' = high
    <3>1. ASSUME NEW k, Cell(k), k < Mid + 1 PROVE data[index[k]] <= req.address
      <4>1. k \in Nat /\ k <= Mid
        BY <1>3, <3>1 DEF Cell
      <4>2. CASE k = Mid
        BY <2>2, <4>2, Zenon
      <4>3. CASE k < Mid
        BY <1>2, <1>4, <2>2, <3>1, <4>3, CellsAscend, CellFacts
      <4> QED BY <1>3, <4>1, <4>2, <4>3
    <3>2. Mid + 1 <= high /\ high <= count
      BY <1>2, <1>3
    <3>3. \A k : Cell(k) /\ high <= k => req.address < data[index[k]]
      BY <1>1, Zenon DEF AInv, Narrowed
    <3> QED BY <1>1, <2>1, <2>2, <3>1, <3>2, <3>3, Zenon DEF Narrowed
  <2>3. CASE ~(data[index[Mid]] <= req.address) /\ high' = Mid /\ low' = low
    <3>1. ASSUME NEW k, Cell(k), Mid <= k PROVE req.address < data[index[k]]
      <4>1. k \in Nat
        BY <3>1, Zenon DEF Cell
      <4>2. req.address < data[index[Mid]]
        BY <1>2, <1>4, <2>3, CellFacts
      <4>3. CASE k = Mid
        BY <4>2, <4>3, Zenon
      <4>4. CASE Mid < k
        BY <1>2, <1>4, <3>1, <4>2, <4>4, CellsAscend, CellFacts
      <4> QED BY <1>3, <3>1, <4>1, <4>3, <4>4
    <3>2. low <= Mid /\ Mid <= count
      BY <1>2, <1>3, CellFacts
    <3>3. \A k : Cell(k) /\ k < low => data[index[k]] <= req.address
      BY <1>1, Zenon DEF AInv, Narrowed
    <3> QED BY <1>1, <2>1, <2>3, <3>1, <3>2, <3>3, Zenon DEF Narrowed
  <2> QED BY <1>1, <2>2, <2>3, Zenon
<1> QED BY <1>5, <1>6, <1>7, Zenon DEF AInv

(***************************************************************************)
(* There is room in the index for a buffer that is being inserted.         *)
(***************************************************************************)
LEMMA RoomToInsert ==
  ASSUME AInv, NEW s \in Slots, s \notin Listed
  PROVE  count < MaxSlots
<1>1. IsFiniteSet(Slots) /\ Cardinality(Slots) = MaxSlots
  <2>1. 1 \in Int /\ MaxSlots \in Int /\ MaxSlots \in Nat \ {0}
    BY ConstantsAssumption
  <2>2. IsFiniteSet(1 .. MaxSlots)
        /\ Cardinality(1 .. MaxSlots) = IF 1 > MaxSlots THEN 0 ELSE MaxSlots - 1 + 1
    BY <2>1, FS_Interval, Zenon
  <2> QED BY <2>1, <2>2 DEF Slots
<1>2. Listed \subseteq Slots \ {s}
  BY CellFacts, Zenon DEF Listed
<1>3. IsFiniteSet(Slots \ {s}) /\ Cardinality(Slots \ {s}) = MaxSlots - 1
  BY <1>1, FS_RemoveElement, Zenon
<1>4. Cardinality(Listed) <= Cardinality(Slots \ {s})
  BY <1>2, <1>3, FS_Subset, Zenon
<1>5. Cardinality(Listed) = count
  BY Zenon DEF AInv, Lists
<1> QED BY <1>3, <1>4, <1>5, CellFacts

(***************************************************************************)
(* index_insert puts the buffer where the search ended.                    *)
(***************************************************************************)
LEMMA InsertKeeps ==
  ASSUME AInv, IndexInsert
  PROVE  AInv'
<1> DEFINE new == req.slot
<1>1. /\ pc = "search" /\ ~(low < high) /\ req.op = "insert"
      /\ index' = [k \in Cells |-> IF k = low THEN new
                                   ELSE IF low < k /\ k <= count THEN index[k - 1] ELSE index[k]]
      /\ count' = count + 1 /\ pc' = "idle" /\ req' = Nothing /\ low' = 0 /\ high' = 0
      /\ UNCHANGED <<data, mapped>>
  BY Zenon DEF IndexInsert, Found, Return
<1>2. low = high /\ low \in Nat /\ low <= count
  BY <1>1 DEF AInv, Types, Narrowed
<1>3. new \in Live /\ data[new] = req.address /\ new \in Slots /\ new \notin Listed
  BY <1>1, CellFacts, Zenon DEF AInv, Asked, Listed, Inserting
<1>4. count < MaxSlots
  BY <1>3, RoomToInsert, Zenon
<1>5. Live' = Live /\ Listed' = Live /\ Live = Listed \cup {new}
  <2>1. Live' = Live
    BY <1>1, Zenon DEF Live
  <2>2. \A s : ~Inserting(s)' /\ (Inserting(s) <=> s = new)
    BY <1>1, Zenon DEF Inserting
  <2> QED BY <1>3, <2>1, <2>2, Zenon DEF Listed
<1> HIDE DEF new
<1>6. \A k : Cell(k)' <=> k \in Nat /\ k <= count
  BY <1>1, CellFacts DEF Cell
<1>7. \A k \in Nat : k <= count =>
        /\ k < low => Cell(k) /\ index'[k] = index[k]
        /\ k = low => index'[k] = new
        /\ low < k => Cell(k - 1) /\ k - 1 >= low /\ index'[k] = index[k - 1]
  <2> SUFFICES ASSUME NEW k \in Nat, k <= count
               PROVE  /\ k < low => Cell(k) /\ index'[k] = index[k]
                      /\ k = low => index'[k] = new
                      /\ low < k => Cell(k - 1) /\ k - 1 >= low /\ index'[k] = index[k - 1]
    BY Zenon
  <2>1. k \in Cells
    BY <1>4, CellFacts DEF Cells
  <2>2. index'[k] = IF k = low THEN new
                    ELSE IF low < k /\ k <= count THEN index[k - 1] ELSE index[k]
    BY <1>1, <2>1, Zenon
  <2> QED BY <1>2, <2>2, CellFacts DEF Cell
<1>8. Types'
  <2>1. index' \in [Cells -> 0 .. MaxSlots]
    <3>1. \A k \in Cells : low < k /\ k <= count => k - 1 \in Cells
      BY <1>2, CellFacts DEF Cells
    <3>2. new \in 0 .. MaxSlots
      BY <1>3, CellFacts DEF Slots
    <3> QED BY <1>1, <3>1, <3>2, Zenon DEF AInv, Types
  <2>2. count' \in 0 .. MaxSlots
    BY <1>1, <1>4, CellFacts
  <2> QED BY <1>1, <2>1, <2>2, CellFacts DEF AInv, Types, Nothing, NoSlot
<1>9. \A k : Cell(k) /\ k < low => data[index[k]] + mapped[index[k]] <= data[new]
  <2> SUFFICES ASSUME NEW k, Cell(k), k < low
               PROVE  data[index[k]] + mapped[index[k]] <= data[new]
    BY Zenon
  <2>1. index[k] \in Live /\ index[k] \in Slots /\ index[k] # new /\ data[index[k]] <= data[new]
    BY <1>1, <1>3, CellFacts, Zenon DEF AInv, Narrowed, Lists
  <2>2. mapped[new] > 0
    BY <1>3, Zenon DEF AInv, Apart
  <2>3. \/ data[index[k]] + mapped[index[k]] <= data[new]
        \/ data[new] + mapped[new] <= data[index[k]]
    BY <1>3, <2>1, Zenon DEF AInv, Apart
  <2> QED BY <1>3, <2>1, <2>2, <2>3, CellFacts
<1>10. \A k : Cell(k) /\ low <= k => data[new] + mapped[new] <= data[index[k]]
  <2> SUFFICES ASSUME NEW k, Cell(k), low <= k
               PROVE  data[new] + mapped[new] <= data[index[k]]
    BY Zenon
  <2>1. index[k] \in Live /\ index[k] \in Slots /\ index[k] # new /\ data[new] < data[index[k]]
    BY <1>1, <1>2, <1>3, CellFacts, Zenon DEF AInv, Narrowed, Lists
  <2>2. \/ data[index[k]] + mapped[index[k]] <= data[new]
        \/ data[new] + mapped[new] <= data[index[k]]
    BY <1>3, <2>1, Zenon DEF AInv, Apart
  <2> QED BY <1>3, <2>1, <2>2, CellFacts
<1>11. Ordered'
  <2> SUFFICES ASSUME NEW j \in 0 .. count, NEW k \in 0 .. count, j < k
               PROVE  data[index'[j]] + mapped[index'[j]] <= data[index'[k]]
    BY <1>1, CellFacts DEF Ordered
  <2>1. j \in Nat /\ k \in Nat /\ j <= count /\ k <= count
    BY CellFacts
  <2>2. CASE k < low
    <3>1. Cell(j) /\ Cell(k) /\ index'[j] = index[j] /\ index'[k] = index[k]
      BY <1>2, <1>7, <2>1, <2>2
    <3> QED BY <3>1, CellsAscend, Zenon
  <2>3. CASE k = low
    <3>1. Cell(j) /\ j < low /\ index'[j] = index[j] /\ index'[k] = new
      BY <1>2, <1>7, <2>1, <2>3, Zenon
    <3> QED BY <1>9, <3>1, Zenon
  <2>4. CASE low < k /\ j < low
    <3>1. /\ Cell(j) /\ Cell(k - 1) /\ j < k - 1
          /\ index'[j] = index[j] /\ index'[k] = index[k - 1]
      BY <1>2, <1>7, <2>1, <2>4
    <3> QED BY <3>1, CellsAscend, Zenon
  <2>5. CASE low < k /\ j = low
    <3>1. Cell(k - 1) /\ low <= k - 1 /\ index'[j] = new /\ index'[k] = index[k - 1]
      BY <1>2, <1>7, <2>1, <2>5, Zenon
    <3> QED BY <1>10, <3>1, Zenon
  <2>6. CASE low < j
    <3>1. /\ Cell(j - 1) /\ Cell(k - 1) /\ j - 1 < k - 1
          /\ index'[j] = index[j - 1] /\ index'[k] = index[k - 1]
      BY <1>2, <1>7, <2>1, <2>6
    <3> QED BY <3>1, CellsAscend, Zenon
  <2> QED BY <1>2, <2>1, <2>2, <2>3, <2>4, <2>5, <2>6
<1>12. \A k : Cell(k)' => index'[k] \in Listed'
  <2> SUFFICES ASSUME NEW k \in Nat, k <= count PROVE index'[k] \in Live
    BY <1>5, <1>6, Zenon
  <2>1. CASE k < low
    BY <1>7, <2>1, CellFacts, Zenon
  <2>2. CASE k = low
    BY <1>3, <1>7, <2>2, Zenon
  <2>3. CASE low < k
    BY <1>7, <2>3, CellFacts, Zenon
  <2> QED BY <1>2, <2>1, <2>2, <2>3
<1>13. ASSUME NEW s \in Listed' PROVE \E k : Cell(k)' /\ index'[k] = s
  <2>1. CASE s = new
    BY <1>2, <1>6, <1>7, <2>1, Zenon
  <2>2. CASE s \in Listed
    <3>1. PICK k : Cell(k) /\ index[k] = s
      BY <2>2, Zenon DEF AInv, Lists
    <3>2. k \in Nat /\ k < count
      BY <3>1, Zenon DEF Cell
    <3>3. CASE k < low
      <4>1. k <= count /\ index'[k] = s
        BY <1>7, <3>1, <3>2, <3>3, CellFacts
      <4> QED BY <1>6, <3>2, <4>1, Zenon
    <3>4. CASE low <= k
      <4>1. k + 1 \in Nat /\ k + 1 <= count /\ low < k + 1 /\ (k + 1) - 1 = k
        BY <1>2, <3>2, <3>4, CellFacts
      <4>2. index'[k + 1] = s
        BY <1>7, <3>1, <4>1, Zenon
      <4> QED BY <1>6, <4>1, <4>2, Zenon
    <3> QED BY <1>2, <3>2, <3>3, <3>4
  <2> QED BY <1>5, <2>1, <2>2, Zenon
<1>14. IsFiniteSet(Listed') /\ Cardinality(Listed') = count'
  <2>1. IsFiniteSet(Listed) /\ Cardinality(Listed) = count
    BY Zenon DEF AInv, Lists
  <2>2. IsFiniteSet(Listed \cup {new}) /\ Cardinality(Listed \cup {new}) = count + 1
    BY <1>3, <2>1, FS_AddElement, Zenon
  <2> QED BY <1>1, <1>5, <2>2, Zenon
<1>15. Lists'
  BY <1>11, <1>12, <1>13, <1>14, Zenon DEF Lists
<1>16. Apart' /\ Narrowed' /\ Asked'
  BY <1>1, <1>5, Zenon DEF AInv, Apart, Narrowed, Asked
<1> QED BY <1>8, <1>15, <1>16, Zenon DEF AInv

(***************************************************************************)
(* index_remove finds the buffer right before the position searched for,   *)
(* and closes the gap.                                                     *)
(***************************************************************************)
LEMMA RemoveKeeps ==
  ASSUME AInv, IndexRemove
  PROVE  AInv'
<1> DEFINE old == req.slot
           at == low - 1
<1>1. pc = "search" /\ ~(low < high) /\ req.op = "remove"
  BY Zenon DEF IndexRemove, Found
<1>2. Listed = Live /\ old \in Listed /\ data[old] = req.address /\ old \in Slots
  <2>1. \A s : ~Inserting(s)
    BY <1>1, Zenon DEF Inserting
  <2> QED BY <1>1, <2>1, CellFacts, Zenon DEF AInv, Asked, Listed
<1>3. low # 0 /\ Cell(at) /\ index[at] = old
  BY <1>1, <1>2, StartFound, Zenon
<1>4. /\ index' = [k \in Cells |-> IF at <= k /\ k < count - 1 THEN index[k + 1] ELSE index[k]]
      /\ count' = count - 1
      /\ data' = [data EXCEPT ![old] = 0] /\ mapped' = [mapped EXCEPT ![old] = 0]
      /\ pc' = "idle" /\ req' = Nothing /\ low' = 0 /\ high' = 0
  BY <1>2, <1>3, Zenon DEF IndexRemove, Before, Return
<1>5. at \in Nat /\ at < count
  BY <1>3, Zenon DEF Cell
<1> HIDE DEF old, at
<1>6. /\ \A s \in Slots : s # old => data'[s] = data[s] /\ mapped'[s] = mapped[s]
      /\ data'[old] = 0 /\ data' \in [Slots -> Nat] /\ mapped' \in [Slots -> Nat]
  BY <1>2, <1>4, Zenon DEF AInv, Types
<1>7. Live' = Listed \ {old} /\ Listed' = Listed \ {old}
  <2>1. Live' = Live \ {old}
    BY <1>6, Zenon DEF Live
  <2>2. \A s : ~Inserting(s)'
    BY <1>4, Zenon DEF Inserting
  <2> QED BY <1>2, <2>1, <2>2, Zenon DEF Listed
<1>8. \A k : Cell(k)' <=> k \in Nat /\ k < count - 1
  BY <1>4, Zenon DEF Cell
<1>9. \A k \in Nat : k < count - 1 =>
        /\ k < at => Cell(k) /\ index'[k] = index[k]
        /\ at <= k => Cell(k + 1) /\ index'[k] = index[k + 1]
  <2> SUFFICES ASSUME NEW k \in Nat, k < count - 1
               PROVE  /\ k < at => Cell(k) /\ index'[k] = index[k]
                      /\ at <= k => Cell(k + 1) /\ index'[k] = index[k + 1]
    BY Zenon
  <2>1. k \in Cells
    BY CellFacts DEF Cells
  <2>2. index'[k] = IF at <= k /\ k < count - 1 THEN index[k + 1] ELSE index[k]
    BY <1>4, <2>1, Zenon
  <2> QED BY <1>5, <2>2, CellFacts DEF Cell
<1>10. \A k : Cell(k) /\ k # at => index[k] # old /\ index[k] \in Slots /\ index[k] \in Listed
  <2> SUFFICES ASSUME NEW k, Cell(k), k # at
               PROVE  index[k] # old /\ index[k] \in Slots /\ index[k] \in Listed
    BY Zenon
  <2>1. k \in Nat /\ (k < at \/ at < k)
    BY <1>5 DEF Cell
  <2>2. index[k] # index[at]
    BY <1>3, <2>1, CellsAscend, Zenon
  <2> QED BY <1>3, <2>2, CellFacts, Zenon DEF AInv, Lists
<1>11. Types'
  <2>1. index' \in [Cells -> 0 .. MaxSlots]
    <3>1. \A k \in Cells : k < count - 1 => k + 1 \in Cells
      BY CellFacts DEF Cells
    <3> QED BY <1>4, <3>1, Zenon DEF AInv, Types
  <2>2. count' \in 0 .. MaxSlots
    BY <1>4, <1>5, CellFacts
  <2> QED BY <1>4, <1>6, <2>1, <2>2, CellFacts DEF Types, Nothing, NoSlot
<1>12. \A k \in Nat : k < count - 1 => index'[k] # old /\ index'[k] \in Slots /\ index'[k] \in Listed
  <2> SUFFICES ASSUME NEW k \in Nat, k < count - 1
               PROVE  index'[k] # old /\ index'[k] \in Slots /\ index'[k] \in Listed
    BY Zenon
  <2>1. CASE k < at
    BY <1>5, <1>9, <1>10, <2>1
  <2>2. CASE at <= k
    <3>1. Cell(k + 1) /\ k + 1 # at /\ index'[k] = index[k + 1]
      BY <1>5, <1>9, <2>2
    <3> QED BY <1>10, <3>1, Zenon
  <2> QED BY <1>5, <2>1, <2>2
<1>13. Ordered'
  <2> SUFFICES ASSUME NEW j \in 0 .. count - 2, NEW k \in 0 .. count - 2, j < k
               PROVE  data'[index'[j]] + mapped'[index'[j]] <= data'[index'[k]]
    BY <1>4, CellFacts DEF Ordered
  <2>1. j \in Nat /\ k \in Nat /\ j < count - 1 /\ k < count - 1
    BY CellFacts
  <2>2. data[index'[j]] + mapped[index'[j]] <= data[index'[k]]
    <3>1. CASE k < at
      BY <1>5, <1>9, <2>1, <3>1, CellsAscend
    <3>2. CASE at <= k /\ j < at
      <4>1. Cell(j) /\ Cell(k + 1) /\ j < k + 1 /\ index'[j] = index[j] /\ index'[k] = index[k + 1]
        BY <1>5, <1>9, <2>1, <3>2
      <4> QED BY <4>1, CellsAscend, Zenon
    <3>3. CASE at <= j
      <4>1. /\ Cell(j + 1) /\ Cell(k + 1) /\ j + 1 < k + 1
            /\ index'[j] = index[j + 1] /\ index'[k] = index[k + 1]
        BY <1>5, <1>9, <2>1, <3>3
      <4> QED BY <4>1, CellsAscend, Zenon
    <3> QED BY <1>5, <2>1, <3>1, <3>2, <3>3
  <2> QED BY <1>6, <1>12, <2>1, <2>2, Zenon
<1>14. \A k : Cell(k)' => index'[k] \in Listed'
  BY <1>7, <1>8, <1>12, Zenon
<1>15. ASSUME NEW s \in Listed' PROVE \E k : Cell(k)' /\ index'[k] = s
  <2>1. s \in Listed /\ s # old
    BY <1>7, Zenon
  <2>2. PICK k : Cell(k) /\ index[k] = s
    BY <2>1, Zenon DEF AInv, Lists
  <2>3. k \in Nat /\ k < count /\ k # at
    BY <1>3, <2>1, <2>2, Zenon DEF Cell
  <2>4. CASE k < at
    <3>1. k < count - 1
      BY <1>5, <2>3, <2>4, CellFacts
    <3> QED BY <1>8, <1>9, <2>2, <2>3, <2>4, <3>1, Zenon
  <2>5. CASE at < k
    <3>1. k - 1 \in Nat /\ k - 1 < count - 1 /\ at <= k - 1 /\ (k - 1) + 1 = k
      BY <1>5, <2>3, <2>5, CellFacts
    <3>2. index'[k - 1] = s
      BY <1>9, <2>2, <3>1, Zenon
    <3> QED BY <1>8, <3>1, <3>2, Zenon
  <2> QED BY <1>5, <2>3, <2>4, <2>5
<1>16. IsFiniteSet(Listed') /\ Cardinality(Listed') = count'
  <2>1. IsFiniteSet(Listed) /\ Cardinality(Listed) = count
    BY Zenon DEF AInv, Lists
  <2>2. IsFiniteSet(Listed \ {old}) /\ Cardinality(Listed \ {old}) = count - 1
    BY <1>2, <2>1, FS_RemoveElement, Zenon
  <2> QED BY <1>4, <1>7, <2>2, Zenon
<1>17. Lists'
  BY <1>13, <1>14, <1>15, <1>16, Zenon DEF Lists
<1>18. Apart'
  <2>1. \A s \in Live' : s \in Live /\ s \in Slots /\ s # old
    BY <1>2, <1>7, CellFacts, Zenon
  <2> QED BY <1>6, <2>1, Zenon DEF AInv, Apart
<1>19. Narrowed' /\ Asked'
  BY <1>4, Zenon DEF Narrowed, Asked
<1> QED BY <1>11, <1>17, <1>18, <1>19, Zenon DEF AInv

-----------------------------------------------------------------------------
(***************************************************************************)
(* Every step keeps the invariant.                                         *)
(***************************************************************************)
LEMMA StepKeeps ==
  ASSUME AInv, [Next]_vars
  PROVE  AInv'
<1>1. ASSUME NEW s \in Slots, NEW p \in Mapping, NEW n \in 1 .. MaxLength, AfAlloc(s, p, n * PAGE)
      PROVE  AInv'
  <2>1. p \in Nat /\ p # 0 /\ n * PAGE \in Nat /\ n * PAGE > 0
    BY ConstantsAssumption DEF Mapping, Address
  <2> QED BY <1>1, <2>1, AllocKeeps, Zenon
<1>2. pc = "idle" => \A s : ~Inserting(s)
  BY Zenon DEF Inserting
<1>3. \A a \in Address : a \in Nat
  BY ConstantsAssumption DEF Address
<1>4. NoSlot \in 0 .. MaxSlots
  BY ConstantsAssumption DEF NoSlot
<1>5. ASSUME NEW a \in Address, AfFree(a) PROVE AInv'
  BY <1>2, <1>3, <1>4, <1>5, SearchKeeps, Zenon DEF AfFree, table
<1>6. ASSUME NEW a \in Address, Fault(a) PROVE AInv'
  BY <1>2, <1>3, <1>4, <1>6, SearchKeeps, Zenon DEF Fault, table
<1>7. ASSUME NEW a \in Address, NEW n \in 1 .. Word, Prepare(a, n) PROVE AInv'
  BY <1>2, <1>3, <1>4, <1>7, n \in Nat, SearchKeeps, Zenon DEF Prepare, table
<1>8. CASE Find
  <2>1. pc = "search" /\ ~(low < high) /\ req.op = "find" /\ UNCHANGED table
    BY <1>8, Zenon DEF Find, Found
  <2>2. (\A s : ~Inserting(s)) /\ req.address \in Nat
    BY <2>1, Zenon DEF Inserting, AInv, Types
  <2>3. CASE Return
    BY <2>1, <2>2, <2>3, LeaveKeeps, Zenon DEF Return
  <2>4. CASE /\ Containing # NoSlot /\ data[Containing] = req.address
             /\ Search("remove", req.address, 0, Containing)
    <3>1. Containing = Before /\ low # 0
      BY <2>4, Zenon DEF Containing
    <3>2. Cell(low - 1)
      BY <2>1, <3>1, CellFacts DEF AInv, Types, Narrowed, Cell
    <3>3. Containing \in Live /\ Containing \in 0 .. MaxSlots
      BY <3>1, <3>2, CellFacts DEF Before, Slots
    <3> QED BY <2>1, <2>2, <2>4, <3>3, SearchKeeps, Zenon
  <2> QED BY <1>8, <2>3, <2>4, Zenon DEF Find
<1>9. CASE Faulted
  <2>1. req.op = "fault" /\ UNCHANGED table
    BY <1>9, Zenon DEF Faulted, Found
  <2>2. \A s : ~Inserting(s)
    BY <2>1, Zenon DEF Inserting
  <2> QED BY <1>9, <2>1, <2>2, LeaveKeeps, Zenon DEF Faulted, Return
<1>10. CASE Prepared
  <2>1. /\ req.op = "prepare" /\ UNCHANGED table /\ pc' = "walk"
        /\ req' = req /\ low' \in Nat /\ high' \in Nat
    BY <1>10, Zenon DEF Prepared, Found, search, AInv, Types
  <2>2. \A s : ~Inserting(s)
    BY <2>1, Zenon DEF Inserting
  <2> QED BY <2>1, <2>2, LeaveKeeps, Zenon
<1>11. CASE Walk
  <2>1. pc = "walk" /\ UNCHANGED table
    BY <1>11, Zenon DEF Walk
  <2>2. pc' \in {"idle", "walk"} /\ req' \in {req, Nothing} /\ low' \in Nat /\ high' \in Nat
    BY <1>11, <2>1 DEF Walk, Return, search, AInv, Types
  <2>3. \A s : ~Inserting(s)
    BY <2>1, Zenon DEF Inserting
  <2> QED BY <2>1, <2>2, <2>3, LeaveKeeps, Zenon
<1>12. CASE UNCHANGED vars
  <2>1. UNCHANGED <<data, mapped, index, count, pc, req, low, high>>
    BY <1>12, Zenon DEF vars, table, search
  <2>2. Live' = Live /\ (\A s : Inserting(s)' <=> Inserting(s)) /\ (\A k : Cell(k)' <=> Cell(k))
    BY <2>1, Zenon DEF Live, Inserting, Cell
  <2>3. Listed' = Listed
    BY <2>2, Zenon DEF Listed
  <2>4. Ordered'
    BY <2>1, Zenon DEF AInv, Lists, Ordered
  <2> QED BY <2>1, <2>2, <2>3, <2>4, Zenon DEF AInv, Types, Lists, Apart, Narrowed, Asked
<1> QED BY <1>1, <1>5, <1>6, <1>7, <1>8, <1>9, <1>10, <1>11, <1>12, BisectKeeps, InsertKeeps,
           RemoveKeeps, Zenon DEF Next

(***************************************************************************)
(* The invariant in every state.                                           *)
(***************************************************************************)
LEMMA IndexInvariant == Spec => []AInv
<1>1. Init => AInv
  <2> SUFFICES ASSUME Init PROVE AInv
    BY Zenon
  <2>1. Live = {} /\ Listed = {} /\ count = 0 /\ pc = "idle"
    BY Zenon DEF Init, Live, Listed
  <2>2. Types
    BY ConstantsAssumption DEF Init, Types, Nothing, NoSlot
  <2>3. Lists
    <3>1. \A k : ~Cell(k)
      BY <2>1 DEF Cell
    <3>2. Ordered
      BY <2>1 DEF Ordered
    <3>3. IsFiniteSet({}) /\ Cardinality({}) = 0
      BY FS_EmptySet, Zenon
    <3> QED BY <2>1, <3>1, <3>2, <3>3, Zenon DEF Lists
  <2> QED BY <2>1, <2>2, <2>3, Zenon DEF AInv, Apart, Narrowed, Asked
<1>2. AInv /\ [Next]_vars => AInv'
  BY StepKeeps, Zenon
<1> QED BY <1>1, <1>2, PTL DEF Spec

(***************************************************************************)
(* The index lists exactly the live buffers, in order and without overlap. *)
(***************************************************************************)
THEOREM IndexIsExact == Spec => []IndexExact
<1>1. AInv => IndexExact
  <2> SUFFICES ASSUME AInv PROVE {index[k] : k \in 0 .. count - 1} = Listed
    BY Zenon DEF IndexExact, Listed, AInv, Lists
  <2>1. \A k : k \in 0 .. count - 1 <=> Cell(k)
    BY CellFacts DEF Cell
  <2> QED BY <2>1, Zenon DEF AInv, Lists
<1> QED BY <1>1, IndexInvariant, PTL

(***************************************************************************)
(* A finished search names the buffer that owns the address, or none.      *)
(***************************************************************************)
THEOREM SearchFindsOwner == Spec => []OwnerIsContainer
<1>1. AInv => OwnerIsContainer
  BY OwnerFound, Zenon DEF OwnerIsContainer
<1> QED BY <1>1, IndexInvariant, PTL

(***************************************************************************)
(* index_remove never calls abort().                                       *)
(***************************************************************************)
THEOREM RemoveNeverAborts == Spec => []NeverAborts
<1>1. AInv => NeverAborts
  BY Zenon DEF AInv, Types, NeverAborts
<1> QED BY <1>1, IndexInvariant, PTL

-----------------------------------------------------------------------------
(***************************************************************************)
(* The walk of prepare.  Live buffers are whole pages within the address   *)
(* space.  What has been covered are the pages touched of the buffers      *)
(* passed, and every buffer still to come ends after the range's start.    *)
(***************************************************************************)
Sized ==
  \A s \in Live : data[s] + mapped[s] < Word /\ \E n \in Nat : mapped[s] = n * PAGE

Passed(s) == \E k : Cell(k) /\ k < pos /\ index[k] = s

Walking ==
  pc = "walk" =>
    /\ pos \in Nat
    /\ \A k : Cell(k) /\ pos <= k => req.address < data[index[k]] + mapped[index[k]]
    /\ \A x : x \in covered <=> x \in Touched /\ Passed(x[1])

(* Pages of a number of addresses, rounded down and up. *)
LEMMA PageDivision ==
  ASSUME NEW x \in Nat, NEW p \in Nat
  PROVE  /\ x \div PAGE \in Nat /\ Rounded(x) \in Int
         /\ x \div PAGE <= p <=> x < (p + 1) * PAGE
         /\ p < Rounded(x) <=> p * PAGE < x
         /\ (p + 1) * PAGE = p * PAGE + PAGE /\ p * PAGE \in Nat /\ p <= p * PAGE
<1>1. PAGE \in Nat /\ PAGE > 0
  BY ConstantsAssumption
<1>2. (p + 1) * PAGE = p * PAGE + PAGE /\ p * PAGE \in Nat /\ p <= p * PAGE
  BY <1>1
<1>3. x \div PAGE \in Nat
  BY <1>1
<1>4. x \div PAGE <= p <=> x < (p + 1) * PAGE
  BY <1>1
<1>5. x + PAGE - 1 \in Nat
  BY <1>1
<1>6. Rounded(x) \in Int
  BY <1>1, <1>5 DEF Rounded
<1>7. Rounded(x) <= p <=> x + PAGE - 1 < (p + 1) * PAGE
  BY <1>1, <1>5 DEF Rounded
<1>8. p < Rounded(x) <=> p * PAGE < x
  BY <1>1, <1>2, <1>6, <1>7
<1> QED BY <1>2, <1>3, <1>4, <1>6, <1>8

LEMMA WholePages ==
  ASSUME NEW n \in Nat, NEW p \in Nat
  PROVE  p * PAGE < n * PAGE <=> (p + 1) * PAGE <= n * PAGE
<1>1. PAGE \in Nat /\ PAGE > 0
  BY ConstantsAssumption
<1>2. CASE p < n
  <2>1. p + 1 <= n
    BY <1>2
  <2>2. \A m \in Nat : (p + 1 + m) * PAGE = (p + 1) * PAGE + m * PAGE /\ m * PAGE \in Nat
    BY <1>1
  <2>3. PICK m \in Nat : n = p + 1 + m
    <3>1. n - p - 1 \in Nat /\ n = p + 1 + (n - p - 1)
      BY <2>1
    <3> QED BY <3>1
  <2>4. n * PAGE = (p + 1) * PAGE + m * PAGE /\ m * PAGE \in Nat
    BY <2>2, <2>3
  <2>5. (p + 1) * PAGE = p * PAGE + PAGE /\ p * PAGE \in Nat
    BY <1>1
  <2> QED BY <1>1, <2>4, <2>5
<1>3. CASE ~(p < n)
  <2>1. PICK m \in Nat : p = n + m
    <3>1. p - n \in Nat /\ p = n + (p - n)
      BY <1>3
    <3> QED BY <3>1
  <2>2. (n + m) * PAGE = n * PAGE + m * PAGE /\ m * PAGE \in Nat /\ n * PAGE \in Nat
    BY <1>1
  <2>3. p * PAGE = n * PAGE + m * PAGE
    BY <2>1, <2>2
  <2>4. (p + 1) * PAGE = p * PAGE + PAGE
    BY <1>1
  <2> QED BY <1>1, <2>2, <2>3, <2>4
<1> QED BY <1>2, <1>3

(* What prepare materializes of a buffer the range overlaps. *)
LEMMA PagesTouched ==
  ASSUME NEW s, data[s] \in Nat, mapped[s] \in Nat, req.address \in Nat, req.size \in Nat,
         NEW n \in Nat, mapped[s] = n * PAGE, data[s] + mapped[s] < Word,
         data[s] < req.address + req.size, req.address < data[s] + mapped[s]
  PROVE  \A p : p \in PagesOf(s) <=> p \in 0 .. Word /\ Touches(s, p)
<1> DEFINE x == Later(req.address, data[s]) - data[s]
           y == Sooner(req.address + req.size, data[s] + mapped[s]) - data[s]
<1>1. x \in Nat /\ y \in Nat
  BY DEF Later, Sooner
<1>2. \A z \in Nat : x < z <=> (0 < z /\ req.address < data[s] + z)
  BY DEF Later
<1>3. \A z \in Nat : z < y <=> (data[s] + z < req.address + req.size /\ z < mapped[s])
  BY DEF Sooner
<1>4. PagesOf(s) = (x \div PAGE) .. (Rounded(y) - 1)
  BY Zenon DEF PagesOf
<1> HIDE DEF x, y
<1>5. x \div PAGE \in Nat /\ Rounded(y) \in Int /\ Word \in Nat /\ PAGE \in Nat /\ PAGE > 0
  <2>1. 0 \in Nat
    OBVIOUS
  <2>2. x \div PAGE \in Nat /\ Rounded(y) \in Int
    BY <1>1, <2>1, PageDivision, Zenon
  <2> QED BY <2>2, ConstantsAssumption
<1>6. ASSUME NEW p \in Nat
      PROVE  p \in PagesOf(s) <=> Touches(s, p)
  <2>1. /\ x \div PAGE <= p <=> x < (p + 1) * PAGE
        /\ p < Rounded(y) <=> p * PAGE < y
        /\ (p + 1) * PAGE = p * PAGE + PAGE /\ p * PAGE \in Nat
    BY <1>1, PageDivision, Zenon
  <2>2. p \in PagesOf(s) <=> x < (p + 1) * PAGE /\ p * PAGE < y
    BY <1>4, <1>5, <2>1
  <2>3. (p + 1) * PAGE \in Nat /\ 0 < (p + 1) * PAGE
    BY <1>5, <2>1
  <2>4. x < (p + 1) * PAGE <=> req.address < data[s] + (p + 1) * PAGE
    BY <1>2, <2>3, Zenon
  <2>5. p * PAGE < y <=> (data[s] + p * PAGE < req.address + req.size /\ p * PAGE < mapped[s])
    BY <1>3, <2>1
  <2>6. p * PAGE < mapped[s] <=> (p + 1) * PAGE <= mapped[s]
    BY WholePages
  <2> QED BY <2>2, <2>4, <2>5, <2>6, Zenon DEF Touches
<1>7. \A p : p \in PagesOf(s) => p \in Nat
  BY <1>4, <1>5
<1>8. ASSUME NEW p \in Nat, Touches(s, p) PROVE p \in 0 .. Word
  <2>1. (p + 1) * PAGE <= mapped[s]
    BY <1>8 DEF Touches
  <2>2. (p + 1) * PAGE = p * PAGE + PAGE /\ p * PAGE \in Nat /\ p <= p * PAGE
    BY PageDivision, Zenon
  <2> QED BY <1>5, <2>1, <2>2
<1>9. \A p \in 0 .. Word : p \in Nat
  OBVIOUS
<1> QED BY <1>6, <1>7, <1>8, <1>9, Zenon

(* The pages touched of a buffer lie between its ends and in the range. *)
LEMMA TouchedOverlaps ==
  ASSUME AInv, NEW x \in Touched
  PROVE  /\ x[1] \in Live /\ x = <<x[1], x[2]>> /\ x[2] \in Nat
         /\ data[x[1]] < req.address + req.size /\ req.address < data[x[1]] + mapped[x[1]]
<1>1. x \in Live \X (0 .. Word) /\ Touches(x[1], x[2])
  BY DEF Touched
<1>2. x[1] \in Live /\ x = <<x[1], x[2]>> /\ x[2] \in Nat
  BY <1>1
<1>3. data[x[1]] \in Nat /\ mapped[x[1]] \in Nat /\ req.address \in Nat /\ req.size \in Nat
  BY <1>2, CellFacts DEF AInv, Types
<1>4. (x[2] + 1) * PAGE \in Nat /\ x[2] * PAGE \in Nat
  BY <1>2, ConstantsAssumption
<1> QED BY <1>1, <1>2, <1>3, <1>4 DEF Touches

(***************************************************************************)
(* The walk starts at the buffer the range starts in, or at the first that *)
(* starts after it: what it leaves out ends before the range.              *)
(***************************************************************************)
LEMMA WalkStarts ==
  ASSUME AInv, Prepared
  PROVE  Walking'
<1>1. /\ pc = "search" /\ ~(low < high) /\ covered' = {} /\ UNCHANGED <<data, mapped, index, count, req>>
      /\ pos' = IF Containing # NoSlot THEN low - 1 ELSE low
  BY DEF Prepared, Found, table, search
<1>2. low \in Nat /\ high \in Nat /\ low = high /\ low <= count /\ req.address \in Nat
  BY <1>1 DEF AInv, Types, Narrowed
<1>3. Containing # NoSlot => low # 0 /\ Containing = Before /\ req.address - data[Before] < mapped[Before]
  BY DEF Containing
<1>4. low # 0 => Cell(low - 1) /\ Before \in Slots /\ data[Before] <= req.address
  <2> SUFFICES ASSUME low # 0 PROVE Cell(low - 1) /\ Before \in Slots /\ data[Before] <= req.address
    OBVIOUS
  <2>1. Cell(low - 1) /\ low - 1 < low
    BY <1>2, CellFacts DEF Cell
  <2> QED BY <1>1, <2>1, CellFacts DEF AInv, Narrowed, Before
<1>5. Containing = NoSlot /\ low # 0 => data[Before] + mapped[Before] <= req.address
  <2> SUFFICES ASSUME Containing = NoSlot, low # 0, ~(data[Before] + mapped[Before] <= req.address) PROVE FALSE
    BY <1>2, <1>4, CellFacts
  <2>1. req.address - data[Before] < mapped[Before]
    BY <1>2, <1>4, CellFacts
  <2>2. Before = NoSlot
    BY <2>1 DEF Containing
  <2> QED BY <1>4, <2>2, ConstantsAssumption DEF Slots, NoSlot
<1>6. pos' \in Nat
  BY <1>1, <1>2, <1>3
<1>7. ASSUME NEW k, Cell(k), pos' <= k PROVE req.address < data[index[k]] + mapped[index[k]]
  <2>1. k \in Nat /\ index[k] \in Slots /\ data[index[k]] \in Nat /\ mapped[index[k]] \in Nat
    BY <1>7, CellFacts DEF Cell
  <2>2. CASE low <= k
    BY <1>1, <1>2, <1>7, <2>1, <2>2 DEF AInv, Narrowed
  <2>3. CASE ~(low <= k)
    <3>1. Containing # NoSlot /\ k = low - 1
      BY <1>1, <1>2, <1>7, <2>1, <2>3
    <3>2. index[k] = Before /\ req.address - data[Before] < mapped[Before]
      BY <1>3, <3>1 DEF Before
    <3> QED BY <1>2, <2>1, <3>2
  <2> QED BY <2>2, <2>3
<1>8. ASSUME NEW k, Cell(k), k < pos' PROVE data[index[k]] + mapped[index[k]] <= req.address
  <2>1. k \in Nat /\ index[k] \in Slots /\ data[index[k]] \in Nat /\ mapped[index[k]] \in Nat
    BY <1>8, CellFacts DEF Cell
  <2>2. k < low /\ low # 0
    BY <1>1, <1>2, <1>3, <1>8, <2>1
  <2>3. Cell(low - 1) /\ Before \in Slots /\ data[Before] <= req.address /\ data[Before] \in Nat
    BY <1>4, <2>2, CellFacts
  <2>4. CASE k = low - 1
    <3>1. Containing = NoSlot
      BY <1>1, <1>2, <1>8, <2>4
    <3> QED BY <1>5, <2>2, <2>4, <3>1 DEF Before
  <2>5. CASE k # low - 1
    <3>1. k < low - 1
      BY <1>2, <2>1, <2>2, <2>5
    <3>2. data[index[k]] + mapped[index[k]] <= data[index[low - 1]]
      BY <1>8, <2>3, <3>1, CellsAscend
    <3> QED BY <1>2, <2>1, <2>3, <3>2 DEF Before
  <2> QED BY <2>4, <2>5
<1>9. \A x : ~(x \in Touched /\ \E k : Cell(k) /\ k < pos' /\ index[k] = x[1])
  <2> SUFFICES ASSUME NEW x \in Touched, NEW k, Cell(k), k < pos', index[k] = x[1] PROVE FALSE
    OBVIOUS
  <2>1. data[x[1]] + mapped[x[1]] <= req.address
    BY <1>8, Zenon
  <2>2. x[1] \in Live /\ req.address < data[x[1]] + mapped[x[1]]
    BY TouchedOverlaps
  <2> QED BY <1>2, <2>1, <2>2, CellFacts
<1>10. /\ \A k : Cell(k)' <=> Cell(k)
       /\ Live' = Live
       /\ \A t, p : Touches(t, p)' <=> Touches(t, p)
  BY <1>1, Zenon DEF Cell, Live, Touches
<1>11. Touched' = Touched
  BY <1>10, Zenon DEF Touched
<1>12. \A x : ~(x \in Touched' /\ Passed(x[1])')
  BY <1>1, <1>9, <1>10, <1>11, Zenon DEF Passed
<1>13. \A x : x \notin covered'
  BY <1>1
<1> QED BY <1>1, <1>6, <1>7, <1>10, <1>12, <1>13, Zenon DEF Walking

(***************************************************************************)
(* A step of the walk adds the pages touched of one more buffer.           *)
(***************************************************************************)
LEMMA WalkKeeps ==
  ASSUME AInv, Sized, Walking, Walk, ~WalkEnds
  PROVE  Walking'
<1>1. /\ pc = "walk" /\ UNCHANGED <<data, mapped, index, count, req>> /\ pos' = pos + 1
      /\ covered' = covered \cup {<<index[pos], p>> : p \in PagesOf(index[pos])}
  BY DEF Walk, table, search
<1>2. /\ pos \in Nat
      /\ \A k : Cell(k) /\ pos <= k => req.address < data[index[k]] + mapped[index[k]]
      /\ \A x : x \in covered <=> x \in Touched /\ Passed(x[1])
  BY <1>1, Zenon DEF Walking
<1> DEFINE s == index[pos]
<1>3. Cell(pos) /\ ~(req.address + req.size <= data[s])
  BY <1>2, CellFacts DEF WalkEnds, Cell
<1>4. /\ s \in Live /\ s \in Slots /\ data[s] \in Nat /\ mapped[s] \in Nat /\ req.address \in Nat /\ req.size \in Nat
  BY <1>3, CellFacts DEF AInv, Types
<1>5. req.address < data[s] + mapped[s] /\ data[s] < req.address + req.size
  <2>1. pos <= pos
    BY <1>2
  <2> QED BY <1>2, <1>3, <1>4, <2>1
<1>6. PICK n \in Nat : mapped[s] = n * PAGE /\ data[s] + mapped[s] < Word
  BY <1>4, Zenon DEF Sized
<1>7. \A p : p \in PagesOf(s) <=> p \in 0 .. Word /\ Touches(s, p)
  BY <1>4, <1>5, <1>6, PagesTouched
<1>8. \A k : (Cell(k) /\ k < pos + 1) <=> ((Cell(k) /\ k < pos) \/ k = pos)
  BY <1>2, <1>3 DEF Cell
<1>9. /\ \A k : Cell(k)' <=> Cell(k)
      /\ Live' = Live
      /\ \A t, p : Touches(t, p)' <=> Touches(t, p)
  BY <1>1, Zenon DEF Cell, Live, Touches
<1>10. Touched' = Touched
  BY <1>9, Zenon DEF Touched
<1>11. \A t : Passed(t)' <=> Passed(t) \/ t = s
  BY <1>1, <1>8, <1>9, Zenon DEF Passed
<1>12. \A x : x \in {<<s, p>> : p \in PagesOf(s)} <=> x \in Touched /\ x[1] = s
  <2>1. ASSUME NEW p \in PagesOf(s) PROVE <<s, p>> \in Touched /\ <<s, p>>[1] = s
    <3>1. p \in 0 .. Word /\ Touches(s, p)
      BY <1>7, <2>1, Zenon
    <3>2. <<s, p>> \in Live \X (0 .. Word) /\ <<s, p>>[1] = s /\ <<s, p>>[2] = p
      BY <1>4, <3>1
    <3> QED BY <3>1, <3>2, Zenon DEF Touched
  <2>2. ASSUME NEW x \in Touched, x[1] = s PROVE x[2] \in PagesOf(s) /\ x = <<s, x[2]>>
    <3>1. x \in Live \X (0 .. Word) /\ Touches(x[1], x[2])
      BY <2>2, Zenon DEF Touched
    <3>2. x = <<x[1], x[2]>> /\ x[2] \in 0 .. Word
      BY <3>1
    <3> QED BY <1>7, <2>2, <3>1, <3>2, Zenon
  <2> QED BY <2>1, <2>2, Zenon
<1> HIDE DEF s
<1>13. \A x : x \in covered' <=> x \in Touched' /\ Passed(x[1])'
  <2>1. covered' = covered \cup {<<s, p>> : p \in PagesOf(s)}
    BY <1>1, Zenon DEF s
  <2> QED BY <1>2, <1>10, <1>11, <1>12, <2>1, Zenon
<1>14. ASSUME NEW k, Cell(k)', pos' <= k PROVE req'.address < data'[index'[k]] + mapped'[index'[k]]
  <2>1. Cell(k) /\ k \in Nat
    BY <1>9, <1>14, Zenon DEF Cell
  <2>2. pos <= k
    BY <1>1, <1>2, <1>14, <2>1
  <2> QED BY <1>1, <1>2, <2>1, <2>2, Zenon
<1>15. pos' \in Nat
  BY <1>1, <1>2
<1> QED BY <1>13, <1>14, <1>15, Zenon DEF Walking

(***************************************************************************)
(* At the end of the walk no buffer to come is touched.                    *)
(***************************************************************************)
LEMMA WalkCovers ==
  ASSUME AInv, Walking, pc = "walk", WalkEnds
  PROVE  covered = Touched
<1>1. /\ pos \in Nat
      /\ \A x : x \in covered <=> x \in Touched /\ Passed(x[1])
  BY Zenon DEF Walking
<1>2. ASSUME NEW x \in Touched PROVE Passed(x[1])
  <2>1. x[1] \in Live /\ data[x[1]] < req.address + req.size
    BY TouchedOverlaps
  <2>2. x[1] \in Listed
    BY <2>1 DEF Listed, Inserting
  <2>3. PICK k : Cell(k) /\ index[k] = x[1]
    BY <2>2, Zenon DEF AInv, Lists
  <2>4. k < pos
    <3> SUFFICES ASSUME ~(k < pos) PROVE FALSE
      OBVIOUS
    <3>1. k \in Nat /\ k < count /\ count \in Nat
      BY <2>3, CellFacts DEF Cell
    <3>2. Cell(pos)
      BY <1>1, <3>1 DEF Cell
    <3>3. req.address + req.size <= data[index[pos]]
      BY <3>2, <1>1, CellFacts DEF WalkEnds, Cell
    <3>4. /\ data[index[pos]] \in Nat /\ data[index[k]] \in Nat /\ mapped[index[pos]] \in Nat
          /\ req.address \in Nat /\ req.size \in Nat
      BY <2>3, <3>2, CellFacts DEF AInv, Types
    <3>5. data[index[pos]] <= data[index[k]]
      <4>1. CASE k = pos
        BY <3>4, <4>1
      <4>2. CASE k # pos
        <5>1. pos < k
          BY <1>1, <3>1, <4>2
        <5>2. data[index[pos]] < data[index[k]]
          BY <2>3, <3>2, <5>1, CellsAscend
        <5> QED BY <3>4, <5>2
      <4> QED BY <4>1, <4>2
    <3> QED BY <2>1, <2>3, <3>3, <3>4, <3>5
  <2> QED BY <2>3, <2>4, Zenon DEF Passed
<1> QED BY <1>1, <1>2, Zenon

LEMMA SizedKeeps ==
  ASSUME AInv, Sized, [Next]_vars
  PROVE  Sized'
<1>1. CASE UNCHANGED <<data, mapped>>
  BY <1>1, Zenon DEF Sized, Live
<1>2. ASSUME NEW s \in Slots, NEW p \in Mapping, NEW n \in 1 .. MaxLength, AfAlloc(s, p, n * PAGE)
      PROVE  Sized'
  <2>1. /\ data' = [data EXCEPT ![s] = p] /\ mapped' = [mapped EXCEPT ![s] = n * PAGE]
        /\ p + n * PAGE < Word /\ n \in Nat
    BY <1>2 DEF AfAlloc, FreeRange
  <2>2. data \in [Slots -> Nat] /\ mapped \in [Slots -> Nat]
    BY DEF AInv, Types
  <2>3. data'[s] = p /\ mapped'[s] = n * PAGE
    BY <2>1, <2>2, Zenon
  <2>4. \A t \in Slots : t # s => data'[t] = data[t] /\ mapped'[t] = mapped[t]
    BY <2>1, <2>2, Zenon
  <2> SUFFICES ASSUME NEW t \in Slots, data'[t] # 0
               PROVE  data'[t] + mapped'[t] < Word /\ \E m \in Nat : mapped'[t] = m * PAGE
    BY Zenon DEF Sized, Live
  <2>5. CASE t = s
    BY <2>1, <2>3, <2>5, Zenon
  <2>6. CASE t # s
    BY <2>4, <2>6, Zenon DEF Sized, Live
  <2> QED BY <2>5, <2>6
<1>3. CASE IndexRemove /\ ~UNCHANGED <<data, mapped>>
  <2>1. data' = [data EXCEPT ![req.slot] = 0] /\ mapped' = [mapped EXCEPT ![req.slot] = 0]
    BY <1>3, Zenon DEF IndexRemove, table
  <2>2. data \in [Slots -> Nat] /\ mapped \in [Slots -> Nat]
    BY DEF AInv, Types
  <2>3. \A t \in Slots : data'[t] = 0 \/ (data'[t] = data[t] /\ mapped'[t] = mapped[t])
    BY <2>1, <2>2, Zenon
  <2> QED BY <2>3, Zenon DEF Sized, Live
<1>4. /\ \A a \in Address : AfFree(a) \/ Fault(a) => UNCHANGED <<data, mapped>>
      /\ \A a \in Address, n \in 1 .. Word : Prepare(a, n) => UNCHANGED <<data, mapped>>
      /\ Bisect \/ IndexInsert \/ Find \/ Faulted \/ Prepared \/ Walk => UNCHANGED <<data, mapped>>
      /\ UNCHANGED vars => UNCHANGED <<data, mapped>>
  BY Zenon DEF AfFree, Fault, Prepare, Bisect, IndexInsert, Find, Faulted, Prepared, Walk, table, vars
<1> QED BY <1>1, <1>2, <1>3, <1>4, Zenon DEF Next

LEMMA WalkingKeeps ==
  ASSUME AInv, Sized, Walking, [Next]_vars
  PROVE  Walking'
<1>1. CASE pc' # "walk"
  BY <1>1, Zenon DEF Walking
<1>2. CASE Prepared
  BY <1>2, WalkStarts
<1>3. CASE Walk /\ ~WalkEnds
  BY <1>3, WalkKeeps
<1>4. CASE UNCHANGED vars
  <2>1. UNCHANGED <<data, mapped, index, count, pc, req, pos, covered>>
    BY <1>4, Zenon DEF vars, table, search
  <2>2. Live' = Live /\ (\A k : Cell(k)' <=> Cell(k)) /\ \A t, p : Touches(t, p)' <=> Touches(t, p)
    BY <2>1, Zenon DEF Live, Cell, Touches
  <2>3. Touched' = Touched /\ \A t : Passed(t)' <=> Passed(t)
    BY <2>1, <2>2, Zenon DEF Touched, Passed
  <2> QED BY <2>1, <2>2, <2>3, Zenon DEF Walking
<1>5. /\ \A s, p, n : AfAlloc(s, p, n) => pc' = "search"
      /\ \A a : AfFree(a) \/ Fault(a) => pc' = "search"
      /\ \A a, n : Prepare(a, n) => pc' = "search"
      /\ Bisect => pc' = "search"
      /\ IndexInsert \/ Faulted => pc' = "idle"
      /\ Find => pc' \in {"search", "idle"}
      /\ IndexRemove => pc' \in {"aborted", "idle"}
      /\ Walk /\ WalkEnds => pc' = "idle"
  BY DEF AfAlloc, AfFree, Fault, Prepare, Search, Bisect, IndexInsert, Faulted, Find, IndexRemove, Walk, Return
<1> QED BY <1>1, <1>2, <1>3, <1>4, <1>5 DEF Next

(***************************************************************************)
(* When prepare returns it has materialized exactly the pages of live      *)
(* buffers that the range touches, whatever the buffers, the range and the *)
(* page size (runtime.cpp, prepare).                                       *)
(***************************************************************************)
THEOREM PrepareCoversRange == Spec => []PrepareExact
<1>1. Init => Sized /\ Walking
  BY DEF Init, Sized, Live, Walking
<1>2. AInv /\ Sized /\ Walking /\ [Next]_vars => Sized' /\ Walking'
  BY SizedKeeps, WalkingKeeps
<1>3. AInv /\ Walking => PrepareExact
  BY WalkCovers DEF PrepareExact
<1> QED BY <1>1, <1>2, <1>3, IndexInvariant, PTL DEF Spec
=============================================================================
