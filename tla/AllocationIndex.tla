-------------------------- MODULE AllocationIndex --------------------------
(***************************************************************************)
(* The ordered index of allocations in native/runtime.cpp: one binary      *)
(* search, after_address, serves insertion, removal, the lookup of the     *)
(* buffer an address belongs to, and the walk of prepare over the buffers  *)
(* a range touches.  Every iteration of the search and of the walk is a    *)
(* step.                                                                   *)
(***************************************************************************)
EXTENDS Integers, FiniteSets

CONSTANTS
  MaxSlots,   \* MAX_SLOTS, 4096 in the code
  PAGE,       \* addresses of a page
  Word,       \* the number of addresses: an address is below it
  MaxLength   \* bound: the longest allocation, in pages

ASSUME ConstantsAssumption ==
  /\ MaxSlots \in Nat \ {0}
  /\ PAGE \in Nat \ {0}
  /\ Word \in Nat \ {0}
  /\ MaxLength \in Nat \ {0}

VARIABLES
  data,       \* data[s]: the address of slot s, 0 when the slot is free
  mapped,     \* mapped[s]: its length
  index,      \* allocation_index
  count,      \* allocation_count
  pc,         \* "idle", "search", "walk", or "aborted"
  req,        \* what the search is for
  low, high,  \* the locals of after_address
  pos,        \* the local of prepare
  covered     \* the pages prepare has materialized

table == <<data, mapped, index, count>>
search == <<req, low, high>>
vars == <<table, pc, search, pos, covered>>

Slots == 1 .. MaxSlots

Cells == 0 .. MaxSlots - 1

NoSlot == 0

Address == 0 .. Word - 1

Live == {s \in Slots : data[s] # 0}

-----------------------------------------------------------------------------
(***************************************************************************)
(* after_address: the position after the last buffer that starts at or     *)
(* before the address.                                                     *)
(***************************************************************************)
Search(op, address, size, slot) ==
  /\ pc' = "search"
  /\ req' = [op |-> op, address |-> address, size |-> size, slot |-> slot]
  /\ low' = 0 /\ high' = count

(***************************************************************************)
(* The call returns, and its locals are gone.                              *)
(***************************************************************************)
Nothing == [op |-> "fault", address |-> 0, size |-> 0, slot |-> NoSlot]

Return ==
  /\ pc' = "idle" /\ req' = Nothing /\ low' = 0 /\ high' = 0
  /\ pos' = 0 /\ covered' = {}

Mid == low + (high - low) \div 2

(* Fault: the search stops at a buffer that starts at the address. *)
BisectStrict ==
  /\ pc = "search" /\ low < high
  /\ IF data[index[Mid]] < req.address
       THEN low' = Mid + 1 /\ UNCHANGED high
       ELSE high' = Mid /\ UNCHANGED low
  /\ UNCHANGED <<table, pc, req, pos, covered>>

Bisect ==
  /\ pc = "search" /\ low < high
  /\ IF data[index[Mid]] <= req.address
       THEN low' = Mid + 1 /\ UNCHANGED high
       ELSE high' = Mid /\ UNCHANGED low
  /\ UNCHANGED <<table, pc, req, pos, covered>>

Found(op) == pc = "search" /\ ~(low < high) /\ req.op = op

(***************************************************************************)
(* containing: the buffer at the position before, if it is long enough.    *)
(***************************************************************************)
Before == index[low - 1]

Containing ==
  IF low # 0 /\ req.address - data[Before] < mapped[Before] THEN Before ELSE NoSlot

-----------------------------------------------------------------------------
(***************************************************************************)
(* af_alloc fills the first free slot; mmap gives it any free range.       *)
(***************************************************************************)
FreeRange(p, n) ==
  /\ p + n < Word
  /\ \A s \in Live : p + n <= data[s] \/ data[s] + mapped[s] <= p

AfAlloc(s, p, n) ==
  /\ pc = "idle"
  /\ s \notin Live /\ \A t \in Slots : t < s => t \in Live
  /\ FreeRange(p, n)
  /\ data' = [data EXCEPT ![s] = p]
  /\ mapped' = [mapped EXCEPT ![s] = n]
  /\ Search("insert", p, 0, s)
  /\ UNCHANGED <<index, count, pos, covered>>

(* Fault: the last buffer is not moved. *)
IndexInsertShort ==
  /\ Found("insert")
  /\ index' = [k \in Cells |-> IF k = low THEN req.slot
                               ELSE IF low < k /\ k < count THEN index[k - 1] ELSE index[k]]
  /\ count' = count + 1
  /\ Return
  /\ UNCHANGED <<data, mapped>>

IndexInsert ==
  /\ Found("insert")
  /\ index' = [k \in Cells |-> IF k = low THEN req.slot
                               ELSE IF low < k /\ k <= count THEN index[k - 1] ELSE index[k]]
  /\ count' = count + 1
  /\ Return
  /\ UNCHANGED <<data, mapped>>

(***************************************************************************)
(* af_free finds the buffer that starts at the address, unmaps it (which   *)
(* may fail), removes it from the index and clears its slot.               *)
(***************************************************************************)
AfFree(p) ==
  /\ pc = "idle"
  /\ Search("find", p, 0, NoSlot)
  /\ UNCHANGED <<table, pos, covered>>

(* Fault: an address inside a buffer is taken for the buffer. *)
FindInside ==
  /\ Found("find")
  /\ \/ /\ Containing # NoSlot
        /\ Search("remove", req.address, 0, Containing)
        /\ UNCHANGED <<pos, covered>>
     \/ Return
  /\ UNCHANGED table

Find ==
  /\ Found("find")
  /\ \/ /\ Containing # NoSlot /\ data[Containing] = req.address
        /\ Search("remove", req.address, 0, Containing)
        /\ UNCHANGED <<pos, covered>>
     \/ Return
  /\ UNCHANGED table

IndexRemove ==
  /\ Found("remove")
  /\ IF low = 0 \/ data[Before] # req.address
       THEN pc' = "aborted" /\ UNCHANGED <<table, search, pos, covered>>
       ELSE /\ index' = [k \in Cells |-> IF low - 1 <= k /\ k < count - 1 THEN index[k + 1] ELSE index[k]]
            /\ count' = count - 1
            /\ data' = [data EXCEPT ![req.slot] = 0]
            /\ mapped' = [mapped EXCEPT ![req.slot] = 0]
            /\ Return

(***************************************************************************)
(* fault looks the address up; what it then does is in Pager.              *)
(***************************************************************************)
Fault(a) ==
  /\ pc = "idle"
  /\ Search("fault", a, 0, NoSlot)
  /\ UNCHANGED <<table, pos, covered>>

Faulted ==
  /\ Found("fault")
  /\ Return
  /\ UNCHANGED table

-----------------------------------------------------------------------------
(***************************************************************************)
(* prepare: the buffers that overlap size addresses from first.  A range   *)
(* that would wrap around is refused.                                      *)
(***************************************************************************)
Prepare(first, size) ==
  /\ pc = "idle" /\ size # 0
  /\ first <= Word - 1 - size
  /\ Search("prepare", first, size, NoSlot)
  /\ UNCHANGED <<table, pos, covered>>

(* Fault: the walk leaves out the buffer the range starts in. *)
PreparedAfter ==
  /\ Found("prepare")
  /\ pos' = low
  /\ covered' = {} /\ pc' = "walk"
  /\ UNCHANGED <<table, search>>

Prepared ==
  /\ Found("prepare")
  /\ pos' = IF Containing # NoSlot THEN low - 1 ELSE low
  /\ covered' = {} /\ pc' = "walk"
  /\ UNCHANGED <<table, search>>

Later(m, n) == IF m > n THEN m ELSE n

Sooner(m, n) == IF m < n THEN m ELSE n

Rounded(n) == (n + PAGE - 1) \div PAGE

PagesOf(s) ==
  LET begin == (Later(req.address, data[s]) - data[s]) \div PAGE
      end == Rounded(Sooner(req.address + req.size, data[s] + mapped[s]) - data[s])
  IN  begin .. end - 1

WalkEnds == pos >= count \/ req.address + req.size <= data[index[pos]]

Walk ==
  /\ pc = "walk"
  /\ IF WalkEnds
       THEN Return
       ELSE /\ covered' = covered \cup {<<index[pos], p>> : p \in PagesOf(index[pos])}
            /\ pos' = pos + 1
            /\ UNCHANGED <<pc, search>>
  /\ UNCHANGED table

-----------------------------------------------------------------------------
Init ==
  /\ data = [s \in Slots |-> 0] /\ mapped = [s \in Slots |-> 0]
  /\ index = [k \in Cells |-> NoSlot] /\ count = 0
  /\ pc = "idle" /\ req = Nothing
  /\ low = 0 /\ high = 0 /\ pos = 0 /\ covered = {}

Mapping == {p \in Address : p # 0 /\ p % PAGE = 0}

Next ==
  \/ \E s \in Slots, p \in Mapping, n \in 1 .. MaxLength : AfAlloc(s, p, n * PAGE)
  \/ \E a \in Address : AfFree(a) \/ Fault(a)
  \/ \E a \in Address, n \in 1 .. Word : Prepare(a, n)
  \/ Bisect \/ IndexInsert \/ Find \/ IndexRemove \/ Faulted \/ Prepared \/ Walk

Spec == Init /\ [][Next]_vars

-----------------------------------------------------------------------------

(***************************************************************************)
(* The index lists exactly the live buffers, in the order of their         *)
(* addresses and without overlap, after every mix of af_alloc and af_free  *)
(* (a buffer being inserted is not listed yet).                            *)
(***************************************************************************)
Inserting(s) == pc = "search" /\ req.op = "insert" /\ req.slot = s

Ordered ==
  \A j \in 0 .. count - 1, k \in 0 .. count - 1 :
    j < k => data[index[j]] + mapped[index[j]] <= data[index[k]]

IndexExact ==
  /\ {index[k] : k \in 0 .. count - 1} = {s \in Live : ~Inserting(s)}
  /\ Ordered

(***************************************************************************)
(* A finished search names the buffer that owns the address, and none when *)
(* no buffer does: what containing and find return to fault and af_free.   *)
(***************************************************************************)
Owns(s, a) == s \in Live /\ ~Inserting(s) /\ data[s] <= a /\ a < data[s] + mapped[s]

OwnerIsContainer ==
  pc = "search" /\ low = high =>
    \A s \in Slots : Containing = s <=> Owns(s, req.address)

(***************************************************************************)
(* index_remove never calls abort().                                       *)
(***************************************************************************)
NeverAborts == pc # "aborted"

(***************************************************************************)
(* When prepare returns it has materialized exactly the pages of live      *)
(* buffers that the range touches: no page the system call will read or    *)
(* write is left out, whatever lies between the buffers.                   *)
(***************************************************************************)
Touches(s, p) ==
  /\ (p + 1) * PAGE <= mapped[s]
  /\ data[s] + p * PAGE < req.address + req.size
  /\ req.address < data[s] + (p + 1) * PAGE

Touched == {x \in Live \X (0 .. Word) : Touches(x[1], x[2])}

PrepareExact == pc = "walk" /\ WalkEnds => covered = Touched
=============================================================================
