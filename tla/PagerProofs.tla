---------------------------- MODULE PagerProofs -----------------------------
(***************************************************************************)
(* Proofs about Pager for every number of buffers, every page count and    *)
(* every set of failing calls.  First, what each action does to the memory *)
(* the application sees: it has one of six Effects.  That the pager        *)
(* implements plain memory, and that a modified buffer stays pinned, are   *)
(* read off those.                                                         *)
(***************************************************************************)
EXTENDS PagerInvariant

(***************************************************************************)
(* What a step does to a slot as the application sees it.  PinKept is the  *)
(* promise of PinnedForGood for one slot, Kept says that the slot's memory *)
(* is the same before and after.                                           *)
(***************************************************************************)
PinKept(b) ==
  buf[b].state = "PINNED" =>
    \/ buf'[b].state = "FREE"
    \/ /\ buf'[b].state = "PINNED"
       /\ \A i \in Page : buf[b].page[i] # Cold => buf'[b].page[i] # Cold

Kept(b) ==
  /\ buf'[b].size = buf[b].size
  /\ Logical(buf'[b], Recipe(b)') = Logical(buf[b], Recipe(b))
  /\ PinKept(b)

LEMMA SameKept ==
  ASSUME IInv, buf' = buf,
         \A b \in Buffer : IsLive(buf[b]) => Recipe(b)' = Recipe(b) \/ buf[b].state = "RESIDENT",
         NEW c \in Buffer
  PROVE  Kept(c)
<1>1. SlotOK(buf[c], Recipe(c))
  BY Zenon DEF IInv, TableOK, SlotsOK
<1>2. Logical(buf[c], Recipe(c)') = Logical(buf[c], Recipe(c))
  <2>1. CASE buf[c].state \in {"FREE", "RESIDENT"}
    BY <1>1, <2>1, PlainSlot, Zenon
  <2>2. CASE IsLive(buf[c]) /\ buf[c].state # "RESIDENT"
    BY <2>2, Zenon
  <2> QED
    BY <2>1, <2>2, Zenon DEF IsLive
<1> QED
  BY <1>2, Zenon DEF Kept, PinKept

LEMMA UnchangedKept ==
  ASSUME IInv, buf' = buf, recipes' = recipes, NEW c \in Buffer
  PROVE  Kept(c)
<1>1. \A b \in Buffer : Recipe(b)' = Recipe(b)
  BY Zenon DEF Recipe
<1> QED
  BY <1>1, SameKept, Zenon

LEMMA OthersKept ==
  ASSUME IInv, NEW b \in Buffer, NEW q, buf' = [buf EXCEPT ![b] = q], recipes' = recipes,
         NEW c \in Buffer, c # b
  PROVE  Kept(c)
<1>1. buf'[c] = buf[c]
  BY Zenon DEF IInv, TypeOK
<1>2. Recipe(c)' = Recipe(c)
  BY <1>1, Zenon DEF Recipe
<1> QED
  BY <1>1, <1>2, Zenon DEF Kept, PinKept

LEMMA MaterializeEffect ==
  ASSUME IInv, NEW b \in Buffer, NEW S, NEW q, SlotOK(q, Recipe(b)),
         Serves(buf[b], q, Fetched(buf[b], ColdIn(buf[b], S))), IsLive(buf[b]),
         Materialize(b, S, q)
  PROVE  /\ \A c \in Buffer : c # b => Kept(c)
         /\ buf'[b].size = buf[b].size
         /\ Logical(buf'[b], Recipe(b)') = Logical(q, Recipe(b))
         /\ PinKept(b) /\ mode' = mode
<1>1. /\ q.size = buf[b].size /\ q.id = buf[b].id
      /\ ResidentSet(q) = ResidentSet(buf[b]) \cup Fetched(buf[b], ColdIn(buf[b], S))
      /\ buf[b].state = "PINNED" => q.state = "PINNED"
      /\ IsLive(q)
  BY Zenon DEF Serves, IsLive
<1>2. recipes' = recipes /\ mode' = mode
  BY Zenon DEF Materialize
<1>3. PICK u : /\ buf' = [buf EXCEPT ![b] = u] /\ u.state = q.state /\ u.page = q.page
               /\ u.size = q.size /\ u.id = q.id
               /\ Logical(u, Recipe(b)) = Logical(q, Recipe(b))
  <2>1. CASE buf' = [buf EXCEPT ![b] = q]
    BY <2>1, Zenon
  <2>2. CASE buf' = [buf EXCEPT ![b] = [q EXCEPT !.live = FALSE]]
    <3> DEFINE u == [q EXCEPT !.live = FALSE]
    <3>1. /\ u.state = q.state /\ u.page = q.page /\ u.size = q.size /\ u.id = q.id
          /\ Logical(u, Recipe(b)) = Logical(q, Recipe(b))
      BY <1>1, LiveChanged, ZenonT(60) DEF IsLive
    <3>2. buf' = [buf EXCEPT ![b] = u]
      BY <2>2, Zenon
    <3> HIDE DEF u
    <3> QED
      BY <3>1, <3>2, Zenon
  <2> QED
    BY <2>1, <2>2, Zenon DEF Materialize, Release
<1>4. buf'[b] = u
  BY <1>3, Zenon DEF IInv, TypeOK
<1>5. Recipe(b)' = Recipe(b)
  BY <1>1, <1>2, <1>3, <1>4, Zenon DEF Recipe
<1>6. PinKept(b)
  BY <1>1, <1>3, <1>4, Zenon DEF PinKept, ResidentSet
<1>7. \A c \in Buffer : c # b => Kept(c)
  BY <1>2, <1>3, OthersKept, Zenon
<1> QED
  BY <1>1, <1>2, <1>3, <1>4, <1>5, <1>6, <1>7, Zenon

LEMMA EvictKept ==
  ASSUME IInv, NEW E \in SUBSET Buffer, \A b \in E : buf[b].state \in {"SEALED", "EVICTED"},
         NEW c \in Buffer, buf'[c] = EvictedTable(E)[c], recipes' = recipes
  PROVE  Kept(c)
<1>1. /\ buf'[c].id = buf[c].id /\ buf'[c].size = buf[c].size
      /\ Logical(buf'[c], Recipe(c)) = Logical(buf[c], Recipe(c))
  BY EvictedTableOK DEF IInv
<1>2. Recipe(c)' = Recipe(c)
  BY <1>1, Zenon DEF Recipe
<1>3. PinKept(c)
  <2>1. buf[c].state = "PINNED" => buf'[c] = buf[c]
    BY Zenon DEF EvictedTable
  <2> QED
    BY <2>1, Zenon DEF PinKept
<1> QED
  BY <1>1, <1>2, <1>3, Zenon DEF Kept

-----------------------------------------------------------------------------
AllKept == \A c \in Buffer : Kept(c)

Goes == mode = "running" /\ mode' = mode

Quiet == AllKept /\ mode' = mode /\ out' = out

Stops == AllKept /\ mode = "running" /\ mode' = "stopped" /\ out' = out

Loads(b, i) ==
  /\ AllKept /\ Goes /\ i < buf[b].size
  /\ out' = Logical(buf[b], Recipe(b))[i]

(***************************************************************************)
(* The steps that change the memory of slot b alone, leaving it with n     *)
(* pages that hold m.                                                      *)
(***************************************************************************)
Changes(b, n, m) ==
  /\ \A c \in Buffer : c # b => Kept(c)
  /\ buf'[b].size = n /\ Logical(buf'[b], Recipe(b)') = m
  /\ PinKept(b) /\ Goes /\ out' = out

Stores(b, i, v) ==
  /\ i < buf[b].size
  /\ Changes(b, buf[b].size, [Logical(buf[b], Recipe(b)) EXCEPT ![i] = v])

Allocates(b, n) == buf[b].size = 0 /\ Changes(b, n, [i \in Page |-> Zero])

Frees(b) == buf[b].size # 0 /\ Changes(b, 0, [i \in Page |-> Zero])

Effect ==
  \/ Quiet \/ Stops
  \/ \E b \in Buffer, i \in Page : Loads(b, i)
  \/ \E b \in Buffer, i \in Page, v \in Values : Stores(b, i, v)
  \/ \E b \in Buffer, n \in 1 .. MaxPages : Allocates(b, n)
  \/ \E b \in Buffer : Frees(b)

-----------------------------------------------------------------------------
LEMMA LoadEffect ==
  ASSUME IInv, NEW b \in Buffer, NEW i \in Page, Load(b, i)
  PROVE  Effect
<1>1. /\ i \in Mapped(buf[b]) /\ buf[b].prot[i] # "none" /\ out' = buf[b].phys[i]
      /\ buf' = buf /\ recipes' = recipes /\ Goes
  BY Zenon DEF Load, worker, Goes
<1>2. SlotOK(buf[b], Recipe(b)) /\ i \in Page
  BY <1>1, MappedIsLive, Zenon
<1>3. buf[b].page[i] # Cold
  BY <1>1, <1>2, Zenon DEF SlotOK, ProtectionOK
<1>4. out' = Logical(buf[b], Recipe(b))[i]
  BY <1>1, <1>2, <1>3, Zenon DEF Logical
<1>5. AllKept
  BY <1>1, UnchangedKept, Zenon DEF AllKept
<1>6. i < buf[b].size
  BY <1>1 DEF Mapped, IInv, TypeOK, BufferRecord
<1> QED
  BY <1>1, <1>4, <1>5, <1>6, Zenon DEF Loads, Effect

LEMMA StoreEffect ==
  ASSUME IInv, NEW b \in Buffer, NEW i \in Page, NEW v \in Values, Store(b, i, v)
  PROVE  Effect
<1> DEFINE r == buf[b]
           q == Stored(r, i, v)
<1>1. /\ i \in Mapped(r) /\ r.prot[i] = "rw"
      /\ buf' = [buf EXCEPT ![b] = q]
      /\ recipes' = recipes /\ Goes /\ out' = out
  BY Zenon DEF Store, worker, Goes
<1>2. SlotOK(r, Recipe(b)) /\ r \in BufferRecord
  BY Zenon DEF IInv, TableOK, SlotsOK, SlotOK
<1>3. r.page[i] = Dirty
  BY <1>1, <1>2, Zenon DEF SlotOK, ProtectionOK, BufferRecord
<1>4. /\ q.page = r.page /\ q.state = r.state /\ q.size = r.size /\ q.id = r.id
      /\ Logical(q, Recipe(b)) = [Logical(r, Recipe(b)) EXCEPT ![i] = v]
  BY <1>1, <1>2, <1>3, StoredOK
<1> HIDE DEF q
<1>5. buf'[b] = q
  BY <1>1, Zenon DEF IInv, TypeOK
<1>6. Recipe(b)' = Recipe(b)
  BY <1>1, <1>4, <1>5, Zenon DEF Recipe
<1>7. \A c \in Buffer : c # b => Kept(c)
  BY <1>1, OthersKept, Zenon
<1>8. PinKept(b)
  BY <1>4, <1>5, Zenon DEF PinKept
<1>9. i < r.size
  BY <1>1, <1>2 DEF Mapped, BufferRecord
<1>10. Stores(b, i, v)
  BY <1>1, <1>4, <1>5, <1>6, <1>7, <1>8, <1>9, Zenon DEF Stores, Changes
<1> QED
  BY <1>10, Zenon DEF Effect

LEMMA FailureEffect ==
  ASSUME IInv, mode = "running", NEW b \in Buffer, NEW S, NEW writing,
         PagerFailure(b, S, writing)
  PROVE  Effect
<1>1. buf' = buf /\ recipes' = recipes /\ mode' = "stopped" /\ out' = out
  BY Zenon DEF PagerFailure, worker
<1>2. AllKept
  BY <1>1, UnchangedKept, Zenon DEF AllKept
<1> QED
  BY <1>1, <1>2, Zenon DEF Stops, Effect

LEMMA LoadFaultEffect ==
  ASSUME IInv, NEW b \in Buffer, NEW i \in Page, LoadFault(b, i)
  PROVE  Effect
<1>1. PICK end \in i + 1 .. buf[b].size :
        LET S == i .. end - 1
            r == Materialized(buf[b], S, FALSE, Recipe(b))
        IN  \/ Materialize(b, S, r) /\ out' = r.phys[i]
            \/ PagerFailure(b, S, FALSE)
  BY Zenon DEF LoadFault
<1> DEFINE S == i .. end - 1
           q == Materialized(buf[b], S, FALSE, Recipe(b))
<1>2. i \in Mapped(buf[b]) /\ mode = "running"
  BY Zenon DEF LoadFault
<1>3. /\ IsLive(buf[b]) /\ SlotOK(buf[b], Recipe(b)) /\ Recipe(b) \in [Page -> Values]
      /\ buf[b] \in BufferRecord
  BY <1>2, MappedIsLive, Zenon DEF SlotOK
<1>4. buf[b].size \in Nat /\ i \in Nat /\ i < buf[b].size
  BY <1>2, <1>3, PageFinite DEF BufferRecord, Mapped
<1>5. S \in SUBSET Mapped(buf[b]) /\ i \in S
  BY <1>4 DEF Mapped
<1> HIDE DEF S
<1>6. /\ SlotOK(q, Recipe(b)) /\ Serves(buf[b], q, Fetched(buf[b], ColdIn(buf[b], S)))
      /\ Logical(q, Recipe(b)) = Logical(buf[b], Recipe(b))
      /\ q.page[i] # Cold
  BY <1>3, <1>5, MaterializedOK, Zenon
<1> HIDE DEF q
<1>7. CASE PagerFailure(b, S, FALSE)
  BY <1>2, <1>7, FailureEffect, Zenon
<1>8. CASE Materialize(b, S, q) /\ out' = q.phys[i]
  <2>1. /\ \A c \in Buffer : c # b => Kept(c)
        /\ buf'[b].size = buf[b].size
        /\ Logical(buf'[b], Recipe(b)') = Logical(q, Recipe(b))
        /\ PinKept(b) /\ mode' = mode
    BY <1>3, <1>6, <1>8, MaterializeEffect, Zenon
  <2>2. AllKept
    BY <1>6, <2>1, Zenon DEF AllKept, Kept
  <2>3. out' = Logical(q, Recipe(b))[i]
    BY <1>6, <1>8, Zenon DEF Logical
  <2>4. Loads(b, i)
    BY <1>2, <1>4, <1>6, <2>1, <2>2, <2>3, Zenon DEF Loads, Goes
  <2> QED
    BY <2>4, Zenon DEF Effect
<1> QED
  BY <1>1, <1>7, <1>8, Zenon DEF S, q

LEMMA StoreFaultEffect ==
  ASSUME IInv, NEW b \in Buffer, NEW i \in Page, NEW v \in Values, StoreFault(b, i, v)
  PROVE  Effect
<1> DEFINE p == Materialized(buf[b], {i}, TRUE, Recipe(b))
           q == Stored(p, i, v)
           F == Fetched(buf[b], ColdIn(buf[b], {i}))
<1>1. i \in Mapped(buf[b]) /\ mode = "running"
  BY Zenon DEF StoreFault
<1>2. /\ IsLive(buf[b]) /\ SlotOK(buf[b], Recipe(b)) /\ Recipe(b) \in [Page -> Values]
      /\ buf[b] \in BufferRecord /\ {i} \in SUBSET Mapped(buf[b]) /\ {i} # {}
  BY <1>1, MappedIsLive, Zenon DEF SlotOK
<1>3. /\ SlotOK(p, Recipe(b)) /\ Serves(buf[b], p, F) /\ p.page[i] = Dirty
      /\ Logical(p, Recipe(b)) = Logical(buf[b], Recipe(b))
  BY <1>2, MaterializedOK, Zenon
<1> HIDE DEF p
<1>4. i \in Mapped(p)
  BY <1>1, <1>3, Zenon DEF Serves, Mapped
<1>5. /\ SlotOK(q, Recipe(b))
      /\ q.page = p.page /\ q.state = p.state /\ q.count = p.count
      /\ q.size = p.size /\ q.id = p.id /\ q.live = p.live
      /\ Logical(q, Recipe(b)) = [Logical(p, Recipe(b)) EXCEPT ![i] = v]
  BY <1>3, <1>4, StoredOK, SMTT(30)
<1> HIDE DEF q, F
<1>6. Serves(buf[b], q, F)
  BY <1>3, <1>5, Zenon DEF Serves, ResidentSet
<1>7. CASE Materialize(b, {i}, q) /\ out' = out
  <2>1. /\ \A c \in Buffer : c # b => Kept(c)
        /\ buf'[b].size = buf[b].size
        /\ Logical(buf'[b], Recipe(b)') = Logical(q, Recipe(b))
        /\ PinKept(b) /\ mode' = mode
    BY <1>2, <1>5, <1>6, <1>7, MaterializeEffect, Zenon DEF F
  <2>2. i < buf[b].size
    BY <1>1, <1>2 DEF Mapped, BufferRecord
  <2>3. Stores(b, i, v)
    BY <1>1, <1>3, <1>5, <1>7, <2>1, <2>2, Zenon DEF Stores, Changes, Goes
  <2> QED
    BY <2>3, Zenon DEF Effect
<1>8. CASE PagerFailure(b, {i}, TRUE)
  BY <1>1, <1>8, FailureEffect, Zenon
<1> QED
  BY <1>7, <1>8, Zenon DEF StoreFault, p, q

LEMMA PrepareEffect ==
  ASSUME IInv, NEW b \in Buffer, NEW lo \in Page, NEW hi \in 1 .. MaxPages,
         NEW writing \in BOOLEAN, Prepare(b, lo, hi, writing)
  PROVE  Effect
<1> DEFINE S == lo .. hi - 1
           q == Materialized(buf[b], S, writing, Recipe(b))
<1>1. lo < hi /\ hi <= buf[b].size /\ lo \in Nat /\ hi \in Nat /\ mode = "running"
  BY PageFinite, ConstantsAssumption DEF Prepare
<1>2. buf[b].size \in Nat
  BY DEF IInv, TypeOK, BufferRecord
<1>3. S \in SUBSET Mapped(buf[b]) /\ lo \in S
  BY <1>1, <1>2 DEF Mapped
<1> HIDE DEF S
<1>4. /\ IsLive(buf[b]) /\ SlotOK(buf[b], Recipe(b)) /\ Recipe(b) \in [Page -> Values]
  BY <1>3, MappedIsLive, Zenon
<1>5. /\ SlotOK(q, Recipe(b)) /\ Serves(buf[b], q, Fetched(buf[b], ColdIn(buf[b], S)))
      /\ Logical(q, Recipe(b)) = Logical(buf[b], Recipe(b))
  BY <1>3, <1>4, MaterializedOK, Zenon
<1> HIDE DEF q
<1>6. CASE Materialize(b, S, q) /\ out' = out
  <2>1. /\ \A c \in Buffer : c # b => Kept(c)
        /\ buf'[b].size = buf[b].size
        /\ Logical(buf'[b], Recipe(b)') = Logical(q, Recipe(b))
        /\ PinKept(b) /\ mode' = mode
    BY <1>4, <1>5, <1>6, MaterializeEffect, Zenon
  <2>2. AllKept
    BY <1>5, <2>1, Zenon DEF AllKept, Kept
  <2> QED
    BY <1>6, <2>1, <2>2, Zenon DEF Quiet, Effect
<1>7. CASE PagerFailure(b, S, writing)
  BY <1>1, <1>7, FailureEffect, Zenon
<1> QED
  BY <1>6, <1>7, Zenon DEF Prepare, S, q

(***************************************************************************)
(* Evictions change no value: what an evicted page stands for is what it   *)
(* held.                                                                   *)
(***************************************************************************)
LEMMA EvictAllEffect ==
  ASSUME IInv, NEW E \in SUBSET Buffer, \A b \in E : buf[b].state \in {"SEALED", "EVICTED"},
         EvictAll(E, buf, 0), UNCHANGED <<nextid, target, peak, broken, worker, mode, out>>
  PROVE  Effect
<1>1. buf' = EvictedTable(E) /\ recipes' = recipes /\ mode' = mode /\ out' = out
  BY Zenon DEF EvictAll, EvictedTable, worker
<1>2. AllKept
  BY <1>1, EvictKept, Zenon DEF AllKept
<1> QED
  BY <1>1, <1>2, Zenon DEF Quiet, Effect

LEMMA RollbackFailureEffect ==
  ASSUME IInv, mode = "running", RollbackFailure
  PROVE  Effect
<1>1. buf' = buf /\ recipes' = recipes /\ mode' = "stopped" /\ out' = out
  BY Zenon DEF RollbackFailure, worker
<1>2. AllKept
  BY <1>1, UnchangedKept, Zenon DEF AllKept
<1> QED
  BY <1>1, <1>2, Zenon DEF Stops, Effect

LEMMA AfEvictEffect ==
  ASSUME IInv, NEW b \in Buffer, AfEvict(b)
  PROVE  Effect
<1>1. buf[b].state \in {"SEALED", "EVICTED"} /\ mode = "running"
  BY Zenon DEF AfEvict
<1>2. CASE EvictAll({b}, buf, 0) /\ UNCHANGED <<nextid, target, peak, broken, worker, mode, out>>
  BY <1>1, <1>2, EvictAllEffect
<1>3. CASE /\ \E after \in {buf[b], RolledBack(buf[b])} :
                EvictFails(buf[b], after) /\ buf' = [buf EXCEPT ![b] = after]
           /\ UNCHANGED <<policy, nextid, resident, target, peak, broken, worker, mode, out>>
  <2>1. buf' = buf /\ recipes' = recipes /\ mode' = mode /\ out' = out
    BY <1>1, <1>3, FailedEvictionSame, Zenon DEF worker
  <2>2. AllKept
    BY <2>1, UnchangedKept, Zenon DEF AllKept
  <2> QED
    BY <2>1, <2>2, Zenon DEF Quiet, Effect
<1>4. CASE RollbackFailure
  BY <1>1, <1>4, RollbackFailureEffect, Zenon
<1> QED
  BY <1>2, <1>3, <1>4, Zenon DEF AfEvict

LEMMA AfManageEffect ==
  ASSUME IInv, NEW b \in Buffer, AfManage(b)
  PROVE  Effect
<1>0. mode = "running"
  BY Zenon DEF AfManage
<1>1. CASE AfEvict(b)
  BY <1>1, AfEvictEffect, Zenon
<1>2. ASSUME NEW E \in SUBSET Candidates({b}),
             \/ EvictAll(E, buf, 0)
             \/ CollectFails(E, 0, {b}),
             UNCHANGED <<nextid, target, peak, broken, worker, mode, out>>
      PROVE  Effect
  <2>1. EvictAll(E, buf, 0)
    BY <1>2, CollectFailsEvicts, Zenon
  <2> QED
    BY <1>2, <2>1, CandidatesAreSealed, EvictAllEffect
<1>3. CASE RollbackFailure
  BY <1>0, <1>3, RollbackFailureEffect, Zenon
<1> QED
  BY <1>1, <1>2, <1>3, Zenon DEF AfManage

LEMMA AllocEffect ==
  ASSUME IInv, NEW b \in Buffer, buf[b].state = "FREE", nextid <= MaxId, mode = "running",
         NEW n \in 1 .. MaxPages, NEW E \in SUBSET Buffer,
         \A c \in E : buf[c].state = "SEALED",
         EvictAll(E, [buf EXCEPT ![b] = Allocated(n, nextid)], n),
         UNCHANGED <<target, broken, worker, mode, out>>
  PROVE  Effect
<1> DEFINE r == Allocated(n, nextid)
<1>0. /\ buf \in [Buffer -> BufferRecord] /\ b \notin E /\ nextid \in Ids
      /\ \A c \in E : buf[c].state \in {"SEALED", "EVICTED"}
  <2>1. buf \in [Buffer -> BufferRecord] /\ nextid \in 1 .. MaxId + 1
    BY Zenon DEF IInv, TypeOK
  <2>2. nextid \in Ids
    BY <2>1, ConstantsAssumption DEF Ids
  <2>3. b \notin E /\ \A c \in E : buf[c].state \in {"SEALED", "EVICTED"}
    BY Zenon
  <2> QED
    BY <2>1, <2>2, <2>3, Zenon
<1>1. recipes' = recipes /\ Goes /\ out' = out
  BY Zenon DEF worker, Goes
<1>2. \A c \in Buffer : buf'[c] = IF c \in E THEN Evicted(buf[c]) ELSE [buf EXCEPT ![b] = r][c]
  BY Zenon DEF EvictAll
<1>3. \A w : r.size = n /\ Logical(r, w) = [i \in Page |-> Zero]
  BY <1>0, AllocatedOK
<1> HIDE DEF r
<1>4. buf'[b] = r /\ \A c \in Buffer : c # b => buf'[c] = EvictedTable(E)[c]
  BY <1>0, <1>2, Zenon DEF EvictedTable
<1>5. \A c \in Buffer : c # b => Kept(c)
  BY <1>0, <1>1, <1>4, EvictKept, Zenon
<1>6. buf[b].size = 0
  <2>1. SlotOK(buf[b], Recipe(b))
    BY Zenon DEF IInv, TableOK, SlotsOK
  <2> QED
    BY <2>1, ClearedOK, Zenon DEF SlotOK, ShapeOK
<1>7. PinKept(b)
  BY Zenon DEF PinKept
<1>8. Allocates(b, n)
  BY <1>1, <1>3, <1>4, <1>5, <1>6, <1>7, Zenon DEF Allocates, Changes
<1> QED
  BY <1>8, Zenon DEF Effect

LEMMA AfAllocEffect ==
  ASSUME IInv, NEW b \in Buffer, NEW n \in 1 .. MaxPages, AfAlloc(b, n)
  PROVE  Effect
<1>1. buf[b].state = "FREE" /\ nextid <= MaxId /\ mode = "running"
  BY Zenon DEF AfAlloc
<1>2. PICK E \in SUBSET Candidates({}) :
        \/ /\ EvictAll(E, [buf EXCEPT ![b] = Allocated(n, nextid)], n)
           /\ UNCHANGED <<target, broken, worker, mode, out>>
        \/ /\ CollectFails(E, n, {}) \/ EvictAll(E, buf, 0)
           /\ UNCHANGED <<nextid, target, peak, broken, worker, mode, out>>
        \/ RollbackFailure
  BY Zenon DEF AfAlloc
<1>3. /\ E \in SUBSET Buffer /\ \A c \in E : buf[c].state = "SEALED"
      /\ \A c \in E : buf[c].state \in {"SEALED", "EVICTED"}
  BY Zenon DEF Candidates
<1>4. CASE /\ EvictAll(E, [buf EXCEPT ![b] = Allocated(n, nextid)], n)
           /\ UNCHANGED <<target, broken, worker, mode, out>>
  BY <1>1, <1>3, <1>4, AllocEffect, Zenon
<1>5. CASE /\ CollectFails(E, n, {}) \/ EvictAll(E, buf, 0)
           /\ UNCHANGED <<nextid, target, peak, broken, worker, mode, out>>
  <2>1. EvictAll(E, buf, 0)
    BY <1>5, CollectFailsEvicts, Zenon
  <2> QED
    BY <1>3, <1>5, <2>1, EvictAllEffect, Zenon
<1>6. CASE RollbackFailure
  BY <1>1, <1>6, RollbackFailureEffect, Zenon
<1> QED
  BY <1>2, <1>4, <1>5, <1>6, Zenon

(***************************************************************************)
(* A submission changes the recipe of its own buffer, which is resident,   *)
(* so that no page stands for what the recipe computes, and seals only     *)
(* pages that hold just that.                                              *)
(***************************************************************************)
LEMMA SubmitEffect ==
  ASSUME IInv, NEW b \in Buffer, buf[b].state = "RESIDENT", NEW q, NEW output,
         q.id = buf[b].id, q.size = buf[b].size,
         Logical(q, output) = Logical(buf[b], Recipe(b)),
         buf' = [buf EXCEPT ![b] = q],
         recipes' = [recipes EXCEPT ![buf[b].id] = output],
         UNCHANGED <<mode, out>>
  PROVE  Effect
<1>0. TypeOK /\ TableOK
  BY Zenon DEF IInv
<1>1. buf[b].id \in Ids /\ IsLive(buf[b])
  BY <1>0, UsedRecipe, Zenon DEF IsLive, TableOK
<1>2. buf'[b] = q /\ Recipe(b)' = output
  <2>1. buf'[b] = q
    BY <1>0, Zenon DEF TypeOK
  <2>2. recipes'[buf[b].id] = output
    BY <1>0, <1>1, Zenon DEF TypeOK
  <2> QED
    BY <2>1, <2>2, Zenon DEF Recipe
<1>3. Kept(b)
  BY <1>2, Zenon DEF Kept, PinKept
<1>4. ASSUME NEW c \in Buffer, c # b PROVE Kept(c)
  <2>1. buf'[c] = buf[c]
    BY <1>0, <1>4, Zenon DEF TypeOK
  <2>2. CASE IsLive(buf[c])
    <3>1. buf[c].id # buf[b].id /\ buf[c].id \in Ids
      BY <1>0, <1>1, <1>4, <2>2, UsedRecipe, Zenon DEF TableOK, IdsOK
    <3>2. Recipe(c)' = Recipe(c)
      BY <1>0, <2>1, <3>1, Zenon DEF Recipe, TypeOK
    <3> QED
      BY <2>1, <3>2, Zenon DEF Kept, PinKept
  <2>3. CASE ~IsLive(buf[c])
    <3>1. SlotOK(buf[c], Recipe(c)) /\ buf[c].state = "FREE"
      BY <1>0, <2>3, Zenon DEF TableOK, SlotsOK, IsLive
    <3>2. Logical(buf[c], Recipe(c)') = Logical(buf[c], Recipe(c))
      BY <3>1, PlainSlot, Zenon
    <3> QED
      BY <2>1, <3>2, Zenon DEF Kept, PinKept
  <2> QED
    BY <2>2, <2>3, Zenon
<1> QED
  BY <1>3, <1>4, Zenon DEF AllKept, Quiet, Effect

LEMMA SubmitSealsEffect ==
  ASSUME IInv, NEW b \in Buffer, NEW lo \in Page, NEW hi \in 1 .. MaxPages,
         NEW output \in Outputs(lo, hi), NEW slices \in Slicing, NEW bytes, NEW ns,
         SubmitSeals(b, lo, hi, output, slices, bytes, ns)
  PROVE  Effect
<1> DEFINE q == Sealed(buf[b], lo, hi, slices)
<1>1. /\ buf[b].state = "RESIDENT" /\ lo < hi /\ hi <= buf[b].size
      /\ Matches(buf[b], lo, hi, output)
      /\ buf' = [buf EXCEPT ![b] = q]
      /\ recipes' = [recipes EXCEPT ![buf[b].id] = output]
      /\ UNCHANGED <<mode, out>>
  BY Zenon DEF SubmitSeals, Submission
<1>2. SlotOK(buf[b], Recipe(b)) /\ output \in [Page -> Values] /\ slices \in BOOLEAN
  BY OutputsType, ConstantsAssumption, Zenon DEF IInv, TableOK, SlotsOK
<1>3. q.id = buf[b].id /\ q.size = buf[b].size /\ Logical(q, output) = Logical(buf[b], Recipe(b))
  BY <1>1, <1>2, SealedOK
<1> HIDE DEF q
<1> QED
  BY <1>1, <1>3, SubmitEffect, Zenon

LEMMA SubmitDroppedEffect ==
  ASSUME IInv, NEW b \in Buffer, NEW lo, NEW hi, NEW output, NEW slices \in Slicing,
         NEW bytes, NEW ns,
         SubmitDropped(b, lo, hi, output, slices, bytes, ns)
  PROVE  Effect
<1>1. /\ buf[b].state = "RESIDENT"
      /\ recipes' = [recipes EXCEPT ![buf[b].id] = output]
      /\ UNCHANGED <<mode, out>>
      /\ buf' = [buf EXCEPT ![b].sliced = slices] \/ buf' = buf
  BY Zenon DEF SubmitDropped, Submission
<1>2. SlotOK(buf[b], Recipe(b)) /\ slices \in BOOLEAN /\ buf \in [Buffer -> BufferRecord]
  BY ConstantsAssumption, Zenon DEF IInv, TableOK, SlotsOK, TypeOK
<1>3. CASE buf' = [buf EXCEPT ![b].sliced = slices]
  <2> DEFINE q == [buf[b] EXCEPT !.sliced = slices]
  <2>1. q.id = buf[b].id /\ q.size = buf[b].size /\ Logical(q, output) = Logical(buf[b], Recipe(b))
    BY <1>1, <1>2, SlicedChanged
  <2>2. buf' = [buf EXCEPT ![b] = q]
    BY <1>3, Zenon
  <2> HIDE DEF q
  <2> QED
    BY <1>1, <2>1, <2>2, SubmitEffect, Zenon
<1>4. CASE buf' = buf
  <2>1. buf' = [buf EXCEPT ![b] = buf[b]]
    BY <1>2, <1>4, Zenon
  <2>2. Logical(buf[b], output) = Logical(buf[b], Recipe(b))
    BY <1>1, <1>2, PlainSlot, Zenon
  <2> QED
    BY <1>1, <2>1, <2>2, SubmitEffect, Zenon
<1> QED
  BY <1>1, <1>3, <1>4, Zenon

LEMMA SubmitBrokenEffect ==
  ASSUME IInv, NEW b \in Buffer, NEW output, SubmitBroken(b, output)
  PROVE  Effect
<1>1. /\ buf[b].state = "RESIDENT" /\ buf' = buf /\ UNCHANGED <<mode, out>>
      /\ recipes' = recipes \/ recipes' = [recipes EXCEPT ![buf[b].id] = output]
  BY Zenon DEF SubmitBroken, worker
<1>2. CASE recipes' = recipes
  <2>1. AllKept
    BY <1>1, <1>2, UnchangedKept, Zenon DEF AllKept
  <2> QED
    BY <1>1, <2>1, Zenon DEF Quiet, Effect
<1>3. CASE recipes' = [recipes EXCEPT ![buf[b].id] = output]
  <2>1. buf' = [buf EXCEPT ![b] = buf[b]] /\ SlotOK(buf[b], Recipe(b))
    BY <1>1, Zenon DEF IInv, TypeOK, TableOK, SlotsOK
  <2>2. Logical(buf[b], output) = Logical(buf[b], Recipe(b))
    BY <1>1, <2>1, PlainSlot, Zenon
  <2> QED
    BY <1>1, <1>3, <2>1, <2>2, SubmitEffect, Zenon
<1> QED
  BY <1>1, <1>2, <1>3, Zenon

LEMMA AfFreeEffect ==
  ASSUME IInv, NEW b \in Buffer, AfFree(b)
  PROVE  Effect
<1>1. /\ IsLive(buf[b]) /\ recipes' = recipes /\ Goes /\ out' = out
      /\ buf' = [buf EXCEPT ![b] = Cleared] \/ buf' = buf
  BY Zenon DEF AfFree, Goes
<1>2. CASE buf' = buf
  <2>1. AllKept
    BY <1>1, <1>2, UnchangedKept, Zenon DEF AllKept
  <2> QED
    BY <1>1, <2>1, Zenon DEF Quiet, Goes, Effect
<1>3. CASE buf' = [buf EXCEPT ![b] = Cleared]
  <2>1. \A c \in Buffer : c # b => Kept(c)
    BY <1>1, <1>3, OthersKept, Zenon
  <2>2. /\ buf'[b] = Cleared /\ buf'[b].size = 0 /\ PinKept(b)
        /\ Logical(buf'[b], Recipe(b)') = [i \in Page |-> Zero]
    BY <1>3, ClearedOK, Zenon DEF IInv, TypeOK, PinKept
  <2>3. buf[b].size # 0
    <3>1. ShapeOK(buf[b]) /\ buf[b] \in BufferRecord
      BY Zenon DEF IInv, TableOK, SlotsOK, SlotOK
    <3> QED
      BY <1>1, <3>1 DEF ShapeOK, BufferRecord, IsLive
  <2>4. Frees(b)
    BY <1>1, <2>1, <2>2, <2>3, Zenon DEF Frees, Changes
  <2> QED
    BY <2>4, Zenon DEF Effect
<1> QED
  BY <1>1, <1>2, <1>3, Zenon

-----------------------------------------------------------------------------
LEMMA NextEffect == IInv /\ [Next]_vars => Effect
<1> SUFFICES ASSUME IInv, [Next]_vars PROVE Effect
  BY Zenon
<1>1. ASSUME NEW b \in Buffer, AppStep(b) PROVE Effect
  <2>1. ASSUME NEW i \in Page, Load(b, i) PROVE Effect
    BY <2>1, LoadEffect, Zenon
  <2>2. ASSUME NEW i \in Page, LoadFault(b, i) PROVE Effect
    BY <2>2, LoadFaultEffect, Zenon
  <2>3. ASSUME NEW i \in Page, NEW v \in Values, Store(b, i, v) PROVE Effect
    BY <2>3, StoreEffect, Zenon
  <2>4. ASSUME NEW i \in Page, NEW v \in Values, StoreFault(b, i, v) PROVE Effect
    BY <2>4, StoreFaultEffect, Zenon
  <2> QED
    BY <1>1, <2>1, <2>2, <2>3, <2>4, Zenon DEF AppStep
<1>2. ASSUME NEW b \in Buffer, ApiStep(b) PROVE Effect
  <2>1. ASSUME NEW n \in 1 .. MaxPages, AfAlloc(b, n) PROVE Effect
    BY <2>1, AfAllocEffect, Zenon
  <2>2. ASSUME NEW lo \in Page, NEW hi \in 1 .. MaxPages, NEW w \in BOOLEAN,
               Prepare(b, lo, hi, w)
        PROVE  Effect
    BY <2>2, PrepareEffect, Zenon
  <2>3. CASE AfEvict(b)
    BY <2>3, AfEvictEffect, Zenon
  <2>4. CASE AfManage(b)
    BY <2>4, AfManageEffect, Zenon
  <2>5. CASE AfFree(b)
    BY <2>5, AfFreeEffect, Zenon
  <2> QED
    BY <1>2, <2>1, <2>2, <2>3, <2>4, <2>5, Zenon DEF ApiStep
<1>3. ASSUME NEW b \in Buffer, SubmitStep(b) PROVE Effect
  <2>1. PICK lo \in Page, hi \in 1 .. MaxPages :
          \E output \in Outputs(lo, hi) :
            \/ \E slices \in Slicing, bytes \in Retained, ns \in Costs :
                 \/ SubmitSeals(b, lo, hi, output, slices, bytes, ns)
                 \/ SubmitDropped(b, lo, hi, output, slices, bytes, ns)
            \/ SubmitBroken(b, output)
    BY <1>3, Zenon DEF SubmitStep
  <2>2. PICK output \in Outputs(lo, hi) :
          \/ \E slices \in Slicing, bytes \in Retained, ns \in Costs :
               \/ SubmitSeals(b, lo, hi, output, slices, bytes, ns)
               \/ SubmitDropped(b, lo, hi, output, slices, bytes, ns)
          \/ SubmitBroken(b, output)
    BY <2>1, Zenon
  <2>3. ASSUME NEW slices \in Slicing, NEW bytes \in Retained, NEW ns \in Costs,
               SubmitSeals(b, lo, hi, output, slices, bytes, ns)
        PROVE  Effect
    BY <2>3, SubmitSealsEffect, Zenon
  <2>4. ASSUME NEW slices \in Slicing, NEW bytes \in Retained, NEW ns \in Costs,
               SubmitDropped(b, lo, hi, output, slices, bytes, ns)
        PROVE  Effect
    BY <2>4, SubmitDroppedEffect, Zenon
  <2>5. CASE SubmitBroken(b, output)
    BY <2>5, SubmitBrokenEffect, Zenon
  <2> QED
    BY <2>2, <2>3, <2>4, <2>5, Zenon
<1>4. CASE UNCHANGED <<buf, recipes, mode, out>>
  <2>1. AllKept
    BY <1>4, UnchangedKept, Zenon DEF AllKept
  <2> QED
    BY <1>4, <2>1, Zenon DEF Quiet, Effect
<1>5. ASSUME NEW t \in Targets, AfSetResidentTarget(t) PROVE Effect
  BY <1>4, <1>5, Zenon DEF AfSetResidentTarget, worker
<1>6. CASE UNCHANGED vars
  BY <1>4, <1>6, Zenon DEF vars, worker
<1>7. CASE Ended
  BY <1>6, <1>7, Zenon DEF Ended
<1> QED
  BY <1>1, <1>2, <1>3, <1>5, <1>6, <1>7, Zenon DEF Next

-----------------------------------------------------------------------------
(***************************************************************************)
(* Proofs about Pager for every number of buffers, every page count and    *)
(* every set of failing calls.                                             *)
(***************************************************************************)

LEMMA InitInvariant == Init => IInv
<1> SUFFICES ASSUME Init PROVE IInv
  BY Zenon
<1>1. /\ buf = [b \in Buffer |-> Cleared] /\ nextid = 1 /\ resident = 0 /\ target = 0 /\ peak = 0
      /\ broken = FALSE /\ held = {} /\ mode = "running"
  BY Zenon DEF Init
<1>2. /\ \A w : SlotOK(Cleared, w)
      /\ Cleared.state = "FREE" /\ Cleared.id = 0 /\ ~Cleared.live
      /\ Cleared \in BufferRecord /\ Cleared.page = [i \in Page |-> Cold]
  BY ClearedOK, Zenon DEF SlotOK, Cleared
<1>3. SlotsOK
  BY <1>1, <1>2, Zenon DEF SlotsOK
<1>4. IdsOK
  BY <1>1, <1>2 DEF IdsOK, IsLive
<1>5. RecipesOK
  <2>1. ~HasCold(Cleared)
    BY <1>2, FreeIsEmpty, Zenon DEF SlotOK, HasCold
  <2> QED
    BY <1>1, <1>2, <2>1, Zenon DEF RecipesOK, LiveOK, WorkerAgrees
<1>6. ResidentCounted
  <2>1. ResidentOf(buf) = {}
    BY <1>1, <1>2, Zenon DEF ResidentOf
  <2> QED
    BY <1>1, <2>1, FS_EmptySet, Zenon DEF ResidentCounted
<1>7. TypeOK
  <2>1. /\ MaxPages \in 0 .. MaxPages /\ 1 \in 1 .. Window /\ 1 \in 1 .. MaxId + 1
        /\ Zero \in Values
    BY ConstantsAssumption
  <2>2. /\ evicted \in [Buffer -> BOOLEAN] /\ faulted \in [Buffer -> BOOLEAN]
        /\ retained \in [Buffer -> Nat] /\ cost \in [Buffer -> Nat]
        /\ lastEnd \in [Buffer -> 0 .. MaxPages] /\ ahead \in [Buffer -> 1 .. Window]
    BY <2>1, Zenon DEF Init
  <2>3. recipes \in [Ids -> [Page -> Values]] /\ out \in Values
    BY <2>1, Zenon DEF Init
  <2>4. buf \in [Buffer -> BufferRecord]
    BY <1>1, <1>2, Zenon
  <2>5. /\ nextid \in 1 .. MaxId + 1 /\ held \subseteq Ids
        /\ resident \in Int /\ target \in Nat /\ peak \in Nat
    BY <1>1, <2>1
  <2>6. mode \in {"running", "stopped"} /\ broken \in BOOLEAN
    BY <1>1, Zenon
  <2> QED
    BY <2>2, <2>3, <2>4, <2>5, <2>6, Zenon DEF TypeOK
<1>8. PeakCoversExcess /\ StopsForCause
  BY <1>1 DEF PeakCoversExcess, StopsForCause, Excess
<1> QED
  BY <1>3, <1>4, <1>5, <1>6, <1>7, <1>8, Zenon DEF IInv, TableOK

LEMMA NextInvariant == IInv /\ [Next]_vars => IInv'
<1> SUFFICES ASSUME IInv, [Next]_vars PROVE IInv'
  BY Zenon
<1>1. ASSUME NEW b \in Buffer, AppStep(b) PROVE IInv'
  <2>1. ASSUME NEW i \in Page, Load(b, i) PROVE IInv'
    BY <2>1, LoadStep, Zenon
  <2>2. ASSUME NEW i \in Page, LoadFault(b, i) PROVE IInv'
    BY <2>2, LoadFaultStep, Zenon
  <2>3. ASSUME NEW i \in Page, NEW v \in Values, Store(b, i, v) PROVE IInv'
    BY <2>3, StoreStep, Zenon
  <2>4. ASSUME NEW i \in Page, NEW v \in Values, StoreFault(b, i, v) PROVE IInv'
    BY <2>4, StoreFaultStep, Zenon
  <2> QED
    BY <1>1, <2>1, <2>2, <2>3, <2>4, Zenon DEF AppStep
<1>2. ASSUME NEW b \in Buffer, ApiStep(b) PROVE IInv'
  <2>1. ASSUME NEW n \in 1 .. MaxPages, AfAlloc(b, n) PROVE IInv'
    BY <2>1, AfAllocStep, Zenon
  <2>2. ASSUME NEW lo \in Page, NEW hi \in 1 .. MaxPages, NEW w \in BOOLEAN,
               Prepare(b, lo, hi, w)
        PROVE  IInv'
    BY <2>2, PrepareStep, Zenon
  <2>3. CASE AfEvict(b)
    BY <2>3, AfEvictStep, Zenon
  <2>4. CASE AfManage(b)
    BY <2>4, AfManageStep, Zenon
  <2>5. CASE AfFree(b)
    BY <2>5, AfFreeStep, Zenon
  <2> QED
    BY <1>2, <2>1, <2>2, <2>3, <2>4, <2>5, Zenon DEF ApiStep
<1>3. ASSUME NEW b \in Buffer, SubmitStep(b) PROVE IInv'
  <2>1. PICK lo \in Page, hi \in 1 .. MaxPages :
          \E output \in Outputs(lo, hi) :
            \/ \E slices \in Slicing, bytes \in Retained, ns \in Costs :
                 \/ SubmitSeals(b, lo, hi, output, slices, bytes, ns)
                 \/ SubmitDropped(b, lo, hi, output, slices, bytes, ns)
            \/ SubmitBroken(b, output)
    BY <1>3, Zenon DEF SubmitStep
  <2>2. PICK output \in Outputs(lo, hi) :
          \/ \E slices \in Slicing, bytes \in Retained, ns \in Costs :
               \/ SubmitSeals(b, lo, hi, output, slices, bytes, ns)
               \/ SubmitDropped(b, lo, hi, output, slices, bytes, ns)
          \/ SubmitBroken(b, output)
    BY <2>1, Zenon
  <2>3. ASSUME NEW slices \in Slicing, NEW bytes \in Retained, NEW ns \in Costs,
               SubmitSeals(b, lo, hi, output, slices, bytes, ns)
        PROVE  IInv'
    BY <2>3, SubmitSealsStep, Zenon
  <2>4. ASSUME NEW slices \in Slicing, NEW bytes \in Retained, NEW ns \in Costs,
               SubmitDropped(b, lo, hi, output, slices, bytes, ns)
        PROVE  IInv'
    BY <2>4, SubmitDroppedStep, Zenon
  <2>5. CASE SubmitBroken(b, output)
    BY <2>5, SubmitBrokenStep, Zenon
  <2> QED
    BY <2>2, <2>3, <2>4, <2>5, Zenon
<1>4. ASSUME NEW t \in Targets, AfSetResidentTarget(t) PROVE IInv'
  BY <1>4, SetTargetStep, Zenon
<1>5. CASE UNCHANGED vars
  BY <1>5, StutterStep, Zenon DEF vars
<1>6. CASE Ended
  BY <1>5, <1>6, Zenon DEF Ended
<1> QED
  BY <1>1, <1>2, <1>3, <1>4, <1>5, <1>6, Zenon DEF Next

(***************************************************************************)
(* The inductive invariant holds in every reachable state.                 *)
(***************************************************************************)
THEOREM Invariance == Spec => []IInv
<1>1. Init => IInv
  BY InitInvariant, Zenon
<1>2. IInv /\ [Next]_vars => IInv'
  BY NextInvariant, Zenon
<1> QED
  BY <1>1, <1>2, PTL DEF Spec

(***************************************************************************)
(* The variables of the runtime keep their types.                          *)
(***************************************************************************)
THEOREM TypeCorrect == Spec => []TypeOK
<1>1. IInv => TypeOK
  BY Zenon DEF IInv
<1> QED
  BY <1>1, Invariance, PTL

(***************************************************************************)
(* mprotect and Buffer::pages agree in every reachable state, failed       *)
(* evictions and restores included.                                        *)
(***************************************************************************)
THEOREM ProtectionIsRight == Spec => []ProtectionMatches
<1>1. IInv => ProtectionMatches
  BY Zenon DEF IInv, TableOK, SlotsOK, SlotOK, ProtectionMatches
<1> QED
  BY <1>1, Invariance, PTL

(***************************************************************************)
(* Nothing af_evict takes away is lost.                                    *)
(***************************************************************************)
THEOREM EvictionLosesNothing == Spec => []EvictionIsLossless
<1>1. ASSUME IInv, NEW b \in Buffer
      PROVE  /\ CleanOK(buf[b], Recipe(b))
             /\ buf[b].state \in {"SEALED", "EVICTED"} =>
                  \A i \in Region(buf[b]) : buf[b].page[i] # Dirty
  <2>1. SlotOK(buf[b], Recipe(b))
    BY <1>1, Zenon DEF IInv, TableOK, SlotsOK
  <2>2. Region(buf[b]) \subseteq Mapped(buf[b])
    BY <2>1, RegionInPage, Zenon DEF SlotOK
  <2> QED
    BY <2>1, <2>2 DEF SlotOK, StateOK, Clean, Dirty
<1>2. IInv => EvictionIsLossless
  BY <1>1, Zenon DEF EvictionIsLossless
<1> QED
  BY <1>2, Invariance, PTL

(***************************************************************************)
(* A restore of a whole region never overwrites a resident page.           *)
(***************************************************************************)
THEOREM WholeRegionSafe == Spec => []WholeRegionRestores
<1>1. IInv => WholeRegionRestores
  BY Zenon DEF IInv, TableOK, SlotsOK, SlotOK, WholeRegionRestores
<1> QED
  BY <1>1, Invariance, PTL

(***************************************************************************)
(* resident_pages and resident_managed are exact.                          *)
(***************************************************************************)
THEOREM AccountingExact == Spec => []PageAccounting
<1>1. IInv => PageAccounting
  BY Zenon DEF IInv, TableOK, SlotsOK, SlotOK, ResidentCounted, ResidentOf, PageAccounting, AllResident
<1> QED
  BY <1>1, Invariance, PTL

(***************************************************************************)
(* While the channel works, a page that is not resident can be restored.   *)
(***************************************************************************)
THEOREM ColdRecoverable == Spec => []ColdIsRecoverable
<1>1. IInv => ColdIsRecoverable
  BY SMTT(30) DEF IInv, TableOK, RecipesOK, LiveOK, WorkerAgrees, ColdIsRecoverable
<1> QED
  BY <1>1, Invariance, PTL

(***************************************************************************)
(* While the channel works, the worker keeps no recipe that is not needed. *)
(***************************************************************************)
THEOREM RecipesReleased == Spec => []NoRecipeLeak
<1>1. IInv => NoRecipeLeak
  BY Zenon DEF IInv, TableOK, RecipesOK, LiveOK, WorkerAgrees, NoRecipeLeak
<1> QED
  BY <1>1, Invariance, PTL

(***************************************************************************)
(* peak_over_target_bytes is never below over_target_bytes.                *)
(***************************************************************************)
THEOREM PeakIsPeak == Spec => []PeakCoversExcess
<1>1. IInv => PeakCoversExcess
  BY Zenon DEF IInv
<1> QED
  BY <1>1, Invariance, PTL

(***************************************************************************)
(* pager_failure has a cause outside the runtime.                          *)
(***************************************************************************)
THEOREM StopHasCause == Spec => []StopsForCause
<1>1. IInv => StopsForCause
  BY Zenon DEF IInv
<1> QED
  BY <1>1, Invariance, PTL

-----------------------------------------------------------------------------
(* What an effect leaves of a pinned buffer, and of plain memory.          *)
LEMMA EffectPins == Effect => \A b \in Buffer : PinKept(b)
<1> SUFFICES ASSUME Effect, NEW c \in Buffer PROVE PinKept(c)
  BY Zenon
<1>1. CASE AllKept
  BY <1>1, Zenon DEF AllKept, Kept
<1>2. ASSUME NEW b \in Buffer, NEW n, NEW m, Changes(b, n, m) PROVE PinKept(c)
  BY <1>2, Zenon DEF Changes, Kept
<1> QED
  BY <1>1, <1>2, Zenon DEF Effect, Quiet, Stops, Loads, Stores, Allocates, Frees

(***************************************************************************)
(* An effect is a step of plain memory, or changes nothing of it.          *)
(***************************************************************************)
Extents == [b \in Buffer |-> buf[b].size]
Contents == [b \in Buffer |-> Logical(buf[b], Recipe(b))]

LEMMA KeptSame ==
  ASSUME AllKept
  PROVE  Extents' = Extents /\ Contents' = Contents
  BY Zenon DEF AllKept, Kept, Extents, Contents

LEMMA ChangesOne ==
  ASSUME NEW b \in Buffer, NEW n, NEW m, Changes(b, n, m)
  PROVE  Extents' = [Extents EXCEPT ![b] = n] /\ Contents' = [Contents EXCEPT ![b] = m]
<1>1. \A c \in Buffer : /\ buf'[c].size = IF c = b THEN n ELSE buf[c].size
                        /\ Logical(buf'[c], Recipe(c)')
                             = IF c = b THEN m ELSE Logical(buf[c], Recipe(c))
  BY Zenon DEF Changes, Kept
<1>2. Extents' = [Extents EXCEPT ![b] = n]
  BY <1>1, Zenon DEF Extents
<1>3. Contents' = [Contents EXCEPT ![b] = m]
  BY <1>1, Zenon DEF Contents
<1> QED
  BY <1>2, <1>3, Zenon

LEMMA EffectRefines == Effect => [Memory!Next]_(Memory!vars)
<1> SUFFICES ASSUME Effect PROVE [Memory!Next]_(Memory!vars)
  BY Zenon
<1>1. CASE Quiet
  <2>1. Extents' = Extents /\ Contents' = Contents /\ mode' = mode /\ out' = out
    BY <1>1, KeptSame, Zenon DEF Quiet
  <2> QED
    BY <2>1, Zenon DEF Memory!vars, Extents, Contents
<1>2. CASE Stops
  <2>1. /\ Extents' = Extents /\ Contents' = Contents /\ out' = out
        /\ mode = "running" /\ mode' = "stopped"
    BY <1>2, KeptSame, Zenon DEF Stops
  <2>2. Memory!Stop
    BY <2>1, Zenon DEF Memory!Stop, Extents, Contents
  <2> QED
    BY <2>2, Zenon DEF Memory!Next
<1>3. ASSUME NEW b \in Buffer, NEW i \in Page, Loads(b, i) PROVE Memory!Next
  <2>1. /\ Extents' = Extents /\ Contents' = Contents /\ mode = "running" /\ mode' = mode
        /\ i < Extents[b] /\ out' = Contents[b][i]
    BY <1>3, KeptSame, SMTT(30) DEF Loads, Goes, Extents, Contents
  <2>2. Memory!Load(b, i)
    BY <2>1, Zenon DEF Memory!Load, Extents, Contents
  <2> QED
    BY <2>2, Zenon DEF Memory!Next, Memory!Page, Page
<1>4. ASSUME NEW b \in Buffer, NEW i \in Page, NEW v \in Values, Stores(b, i, v)
      PROVE  Memory!Next
  <2>1. /\ Extents' = [Extents EXCEPT ![b] = buf[b].size]
        /\ Contents' = [Contents EXCEPT ![b] = [Logical(buf[b], Recipe(b)) EXCEPT ![i] = v]]
        /\ mode = "running" /\ mode' = mode /\ out' = out /\ i < Extents[b]
    <3>1. Changes(b, buf[b].size, [Logical(buf[b], Recipe(b)) EXCEPT ![i] = v])
      BY <1>4, Zenon DEF Stores
    <3>2. mode = "running" /\ mode' = mode /\ out' = out /\ i < Extents[b]
      BY <1>4, Zenon DEF Stores, Changes, Goes, Extents
    <3>3. /\ Extents' = [Extents EXCEPT ![b] = buf[b].size]
          /\ Contents' = [Contents EXCEPT ![b] = [Logical(buf[b], Recipe(b)) EXCEPT ![i] = v]]
      BY <3>1, ChangesOne
    <3> QED
      BY <3>2, <3>3, Zenon
  <2>2. Extents' = Extents
    BY <2>1, Zenon DEF Extents
  <2>3. Contents' = [Contents EXCEPT ![b][i] = v]
    BY <2>1, Zenon DEF Contents
  <2>4. Memory!Store(b, i, v)
    BY <2>1, <2>2, <2>3, Zenon DEF Memory!Store, Extents, Contents
  <2> QED
    BY <2>4, Zenon DEF Memory!Next, Memory!Page, Page
<1>5. ASSUME NEW b \in Buffer, NEW n \in 1 .. MaxPages, Allocates(b, n) PROVE Memory!Next
  <2>1. /\ Extents' = [Extents EXCEPT ![b] = n]
        /\ Contents' = [Contents EXCEPT ![b] = [i \in Page |-> Zero]]
    BY <1>5, ChangesOne, Zenon DEF Allocates
  <2>2. mode = "running" /\ mode' = mode /\ out' = out /\ Extents[b] = 0
    BY <1>5, Zenon DEF Allocates, Changes, Goes, Extents
  <2>3. Memory!Alloc(b, n)
    BY <2>1, <2>2, Zenon DEF Memory!Alloc, Memory!Blank, Memory!Page, Page, Extents, Contents
  <2> QED
    BY <2>3, Zenon DEF Memory!Next
<1>6. ASSUME NEW b \in Buffer, Frees(b) PROVE Memory!Next
  <2>1. /\ Extents' = [Extents EXCEPT ![b] = 0]
        /\ Contents' = [Contents EXCEPT ![b] = [i \in Page |-> Zero]]
    BY <1>6, ChangesOne, Zenon DEF Frees
  <2>2. mode = "running" /\ mode' = mode /\ out' = out /\ Extents[b] # 0
    BY <1>6, Zenon DEF Frees, Changes, Goes, Extents
  <2>3. Memory!Free(b)
    BY <2>1, <2>2, Zenon DEF Memory!Free, Memory!Blank, Memory!Page, Page, Extents, Contents
  <2> QED
    BY <2>3, Zenon DEF Memory!Next
<1> QED
  BY <1>1, <1>2, <1>3, <1>4, <1>5, <1>6, Zenon DEF Effect

LEMMA InitRefines == Init => Memory!Init
<1> SUFFICES ASSUME Init PROVE Memory!Init
  BY Zenon
<1>1. \A b \in Buffer : buf[b] = Cleared /\ out = Zero /\ mode = "running"
  BY Zenon DEF Init
<1>2. \A b \in Buffer : buf[b].size = 0 /\ Logical(buf[b], Recipe(b)) = [i \in Page |-> Zero]
  BY <1>1, ClearedOK, Zenon
<1>3. out = Zero /\ mode = "running"
  BY Zenon DEF Init
<1> QED
  BY <1>2, <1>3, Zenon DEF Memory!Init, Memory!Blank, Memory!Page, Page

-----------------------------------------------------------------------------
(***************************************************************************)
(* A buffer the application modified after its recipe was accepted stays   *)
(* pinned, and none of its pages is taken away again, until af_free.       *)
(***************************************************************************)
THEOREM PinnedStaysPinned == Spec => PinnedForGood
<1>1. IInv /\ [Next]_vars =>
        [\A b \in Buffer : buf[b].state = "PINNED" =>
           \/ buf'[b].state = "FREE"
           \/ /\ buf'[b].state = "PINNED"
              /\ \A i \in Page : buf[b].page[i] # Cold => buf'[b].page[i] # Cold]_vars
  BY NextEffect, EffectPins, Zenon DEF PinKept
<1> QED
  BY <1>1, Invariance, PTL DEF Spec, PinnedForGood

(***************************************************************************)
(* The pager implements plain memory: through evictions, restores, failed  *)
(* calls and a lost worker, every load returns what the application stored *)
(* last, or the process stops.                                             *)
(***************************************************************************)
THEOREM ImplementsMemory == Spec => Transparent
<1>1. Init => Memory!Init
  BY InitRefines, Zenon
<1>2. IInv /\ [Next]_vars => [Memory!Next]_(Memory!vars)
  BY NextEffect, EffectRefines, Zenon
<1> QED
  BY <1>1, <1>2, Invariance, PTL DEF Spec, Transparent, Memory!Spec
-----------------------------------------------------------------------------
(* Every page of a buffer that collect may evict is resident: what collect
   counts and what the eviction frees is the same. *)
LEMMA CandidatesAreResident ==
  ASSUME IInv, NEW E \in SUBSET Candidates({})
  PROVE  ResidentPairs(E) = RegionPairs(E)
<1>1. \A b \in E : b \in Buffer /\ buf[b].state = "SEALED"
  BY Zenon DEF Candidates
<1>2. \A b \in E : \A i \in Region(buf[b]) : buf[b].page[i] # Cold
  <2> SUFFICES ASSUME NEW b \in E, NEW i \in Region(buf[b]) PROVE buf[b].page[i] # Cold
    BY Zenon
  <2>1. buf[b] \in BufferRecord /\ ShapeOK(buf[b]) /\ StateOK(buf[b])
    BY <1>1, Zenon DEF IInv, TableOK, SlotsOK, SlotOK
  <2>2. i \in Mapped(buf[b])
    BY <2>1, RegionInPage, Zenon
  <2>3. buf[b].page[i] = Clean
    BY <1>1, <2>1, <2>2, Zenon DEF StateOK
  <2> QED BY <2>3 DEF Clean, Cold
<1>3. \A b \in E : {j \in Region(buf[b]) : buf[b].page[j] # Cold} = Region(buf[b])
  BY <1>2, Zenon
<1>4. \A b \in E : {<<b, i>> : i \in {j \in Region(buf[b]) : buf[b].page[j] # Cold}} = {<<b, i>> : i \in Region(buf[b])}
  BY <1>3
<1>5. {{<<b, i>> : i \in {j \in Region(buf[b]) : buf[b].page[j] # Cold}} : b \in E}
        = {{<<b, i>> : i \in Region(buf[b])} : b \in E}
  BY <1>4, SMTT(20)
<1> QED BY <1>5, Zenon DEF ResidentPairs, RegionPairs

(* An allocation evicts until the target is met or no candidate is left. *)
LEMMA AllocMeetsTarget ==
  ASSUME IInv, NEW b \in Buffer, NEW n \in 1 .. MaxPages, AfAlloc(b, n),
         nextid' # nextid, target # 0, resident' > target
  PROVE  Candidates({})' = {}
<1>1. PICK E \in SUBSET Candidates({}) :
        /\ CollectDone(E, n, {})
        /\ EvictAll(E, [buf EXCEPT ![b] = Allocated(n, nextid)], n)
  BY Zenon DEF AfAlloc, RollbackFailure
<1>2. OverTarget(E, n)
  <2>1. resident' = resident - Cardinality(ResidentPairs(E)) + n
    BY <1>1, Zenon DEF EvictAll
  <2>2. ResidentPairs(E) = RegionPairs(E)
    BY CandidatesAreResident, Zenon
  <2> QED BY <2>1, <2>2, Zenon DEF OverTarget
<1>3. E = Candidates({})
  BY <1>1, <1>2, Zenon DEF CollectDone
<1>4. \A c \in Buffer :
        /\ buf'[c] = IF c \in E THEN Evicted(buf[c]) ELSE [buf EXCEPT ![b] = Allocated(n, nextid)][c]
        /\ evicted'[c] = (c \in E \/ evicted[c])
  BY <1>1, Zenon DEF EvictAll
<1>5. UNCHANGED <<faulted, retained>>
  BY <1>1, Zenon DEF EvictAll
<1>6. buf \in [Buffer -> BufferRecord]
  BY Zenon DEF IInv, TypeOK
<1>7. SUFFICES ASSUME NEW c \in Candidates({})' PROVE FALSE
  BY Zenon
<1>8. c \in Buffer /\ buf'[c].state = "SEALED" /\ ~evicted'[c] /\ ~faulted'[c]
      /\ PAGE * (buf'[c].last - buf'[c].first) - retained'[c] > 0
  BY <1>7, Zenon DEF Candidates, Benefit
<1>9. c \notin E /\ ~evicted[c]
  BY <1>4, <1>8, Zenon
<1>10. CASE c = b
  <2>1. buf'[c] = Allocated(n, nextid)
    BY <1>4, <1>6, <1>8, <1>9, <1>10, Zenon
  <2>2. Allocated(n, nextid).state = "RESIDENT"
    BY DEF Allocated
  <2> QED BY <1>8, <2>1, <2>2
<1>11. CASE c # b
  <2>1. buf'[c] = buf[c]
    BY <1>4, <1>6, <1>8, <1>9, <1>11, Zenon
  <2>2. c \in Candidates({})
    BY <1>5, <1>8, <1>9, <2>1, Zenon DEF Candidates, Benefit
  <2> QED BY <1>3, <1>9, <2>2, Zenon
<1> QED BY <1>10, <1>11, Zenon

(***************************************************************************)
(* An allocation leaves the target exceeded only when collect has nothing  *)
(* left to evict.                                                          *)
(***************************************************************************)
THEOREM TargetIsMet == Spec => TargetOrNothingLeft
<1>1. IInv /\ [Next]_vars =>
        [nextid' # nextid /\ target # 0 /\ resident' > target => Candidates({})' = {}]_vars
  <2> SUFFICES ASSUME IInv, Next, nextid' # nextid, target # 0, resident' > target
               PROVE  Candidates({})' = {}
    BY Zenon
  <2>1. ASSUME NEW b \in Buffer, AppStep(b) PROVE nextid' = nextid
    BY <2>1, Zenon DEF AppStep, Load, LoadFault, Store, StoreFault, Materialize, PagerFailure
  <2>2. ASSUME NEW b \in Buffer, ApiStep(b), \A n \in 1 .. MaxPages : ~AfAlloc(b, n) PROVE nextid' = nextid
    <3>1. ASSUME NEW lo \in Page, NEW hi \in 1 .. MaxPages, NEW w \in BOOLEAN, Prepare(b, lo, hi, w)
          PROVE  nextid' = nextid
      BY <3>1, Zenon DEF Prepare, Materialize, PagerFailure
    <3>2. CASE AfEvict(b)
      BY <3>2, Zenon DEF AfEvict, RollbackFailure
    <3>3. CASE AfManage(b)
      BY <3>2, <3>3, Zenon DEF AfManage, RollbackFailure
    <3>4. CASE AfFree(b)
      BY <3>4, Zenon DEF AfFree
    <3> QED BY <2>2, <3>1, <3>2, <3>3, <3>4, Zenon DEF ApiStep
  <2>3. ASSUME NEW b \in Buffer, SubmitStep(b) PROVE nextid' = nextid
    <3>1. \A lo, hi, output, slices, bytes, ns :
            \/ SubmitSeals(b, lo, hi, output, slices, bytes, ns)
            \/ SubmitDropped(b, lo, hi, output, slices, bytes, ns)
            => nextid' = nextid
      BY DEF SubmitSeals, SubmitDropped
    <3>2. \A output : SubmitBroken(b, output) => nextid' = nextid
      BY DEF SubmitBroken
    <3> QED BY <2>3, <3>1, <3>2, Zenon DEF SubmitStep
  <2>4. ASSUME NEW t \in Targets, AfSetResidentTarget(t) PROVE nextid' = nextid
    BY <2>4, Zenon DEF AfSetResidentTarget
  <2>5. CASE Ended
    BY <2>5, Zenon DEF Ended, vars
  <2> QED BY <2>1, <2>2, <2>3, <2>4, <2>5, AllocMeetsTarget, Zenon DEF Next
<1> QED BY <1>1, Invariance, PTL DEF Spec, TargetOrNothingLeft
=============================================================================
