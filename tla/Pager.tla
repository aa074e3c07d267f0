------------------------------- MODULE Pager -------------------------------
(***************************************************************************)
(* The user-space pager of native/runtime.cpp.                             *)
(*                                                                         *)
(* The application is one thread, so every entry point of the runtime, and *)
(* the SIGSEGV handler with every signal blocked, runs as one step.  What  *)
(* can happen in the middle of such a step is that the worker process does *)
(* not answer (it died, or the socket timed out) or that a system call     *)
(* fails: each request and each call that can fail is a choice here.       *)
(*                                                                         *)
(* A page holds one value.  Sizes and counters are in pages, except the    *)
(* bytes the eviction policy compares (PAGE, retained).                    *)
(***************************************************************************)
EXTENDS Integers, FiniteSets

CONSTANTS
  Buffer,     \* the slots of the table `buffers`
  MaxPages,   \* the largest allocation, in pages
  Values,     \* what a page can hold
  Zero,       \* what a page holds after mmap or MADV_DONTNEED
  MaxId,      \* bound: how many allocations a behaviour makes
  PAGE,       \* bytes of a page
  Targets,    \* the resident targets the application sets, in pages
  Retained,   \* bytes the worker may report to retain for a recipe
  Costs,      \* validation times
  Slicing,    \* whether a recipe may have (TRUE) or lack (FALSE) page checkpoints
  Window,     \* the read-ahead limit (16 in the code)
  Failing     \* the calls that may fail, a subset of Calls

Calls == {"mmap", "mprotect", "madvise", "munmap", "replay"}

ASSUME ConstantsAssumption ==
  /\ IsFiniteSet(Buffer)
  /\ MaxPages \in Nat \ {0}
  /\ Zero \in Values
  /\ MaxId \in Nat
  /\ PAGE \in Nat \ {0}
  /\ Targets \subseteq Nat
  /\ Retained \subseteq Nat
  /\ Costs \subseteq Nat \ {0}
  /\ Slicing \subseteq BOOLEAN
  /\ Window \in Nat \ {0}
  /\ Failing \subseteq Calls

Page == 0 .. MaxPages - 1

Ids == 1 .. MaxId

(***************************************************************************)
(* The values of Buffer::pages.                                            *)
(***************************************************************************)
Cold == 0
Clean == 1
Dirty == 3

States == {"FREE", "RESIDENT", "SEALED", "EVICTED", "PINNED"}

(***************************************************************************)
(* One slot.  `first .. last - 1' are the pages of the recipe's region     *)
(* (recipe_offset, recipe_length), `sliced' is page_bytes # 0, `count' is  *)
(* resident_pages, `live' is recipe_live.  prot and phys are the kernel's: *)
(* the protection of each page, and the bytes it really holds.             *)
(***************************************************************************)
BufferRecord ==
  [state : States, size : 0 .. MaxPages,
   first : 0 .. MaxPages, last : 0 .. MaxPages, sliced : BOOLEAN,
   page : [Page -> {Cold, Clean, Dirty}],
   prot : [Page -> {"none", "r", "rw"}],
   phys : [Page -> Values],
   count : Int, id : 0 .. MaxId, live : BOOLEAN]

VARIABLES
  buf,        \* the table of buffers
  evicted,    \* evicted[b]: stats.evictions # 0
  faulted,    \* faulted[b]: fault_count # 0
  retained,   \* stats.retained_bytes
  cost,       \* stats.validation_ns
  lastEnd,    \* last_fault_end (MaxPages stands for SIZE_MAX: no page has it)
  ahead,      \* readahead
  nextid,
  resident,   \* resident_managed
  target,     \* resident_target, 0 when there is none
  peak,       \* peak_over_target
  broken,     \* channel_broken
  held,       \* the ids whose recipe the worker's map holds
  recipes,    \* recipes[n]: what the recipe submitted for id n computes
  mode,       \* "running", or "stopped" once pager_failure ended the process
  out         \* what the application's last load returned

policy == <<evicted, faulted, retained, cost, lastEnd, ahead>>
worker == <<held, recipes>>
vars == <<buf, policy, nextid, resident, target, peak, broken, worker, mode, out>>

-----------------------------------------------------------------------------
Region(r) == r.first .. r.last - 1

Mapped(r) == 0 .. r.size - 1

IsLive(r) == r.state # "FREE"

(***************************************************************************)
(* Buffer::clear().                                                        *)
(***************************************************************************)
Cleared ==
  [state |-> "FREE", size |-> 0, first |-> 0, last |-> 0, sliced |-> FALSE,
   page |-> [i \in Page |-> Cold], prot |-> [i \in Page |-> "none"],
   phys |-> [i \in Page |-> Zero], count |-> 0, id |-> 0, live |-> FALSE]

(***************************************************************************)
(* The slot af_alloc fills: every page writable and zero.                  *)
(***************************************************************************)
Allocated(n, newid) ==
  [Cleared EXCEPT
     !.state = "RESIDENT", !.size = n, !.last = n, !.count = n, !.id = newid,
     !.page = [i \in Page |-> IF i < n THEN Dirty ELSE Cold],
     !.prot = [i \in Page |-> IF i < n THEN "rw" ELSE "none"]]

Excess(res, tgt) == IF tgt # 0 /\ res > tgt THEN res - tgt ELSE 0

Larger(m, n) == IF m > n THEN m ELSE n

(***************************************************************************)
(* Fault: observe_target() runs before resident_managed is updated.        *)
(***************************************************************************)
ObserveTargetEarly ==
  peak' = Larger(peak, Excess(resident, target))

(***************************************************************************)
(* observe_target(), at the value resident_managed has just got.           *)
(***************************************************************************)
ObserveTarget ==
  peak' = Larger(peak, Excess(resident', target))

-----------------------------------------------------------------------------
(* Fault of restore_span: every recipe is taken to have checkpoints. *)
FetchedSliced(r, wanted) == wanted

(***************************************************************************)
(* restore_span.  A recipe with page checkpoints restores just the pages   *)
(* asked for; any other recipe restores its whole region.  w is what the   *)
(* recipe of the buffer computes.                                          *)
(***************************************************************************)
Fetched(r, wanted) ==
  IF wanted = {} THEN {} ELSE IF r.sliced THEN wanted ELSE Region(r)

Restored(r, F, w) ==
  IF F = {} THEN r
  ELSE [r EXCEPT
          !.page = [i \in Page |-> IF i \in F THEN Clean ELSE r.page[i]],
          !.prot = [i \in Page |-> IF i \in F THEN "r" ELSE r.prot[i]],
          !.phys = [i \in Page |-> IF i \in F THEN w[i] ELSE r.phys[i]],
          !.count = r.count + Cardinality(F),
          !.state = IF r.count + Cardinality(F) = r.size /\ r.state # "PINNED"
                    THEN "SEALED" ELSE r.state]

(***************************************************************************)
(* Faults: a store does not pin the buffer; pages about to be written are  *)
(* not read back first.                                                    *)
(***************************************************************************)
WrittenUnpinned(r, S) ==
  [r EXCEPT
     !.page = [i \in Page |-> IF i \in S THEN Dirty ELSE r.page[i]],
     !.prot = [i \in Page |-> IF i \in S THEN "rw" ELSE r.prot[i]]]

WrittenBlank(r, S) ==
  [r EXCEPT
     !.page = [i \in Page |-> IF i \in S THEN Dirty ELSE r.page[i]],
     !.prot = [i \in Page |-> IF i \in S THEN "rw" ELSE r.prot[i]],
     !.phys = [i \in Page |-> IF i \in S THEN Zero ELSE r.phys[i]],
     !.state = IF r.state # "RESIDENT" /\ S \cap Region(r) # {}
               THEN "PINNED" ELSE r.state]

(***************************************************************************)
(* The part of materialize that makes the pages S writable.                *)
(***************************************************************************)
Written(r, S) ==
  [r EXCEPT
     !.page = [i \in Page |-> IF i \in S THEN Dirty ELSE r.page[i]],
     !.prot = [i \in Page |-> IF i \in S THEN "rw" ELSE r.prot[i]],
     !.state = IF r.state # "RESIDENT" /\ S \cap Region(r) # {}
               THEN "PINNED" ELSE r.state]

ColdIn(r, S) == {i \in S : r.page[i] = Cold}

Materialized(r, S, writing, w) ==
  LET fetched == Restored(r, Fetched(r, ColdIn(r, S)), w)
  IN  IF writing /\ S # {} THEN Written(fetched, S) ELSE fetched

Recipe(b) == recipes[buf[b].id]

(***************************************************************************)
(* Fault: the worker's range check refuses the last page.                  *)
(***************************************************************************)
WorkerRestoresShort(r, F) == ~broken /\ r.id \in held /\ F \subseteq r.first .. r.last - 2

(***************************************************************************)
(* The worker answers RESTORE with the whole region, or RESTORE_RANGE with *)
(* a part of it, if it still holds the recipe.                             *)
(***************************************************************************)
WorkerRestores(r, F) == ~broken /\ r.id \in held /\ F \subseteq Region(r)

(***************************************************************************)
(* Faults: the recipe is released with pages still cold, or never.         *)
(***************************************************************************)
NeedsDropEarly(r) == r.state = "PINNED" /\ r.live

NeedsDropNever(r) == FALSE

(***************************************************************************)
(* materialize ends by releasing the recipe of a modified buffer that is   *)
(* resident again.  A DROP that gets no answer leaves recipe_live set.     *)
(***************************************************************************)
NeedsDrop(r) == r.state = "PINNED" /\ r.count = r.size /\ r.live

Release(b, r) ==
  \/ /\ ~NeedsDrop(r)
     /\ buf' = [buf EXCEPT ![b] = r]
     /\ UNCHANGED <<held, broken, retained>>
  \/ /\ NeedsDrop(r) /\ ~broken
     /\ buf' = [buf EXCEPT ![b] = [r EXCEPT !.live = FALSE]]
     /\ held' = held \ {r.id}
     /\ retained' = [retained EXCEPT ![b] = r.size]
     /\ UNCHANGED broken
  \/ /\ NeedsDrop(r)
     /\ buf' = [buf EXCEPT ![b] = r]
     /\ broken' = TRUE
     /\ UNCHANGED <<held, retained>>

(***************************************************************************)
(* materialize(b, S, ...) succeeds and leaves the buffer as r: Materialized *)
(* of it, and then the access the application was making.                  *)
(***************************************************************************)
Materialize(b, S, r) ==
  LET F == Fetched(buf[b], ColdIn(buf[b], S))
  IN  /\ F # {} => WorkerRestores(buf[b], F)
      /\ Release(b, r)
      /\ resident' = resident + Cardinality(F)
      /\ ObserveTarget
      /\ UNCHANGED <<nextid, target, recipes, mode>>

(***************************************************************************)
(* materialize fails: no answer, a recipe the worker does not hold, a      *)
(* replay it cannot finish, or mprotect.  Every caller then calls          *)
(* pager_failure, which ends the process.                                  *)
(***************************************************************************)
PagerFailure(b, S, writing) ==
  LET F == Fetched(buf[b], ColdIn(buf[b], S))
  IN  /\ \/ F # {} /\ broken' = TRUE
         \/ /\ F # {} /\ (~WorkerRestores(buf[b], F) \/ "replay" \in Failing)
            /\ UNCHANGED broken
         \/ /\ "mprotect" \in Failing /\ (F # {} \/ writing)
            /\ UNCHANGED broken
      /\ mode' = "stopped"
      /\ UNCHANGED <<buf, policy, nextid, resident, target, peak, worker, out>>

-----------------------------------------------------------------------------
(***************************************************************************)
(* The application's loads and stores.  One that the protection allows     *)
(* needs no help; one that it does not raises SIGSEGV, and fault() serves  *)
(* a cold page, or a store to a clean one.                                 *)
(***************************************************************************)
Load(b, i) ==
  /\ mode = "running" /\ i \in Mapped(buf[b])
  /\ buf[b].prot[i] # "none"
  /\ out' = buf[b].phys[i]
  /\ UNCHANGED <<buf, policy, nextid, resident, target, peak, broken, worker, mode>>

Stored(r, i, v) == [r EXCEPT !.phys[i] = v]

Store(b, i, v) ==
  /\ mode = "running" /\ i \in Mapped(buf[b])
  /\ buf[b].prot[i] = "rw"
  /\ buf' = [buf EXCEPT ![b] = Stored(buf[b], i, v)]
  /\ UNCHANGED <<policy, nextid, resident, target, peak, broken, worker, mode, out>>

(***************************************************************************)
(* Sequential faults double the read-ahead; it never runs over a page that *)
(* is resident.                                                            *)
(***************************************************************************)
NextAhead(b, i) ==
  IF i = lastEnd[b] THEN (IF 2 * ahead[b] > Window THEN Window ELSE 2 * ahead[b])
  ELSE 1

ReadaheadEnd(r, i, n, end) ==
  /\ end - i <= n
  /\ \A k \in i .. end - 1 : r.page[k] = Cold
  /\ end < r.size /\ end - i < n => r.page[end] # Cold

LoadFault(b, i) ==
  /\ mode = "running" /\ i \in Mapped(buf[b])
  /\ buf[b].prot[i] = "none" /\ buf[b].page[i] = Cold
  /\ \E end \in i + 1 .. buf[b].size :
       LET S == i .. end - 1
           r == Materialized(buf[b], S, FALSE, Recipe(b))
       IN  /\ IF buf[b].sliced THEN ReadaheadEnd(buf[b], i, NextAhead(b, i), end)
                               ELSE end = i + 1
           /\ \/ /\ Materialize(b, S, r)
                 /\ faulted' = [faulted EXCEPT ![b] = TRUE]
                 /\ IF buf[b].sliced
                      THEN /\ ahead' = [ahead EXCEPT ![b] = NextAhead(b, i)]
                           /\ lastEnd' = [lastEnd EXCEPT ![b] = end]
                      ELSE UNCHANGED <<ahead, lastEnd>>
                 /\ out' = r.phys[i]
                 /\ UNCHANGED <<evicted, cost>>
              \/ PagerFailure(b, S, FALSE)

StoreFault(b, i, v) ==
  /\ mode = "running" /\ i \in Mapped(buf[b])
  /\ buf[b].prot[i] # "rw" /\ buf[b].page[i] \in {Cold, Clean}
  /\ \/ /\ Materialize(b, {i}, Stored(Materialized(buf[b], {i}, TRUE, Recipe(b)), i, v))
        /\ faulted' = [faulted EXCEPT ![b] = TRUE]
        /\ UNCHANGED <<evicted, cost, lastEnd, ahead, out>>
     \/ PagerFailure(b, {i}, TRUE)

(***************************************************************************)
(* af_prepare_read, af_prepare_write and af_materialize: the pages         *)
(* lo .. hi - 1 of a buffer, before a system call or a copy touches them.  *)
(***************************************************************************)
Prepare(b, lo, hi, writing) ==
  LET S == lo .. hi - 1
  IN  /\ mode = "running"
      /\ lo < hi /\ hi <= buf[b].size
      /\ \/ /\ Materialize(b, S, Materialized(buf[b], S, writing, Recipe(b)))
            /\ UNCHANGED <<evicted, faulted, cost, lastEnd, ahead, out>>
         \/ PagerFailure(b, S, writing)

-----------------------------------------------------------------------------
(***************************************************************************)
(* Faults: af_evict takes the whole region off resident_pages; the rollback*)
(* makes every page of the region readable.                                *)
(***************************************************************************)
EvictedWhole(r) ==
  [r EXCEPT
     !.state = "EVICTED",
     !.page = [i \in Page |-> IF i \in Region(r) THEN Cold ELSE r.page[i]],
     !.prot = [i \in Page |-> IF i \in Region(r) THEN "none" ELSE r.prot[i]],
     !.phys = [i \in Page |-> IF i \in Region(r) THEN Zero ELSE r.phys[i]],
     !.count = r.count - (r.last - r.first)]

RolledBackReadable(r) ==
  [r EXCEPT !.prot = [i \in Page |-> IF i \in Region(r) THEN "r" ELSE r.prot[i]]]

(***************************************************************************)
(* af_evict.  A failed MADV_DONTNEED puts the protection of every page of  *)
(* the region back, from its page state.                                   *)
(***************************************************************************)
Evicted(r) ==
  [r EXCEPT
     !.state = "EVICTED",
     !.page = [i \in Page |-> IF i \in Region(r) THEN Cold ELSE r.page[i]],
     !.prot = [i \in Page |-> IF i \in Region(r) THEN "none" ELSE r.prot[i]],
     !.phys = [i \in Page |-> IF i \in Region(r) THEN Zero ELSE r.phys[i]],
     !.count = r.count - Cardinality({i \in Region(r) : r.page[i] # Cold})]

RolledBack(r) ==
  [r EXCEPT !.prot = [i \in Page |->
     IF i \in Region(r) THEN (IF r.page[i] # Cold THEN "r" ELSE "none") ELSE r.prot[i]]]

(***************************************************************************)
(* The ways af_evict can fail with the process going on: mprotect, leaving *)
(* the buffer as it is, or madvise, with the protections put back.         *)
(***************************************************************************)
EvictFails(r, after) ==
  \/ "mprotect" \in Failing /\ after = r
  \/ "madvise" \in Failing /\ after = RolledBack(r)

ResidentPairs(E) ==
  UNION {{<<b, i>> : i \in {j \in Region(buf[b]) : buf[b].page[j] # Cold}} : b \in E}

(* Fault: an eviction leaves no read-ahead to start from. *)
EvictAllStalled(E, others, added) ==
  /\ buf' = [b \in Buffer |-> IF b \in E THEN Evicted(buf[b]) ELSE others[b]]
  /\ evicted' = [b \in Buffer |-> b \in E \/ evicted[b]]
  /\ lastEnd' = [b \in Buffer |-> IF b \in E THEN MaxPages ELSE lastEnd[b]]
  /\ ahead' = [b \in Buffer |-> IF b \in E THEN 0 ELSE ahead[b]]
  /\ resident' = resident - Cardinality(ResidentPairs(E)) + added
  /\ UNCHANGED <<faulted, retained, cost>>

(***************************************************************************)
(* The buffers of E are evicted, the rest of the table becomes others, and *)
(* an allocation adds `added' pages.                                       *)
(***************************************************************************)
EvictAll(E, others, added) ==
  /\ buf' = [b \in Buffer |-> IF b \in E THEN Evicted(buf[b]) ELSE others[b]]
  /\ evicted' = [b \in Buffer |-> b \in E \/ evicted[b]]
  /\ lastEnd' = [b \in Buffer |-> IF b \in E THEN MaxPages ELSE lastEnd[b]]
  /\ ahead' = [b \in Buffer |-> IF b \in E THEN 1 ELSE ahead[b]]
  /\ resident' = resident - Cardinality(ResidentPairs(E)) + added
  /\ UNCHANGED <<faulted, retained, cost>>

(***************************************************************************)
(* pager_failure in the rollback of a failed MADV_DONTNEED.                *)
(***************************************************************************)
RollbackFailure ==
  /\ {"mprotect", "madvise"} \subseteq Failing
  /\ mode' = "stopped"
  /\ UNCHANGED <<buf, policy, nextid, resident, target, peak, broken, worker, out>>

(* Fault: a modified buffer may be evicted. *)
AfEvictPinned(b) ==
  /\ mode = "running" /\ buf[b].state \notin {"FREE", "RESIDENT"}
  /\ EvictAll({b}, buf, 0)
  /\ UNCHANGED <<nextid, target, peak, broken, worker, mode, out>>

AfEvict(b) ==
  /\ mode = "running"
  /\ \/ buf[b].state = "SEALED"
     \/ buf[b].state = "EVICTED" /\ \E i \in Region(buf[b]) : buf[b].page[i] # Cold
  /\ \/ /\ EvictAll({b}, buf, 0)
        /\ UNCHANGED <<nextid, target, peak, broken, worker, mode, out>>
     \/ /\ \E after \in {buf[b], RolledBack(buf[b])} :
             EvictFails(buf[b], after) /\ buf' = [buf EXCEPT ![b] = after]
        /\ UNCHANGED <<policy, nextid, resident, target, peak, broken, worker, mode, out>>
     \/ RollbackFailure

-----------------------------------------------------------------------------
(***************************************************************************)
(* collect(incoming, ...).  While the target would be exceeded, evict the  *)
(* best candidate: the one that gives back most bytes per nanosecond of    *)
(* validation, the older of two equal ones.  The order is total, so the    *)
(* loop evicts a prefix E of the candidates.  Its counter is a copy of     *)
(* resident_managed that loses the length of each evicted region.          *)
(***************************************************************************)
Benefit(b) == PAGE * (buf[b].last - buf[b].first) - retained[b]

Candidates(spared) ==
  {b \in Buffer \ spared : /\ buf[b].state = "SEALED"
                           /\ ~evicted[b] /\ ~faulted[b]
                           /\ Benefit(b) > 0}

Better(b, c) ==
  \/ Benefit(b) * cost[c] > Benefit(c) * cost[b]
  \/ Benefit(b) * cost[c] = Benefit(c) * cost[b] /\ buf[b].id < buf[c].id

RegionPairs(E) == UNION {{<<b, i>> : i \in Region(buf[b])} : b \in E}

(* Fault: collect forgets the allocation it makes room for. *)
OverTargetNow(E, incoming) == resident - Cardinality(RegionPairs(E)) > target

OverTarget(E, incoming) == resident - Cardinality(RegionPairs(E)) + incoming > target

Chosen(E, incoming, spared) ==
  /\ \A b \in E, c \in Candidates(spared) \ E : Better(b, c)
  /\ \A b \in E : OverTarget({c \in E : Better(c, b)}, incoming)
  /\ E # {} => target # 0

CollectDone(E, incoming, spared) ==
  target = 0 \/ ~OverTarget(E, incoming) \/ E = Candidates(spared)

(***************************************************************************)
(* The next victim after E cannot be evicted: collect returns -1.          *)
(***************************************************************************)
CollectFails(E, incoming, spared) ==
  /\ ~CollectDone(E, incoming, spared)
  /\ \E d \in Candidates(spared) \ E :
       /\ \A c \in Candidates(spared) \ (E \cup {d}) : Better(d, c)
       /\ \E after \in {buf[d], RolledBack(buf[d])} :
            /\ EvictFails(buf[d], after)
            /\ EvictAll(E, [buf EXCEPT ![d] = after], 0)

(***************************************************************************)
(* af_alloc: collect, then mmap, then the slot.  What collect evicted      *)
(* stays evicted when a later step fails.                                  *)
(***************************************************************************)
AfAlloc(b, n) ==
  /\ mode = "running" /\ buf[b].state = "FREE" /\ nextid <= MaxId
  /\ \E E \in SUBSET Candidates({}) :
       /\ Chosen(E, n, {})
       /\ \/ /\ CollectDone(E, n, {})
             /\ EvictAll(E, [buf EXCEPT ![b] = Allocated(n, nextid)], n)
             /\ nextid' = nextid + 1
             /\ ObserveTarget
             /\ UNCHANGED <<target, broken, worker, mode, out>>
          \/ /\ \/ CollectFails(E, n, {})
                \/ /\ CollectDone(E, n, {}) /\ "mmap" \in Failing
                   /\ EvictAll(E, buf, 0)
             /\ UNCHANGED <<nextid, target, peak, broken, worker, mode, out>>
          \/ ~CollectDone(E, n, {}) /\ RollbackFailure

(***************************************************************************)
(* af_manage, called for a buffer that has just been sealed.  Without a    *)
(* target it evicts that buffer; with one, any candidate but that buffer.  *)
(***************************************************************************)
AfManage(b) ==
  /\ mode = "running" /\ IsLive(buf[b])
  /\ \/ target = 0 /\ AfEvict(b)
     \/ /\ target # 0
        /\ \E E \in SUBSET Candidates({b}) :
             /\ Chosen(E, 0, {b})
             /\ \/ /\ \/ CollectDone(E, 0, {b}) /\ EvictAll(E, buf, 0)
                      \/ CollectFails(E, 0, {b})
                   /\ UNCHANGED <<nextid, target, peak, broken, worker, mode, out>>
                \/ ~CollectDone(E, 0, {b}) /\ RollbackFailure

AfSetResidentTarget(t) ==
  /\ mode = "running"
  /\ target' = t
  /\ peak' = Excess(resident, t)
  /\ UNCHANGED <<buf, policy, nextid, resident, broken, worker, mode, out>>

-----------------------------------------------------------------------------
(***************************************************************************)
(* submit.  The worker replays the recipe, which computes `output' for the *)
(* pages lo .. hi - 1, keeps it, and reports what it retains; the runtime  *)
(* compares the output with the pages the application wrote.               *)
(***************************************************************************)
Outputs(lo, hi) == {f \in [Page -> Values] : \A i \in Page \ (lo .. hi - 1) : f[i] = Zero}

Submission(b, lo, hi) ==
  /\ mode = "running" /\ buf[b].state = "RESIDENT"
  /\ lo < hi /\ hi <= buf[b].size

Matches(r, lo, hi, output) == \A i \in lo .. hi - 1 : output[i] = r.phys[i]

Sealed(r, lo, hi, slices) ==
  [r EXCEPT
     !.state = "SEALED", !.first = lo, !.last = hi, !.live = TRUE, !.sliced = slices,
     !.page = [i \in Page |-> IF i \in lo .. hi - 1 THEN Clean ELSE r.page[i]],
     !.prot = [i \in Page |-> IF i \in lo .. hi - 1 THEN "r" ELSE r.prot[i]]]

(***************************************************************************)
(* Every check passes: the region becomes read-only and evictable.         *)
(***************************************************************************)
SubmitSeals(b, lo, hi, output, slices, bytes, ns) ==
  /\ Submission(b, lo, hi) /\ ~broken
  /\ Matches(buf[b], lo, hi, output)
  /\ bytes + buf[b].size < PAGE * (hi - lo)
  /\ recipes' = [recipes EXCEPT ![buf[b].id] = output]
  /\ held' = held \cup {buf[b].id}
  /\ cost' = [cost EXCEPT ![b] = ns]
  /\ retained' = [retained EXCEPT ![b] = bytes + buf[b].size]
  /\ buf' = [buf EXCEPT ![b] = Sealed(buf[b], lo, hi, slices)]
  /\ UNCHANGED <<evicted, faulted, lastEnd, ahead, nextid, resident, target, peak, broken, mode, out>>

(***************************************************************************)
(* The worker kept the recipe, but the runtime does not take it: the bytes *)
(* differ, it would retain too much, or the region cannot be protected.    *)
(* The runtime asks for it to be dropped.                                  *)
(***************************************************************************)
SubmitDropped(b, lo, hi, output, slices, bytes, ns) ==
  /\ Submission(b, lo, hi) /\ ~broken
  /\ recipes' = [recipes EXCEPT ![buf[b].id] = output]
  /\ cost' = [cost EXCEPT ![b] = ns]
  /\ IF Matches(buf[b], lo, hi, output)
       THEN /\ bytes + buf[b].size >= PAGE * (hi - lo) \/ "mprotect" \in Failing
            /\ retained' = [retained EXCEPT ![b] = bytes + buf[b].size]
            /\ buf' = [buf EXCEPT ![b].sliced = slices]
       ELSE UNCHANGED <<retained, buf>>
  /\ \/ held' = held \ {buf[b].id} /\ UNCHANGED broken
     \/ held' = held \cup {buf[b].id} /\ broken' = TRUE
  /\ UNCHANGED <<evicted, faulted, lastEnd, ahead, nextid, resident, target, peak, mode, out>>

(***************************************************************************)
(* The worker disconnects, times out or answers out of protocol; it may or *)
(* may not have kept the recipe by then.                                   *)
(***************************************************************************)
SubmitBroken(b, output) ==
  /\ mode = "running" /\ buf[b].state = "RESIDENT"
  /\ broken' = TRUE
  /\ \/ UNCHANGED worker
     \/ /\ ~broken
        /\ held' = held \cup {buf[b].id}
        /\ recipes' = [recipes EXCEPT ![buf[b].id] = output]
  /\ UNCHANGED <<buf, policy, nextid, resident, target, peak, mode, out>>

(***************************************************************************)
(* af_free.  The recipe is dropped before the mapping goes.                *)
(***************************************************************************)
AfFree(b) ==
  /\ mode = "running" /\ IsLive(buf[b])
  /\ \/ ~buf[b].live /\ UNCHANGED <<held, broken>>
     \/ buf[b].live /\ ~broken /\ held' = held \ {buf[b].id} /\ UNCHANGED broken
     \/ buf[b].live /\ broken' = TRUE /\ UNCHANGED held
  /\ \/ /\ buf' = [buf EXCEPT ![b] = Cleared]
        /\ evicted' = [evicted EXCEPT ![b] = FALSE]
        /\ faulted' = [faulted EXCEPT ![b] = FALSE]
        /\ retained' = [retained EXCEPT ![b] = 0]
        /\ cost' = [cost EXCEPT ![b] = 1]
        /\ lastEnd' = [lastEnd EXCEPT ![b] = MaxPages]
        /\ ahead' = [ahead EXCEPT ![b] = 1]
        /\ resident' = resident - buf[b].count
     \/ "munmap" \in Failing /\ UNCHANGED <<buf, policy, resident>>
  /\ UNCHANGED <<nextid, target, peak, recipes, mode, out>>

(***************************************************************************)
(* The process has ended.                                                  *)
(***************************************************************************)
Ended == mode # "running" /\ UNCHANGED vars

-----------------------------------------------------------------------------
Init ==
  /\ buf = [b \in Buffer |-> Cleared]
  /\ evicted = [b \in Buffer |-> FALSE]
  /\ faulted = [b \in Buffer |-> FALSE]
  /\ retained = [b \in Buffer |-> 0]
  /\ cost = [b \in Buffer |-> 1]
  /\ lastEnd = [b \in Buffer |-> MaxPages]
  /\ ahead = [b \in Buffer |-> 1]
  /\ nextid = 1 /\ resident = 0 /\ target = 0 /\ peak = 0
  /\ broken = FALSE /\ held = {}
  /\ recipes = [n \in Ids |-> [i \in Page |-> Zero]]
  /\ mode = "running" /\ out = Zero

AppStep(b) ==
  \/ \E i \in Page : Load(b, i) \/ LoadFault(b, i)
  \/ \E i \in Page, v \in Values : Store(b, i, v) \/ StoreFault(b, i, v)

ApiStep(b) ==
  \/ \E n \in 1 .. MaxPages : AfAlloc(b, n)
  \/ \E lo \in Page, hi \in 1 .. MaxPages, w \in BOOLEAN : Prepare(b, lo, hi, w)
  \/ AfEvict(b) \/ AfManage(b) \/ AfFree(b)

SubmitStep(b) ==
  \E lo \in Page, hi \in 1 .. MaxPages :
    \E output \in Outputs(lo, hi) :
      \/ \E slices \in Slicing, bytes \in Retained, ns \in Costs :
           \/ SubmitSeals(b, lo, hi, output, slices, bytes, ns)
           \/ SubmitDropped(b, lo, hi, output, slices, bytes, ns)
      \/ SubmitBroken(b, output)

Next ==
  \/ \E b \in Buffer : AppStep(b) \/ ApiStep(b) \/ SubmitStep(b)
  \/ \E t \in Targets : AfSetResidentTarget(t)
  \/ Ended

Spec == Init /\ [][Next]_vars

-----------------------------------------------------------------------------
(***************************************************************************)
(* Type correctness of the runtime's table: a recipe region stays within   *)
(* its buffer, the read-ahead within its limit, and the peak never wraps.  *)
(***************************************************************************)
TypeOK ==
  /\ buf \in [Buffer -> BufferRecord]
  /\ evicted \in [Buffer -> BOOLEAN] /\ faulted \in [Buffer -> BOOLEAN]
  /\ retained \in [Buffer -> Nat] /\ cost \in [Buffer -> Nat]
  /\ lastEnd \in [Buffer -> 0 .. MaxPages] /\ ahead \in [Buffer -> 1 .. Window]
  /\ nextid \in 1 .. MaxId + 1
  /\ resident \in Int /\ target \in Nat /\ peak \in Nat
  /\ broken \in BOOLEAN
  /\ held \subseteq Ids /\ recipes \in [Ids -> [Page -> Values]]
  /\ mode \in {"running", "stopped"}
  /\ out \in Values

(***************************************************************************)
(* What is always true of one slot.                                        *)
(***************************************************************************)
ShapeOK(r) ==
  /\ r.state = "FREE" => r = Cleared
  /\ r.state # "FREE" => /\ r.first < r.last /\ r.last <= r.size
                         /\ r.id \in Ids
  /\ \A i \in Page \ Mapped(r) : r.page[i] = Cold /\ r.phys[i] = Zero

ProtectionOK(r) ==
  \A i \in Mapped(r) :
    /\ r.page[i] = Cold => r.prot[i] = "none"
    /\ r.page[i] = Clean => r.prot[i] = "r"
    /\ r.page[i] = Dirty => r.prot[i] = "rw"

StateOK(r) ==
  \A i \in Mapped(r) :
    /\ i \notin Region(r) \/ r.state = "RESIDENT" => r.page[i] = Dirty
    /\ i \in Region(r) /\ r.state = "SEALED" => r.page[i] = Clean
    /\ i \in Region(r) /\ r.state = "EVICTED" => r.page[i] # Dirty

WholeOK(r) ==
  ~r.sliced =>
    \A i, j \in Region(r) : r.page[i] = Cold => r.state = "EVICTED" /\ r.page[j] = Cold

CountOK(r) == r.count = Cardinality({i \in Page : r.page[i] # Cold})

CleanOK(r, w) ==
  \A i \in Mapped(r) : r.page[i] = Clean => r.phys[i] = w[i]

HasCold(r) == \E i \in Mapped(r) : r.page[i] = Cold

(***************************************************************************)
(* The protection the kernel enforces is always the one the page table of  *)
(* the runtime stands for, so a fault is always one that fault() serves    *)
(* and never reaches the application's own handler; a failed eviction      *)
(* (runtime.cpp:706) restores exactly the protections it took away.        *)
(***************************************************************************)
ProtectionMatches == \A b \in Buffer : ProtectionOK(buf[b])

(***************************************************************************)
(* Eviction loses nothing: the pages of a sealed or evicted region hold    *)
(* what its recipe computes, or are already gone, and a page the           *)
(* application may have changed is never in a region af_evict takes.       *)
(***************************************************************************)
EvictionIsLossless ==
  \A b \in Buffer : /\ CleanOK(buf[b], Recipe(b))
                    /\ buf[b].state \in {"SEALED", "EVICTED"} =>
                         \A i \in Region(buf[b]) : buf[b].page[i] # Dirty

(***************************************************************************)
(* restore_span overwrites the whole region of a recipe that has no page   *)
(* checkpoints.  That is safe because then the region is either all        *)
(* resident or all cold, and never cold in a buffer that was modified.     *)
(***************************************************************************)
WholeRegionRestores == \A b \in Buffer : WholeOK(buf[b])

(***************************************************************************)
(* resident_pages and resident_managed count exactly the resident pages,   *)
(* through every restore, eviction and free.                               *)
(***************************************************************************)
AllResident == {p \in Buffer \X Page : buf[p[1]].page[p[2]] # Cold}

PageAccounting ==
  /\ \A b \in Buffer : CountOK(buf[b])
  /\ resident = Cardinality(AllResident)

(***************************************************************************)
(* Until the channel breaks, every page that is not in memory belongs to a *)
(* recipe the worker holds: an access to it can be served.  (A munmap that *)
(* fails in af_free is the exception: the recipe is gone by then.)         *)
(***************************************************************************)
ColdIsRecoverable ==
  ~broken /\ "munmap" \notin Failing => \A b \in Buffer : HasCold(buf[b]) => buf[b].id \in held

(***************************************************************************)
(* Until the channel breaks, the worker holds a recipe only for a buffer   *)
(* that needs it: one that is sealed or evicted, or that was modified and  *)
(* is not wholly resident yet.                                             *)
(***************************************************************************)
NoRecipeLeak ==
  ~broken => \A n \in held : \E b \in Buffer :
               /\ buf[b].id = n
               /\ \/ buf[b].state \in {"SEALED", "EVICTED"}
                  \/ buf[b].state = "PINNED" /\ HasCold(buf[b])

(***************************************************************************)
(* The reported peak is never less than the present excess over the        *)
(* target, whichever of a restore, an allocation or a new target caused it.*)
(***************************************************************************)
PeakCoversExcess == peak >= Excess(resident, target)

(***************************************************************************)
(* While no system call and no replay fails, the pager stops the process   *)
(* only because the worker no longer answers.                              *)
(***************************************************************************)
StopsForCause == mode = "stopped" /\ Failing = {} => broken

(***************************************************************************)
(* A store retires the recipe for good: a pinned buffer stays pinned, and  *)
(* none of its pages is ever taken away again, until it is freed.          *)
(***************************************************************************)
PinnedForGood ==
  [][\A b \in Buffer : buf[b].state = "PINNED" =>
       \/ buf'[b].state = "FREE"
       \/ /\ buf'[b].state = "PINNED"
          /\ \A i \in Page : buf[b].page[i] # Cold => buf'[b].page[i] # Cold]_vars

(***************************************************************************)
(* An allocation leaves the target exceeded only when there is nothing     *)
(* left that collect may evict.                                            *)
(***************************************************************************)
TargetOrNothingLeft ==
  [][nextid' # nextid /\ target # 0 /\ resident' > target => Candidates({})' = {}]_vars

(***************************************************************************)
(* The pager implements plain memory: a page that is not resident stands   *)
(* for what its recipe computes.                                           *)
(***************************************************************************)
Logical(r, w) ==
  [i \in Page |-> IF i \in Mapped(r) /\ r.page[i] = Cold THEN w[i] ELSE r.phys[i]]

Memory == INSTANCE PlainMemory WITH
  extent <- [b \in Buffer |-> buf[b].size],
  mem <- [b \in Buffer |-> Logical(buf[b], Recipe(b))],
  out <- out,
  status <- mode

Transparent == Memory!Spec
=============================================================================
