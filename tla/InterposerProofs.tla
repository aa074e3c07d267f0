-------------------------- MODULE InterposerProofs --------------------------
(***************************************************************************)
(* The safety properties of Interposer, for any addresses, sizes, modules, *)
(* functions, arguments and limits.                                        *)
(***************************************************************************)
EXTENDS Interposer, TLAPS

(***************************************************************************)
(* What a capture is made of.  Which buffer and which producer it is about *)
(* does not matter to the invariants.                                      *)
(***************************************************************************)
Fields == {"output", "length", "entry", "rejected", "removed"}

IsCapture(c) ==
  /\ c = [f \in Fields |-> c[f]]
  /\ c.rejected \in BOOLEAN

(***************************************************************************)
(* A capture is in progress only within a producer, a capture whose buffer *)
(* was given away is rejected, and what was taken out of the instrumented  *)
(* ranges is a part of the known modules.                                  *)
(***************************************************************************)
CaptureOK ==
  /\ IsCapture(capture)
  /\ stale \in BOOLEAN
  /\ phase \in {"starting", "discovery"} => capture = NoCapture /\ ~stale
  /\ stale => capture.rejected

ViewOK ==
  /\ modules_changed \in BOOLEAN
  /\ phase = "starting" => ~modules_changed
  /\ Running => capture.removed \subseteq instrumented
  /\ RangesExact

HeapOK == heap \in [Addresses -> Block] /\ held \subseteq Addresses /\ HeapExact

IInv == CaptureOK /\ ViewOK /\ HeapOK

-----------------------------------------------------------------------------
(* What the records of the model are, and which phases there are. *)
LEMMA NoCaptureIsCapture == IsCapture(NoCapture) /\ NoCapture.removed = {} /\ NoCapture.rejected = FALSE
  BY Zenon DEF IsCapture, NoCapture, Fields

LEMMA Rejects ==
  ASSUME NEW c, IsCapture(c)
  PROVE  /\ IsCapture([c EXCEPT !.rejected = TRUE])
         /\ [c EXCEPT !.rejected = TRUE].rejected
         /\ [c EXCEPT !.rejected = TRUE].removed = c.removed
         /\ [c EXCEPT !.rejected = TRUE].output = c.output
  BY Zenon DEF IsCapture, Fields

LEMMA GivenUpRejects ==
  ASSUME CaptureOK, NEW a, GivenUp(a)
  PROVE  /\ IsCapture(capture') /\ stale' \in BOOLEAN
         /\ stale' => capture'.rejected
         /\ capture'.removed = capture.removed
  BY Rejects DEF CaptureOK, GivenUp

LEMMA NewBlockTyped ==
  /\ \A by \in {"none", "libc", "af"}, n \in Sizes \cup {0} : NewBlock(by, n) \in Block
  /\ FreeBlock \in Block /\ FreeBlock.by = "none" /\ FreeBlock.state = "resident"
  /\ \A by, n : NewBlock(by, n).by = by /\ NewBlock(by, n).state = "resident"
  BY DEF NewBlock, FreeBlock, Block

(***************************************************************************)
(* An eviction changes the state of what is evicted, and nothing else of   *)
(* the heap.                                                               *)
(***************************************************************************)
LEMMA EvictedKeeps ==
  ASSUME NEW h \in [Addresses -> Block], NEW gone
  PROVE  /\ Evicted(h, gone) \in [Addresses -> Block]
         /\ \A a \in Addresses : Evicted(h, gone)[a].by = h[a].by
         /\ \A a \in Addresses \ gone : Evicted(h, gone)[a].state = h[a].state
<1> DEFINE g == Evicted(h, gone)
<1>1. \A a \in Addresses : [h[a] EXCEPT !.state = "evicted"] \in Block
  BY DEF Block
<1>2. \A a \in Addresses : [h[a] EXCEPT !.state = "evicted"].by = h[a].by
  BY DEF Block
<1>3. g = [a \in Addresses |-> IF a \in gone THEN [h[a] EXCEPT !.state = "evicted"] ELSE h[a]]
  BY Zenon DEF Evicted
<1> HIDE DEF g
<1>4. \A a \in Addresses : g[a] = IF a \in gone THEN [h[a] EXCEPT !.state = "evicted"] ELSE h[a]
  BY <1>3
<1>5. g \in [Addresses -> Block]
  BY <1>1, <1>3
<1>6. \A a \in Addresses : g[a].by = h[a].by
  BY <1>2, <1>4, Zenon
<1>7. \A a \in Addresses \ gone : g[a].state = h[a].state
  BY <1>4, Zenon
<1> QED BY <1>5, <1>6, <1>7, Zenon DEF g

(***************************************************************************)
(* collect() evicts sealed buffers, and changes nothing else of the heap.  *)
(***************************************************************************)
LEMMA PolicyKeeps ==
  ASSUME NEW h \in [Addresses -> Block], NEW o, NEW g \in collect(h, o)
  PROVE  /\ g \in [Addresses -> Block]
         /\ \A a \in Addresses : g[a].by = h[a].by
         /\ \A a \in Addresses : g[a].state = h[a].state \/ h[a].state = "sealed"
<1>1. CASE resident_target_set
  <2>1. PICK gone \in SUBSET Reclaimable(h, o) : g = Evicted(h, gone)
    BY <1>1, Zenon DEF collect
  <2>2. \A a \in Addresses : a \in gone => h[a].state = "sealed"
    BY <2>1, Zenon DEF Reclaimable
  <2>3. /\ g \in [Addresses -> Block]
        /\ \A a \in Addresses : g[a].by = h[a].by
        /\ \A a \in Addresses \ gone : g[a].state = h[a].state
    BY <2>1, EvictedKeeps, Zenon
  <2> QED BY <2>2, <2>3, Zenon
<1>2. CASE ~resident_target_set
  BY <1>2, Zenon DEF collect
<1> QED BY <1>1, <1>2, Zenon

(* So does af_manage(), whether it fails or not, once the new buffer is sealed. *)
LEMMA ManageKeeps ==
  ASSUME NEW h \in [Addresses -> Block], NEW o, o \in Addresses => h[o].state = "sealed",
         NEW g \in af_manage(h, o) \cup af_manage_fails(h, o)
  PROVE  /\ g \in [Addresses -> Block]
         /\ \A a \in Addresses : g[a].by = h[a].by
         /\ \A a \in Addresses : g[a].state = h[a].state \/ h[a].state = "sealed"
<1>1. CASE resident_target_set
  <2>1. g \in collect(h, o)
    BY <1>1, Zenon DEF af_manage, af_manage_fails
  <2> QED BY <2>1, PolicyKeeps, Zenon
<1>2. CASE ~resident_target_set
  <2>1. g = h \/ g = Evicted(h, {o})
    BY <1>2, Zenon DEF af_manage, af_manage_fails
  <2>2. CASE g = h
    BY <2>2, Zenon
  <2>3. CASE g = Evicted(h, {o})
    <3>1. /\ g \in [Addresses -> Block]
          /\ \A a \in Addresses : g[a].by = h[a].by
          /\ \A a \in Addresses \ {o} : g[a].state = h[a].state
      BY <2>3, EvictedKeeps, Zenon
    <3> QED BY <3>1, Zenon
  <2> QED BY <2>1, <2>2, <2>3, Zenon
<1> QED BY <1>1, <1>2, Zenon

(* An allocation puts a fresh block at its address and may evict others. *)
LEMMA AllocatedKeeps ==
  ASSUME HeapOK, NEW a \in Addresses, NEW n \in Sizes, NEW h \in Allocated(a, n)
  PROVE  /\ h \in [Addresses -> Block]
         /\ h[a].by \in {"libc", "af"} /\ h[a].state = "resident"
         /\ \A b \in Addresses \ {a} :
              h[b].by = heap[b].by /\ (h[b].state = heap[b].state \/ heap[b].state = "sealed")
<1>1. CASE active /\ threshold <= n /\ n <= MAX_BUFFER
  <2>1. PICK g \in collect(heap, None), by \in {"af", "libc"} : h = [g EXCEPT ![a] = NewBlock(by, n)]
    BY <1>1 DEF Allocated
  <2>2. /\ g \in [Addresses -> Block]
        /\ \A b \in Addresses : g[b].by = heap[b].by
        /\ \A b \in Addresses : g[b].state = heap[b].state \/ heap[b].state = "sealed"
    BY PolicyKeeps DEF HeapOK
  <2> QED BY <2>1, <2>2, NewBlockTyped, SMTT(20)
<1>2. CASE ~(active /\ threshold <= n /\ n <= MAX_BUFFER)
  <2>1. h = [heap EXCEPT ![a] = NewBlock("libc", n)]
    BY <1>2 DEF Allocated
  <2> QED BY <2>1, NewBlockTyped DEF HeapOK
<1> QED BY <1>1, <1>2

-----------------------------------------------------------------------------
(* HeapOK is kept by what leaves every block with its owner. *)
LEMMA SameOwners ==
  ASSUME HeapOK, UNCHANGED held, heap' \in [Addresses -> Block],
         \A a \in Addresses : heap'[a].by = heap[a].by
  PROVE  HeapOK'
  BY DEF HeapOK, HeapExact

LEMMA MallocKeeps ==
  ASSUME IInv, NEW a \in Addresses, NEW n \in Sizes, Malloc(a, n)
  PROVE  IInv'
<1>1. HeapOK'
  <2>1. /\ heap' \in [Addresses -> Block]
        /\ heap'[a].by # "none"
        /\ \A b \in Addresses \ {a} : heap'[b].by = heap[b].by
    BY AllocatedKeeps DEF Malloc, IInv
  <2>2. held' = held \cup {a}
    BY DEF Malloc
  <2> QED BY <2>1, <2>2, SMTT(20) DEF IInv, HeapOK, HeapExact
<1> QED BY <1>1 DEF Malloc, tracer, view, IInv, CaptureOK, ViewOK, RangesExact, Running, Producing

LEMMA FreeKeeps ==
  ASSUME IInv, NEW a \in Addresses, Free(a)
  PROVE  IInv'
<1>1. HeapOK'
  BY NewBlockTyped DEF Free, IInv, HeapOK, HeapExact
<1>2. /\ IsCapture(capture') /\ stale' \in BOOLEAN
      /\ stale' => capture'.rejected
      /\ capture'.removed = capture.removed
  BY GivenUpRejects DEF Free, IInv, CaptureOK
<1>3. phase \in {"starting", "discovery"} => capture' = NoCapture /\ ~stale'
  <2> SUFFICES ASSUME phase \in {"starting", "discovery"} PROVE capture' = NoCapture /\ ~stale'
    OBVIOUS
  <2>1. capture = NoCapture /\ ~stale
    BY DEF IInv, CaptureOK
  <2>2. capture.output # a
    BY <2>1, ConstantsAssumption DEF NoCapture
  <2> QED BY <2>1, <2>2, Zenon DEF Free, GivenUp
<1> QED BY <1>1, <1>2, <1>3, SMTT(20) DEF Free, view, IInv, CaptureOK, ViewOK, RangesExact, Running, Producing

LEMMA ReallocKeeps ==
  ASSUME IInv, NEW a \in Addresses, NEW b \in Addresses, NEW n \in Sizes, Realloc(a, b, n)
  PROVE  IInv'
<1>1. a # b /\ heap[b].by = "none" /\ b \notin held /\ a \in held
  BY DEF Realloc, IInv, HeapOK, HeapExact
<1>2. CASE ReallocMoves(a, b, n)
  <2>1. HeapOK'
    <3>1. PICK h \in Allocated(b, n) : heap' = [h EXCEPT ![a] = FreeBlock]
      BY <1>2, ZenonT(30) DEF ReallocMoves
    <3>2. /\ h \in [Addresses -> Block] /\ h[b].by # "none"
          /\ \A c \in Addresses \ {b} : h[c].by = heap[c].by
      BY AllocatedKeeps DEF IInv
    <3>3. held' = (held \ {a}) \cup {b}
      BY <1>2 DEF ReallocMoves
    <3>4. /\ heap' \in [Addresses -> Block] /\ heap'[b].by # "none" /\ heap'[a].by = "none"
          /\ \A c \in Addresses \ {a, b} : heap'[c].by = heap[c].by
      BY <1>1, <3>1, <3>2, NewBlockTyped, SMTT(20)
    <3> QED BY <1>1, <3>3, <3>4, SMTT(20) DEF IInv, HeapOK, HeapExact
  <2>2. /\ IsCapture(capture') /\ stale' \in BOOLEAN
        /\ stale' => capture'.rejected
        /\ capture'.removed = capture.removed
    BY <1>2, GivenUpRejects, SMTT(20) DEF ReallocMoves, IInv
  <2>3. phase \in {"starting", "discovery"} => capture' = NoCapture /\ ~stale'
    <3> SUFFICES ASSUME phase \in {"starting", "discovery"} PROVE capture' = NoCapture /\ ~stale'
      OBVIOUS
    <3>1. capture = NoCapture /\ ~stale
      BY DEF IInv, CaptureOK
    <3>2. capture.output # a
      BY <3>1, ConstantsAssumption DEF NoCapture
    <3> QED BY <1>2, <3>1, <3>2, Zenon DEF ReallocMoves, GivenUp
  <2> QED BY <2>1, <2>2, <2>3, SMTT(20) DEF Realloc, view, IInv, CaptureOK, ViewOK, RangesExact, Running, Producing
<1>3. CASE ReallocUnreadable(a, b, n)
  <2>1. PICK h \in Allocated(b, n) : heap' = [h EXCEPT ![b] = FreeBlock]
    BY <1>3, Zenon DEF ReallocUnreadable
  <2>2. /\ h \in [Addresses -> Block]
        /\ \A c \in Addresses \ {b} : h[c].by = heap[c].by
    BY AllocatedKeeps DEF IInv
  <2>3. heap' \in [Addresses -> Block] /\ \A c \in Addresses : heap'[c].by = heap[c].by
    BY <1>1, <2>1, <2>2, NewBlockTyped, SMTT(20)
  <2>4. HeapOK'
    BY <1>3, <2>3, SameOwners, SMTT(20) DEF ReallocUnreadable, IInv
  <2> QED BY <1>3, <2>4, SMTT(20) DEF Realloc, ReallocUnreadable, view, IInv, CaptureOK, ViewOK, RangesExact, Running, Producing
<1> QED BY <1>2, <1>3 DEF Realloc

LEMMA ReallocLibcKeeps ==
  ASSUME IInv, NEW a \in Addresses, NEW b \in Addresses, NEW n \in Sizes, ReallocLibc(a, b, n)
  PROVE  IInv'
<1>1. a # b /\ b \notin held /\ a \in held
  BY DEF ReallocLibc, IInv, HeapOK, HeapExact
<1>2. /\ heap' \in [Addresses -> Block] /\ heap'[b].by # "none" /\ heap'[a].by = "none"
      /\ \A c \in Addresses \ {a, b} : heap'[c].by = heap[c].by
  BY <1>1, NewBlockTyped, SMTT(20) DEF ReallocLibc, IInv, HeapOK
<1>3. HeapOK'
  BY <1>1, <1>2, SMTT(20) DEF ReallocLibc, IInv, HeapOK, HeapExact
<1> QED BY <1>3 DEF ReallocLibc, tracer, view, IInv, CaptureOK, ViewOK, RangesExact, Running, Producing

LEMMA AccessKeeps ==
  ASSUME IInv, NEW a \in Addresses, Access(a)
  PROVE  IInv'
<1>1. heap \in [Addresses -> Block]
  BY DEF IInv, HeapOK
<1>2. PICK s \in {"pinned", "restored"} : heap' = [heap EXCEPT ![a].state = s]
  BY DEF Access
<1>3. [heap[a] EXCEPT !.state = s] \in Block /\ [heap[a] EXCEPT !.state = s].by = heap[a].by
  BY <1>1 DEF Block
<1>4. heap' \in [Addresses -> Block] /\ \A b \in Addresses : heap'[b].by = heap[b].by
  BY <1>1, <1>2, <1>3, SMTT(20)
<1>5. HeapOK'
  BY <1>4, SameOwners, SMTT(20) DEF Access, IInv
<1> QED BY <1>5 DEF Access, tracer, view, IInv, CaptureOK, ViewOK, RangesExact, Running, Producing

(* The steps that concern only the modules, or only end the process. *)
LEMMA ModulesKeep ==
  ASSUME IInv, Begin \/ Rescan \/ \E m \in Modules : DlOpen(m) \/ DlClose(m)
  PROVE  IInv'
<1>1. HeapOK' /\ CaptureOK'
  <2>1. UNCHANGED <<heap, held, capture, stale>> /\ (phase' = phase \/ phase = "starting")
    BY DEF Begin, Rescan, DlOpen, DlClose, program, tracer
  <2> QED BY <2>1, Zenon DEF IInv, HeapOK, HeapExact, CaptureOK
<1>2. ViewOK'
  <2>1. CASE Begin
    <3>1. capture' = NoCapture
      BY <2>1 DEF Begin, IInv, CaptureOK
    <3> QED BY <2>1, <3>1, NoCaptureIsCapture, SMTT(20) DEF Begin, IInv, ViewOK, RangesExact, Running, Producing
  <2>2. CASE Rescan
    <3>1. capture' = NoCapture
      BY <2>2 DEF Rescan, tracer, IInv, CaptureOK
    <3> QED BY <2>2, <3>1, NoCaptureIsCapture, Zenon DEF Rescan, tracer, IInv, ViewOK, RangesExact, Running, Producing
  <2>3. ASSUME NEW m \in Modules, DlOpen(m) \/ DlClose(m) PROVE ViewOK'
    BY <2>3, Zenon DEF DlOpen, DlClose, tracer, IInv, ViewOK, RangesExact, Running, Producing
  <2> QED BY <2>1, <2>2, <2>3, SMTT(20)
<1> QED BY <1>1, <1>2 DEF IInv

LEMMA EndsKeep ==
  ASSUME IInv,
         \/ \E a \in Addresses : FreeFails(a)
         \/ BeginFails \/ Unsupported \/ InnerReturn \/ End
  PROVE  IInv'
<1>1. UNCHANGED <<heap, held, capture, stale, modules_changed, loaded, instrumented, ranges>>
  BY DEF FreeFails, BeginFails, Unsupported, InnerReturn, End, program, view
<1>2. phase' \in Fatal \cup {"ended"}
  BY DEF FreeFails, BeginFails, Unsupported, InnerReturn, End, Fatal
<1>3. phase' \notin {"starting", "discovery"} /\ ~Running'
  BY <1>2 DEF Fatal, Running, Producing
<1> QED BY <1>1, <1>3, Zenon DEF IInv, HeapOK, HeapExact, CaptureOK, ViewOK, RangesExact

LEMMA CallKeeps ==
  ASSUME IInv, NEW e \in Entries, NEW args \in Arguments, Call(e, args)
  PROVE  IInv'
<1> DEFINE found == Candidate(e, args)
<1>1. HeapOK'
  BY DEF Call, program, IInv, HeapOK, HeapExact
<1>2. capture = NoCapture /\ ~stale /\ phase = "discovery" /\ ranges = instrumented /\ ~modules_changed
  BY NoCaptureIsCapture DEF Call, IInv, CaptureOK, ViewOK, RangesExact, Running
<1>3. CASE found.output = None
  <2>1. UNCHANGED <<tracer, ranges, modules_changed, loaded, instrumented>>
    BY <1>3 DEF Call
  <2> QED BY <1>1, <2>1, SMTT(20) DEF tracer, IInv, CaptureOK, ViewOK, RangesExact, Running, Producing
<1>4. CASE found.output # None
  <2>1. /\ capture' = [output |-> found.output, length |-> heap[found.output].size,
                       entry |-> e, rejected |-> FALSE, removed |-> ranges \ ranges']
        /\ stale' = FALSE /\ UNCHANGED <<modules_changed, loaded, instrumented>>
    BY <1>4 DEF Call
  <2>2. (Record \/ \E t : UseTemplate(t))
    BY <1>4, Zenon DEF Call
  <2>3. phase' \in {"recording", "template"} /\ ranges' \subseteq ranges
    BY <2>2, SMTT(20) DEF Record, UseTemplate
  <2>4. capture'.removed = ranges \ ranges' /\ capture'.rejected = FALSE /\ IsCapture(capture')
    BY <2>1, Zenon DEF IsCapture, Fields
  <2>5. CaptureOK'
    BY <2>1, <2>3, <2>4, ZenonT(30) DEF CaptureOK
  <2>6. ViewOK'
    BY <1>2, <2>1, <2>3, <2>4, SMTT(20) DEF IInv, ViewOK, RangesExact, Running, Producing
  <2> QED BY <1>1, <2>5, <2>6, SMTT(20) DEF IInv
<1> QED BY <1>3, <1>4, SMTT(20)

LEMMA ResumeKeeps ==
  ASSUME IInv, Resume
  PROVE  IInv'
<1>1. IsCapture(capture') /\ capture'.rejected /\ capture'.removed = capture.removed
  BY Rejects DEF Resume, IInv, CaptureOK
<1> QED BY <1>1 DEF Resume, program, view, IInv, HeapOK, HeapExact, CaptureOK, ViewOK, RangesExact, Running, Producing

LEMMA CallAgainKeeps ==
  ASSUME IInv, CallAgain
  PROVE  IInv'
  BY Zenon DEF CallAgain, program, view, IInv, HeapOK, HeapExact, CaptureOK, ViewOK, RangesExact, Running, Producing

(***************************************************************************)
(* What finish() does to the heap: nothing but a verdict, or it seals the  *)
(* captured buffer, which was resident, and applies the policy.            *)
(***************************************************************************)
LEMMA FinishSeals ==
  ASSUME IInv, Return
  PROVE  /\ heap' \in [Addresses -> Block]
         /\ \A a \in Addresses : heap'[a].by = heap[a].by
         /\ \A a \in Addresses : heap[a].state = "resident" /\ heap'[a].state # "resident"
              => a = capture.output /\ Submittable
<1> DEFINE o == capture.output
<1>1. heap \in [Addresses -> Block]
  BY DEF IInv, HeapOK
<1>2. PICK n \in Lengths : FinishRefused(n) \/ FinishUnmanaged(n) \/ FinishAccepted(n)
  BY DEF Return
<1>3. CASE FinishRefused(n)
  <2>1. heap' = heap \/ heap' = [heap EXCEPT ![o].verdict = "rejected"]
    BY <1>3 DEF FinishRefused
  <2>2. o \in Addresses => /\ [heap[o] EXCEPT !.verdict = "rejected"] \in Block
                           /\ [heap[o] EXCEPT !.verdict = "rejected"].by = heap[o].by
                           /\ [heap[o] EXCEPT !.verdict = "rejected"].state = heap[o].state
    BY <1>1 DEF Block
  <2> QED BY <1>1, <2>1, <2>2, Zenon
<1>4. CASE FinishUnmanaged(n) \/ FinishAccepted(n)
  <2>1. PICK v \in {"accepted", "rejected"} :
          heap' \in af_manage(Sealed(v), o) \cup af_manage_fails(Sealed(v), o)
    BY <1>4 DEF FinishUnmanaged, FinishAccepted
  <2>2. Submittable
    BY <1>4 DEF FinishUnmanaged, FinishAccepted
  <2> DEFINE h == [heap EXCEPT ![o].state = "sealed", ![o].verdict = v]
  <2>3. heap' \in af_manage(h, o) \cup af_manage_fails(h, o)
    BY <2>1, SMTT(20) DEF Sealed
  <2>4. /\ h \in [Addresses -> Block]
        /\ \A a \in Addresses : h[a].by = heap[a].by
        /\ \A a \in Addresses \ {o} : h[a] = heap[a]
        /\ o \in Addresses => h[o].state = "sealed"
    <3>1. CASE o \in Addresses
      <4>1. h = [heap EXCEPT ![o] = [[heap[o] EXCEPT !.state = "sealed"] EXCEPT !.verdict = v]]
        BY <1>1, <3>1, Zenon
      <4>2. /\ [[heap[o] EXCEPT !.state = "sealed"] EXCEPT !.verdict = v] \in Block
            /\ [[heap[o] EXCEPT !.state = "sealed"] EXCEPT !.verdict = v].by = heap[o].by
            /\ [[heap[o] EXCEPT !.state = "sealed"] EXCEPT !.verdict = v].state = "sealed"
        BY <1>1, <3>1, ZenonT(30) DEF Block
      <4> HIDE DEF h
      <4> QED BY <1>1, <4>1, <4>2, Zenon
    <3>2. CASE o \notin Addresses
      BY <1>1, <3>2, Zenon
    <3> QED BY <3>1, <3>2, SMTT(20)
  <2> HIDE DEF h
  <2>5. /\ heap' \in [Addresses -> Block]
        /\ \A a \in Addresses : heap'[a].by = h[a].by
        /\ \A a \in Addresses : heap'[a].state = h[a].state \/ h[a].state = "sealed"
    BY <2>3, <2>4, ManageKeeps, Zenon
  <2> QED BY <2>2, <2>4, <2>5, SMTT(20)
<1> QED BY <1>2, <1>3, <1>4, SMTT(20)

LEMMA ReturnKeeps ==
  ASSUME IInv, Return
  PROVE  IInv'
<1>1. HeapOK'
  BY FinishSeals, SameOwners, Zenon DEF Return, IInv
<1>2. CaptureOK'
  BY NoCaptureIsCapture, Zenon DEF Return, CaptureOK
<1>3. ViewOK'
  BY NoCaptureIsCapture DEF Return, RestoredRanges, IInv, ViewOK, RangesExact, Running, Producing
<1> QED BY <1>1, <1>2, <1>3, SMTT(20) DEF IInv

LEMMA Starts == Init => IInv
<1> SUFFICES ASSUME Init PROVE IInv
  OBVIOUS
<1>1. HeapOK
  BY NewBlockTyped, SMTT(20) DEF Init, HeapOK, HeapExact
<1>2. CaptureOK
  BY NoCaptureIsCapture, Zenon DEF Init, CaptureOK
<1>3. ViewOK
  BY ZenonT(30) DEF Init, ViewOK, RangesExact, Running, Producing
<1> QED BY <1>1, <1>2, <1>3, SMTT(20) DEF IInv

LEMMA StepKeeps == IInv /\ [Next]_vars => IInv'
<1> SUFFICES ASSUME IInv, [Next]_vars PROVE IInv'
  OBVIOUS
<1>1. ASSUME UNCHANGED vars PROVE IInv'
  BY <1>1, Zenon DEF vars, program, tracer, memory, view, IInv, HeapOK, HeapExact, CaptureOK, ViewOK, RangesExact,
     Running, Producing
<1> QED
  BY <1>1, MallocKeeps, FreeKeeps, ReallocKeeps, ReallocLibcKeeps, AccessKeeps, ModulesKeep, EndsKeep, CallKeeps,
     ResumeKeeps, CallAgainKeeps, ReturnKeeps, Zenon DEF Next, Over

LEMMA Invariance == Spec => []IInv
<1> QED BY Starts, StepKeeps, PTL DEF Spec

-----------------------------------------------------------------------------
(***************************************************************************)
(* The blocks that exist are the ones the program holds, whichever call of *)
(* realloc fails.                                                          *)
(***************************************************************************)
THEOREM NothingIsLost == Spec => []HeapExact
<1>1. IInv => HeapExact
  BY Zenon DEF IInv, HeapOK
<1> QED BY <1>1, Invariance, PTL

(***************************************************************************)
(* The instrumented ranges are the known modules without what a dispatched *)
(* producer runs in, and the known modules are the loaded ones once a      *)
(* change was dealt with.                                                  *)
(***************************************************************************)
THEOREM RangesStayExact == Spec => []RangesExact
<1>1. IInv => RangesExact
  BY Zenon DEF IInv, ViewOK
<1> QED BY <1>1, Invariance, PTL

(***************************************************************************)
(* A recipe seals the buffer its producer was called with, and no other    *)
(* that came to lie at its address.                                        *)
(***************************************************************************)
THEOREM OnlyOwnBufferSealed == Spec => SealsOwnBuffer
<1>1. IInv /\ [Next]_vars =>
        [\A a \in Addresses :
           heap[a].state = "resident" /\ heap'[a].state \in {"sealed", "evicted"}
             => capture.output = a /\ ~stale /\ ~capture.rejected]_vars
  <2> SUFFICES ASSUME IInv, Next, NEW a \in Addresses,
                      heap[a].state = "resident", heap'[a].state \in {"sealed", "evicted"}
               PROVE  capture.output = a /\ ~stale /\ ~capture.rejected
    BY Zenon
  <2>1. heap \in [Addresses -> Block] /\ heap'[a].state # heap[a].state /\ heap'[a].state # "resident"
    BY DEF IInv, HeapOK
  <2>2. CASE Return
    BY <2>1, <2>2, FinishSeals, SMTT(20) DEF Submittable, IInv, CaptureOK
  <2>3. ASSUME NEW b \in Addresses, NEW n \in Sizes, Malloc(b, n) PROVE FALSE
    <3>1. heap' \in Allocated(b, n) /\ HeapOK
      BY <2>3 DEF Malloc, IInv
    <3> QED BY <2>1, <3>1, AllocatedKeeps, SMTT(20)
  <2>4. ASSUME NEW b \in Addresses, Free(b) \/ Access(b) PROVE FALSE
    <3>1. CASE Free(b)
      BY <2>1, <3>1, NewBlockTyped, SMTT(20) DEF Free
    <3>2. CASE Access(b)
      <4>1. b # a
        BY <3>2 DEF Access
      <4> QED BY <2>1, <3>2, <4>1, SMTT(20) DEF Access
    <3> QED BY <2>4, <3>1, <3>2, SMTT(20)
  <2>5. ASSUME NEW b \in Addresses, NEW c \in Addresses, NEW n \in Sizes, Realloc(b, c, n) PROVE FALSE
    <3>1. PICK h \in Allocated(c, n) : heap' = [h EXCEPT ![b] = FreeBlock] \/ heap' = [h EXCEPT ![c] = FreeBlock]
      BY <2>5, SMTT(20) DEF Realloc, ReallocMoves, ReallocUnreadable
    <3>2. h \in [Addresses -> Block] /\ h[a].state = "resident"
      BY AllocatedKeeps, SMTT(20) DEF IInv
    <3> QED BY <2>1, <3>1, <3>2, NewBlockTyped, SMTT(20)
  <2>6. ASSUME NEW b \in Addresses, NEW c \in Addresses, NEW n \in Sizes, ReallocLibc(b, c, n) PROVE FALSE
    BY <2>1, <2>6, NewBlockTyped, SMTT(20) DEF ReallocLibc
  <2>7. UNCHANGED heap => FALSE
    BY <2>1
  <2> QED
    BY <2>2, <2>3, <2>4, <2>5, <2>6, <2>7, ZenonT(30)
       DEF Next, FreeFails, DlOpen, DlClose, Call, Begin, BeginFails, Unsupported, Rescan, Resume, CallAgain, InnerReturn,
           End, Over, program, vars
<1> QED BY <1>1, Invariance, PTL DEF Spec, SealsOwnBuffer
=============================================================================
