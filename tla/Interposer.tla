----------------------------- MODULE Interposer -----------------------------
(***************************************************************************)
(* native/preload.cpp: the library preloaded into a traced program.  It    *)
(* routes large allocations to the managed heap, watches every call of the *)
(* instrumented modules for an argument that is a managed buffer, records  *)
(* the called producer, and submits what it recorded when the producer     *)
(* returns.  A producer that fails is passed over for a while; one that    *)
(* succeeds leaves a template, so that its next call need not be recorded  *)
(* and, when it lives in a module of its own, runs without instrumentation.*)
(*                                                                         *)
(* The program is single-threaded.  Its steps (allocations, accesses, calls*)
(* and returns, dlopen and dlclose) come in any order and may happen       *)
(* within a producer.  What the runtime does to a buffer is module Pager's *)
(* matter; here a buffer is resident, sealed, evicted, restored (brought   *)
(* back at least in part) or pinned.                                       *)
(* Allocations the interposer itself makes (`busy') stay with libc and are *)
(* left out, and so are the statistics.                                    *)
(***************************************************************************)
EXTENDS Naturals, FiniteSets, Sequences, SequencesExt

CONSTANTS
  Addresses,    \* addresses an allocation may get
  Sizes,        \* sizes of allocations
  threshold,    \* allocations of at least this size are managed
  MAX_BUFFER,   \* ... and of at most this size
  Entries,      \* entries of functions
  Modules,      \* modules with code
  Main,         \* the program's own module, which calls the producers
  Home,         \* the module of each entry
  Arguments,    \* the argument lists of calls
  Buckets,      \* indices of retries (256)
  Bucket(_, _), \* the index of an entry and a size
  MaxFailures,  \* failures counted for one key (6)
  MaxTemplates, \* templates kept (64)
  templates_enabled, \* unless AF_DISABLE_TEMPLATES is set
  resident_target_set, \* AF_RESIDENT_TARGET is set, so resident_target is not 0
  MaxNest,      \* bound: calls nested at the call site of a producer
  None

ASSUME ConstantsAssumption ==
  /\ Sizes \subseteq Nat \ {0} /\ threshold \in Nat /\ MAX_BUFFER \in Nat
  /\ Main \in Modules /\ Home \in [Entries -> Modules]
  /\ Arguments \subseteq Seq(Addresses)
  /\ \A e \in Entries, n \in Sizes : Bucket(e, n) \in Buckets
  /\ MaxFailures \in Nat \ {0} /\ MaxTemplates \in Nat \ {0} /\ MaxNest \in Nat
  /\ templates_enabled \in BOOLEAN /\ resident_target_set \in BOOLEAN
  /\ None \notin Addresses \cup Entries

VARIABLES
  heap,             \* the block at each address
  phase,            \* who runs the program, or how it ended
  capture,          \* the producer being recorded: `capture' and what goes with it
  nest,             \* calls on the stack above the producer, from the same call site
  retries,
  templates,        \* in the order of use
  modules_changed,
  loaded,           \* the modules mapped into the process
  instrumented,     \* ... and those the interposer knows of
  ranges,           \* the ranges the discovery VM instruments
  held,             \* history: what the program was given and has not given back
  stale             \* history: the producer's buffer was freed or moved

program == <<heap, held>>
tracer  == <<phase, capture, nest, stale>>
memory  == <<retries, templates>>
view    == <<modules_changed, loaded, instrumented, ranges>>
vars    == <<program, tracer, memory, view>>

-----------------------------------------------------------------------------
(* Blocks.  `verdict' is history: what finish() reported of the buffer. *)
Block ==
  [by : {"none", "libc", "af"}, size : Sizes \cup {0},
   state : {"resident", "sealed", "evicted", "restored", "pinned"},
   verdict : {"none", "accepted", "rejected"}]

NewBlock(by, n) == [by |-> by, size |-> n, state |-> "resident", verdict |-> "none"]
FreeBlock == NewBlock("none", 0)

af_size(a) == IF heap[a].by = "af" THEN heap[a].size ELSE 0

Reclaimable(h, protected_output) ==
  {a \in Addresses \ {protected_output} : h[a].by = "af" /\ h[a].state = "sealed"}

Evicted(h, gone) ==
  [a \in Addresses |-> IF a \in gone THEN [h[a] EXCEPT !.state = "evicted"] ELSE h[a]]

(***************************************************************************)
(* collect(): what it may leave of the heap h.  With a target it evicts    *)
(* buffers sealed and never evicted, in an order and to a number that      *)
(* their sizes and times decide, until an eviction fails or the target is  *)
(* met.                                                                    *)
(***************************************************************************)
collect(h, protected_output) ==
  IF resident_target_set
  THEN {Evicted(h, gone) : gone \in SUBSET Reclaimable(h, protected_output)}
  ELSE {h}

(* af_manage(): without a target the new buffer is evicted, with one the others. *)
af_manage(h, newly_sealed) ==
  IF resident_target_set THEN collect(h, newly_sealed) ELSE {Evicted(h, {newly_sealed})}

(***************************************************************************)
(* af_manage() fails because af_evict() does, and the buffer it was to     *)
(* evict stays sealed: the new one without a target, another with one.     *)
(***************************************************************************)
af_manage_fails(h, newly_sealed) ==
  IF resident_target_set
  THEN {g \in collect(h, newly_sealed) : Reclaimable(g, newly_sealed) # {}}
  ELSE {h}

active == phase # "starting"
Producing == phase \in {"recording", "resumed", "template"}
Running == phase = "discovery" \/ Producing

(* What malloc, calloc, posix_memalign, aligned_alloc and realloc make of a
   request: a managed buffer, or libc's where it is not wanted or fails. *)
Allocated(a, n) ==
  IF active /\ threshold <= n /\ n <= MAX_BUFFER
  THEN {[h EXCEPT ![a] = NewBlock(by, n)] : h \in collect(heap, None), by \in {"af", "libc"}}
  ELSE {[heap EXCEPT ![a] = NewBlock("libc", n)]}

-----------------------------------------------------------------------------
(* retries: backoff by entry and size, in a table without chains. *)
Retry == [entry : Entries \cup {None}, size : Sizes \cup {0},
          failures : 0 .. MaxFailures, remaining : 0 .. 2 ^ MaxFailures]

NewRetry(e, n) == [entry |-> e, size |-> n, failures |-> 0, remaining |-> 0]

retry(table, e, n) ==
  LET r == table[Bucket(e, n)]
  IN  IF r.entry = e /\ r.size = n THEN r ELSE NewRetry(e, n)

Failed(e, n) ==
  LET r == retry(retries, e, n)
      count == IF r.failures < MaxFailures THEN r.failures + 1 ELSE MaxFailures
  IN  [retries EXCEPT ![Bucket(e, n)] = [r EXCEPT !.failures = count, !.remaining = 2 ^ count - 1]]

Forgiven(e, n) == [retries EXCEPT ![Bucket(e, n)] = NewRetry(e, n)]

(* Templates: module TemplateCache implements this list. *)
Template == [entry : Entries, length : Sizes, native : BOOLEAN]
TemplatesFit(l) == Len(l) <= MaxTemplates
Recency == INSTANCE RecencyList WITH
  list <- templates, recent <- None, Item <- Template, Fits <- TemplatesFit

-----------------------------------------------------------------------------
NoCapture == [output |-> None, length |-> 0, entry |-> None, rejected |-> FALSE, removed |-> {}]
Capture ==
  [output : Addresses \cup {None}, length : Sizes \cup {0}, entry : Entries \cup {None},
   rejected : BOOLEAN, removed : SUBSET Modules]

(* Fault: the capture goes on with whatever comes to be at the address. *)
GivenUpQuietly(a) ==
  /\ UNCHANGED capture
  /\ stale' = (stale \/ capture.output = a)

(* A capture whose buffer was given away is rejected, at once or at its end. *)
GivenUp(a) ==
  /\ capture' = IF capture.output = a THEN [capture EXCEPT !.rejected = TRUE] ELSE capture
  /\ stale' = (stale \/ capture.output = a)

Malloc(a, n) ==
  /\ phase = "starting" \/ Running
  /\ heap[a].by = "none"
  /\ heap' \in Allocated(a, n)
  /\ held' = held \cup {a}
  /\ UNCHANGED <<tracer, memory, view>>

Free(a) ==
  /\ phase = "starting" \/ Running
  /\ a \in held
  /\ heap' = [heap EXCEPT ![a] = FreeBlock]
  /\ held' = held \ {a}
  /\ IF af_size(a) = 0 THEN UNCHANGED <<capture, stale>> ELSE GivenUp(a)
  /\ UNCHANGED <<phase, nest, memory, view>>

(* af_free fails, in free or in realloc: the process ends. *)
FreeFails(a) ==
  /\ Running /\ a \in held /\ af_size(a) # 0
  /\ phase' = "fatal191"
  /\ UNCHANGED <<program, capture, nest, stale, memory, view>>

ReallocMoves(a, b, n) ==
  /\ \E h \in Allocated(b, n) : heap' = [h EXCEPT ![a] = FreeBlock]
  /\ held' = (held \ {a}) \cup {b}
  /\ GivenUp(a)

(* Fault: the copy that cannot be filled is left behind. *)
ReallocLeaks(a, b, n) ==
  /\ heap' \in Allocated(b, n)
  /\ UNCHANGED <<held, capture, stale>>

(* af_prepare_read fails: the new block goes, the old one stays.  Its
   unmapping, whose result is not looked at, is taken to succeed. *)
ReallocUnreadable(a, b, n) ==
  /\ \E h \in Allocated(b, n) : heap' = [h EXCEPT ![b] = FreeBlock]
  /\ UNCHANGED <<held, capture, stale>>

Realloc(a, b, n) ==
  /\ Running /\ a \in held /\ heap[b].by = "none" /\ af_size(a) # 0
  /\ ReallocMoves(a, b, n) \/ ReallocUnreadable(a, b, n)
  /\ UNCHANGED <<phase, nest, memory, view>>

(* A block of libc stays libc's, whatever its new size. *)
ReallocLibc(a, b, n) ==
  /\ phase = "starting" \/ Running
  /\ a \in held /\ heap[a].by = "libc" /\ heap[b].by = "none"
  /\ heap' = [heap EXCEPT ![a] = FreeBlock, ![b] = NewBlock("libc", n)]
  /\ held' = (held \ {a}) \cup {b}
  /\ UNCHANGED <<tracer, memory, view>>

(* A store pins a buffer with a recipe, a load brings an evicted one back;
   read, write and the like ask the runtime for the same before the system
   call. *)
Access(a) ==
  /\ Running
  /\ \/ /\ heap[a].state \in {"sealed", "evicted", "restored"}
        /\ heap' = [heap EXCEPT ![a].state = "pinned"]
     \/ /\ heap[a].state = "evicted"
        /\ heap' = [heap EXCEPT ![a].state = "restored"]
  /\ UNCHANGED <<held, tracer, memory, view>>

-----------------------------------------------------------------------------
(* on_main and the start of on_run. *)
Begin ==
  /\ phase = "starting"
  /\ phase' = "discovery" /\ instrumented' = loaded /\ ranges' = loaded
  /\ UNCHANGED <<program, capture, nest, stale, memory, modules_changed, loaded>>

(* The report cannot be opened, or the worker not be started. *)
BeginFails ==
  /\ phase = "starting"
  /\ phase' = "fatal192"
  /\ UNCHANGED <<program, capture, nest, stale, memory, view>>

(* A thread, an AVX-512 instruction, a handler for SIGSEGV: exits 193, 194, 196. *)
Unsupported ==
  /\ Running
  /\ phase' = "unsupported"
  /\ UNCHANGED <<program, capture, nest, stale, memory, view>>

DlOpen(m) ==
  /\ Running /\ m \notin loaded
  /\ loaded' = loaded \cup {m} /\ modules_changed' = TRUE
  /\ UNCHANGED <<program, tracer, memory, instrumented, ranges>>

DlClose(m) ==
  /\ Running /\ m \in loaded \ {Main}
  /\ capture.entry # None => m # Home[capture.entry]
  /\ loaded' = loaded \ {m} /\ modules_changed' = TRUE
  /\ UNCHANGED <<program, tracer, memory, instrumented, ranges>>

(* The first call after modules changed stops the VM; on_run looks again. *)
Rescan ==
  /\ phase = "discovery" /\ modules_changed
  /\ instrumented' = loaded /\ ranges' = loaded /\ modules_changed' = FALSE
  /\ UNCHANGED <<program, tracer, memory, loaded>>

Eligible(a) == heap[a].by = "af" /\ heap[a].state = "resident"

(***************************************************************************)
(* The loop of enter_candidate over the arguments: an eligible buffer is   *)
(* taken unless its backoff has calls remaining, each of which it uses up. *)
(***************************************************************************)
(* Fault: a call passed over does not count. *)
ConsiderStill(e, found, a) ==
  IF found.output # None \/ ~Eligible(a) THEN found
  ELSE LET r == retry(found.retries, e, heap[a].size)
       IN  [found EXCEPT !.output = IF r.remaining = 0 THEN a ELSE None,
                         !.retries[Bucket(e, heap[a].size)] = r]

Consider(e, found, a) ==
  IF found.output # None \/ ~Eligible(a) THEN found
  ELSE LET r == retry(found.retries, e, heap[a].size)
           k == Bucket(e, heap[a].size)
       IN  IF r.remaining = 0
           THEN [found EXCEPT !.output = a, !.retries[k] = r]
           ELSE [found EXCEPT !.retries[k] = [r EXCEPT !.remaining = @ - 1]]

Candidate(e, args) ==
  FoldLeft(LAMBDA found, a : Consider(e, found, a), [output |-> None, retries |-> retries], args)

Record == phase' = "recording" /\ UNCHANGED ranges

(* prepare_dispatch: a direct call into a module of the producer's own. *)
UseTemplate(t) ==
  /\ phase' = "template"
  /\ \/ UNCHANGED ranges
     \/ t.native /\ Home[t.entry] # Main /\ ranges' = ranges \ {Home[t.entry]}

Call(e, args) ==
  /\ phase = "discovery" /\ ~modules_changed /\ Home[e] \in instrumented
  /\ LET found == Candidate(e, args)
     IN  /\ retries' = found.retries
         /\ IF found.output = None
            THEN UNCHANGED <<tracer, templates, ranges>>
            ELSE /\ IF e \in Recency!Keys(templates)
                    THEN /\ templates' = Recency!Touched(templates, e)
                         /\ \/ Record
                            \/ LET t == Recency!Lookup(templates, e)
                               IN  t.length = heap[found.output].size /\ UseTemplate(t)
                    ELSE UNCHANGED templates /\ Record
                 /\ capture' = [output |-> found.output, length |-> heap[found.output].size,
                                entry |-> e, rejected |-> FALSE, removed |-> ranges \ ranges']
                 /\ nest' = 0 /\ stale' = FALSE
  /\ UNCHANGED <<program, modules_changed, loaded, instrumented>>

-----------------------------------------------------------------------------
(* The recorder refuses what it sees, or a free rejected the capture: the
   detailed VM stops at the next block and the discovery VM goes on. *)
Resume ==
  /\ phase = "recording"
  /\ phase' = "resumed" /\ capture' = [capture EXCEPT !.rejected = TRUE]
  /\ UNCHANGED <<program, nest, stale, memory, view>>

(* The producer calls itself, or its caller, through the same call site. *)
CallAgain ==
  /\ Producing /\ capture.removed = {} /\ nest < MaxNest
  /\ nest' = nest + 1
  /\ UNCHANGED <<program, phase, capture, stale, memory, view>>

(* The nested call returns to the address the VM was told to stop at, with
   the stack pointer of another frame: on_run ends the process. *)
InnerReturn ==
  /\ Producing /\ nest > 0
  /\ phase' = "fatal195"
  /\ UNCHANGED <<program, capture, nest, stale, memory, view>>

(***************************************************************************)
(* finish(): what follows the return of the producer.  The recorder may    *)
(* have settled for a region of n bytes.                                   *)
(***************************************************************************)
Lengths == {capture.length} \cup
           {n \in Sizes : phase = "recording" /\ ~capture.rejected /\ n < capture.length}

Submittable ==
  /\ ~capture.rejected /\ af_size(capture.output) = capture.length
  /\ heap[capture.output].state = "resident"

Sealed(verdict) ==
  [heap EXCEPT ![capture.output].state = "sealed", ![capture.output].verdict = verdict]

Refuse(n) ==
  /\ retries' = Failed(capture.entry, n)
  /\ templates' = IF phase = "template" THEN Recency!Without(templates, capture.entry) ELSE templates

(* The checks of finish(), the recorder or the submission refuse it. *)
FinishRefused(n) ==
  /\ Refuse(n)
  /\ heap' = IF stale THEN heap ELSE [heap EXCEPT ![capture.output].verdict = "rejected"]

(* Sealed and then refused: af_manage fails after af_submit_region. *)
FinishUnmanaged(n) ==
  /\ Submittable /\ Refuse(n)
  /\ heap' \in af_manage_fails(Sealed("rejected"), capture.output)

FinishAccepted(n) ==
  /\ Submittable
  /\ heap' \in af_manage(Sealed("accepted"), capture.output)
  /\ retries' = Forgiven(capture.entry, n)
  /\ \/ UNCHANGED templates
     \/ /\ phase = "recording" /\ templates_enabled /\ n = capture.length
        /\ \E native \in BOOLEAN :
             templates' = Recency!Admitted(templates,
                            [entry |-> capture.entry, length |-> n, native |-> native])

(* Fault: the ranges of a rejected producer stay out of the VM. *)
RestoredWhenAccepted == IF capture.rejected THEN ranges ELSE ranges \cup capture.removed

RestoredRanges == ranges \cup capture.removed

Return ==
  /\ Producing /\ nest = 0
  /\ \E n \in Lengths : FinishRefused(n) \/ FinishUnmanaged(n) \/ FinishAccepted(n)
  /\ ranges' = RestoredRanges
  /\ capture' = NoCapture /\ phase' = "discovery" /\ stale' = FALSE
  /\ UNCHANGED <<held, nest, modules_changed, loaded, instrumented>>

(* The program returns from main. *)
End ==
  /\ phase = "discovery"
  /\ phase' = "ended"
  /\ UNCHANGED <<program, capture, nest, stale, memory, view>>

Fatal == {"fatal191", "fatal192", "fatal195", "unsupported"}

Over == phase \in {"ended"} \cup Fatal /\ UNCHANGED vars

-----------------------------------------------------------------------------
Init ==
  /\ heap = [a \in Addresses |-> FreeBlock] /\ held = {}
  /\ phase = "starting" /\ capture = NoCapture /\ nest = 0 /\ stale = FALSE
  /\ retries = [k \in Buckets |-> NewRetry(None, 0)] /\ templates = << >>
  /\ modules_changed = FALSE /\ loaded = {Main} \cup {Home[e] : e \in Entries}
  /\ instrumented = {} /\ ranges = {}

Next ==
  \/ \E a \in Addresses, n \in Sizes : Malloc(a, n)
  \/ \E a \in Addresses : Free(a) \/ FreeFails(a) \/ Access(a)
  \/ \E a, b \in Addresses, n \in Sizes : Realloc(a, b, n) \/ ReallocLibc(a, b, n)
  \/ \E m \in Modules : DlOpen(m) \/ DlClose(m)
  \/ \E e \in Entries, args \in Arguments : Call(e, args)
  \/ Begin \/ BeginFails \/ Unsupported \/ Rescan \/ Resume \/ CallAgain \/ InnerReturn \/ Return \/ End \/ Over

Spec == Init /\ [][Next]_vars

(***************************************************************************)
(* Fairness: producers return, and the program calls each function again   *)
(* and again as long as it has a buffer to give it.                        *)
(***************************************************************************)
CallWithBuffer(e) == \E a \in Addresses : Eligible(a) /\ Call(e, <<a>>)

LiveSpec == Spec /\ WF_vars(Return) /\ \A e \in Entries : SF_vars(CallWithBuffer(e))

-----------------------------------------------------------------------------
(***************************************************************************)
(* The blocks that exist are the ones the program holds: no path through   *)
(* realloc, whichever of its calls fails, leaves a block behind or takes   *)
(* one the program still has (preload.cpp:494-527).                        *)
(***************************************************************************)
HeapExact == {a \in Addresses : heap[a].by # "none"} = held

(***************************************************************************)
(* A recipe seals only the buffer its producer was called with: not one    *)
(* that came to lie at the same address, with the same size, after the     *)
(* producer freed or reallocated its own (preload.cpp:121, 487, 520).      *)
(***************************************************************************)
SealsOwnBuffer ==
  [][\A a \in Addresses :
       heap[a].state = "resident" /\ heap'[a].state \in {"sealed", "evicted"}
         => capture.output = a /\ ~stale /\ ~capture.rejected]_vars

(***************************************************************************)
(* The discovery VM instruments the known modules, except those a          *)
(* dispatched producer runs in; and once a change of modules was dealt     *)
(* with, the known modules are the loaded ones: through rejections within  *)
(* a dispatched producer, and dlopen and dlclose at any point              *)
(* (preload.cpp:706-723, 737-754).                                         *)
(***************************************************************************)
RangesExact ==
  Running => /\ ranges = instrumented \ capture.removed
             /\ modules_changed \/ instrumented = loaded

(***************************************************************************)
(* Backoff delays a producer and never bars it: a function that the        *)
(* program keeps calling with a resident buffer, once its module stays     *)
(* loaded, is recorded again and again, however often it failed, under     *)
(* whichever length its failures were counted and whoever shares its place *)
(* in the table (preload.cpp:51-56, 148, 171-173, 215-220).                *)
(***************************************************************************)
RetriedEventually ==
  \A e \in Entries :
    (/\ <>[](~modules_changed /\ Home[e] \in instrumented)
     /\ []<>(phase = "discovery" /\ \E a \in Addresses : Eligible(a)))
      => []<>(capture.entry = e)

(***************************************************************************)
(* README.md: "Rejected recipes leave the application's original output    *)
(* resident."  A buffer last reported as rejected (preload.cpp:166-175) is *)
(* not evicted, in the step that reports it or in a later one.             *)
(***************************************************************************)
RejectedStaysResident ==
  \A a \in Addresses : heap[a].verdict = "rejected" => heap[a].state # "evicted"

=============================================================================
