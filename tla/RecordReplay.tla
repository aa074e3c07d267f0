---------------------------- MODULE RecordReplay ----------------------------
(***************************************************************************)
(* The recorder composed with the replay of what it recorded: the recipe   *)
(* of a finished capture is encoded (native/common.hpp), submitted         *)
(* (native/runtime.cpp), decoded by the worker (native/common.hpp) and     *)
(* executed by the emulator (native/emulator.hpp),                         *)
(* which makes the producer's accesses again, on memory that holds nothing *)
(* but the recipe.  It runs strict when a recipe is registered and without *)
(* its hooks when a buffer is restored.                                    *)
(*                                                                         *)
(* An instruction makes one access.  Runs of stores may also come from a   *)
(* loop that the recorder lets run natively (inline_loop of                *)
(* native/recorder.hpp, native/native_loop.hpp); such a loop has Body      *)
(* instructions and stores once an iteration, at consecutive addresses.    *)
(* Where the instructions lie within the code pages is chosen when the     *)
(* capture begins, from the layouts of Layouts; an instruction is the set  *)
(* of its bytes.  Code that jumps into the middle of an instruction has    *)
(* instructions that overlap.                                              *)
(***************************************************************************)
EXTENDS Recorder, Sequences, FiniteSetsExt

CONSTANTS
  Body,         \* instructions of a loop, its branch included
  MaxIterations,\* bound: how often a loop goes round
  MaxSteps,     \* instructions a recipe may have (500 million in the code)
  Layouts,      \* the instructions a producer may have run
  MaxInputs,    \* segments a recipe may have (one million in the code)
  MaxCode,      \* ... instructions (one million)
  MaxPages,     \* ... and scratch pages (262144)
  MaxBlob,      \* bytes of the longest encoding (MAX_BLOB, 64 MiB)
  HeaderSize,   \* bytes of a header, and of a page's, an instruction's and a
  PageSize,     \* segment's entry (536, 8, 24 and 16)
  InstructionSize,
  SegmentSize

(***************************************************************************)
(* Instructions come from executable mappings only, and the buffers that   *)
(* hold outputs are mapped for data.  The recorder gives up before it has  *)
(* more instructions than a recipe may have (recorder.hpp:218), and the    *)
(* limit of scratch is below that of pages: 256 MiB of output may use      *)
(* 68 MiB of scratch, and 262144 pages are 1 GiB.                          *)
(***************************************************************************)
ASSUME ReplayAssumption ==
  /\ Body \in Nat \ {0} /\ MaxIterations \in Nat
  /\ MaxSteps \in Nat /\ MaxInputs \in Nat /\ MaxCode \in Nat
  /\ MaxPages \in Nat /\ (Length \div 4) + Spare <= MaxPages * PAGE
  /\ MaxBlob \in Nat
  /\ HeaderSize \in Nat /\ PageSize \in Nat /\ InstructionSize \in Nat /\ SegmentSize \in Nat
  /\ Code \cap Span(Output, Rounded(Length)) = {}
  /\ \A L \in Layouts :
       /\ L \subseteq SUBSET Byte /\ Bases(UNION L) = Code
       /\ IsFiniteSet(L) /\ Cardinality(L) <= MaxCode

VARIABLES
  history,      \* the producer's accesses
  steps,        \* Recorder::steps
  code,         \* Recorder::code
  phase,        \* "capture", "running", "done", or why the replay refused
  strict,       \* the replay checks every access
  at,           \* accesses replayed
  counted,      \* Replay::steps
  ready,        \* the bytes marked in `initialized'
  made,         \* the bytes marked in output_written
  copy,         \* the replay's memory
  same          \* every byte the replay read is what the producer read

captured == <<history, steps, code>>
replay == <<phase, strict, at, counted, ready, made, copy, same>>
all == <<vars, captured, replay>>

Access(kind, a, n, cost) ==
  [kind |-> kind, span |-> Span(a, n), cost |-> cost, saw |-> [b \in Span(a, n) |-> mem[b]]]

-----------------------------------------------------------------------------
(***************************************************************************)
(* Recording.  A block that would exceed the limit of instructions rejects *)
(* the capture, as Reject does.                                            *)
(***************************************************************************)
Instruction(kind, a, n) ==
  /\ steps < MaxSteps
  /\ IF kind = "read" THEN Read(a, n) ELSE Write(a, n)
  /\ history' = Append(history, Access(kind, a, n, 1))
  /\ steps' = steps + 1
  /\ UNCHANGED <<code, replay>>

last_store_end ==
  LET stores == {i \in DOMAIN history : history[i].kind = "write"}
  IN  IF stores = {} THEN 0 ELSE Max(history[Max(stores)].span) + 1

(* Fault: the iteration before the callback, which its block counted, is   *)
(* counted again.                                                          *)
LoopStepsAgain(k) == (k + 1) * Body

(***************************************************************************)
(* The instructions of k more iterations: the callback is at the branch    *)
(* that ends the first.                                                    *)
(***************************************************************************)
LoopSteps(k) == k * Body

(***************************************************************************)
(* A loop that stores w bytes where the last store ended, k times over.    *)
(* The stores have happened when the recorder finds that one of them left  *)
(* the output, or that the instructions are too many.                      *)
(***************************************************************************)
LoopRejected(S) ==
  /\ verdict = "recording" /\ ops < MaxOps
  /\ verdict' = "rejected" /\ ops' = ops + 1
  /\ mem' = [b \in Byte |-> IF b \in S THEN "new" ELSE mem[b]]
  /\ stored' = stored \cup S
  /\ UNCHANGED <<recorder, region, consumed, steps>>

InlineLoop(w, k) ==
  /\ last_store_end \in Output .. Output + Length
  /\ LET a == last_store_end
     IN  /\ a + k * w <= Memory
         /\ IF a + k * w <= Output + Length /\ LoopSteps(k) <= MaxSteps - steps
              THEN Write(a, k * w) /\ steps' = steps + LoopSteps(k)
              ELSE LoopRejected(Span(a, k * w))
         /\ history' = history \o [i \in 1 .. k |-> Access("write", a + (i - 1) * w, w, Body)]
  /\ UNCHANGED <<code, replay>>

(***************************************************************************)
(* The same for a loop without a store: only its instructions count.  It   *)
(* is one access of no bytes.                                              *)
(***************************************************************************)
InlineSpin(k) ==
  /\ verdict = "recording" /\ ops < MaxOps
  /\ IF LoopSteps(k) <= MaxSteps - steps
       THEN steps' = steps + LoopSteps(k) /\ UNCHANGED verdict
       ELSE verdict' = "rejected" /\ UNCHANGED steps
  /\ history' = history \o [i \in 1 .. k |-> Access("read", 0, 0, Body)]
  /\ ops' = ops + 1
  /\ UNCHANGED <<mem, recorder, region, truth, code, replay>>

Finish ==
  /\ FinishWhole \/ \E j, k \in 0 .. LastPage : FinishRegion(j, k)
  /\ UNCHANGED <<captured, replay>>

GiveUp == Reject /\ UNCHANGED <<captured, replay>>

-----------------------------------------------------------------------------
(***************************************************************************)
(* The recipe: the scratch pages, and the segments, the runs of input      *)
(* bytes within a page, that finish() writes.                              *)
(***************************************************************************)
RecipePages == {p \in pages : p < start \/ p >= start + Rounded(length)}

Segments ==
  {S \in {Span(a, n) : a \in input, n \in 1 .. PAGE} :
     /\ S \subseteq input /\ Cardinality(Bases(S)) = 1
     /\ Min(S) % PAGE = 0 \/ Min(S) - 1 \notin input
     /\ (Max(S) + 1) % PAGE = 0 \/ Max(S) + 1 \notin input}

(* The bytes of the segments, each with its segment. *)
SegmentBytes == UNION {{S} \X S : S \in Segments}

EncodedSize ==
  HeaderSize + PageSize * Cardinality(RecipePages) + InstructionSize * Cardinality(code)
    + SegmentSize * Cardinality(Segments) + Cardinality(input)

(* Why encode() refuses the recipe, or "". *)
Unencodable == IF EncodedSize > MaxBlob THEN "recipe exceeds 64 MiB limit" ELSE ""

(* Why submit() does. *)
Unsubmittable == IF EncodedSize >= length THEN "recipe is not smaller than output" ELSE ""

CodeBytes == UNION code

HeaderInvalid ==
  \/ Cardinality(RecipePages) > MaxPages \/ Cardinality(code) > MaxCode
  \/ Cardinality(Segments) > MaxInputs \/ steps > MaxSteps

CodeOverlaps == \E c, d \in code : c # d /\ c \cap d # {}

(***************************************************************************)
(* Why decode() does.  What the code's bytes are is what memory held       *)
(* before the call.                                                        *)
(***************************************************************************)
Undecodable ==
  IF HeaderInvalid THEN "invalid recipe header"
  ELSE IF Cardinality(SegmentBytes) # Cardinality(input) THEN "recipe length mismatch"
  ELSE IF CodeOverlaps THEN "overlapping recipe instructions"
  ELSE IF \E S, T \in Segments : S # T /\ S \cap T # {} THEN "overlapping recipe inputs"
  ELSE IF \E b \in CodeBytes \cap input : data[b] # "old" THEN "input conflicts with recipe code"
  ELSE ""

OutputPages == Bases(Span(start, Rounded(length)))

MappedPages == RecipePages \cup OutputPages \cup Code

(***************************************************************************)
(* Why run() refuses it before the first instruction, or "".               *)
(***************************************************************************)
Unmappable ==
  CASE Cardinality(MappedPages) * PAGE > Rounded(length) + (length \div 4) + Spare ->
         "replay scratch exceeds the group budget"
    [] ~(Bases(input) \subseteq MappedPages) -> "input outside mapped pages"
    [] Code \cap Span(start, Rounded(length)) # {} -> "output overlaps code"
    [] OTHER -> ""

(* Fault: of a segment only the first byte reaches the replay's memory. *)
LoadedFirst ==
  [b \in Byte |-> IF b \in {Min(S) : S \in Segments} THEN data[b]
                  ELSE IF b \in CodeBytes THEN "old" ELSE "unset"]

Loaded ==
  [b \in Byte |-> IF b \in input THEN data[b] ELSE IF b \in CodeBytes THEN "old" ELSE "unset"]

(* The first of these refusals, or "". *)
Refusal ==
  IF Unencodable # "" THEN Unencodable
  ELSE IF Unsubmittable # "" THEN Unsubmittable
  ELSE IF Undecodable # "" THEN Undecodable
  ELSE Unmappable

Start(hooks) ==
  /\ verdict = "recipe" /\ phase = "capture"
  /\ phase' = IF Refusal # "" THEN Refusal ELSE "running"
  /\ strict' = hooks /\ at' = 0 /\ counted' = 0 /\ made' = {} /\ same' = TRUE
  /\ ready' = input \cup CodeBytes /\ copy' = Loaded
  /\ UNCHANGED <<vars, captured>>

(***************************************************************************)
(* One instruction: the block hook has counted it, the memory hook checks  *)
(* its access, and pages with code cannot be written.                      *)
(***************************************************************************)
Denied(h) ==
  CASE strict /\ counted + h.cost > steps -> "replay instruction bound exceeded"
    [] ~(Bases(h.span) \subseteq MappedPages) -> "replay touched an unobserved page"
    [] strict /\ h.kind = "read" /\ ~(h.span \subseteq ready) -> "replay read a missing input byte"
    [] h.kind = "write" /\ Bases(h.span) \cap Code # {} -> "write to a protected page"
    [] OTHER -> ""

Replayed(h) ==
  IF h.kind = "read"
    THEN /\ same' = (same /\ \A b \in h.span : copy[b] = h.saw[b])
         /\ UNCHANGED <<ready, made, copy>>
    ELSE /\ copy' = [b \in Byte |-> IF b \in h.span THEN "new" ELSE copy[b]]
         /\ ready' = ready \cup h.span
         /\ made' = made \cup (h.span \cap Span(start, length))
         /\ UNCHANGED same

Execute ==
  /\ phase = "running" /\ at < Len(history)
  /\ LET h == history[at + 1]
     IN  /\ counted' = counted + h.cost
         /\ IF Denied(h) # ""
              THEN phase' = Denied(h) /\ UNCHANGED <<at, ready, made, copy, same>>
              ELSE at' = at + 1 /\ Replayed(h) /\ UNCHANGED phase
  /\ UNCHANGED <<vars, captured, strict>>

(***************************************************************************)
(* The checks at the end, the digest of the output last.  The emulator     *)
(* stops at the producer's return, or wherever it is after 30 seconds, so  *)
(* that rip is not the return address.  The result is computed from what   *)
(* was read, and may be another one only where that is.                    *)
(***************************************************************************)
Conclusion(other_result) ==
  IF at < Len(history) \/ other_result \/ (strict /\ counted # steps)
    THEN "replay control flow or return value diverged"
  ELSE IF strict /\ made # Span(start, length) THEN "replay did not produce every output byte"
  ELSE IF \E b \in Span(start, length) : copy[b] # mem[b] THEN "replay output digest mismatch"
  ELSE "done"

Stop ==
  /\ phase = "running"
  /\ \E other_result \in BOOLEAN :
       /\ other_result => ~same
       /\ phase' = Conclusion(other_result)
  /\ UNCHANGED <<vars, captured, strict, at, counted, ready, made, copy, same>>

Over ==
  /\ verdict \in {"rejected", "refused"} \/ phase \notin {"capture", "running"}
  /\ UNCHANGED all

-----------------------------------------------------------------------------
ReplayInit ==
  /\ Init /\ history = <<>> /\ steps = 0 /\ code \in Layouts
  /\ phase = "capture" /\ strict = TRUE /\ at = 0 /\ counted = 0
  /\ ready = {} /\ made = {} /\ same = TRUE /\ copy = [b \in Byte |-> "unset"]

ReplayNext ==
  \/ \E a \in Byte, n \in 1 .. MaxAccess, kind \in {"read", "write"} :
       a >= PAGE /\ a + n <= Memory /\ Instruction(kind, a, n)
  \/ \E w \in 1 .. MaxAccess, k \in 1 .. MaxIterations : InlineLoop(w, k)
  \/ \E k \in 1 .. MaxIterations : InlineSpin(k)
  \/ Finish \/ GiveUp
  \/ \E hooks \in BOOLEAN : Start(hooks)
  \/ Execute \/ Stop \/ Over

ReplaySpec == ReplayInit /\ [][ReplayNext]_all

-----------------------------------------------------------------------------
(***************************************************************************)
(* What finish() lets through is replayed: the checks of encode(), submit()*)
(* and decode(), and the emulator's of pages, bytes, coverage, instruction *)
(* counts and digest, never disagree with what the recorder observed.  The *)
(* exceptions are five, each with its cause: the encoding is longer than   *)
(* encode() allows (common.hpp:167) or not shorter than the output         *)
(* (runtime.cpp:547), there are more segments than decode() takes          *)
(* (common.hpp:197), recorded instructions overlap (common.hpp:227), and   *)
(* the emulator was stopped before the end (emulator.hpp:187).             *)
(***************************************************************************)
AcceptsRecorded ==
  \/ phase \in {"capture", "running", "done"}
  \/ phase = "recipe exceeds 64 MiB limit" /\ EncodedSize > MaxBlob
  \/ phase = "recipe is not smaller than output" /\ EncodedSize >= length
  \/ phase = "invalid recipe header" /\ Cardinality(Segments) > MaxInputs
  \/ phase = "overlapping recipe instructions" /\ CodeOverlaps
  \/ phase = "replay control flow or return value diverged" /\ at < Len(history)

(***************************************************************************)
(* A replay, with its hooks or without, reads at every instruction what    *)
(* the producer read there, and leaves in the region what the producer     *)
(* left.                                                                   *)
(***************************************************************************)
Reproduces ==
  same /\ (phase = "done" => \A b \in Span(start, length) : copy[b] = mem[b])
=============================================================================
