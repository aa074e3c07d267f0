----------------------------- MODULE Recorder ------------------------------
(***************************************************************************)
(* The dependency tracking of native/recorder.hpp: which bytes a producer  *)
(* reads before it writes them become inputs of the recipe, which bytes it *)
(* writes are output or scratch, and which part of the output finish()     *)
(* takes for the recipe's region.                                          *)
(*                                                                         *)
(* An address is a byte, and a byte holds what it held when the call began *)
(* ("old") or something the producer wrote ("new").  The word-sized pieces *)
(* read() and write() work in are left out: ByteMask is a set of bytes.    *)
(***************************************************************************)
EXTENDS Integers, FiniteSets

CONSTANTS
  Memory,       \* bytes of memory: addresses are 0 .. Memory - 1
  PAGE,         \* bytes of a page
  Output,       \* where the output starts
  Length,       \* its length
  Regions,      \* AF_DISABLE_REGIONS is not set
  MinRegion,    \* the shortest region worth a recipe (65536 in the code)
  MaxLive,      \* how many input bytes a recipe may have
  Spare,        \* bytes of scratch any recipe may use (4 MiB in the code)
  Code,         \* the pages that hold the producer's instructions
  MaxAccess,    \* bound: the longest access
  MaxOps        \* bound: how many accesses a producer makes

ASSUME ConstantsAssumption ==
  /\ Memory \in Nat /\ PAGE \in Nat \ {0}
  /\ Output \in Nat /\ Output % PAGE = 0
  /\ Length \in Nat \ {0} /\ Output + Length <= Memory
  /\ Regions \in BOOLEAN
  /\ MinRegion \in Nat /\ MaxLive \in Nat /\ Spare \in Nat
  /\ Code \subseteq {a \in 0 .. Memory - 1 : a % PAGE = 0}
  /\ MaxAccess \in Nat /\ MaxOps \in Nat

VARIABLES
  mem,          \* the producer's memory
  written,      \* the bytes marked in ObservedPage::written
  input,        \* the bytes marked in ObservedPage::input
  data,         \* ObservedPage::data
  pages,        \* the keys of `pages'
  frontier,     \* output_frontier
  start, length,\* recipe.h.output and recipe.h.length
  verdict,      \* "recording", "rejected", or of finish(): "refused", "recipe"
  ops,          \* accesses made
  (* what really happened *)
  consumed,     \* the bytes the producer read before it wrote them
  stored        \* the bytes it wrote

recorder == <<written, input, data, pages, frontier>>
region == <<start, length>>
truth == <<consumed, stored>>
vars == <<mem, recorder, region, verdict, ops, truth>>

Byte == 0 .. Memory - 1

Base(a) == a - (a % PAGE)

Bases(S) == {Base(a) : a \in S}

Rounded(n) == ((n + PAGE - 1) \div PAGE) * PAGE

Lower(m, n) == IF m < n THEN m ELSE n

Higher(m, n) == IF m > n THEN m ELSE n

Span(a, n) == a .. a + n - 1

Allocation == Span(Output, Length)

-----------------------------------------------------------------------------
(* Fault: a byte past the frontier is taken for written. *)
NeededShort(S) == S \ (written \cup input \cup Output .. frontier)

(***************************************************************************)
(* The bytes of a read that neither an input nor the producer itself has   *)
(* provided yet.                                                           *)
(***************************************************************************)
Needed(S) == S \ (written \cup input \cup Output .. frontier - 1)

Read(a, n) ==
  /\ verdict = "recording" /\ ops < MaxOps
  /\ LET S == Span(a, n)
     IN  /\ pages' = pages \cup Bases(S)
         /\ IF Cardinality(input \cup Needed(S)) > MaxLive
              THEN verdict' = "rejected" /\ UNCHANGED <<input, data>>
              ELSE /\ input' = input \cup Needed(S)
                   /\ data' = [b \in Byte |-> IF b \in Needed(S) THEN mem[b] ELSE data[b]]
                   /\ UNCHANGED verdict
         /\ consumed' = consumed \cup (S \ stored)
  /\ ops' = ops + 1
  /\ UNCHANGED <<mem, written, frontier, region, stored>>

(* Fault: a write may leave a gap before it. *)
ExtendsGap(a, n) == Output <= a /\ a <= frontier + 1 /\ a + n <= Output + Length

(***************************************************************************)
(* A write that starts within or at the end of what the output has so far  *)
(* moves the frontier; any other is marked byte by byte.                   *)
(***************************************************************************)
Extends(a, n) == Output <= a /\ a <= frontier /\ a + n <= Output + Length

Write(a, n) ==
  /\ verdict = "recording" /\ ops < MaxOps
  /\ IF Extends(a, n)
       THEN frontier' = Higher(frontier, a + n) /\ UNCHANGED <<written, pages>>
       ELSE /\ written' = written \cup Span(a, n)
            /\ pages' = pages \cup Bases(Span(a, n))
            /\ UNCHANGED frontier
  /\ mem' = [b \in Byte |-> IF b \in Span(a, n) THEN "new" ELSE mem[b]]
  /\ stored' = stored \cup Span(a, n)
  /\ ops' = ops + 1
  /\ UNCHANGED <<input, data, region, verdict, consumed>>

(***************************************************************************)
(* Recorder::reject, for an access or an instruction that cannot be        *)
(* replayed, and the early returns of finish().                            *)
(***************************************************************************)
Reject ==
  /\ verdict = "recording"
  /\ verdict' = "rejected"
  /\ UNCHANGED <<mem, recorder, region, ops, truth>>

-----------------------------------------------------------------------------
(***************************************************************************)
(* finish().  The pages of the allocation are numbered from 0; a run is a  *)
(* sequence of whole pages all of which the producer covered.              *)
(***************************************************************************)
LastPage == (Length - 1) \div PAGE

PageSpan(k) == Span(Output + k * PAGE, Lower(PAGE, Length - k * PAGE))

Covered(k) == \A b \in PageSpan(k) : b < frontier \/ b \in written

Complete == \A k \in 0 .. LastPage : Covered(k)

Whole(k) == (k + 1) * PAGE <= Length

IsRun(j, k) == j <= k /\ \A i \in j .. k : Covered(i) /\ Whole(i)

(***************************************************************************)
(* The first of the longest runs, j .. k.                                  *)
(***************************************************************************)
Best(j, k) ==
  /\ IsRun(j, k)
  /\ \A l, m \in 0 .. LastPage :
       IsRun(l, m) => m - l < k - j \/ (m - l = k - j /\ l >= j)

(* Fault: the end of the run is counted twice. *)
RegionLengthOver(j, k) == (k - j + 2) * PAGE

RegionLength(j, k) == (k - j + 1) * PAGE

Worthwhile(n) == n >= Higher(MinRegion, Rounded(Length \div 2))

(***************************************************************************)
(* The rest of finish(), for the region of n bytes from s, when the marks  *)
(* are W and the frontier is f: the frontier is turned into marks unless   *)
(* it covers the region alone, then the coverage, the code pages and the   *)
(* scratch pages are checked in turn.                                      *)
(***************************************************************************)
Marked(W, s, n, f) == IF f = s + n THEN W ELSE W \cup s .. f - 1

Scratch(s, n) == {p \in pages' : p < s \/ p >= s + Rounded(n)}

Conclude(s, n, W, f) ==
  /\ written' = Marked(W, s, n, f) /\ frontier' = f
  /\ pages' = pages \cup Bases(written') \cup Code
              \cup (IF f = s + n THEN {} ELSE Bases(Span(s, n)))
  /\ start' = s /\ length' = n
  /\ verdict' = IF /\ f = s + n \/ Span(s, n) \subseteq written'
                   /\ Code \cap Bases(written') = {}
                   /\ Cardinality(Scratch(s, n)) * PAGE <= (n \div 4) + Spare
                THEN "recipe" ELSE "refused"

FinishWhole ==
  /\ verdict = "recording"
  /\ ~Regions \/ Complete
       \/ \A j, k \in 0 .. LastPage : Best(j, k) => ~Worthwhile(RegionLength(j, k))
  /\ Conclude(Output, Length, written, frontier)
  /\ UNCHANGED <<mem, input, data, ops, truth>>

FinishRegion(j, k) ==
  /\ verdict = "recording" /\ Regions /\ ~Complete
  /\ Best(j, k) /\ Worthwhile(RegionLength(j, k))
  /\ LET s == Output + j * PAGE
         end == s + RegionLength(j, k)
         outside == (Output .. frontier - 1) \ (s .. end - 1)
     IN  Conclude(s, RegionLength(j, k), written \cup outside,
                  Higher(s, Lower(frontier, end)))
  /\ UNCHANGED <<mem, input, data, ops, truth>>

-----------------------------------------------------------------------------
Init ==
  /\ mem = [b \in Byte |-> "old"]
  /\ written = {} /\ input = {} /\ data = [b \in Byte |-> "unset"]
  /\ pages = {} /\ frontier = Output
  /\ start = Output /\ length = Length /\ verdict = "recording" /\ ops = 0
  /\ consumed = {} /\ stored = {}

-----------------------------------------------------------------------------
(***************************************************************************)
(* The recipe's inputs are exactly the bytes the producer consumed before  *)
(* it wrote them, with the value they had when the call began: a replay    *)
(* that starts from nothing else reads what the producer read.             *)
(***************************************************************************)
InputsExact ==
  verdict # "rejected" => input = consumed /\ \A b \in input : data[b] = "old"

(***************************************************************************)
(* The frontier and the marks together are exactly the bytes the producer  *)
(* wrote: also after finish() has moved the frontier of a region, which is *)
(* the promise of its comment "Never lose their dependencies".             *)
(***************************************************************************)
WritesKept ==
  verdict \in {"recording", "recipe"} => stored = written \cup start .. frontier - 1

(***************************************************************************)
(* A recipe's region lies in the allocation, and the producer wrote every  *)
(* byte of it.                                                             *)
(***************************************************************************)
RegionProduced ==
  verdict = "recipe" => Span(start, length) \subseteq Allocation \cap stored

(***************************************************************************)
(* The pages of a recipe, those of its region and its scratch pages, hold  *)
(* every byte the producer read or wrote: a replay, which has no other     *)
(* page, touches nothing outside them.                                     *)
(***************************************************************************)
FootprintMapped ==
  verdict = "recipe" =>
    Bases(consumed \cup stored) \subseteq pages \cup Bases(Span(start, length))

(***************************************************************************)
(* finish() refuses a region it chose, and an output the producer wrote    *)
(* completely, only for scratch or for modified code: never because the    *)
(* coverage check disagrees with the choice.                               *)
(***************************************************************************)
RefusedForCause ==
  [][verdict' = "refused" /\ verdict # "refused"
       /\ (length' # Length \/ Allocation \subseteq stored) =>
     \/ Cardinality(pages' \ Bases(Span(start', length'))) * PAGE > Spare
     \/ Bases(stored) \cap Code # {}]_vars
=============================================================================
