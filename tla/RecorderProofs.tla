--------------------------- MODULE RecorderProofs ---------------------------
(***************************************************************************)
(* What the recorder keeps is exact, for every memory, page size, output,  *)
(* set of code pages and limit, and for producers of any length, with      *)
(* loops that run natively and without.                                    *)
(***************************************************************************)
EXTENDS RecordReplay, TLAPS

(***************************************************************************)
(* The inductive invariant.  Until finish() the region is the allocation,  *)
(* and the marks and the frontier are what was stored; bytes that were not *)
(* stored hold what they held when the call began, which makes what a      *)
(* later read captures an original value; and the pages listed hold all    *)
(* that was captured or marked.                                            *)
(***************************************************************************)
Types ==
  /\ mem \in [Byte -> {"old", "new"}] /\ data \in [Byte -> {"unset", "old", "new"}]
  /\ written \subseteq Byte /\ input \subseteq Byte /\ stored \subseteq Byte
  /\ frontier \in Int /\ start \in Int /\ length \in Int

Begun ==
  verdict = "recording" =>
    /\ start = Output /\ length = Length
    /\ Output <= frontier /\ frontier <= Output + Length

Untouched == \A b \in Byte : b \notin stored => mem[b] = "old"

Listed == verdict \in {"recording", "recipe"} => Bases(input \cup written) \subseteq pages

Produced ==
  verdict = "recipe" =>
    \/ frontier = start + length
    \/ Span(start, length) \subseteq written /\ start .. frontier - 1 \subseteq written

Bounded ==
  verdict = "recipe" => Output <= start /\ start + length <= Output + Length

IInv ==
  /\ Types /\ Begun /\ Untouched /\ Listed /\ Produced /\ Bounded
  /\ InputsExact /\ WritesKept

-----------------------------------------------------------------------------
(***************************************************************************)
(* A write within or at the end of the frontier adds its bytes to it.      *)
(***************************************************************************)
LEMMA FrontierGrows ==
  ASSUME NEW f \in Int, NEW a \in Int, NEW n \in Int, Output <= a, a <= f
  PROVE  Output .. Higher(f, a + n) - 1 = (Output .. f - 1) \cup Span(a, n)
  BY ConstantsAssumption DEF Higher, Span

(***************************************************************************)
(* Moving the frontier into a region [s, e) loses no byte: what lies       *)
(* outside is marked.                                                      *)
(***************************************************************************)
LEMMA FrontierMoves ==
  ASSUME NEW f \in Int, NEW s \in Int, NEW e \in Int, Output <= s, s <= e
  PROVE  ((Output .. f - 1) \ (s .. e - 1)) \cup (s .. Higher(s, Lower(f, e)) - 1)
           = Output .. f - 1
  BY ConstantsAssumption DEF Higher, Lower

(***************************************************************************)
(* The invariant holds when the call begins.                               *)
(***************************************************************************)
LEMMA InitEstablishes == Init => IInv
  BY ConstantsAssumption DEF Init, IInv, Types, Begun, Untouched, Listed, Produced, Bounded,
     InputsExact, WritesKept, Byte, Bases

(***************************************************************************)
(* A read captures the bytes that neither the producer nor an earlier read *)
(* provided, and these are the ones consumed.                              *)
(***************************************************************************)
LEMMA ReadKeeps ==
  ASSUME NEW a \in Int, NEW n \in Int, Span(a, n) \subseteq Byte, IInv, Read(a, n)
  PROVE  IInv'
<1> DEFINE S == Span(a, n)
<1>1. verdict = "recording" /\ input = consumed /\ \A b \in input : data[b] = "old"
  BY Zenon DEF IInv, InputsExact, Read
<1>2. Needed(S) = S \ (stored \cup input)
  BY <1>1, Zenon DEF Needed, IInv, WritesKept, Begun
<1>3. Needed(S) \subseteq Byte /\ \A b \in Needed(S) : mem[b] = "old"
  BY <1>2, Zenon DEF IInv, Untouched
<1>4. UNCHANGED <<mem, written, frontier, start, length, stored>>
  BY Zenon DEF Read, region
<1>5. verdict' \in {"recording", "rejected"}
  BY <1>1, Zenon DEF Read
<1>6. Types'
  BY <1>3, <1>4, Zenon DEF Read, IInv, Types
<1>7. Begun' /\ Untouched' /\ Produced' /\ Bounded'
  BY <1>1, <1>4, <1>5, Zenon DEF IInv, Begun, Untouched, Produced, Bounded
<1>8. CASE verdict' = "rejected"
  BY <1>6, <1>7, <1>8, Zenon DEF IInv, Listed, InputsExact, WritesKept
<1>9. CASE verdict' = "recording"
  <2>1. /\ input' = input \cup Needed(S)
        /\ data' = [b \in Byte |-> IF b \in Needed(S) THEN mem[b] ELSE data[b]]
        /\ consumed' = consumed \cup (S \ stored)
        /\ pages' = pages \cup Bases(S)
    BY <1>9, Zenon DEF Read
  <2>2. InputsExact'
    <3>1. input' = consumed'
      BY <1>1, <1>2, <2>1, Zenon
    <3>2. \A b \in input' : data'[b] = "old"
      BY <1>1, <1>3, <2>1, Zenon DEF IInv, Types
    <3> QED BY <3>1, <3>2, Zenon DEF InputsExact
  <2>3. WritesKept'
    BY <1>1, <1>4, Zenon DEF IInv, WritesKept
  <2>4. Listed'
    BY <1>1, <1>2, <1>4, <2>1, Zenon DEF IInv, Listed, Bases
  <2> QED BY <1>6, <1>7, <2>2, <2>3, <2>4, Zenon DEF IInv
<1> QED BY <1>5, <1>8, <1>9, Zenon

(***************************************************************************)
(* A write moves the frontier or is marked.                                *)
(***************************************************************************)
LEMMA WriteKeeps ==
  ASSUME NEW a \in Int, NEW n \in Int, Span(a, n) \subseteq Byte, IInv, Write(a, n)
  PROVE  IInv'
<1> DEFINE S == Span(a, n)
<1>1. verdict = "recording" /\ UNCHANGED <<input, data, start, length, verdict, consumed>>
  BY Zenon DEF Write, region
<1>2. stored' = stored \cup S /\ mem' = [b \in Byte |-> IF b \in S THEN "new" ELSE mem[b]]
  BY Zenon DEF Write
<1>3. start = Output /\ length = Length /\ Output <= frontier /\ frontier <= Output + Length
  BY <1>1, Zenon DEF IInv, Begun
<1>4. \/ /\ Extends(a, n) /\ frontier' = Higher(frontier, a + n) /\ UNCHANGED <<written, pages>>
      \/ /\ written' = written \cup S /\ pages' = pages \cup Bases(S) /\ UNCHANGED frontier
  BY Zenon DEF Write
<1>5. Types'
  <2>1. mem' \in [Byte -> {"old", "new"}] /\ stored' \subseteq Byte
    BY <1>2, Zenon DEF IInv, Types
  <2>2. written' \subseteq Byte /\ frontier' \in Int
    BY <1>4 DEF IInv, Types, Higher
  <2> QED BY <1>1, <2>1, <2>2, Zenon DEF IInv, Types
<1>6. Begun'
  BY <1>1, <1>3, <1>4, ConstantsAssumption DEF IInv, Types, Begun, Extends, Higher
<1>7. Untouched'
  BY <1>2, Zenon DEF IInv, Untouched, Types
<1>8. Listed'
  BY <1>1, <1>4, Zenon DEF IInv, Listed, Bases
<1>9. WritesKept'
  <2>1. CASE Extends(a, n) /\ frontier' = Higher(frontier, a + n) /\ UNCHANGED written
    <3>1. Output .. frontier' - 1 = (Output .. frontier - 1) \cup S
      BY <2>1, FrontierGrows DEF Extends, IInv, Types
    <3> QED BY <1>1, <1>2, <1>3, <2>1, <3>1, Zenon DEF IInv, WritesKept
  <2>2. CASE written' = written \cup S /\ UNCHANGED frontier
    BY <1>1, <1>2, <1>3, <2>2, Zenon DEF IInv, WritesKept
  <2> QED BY <1>4, <2>1, <2>2, Zenon
<1>10. InputsExact' /\ Produced' /\ Bounded'
  BY <1>1, Zenon DEF IInv, InputsExact, Produced, Bounded
<1> QED BY <1>5, <1>6, <1>7, <1>8, <1>9, <1>10, Zenon DEF IInv

(***************************************************************************)
(* The rest of finish(): whatever it decides, the marks W and the frontier *)
(* f it was given stay what was stored.                                    *)
(***************************************************************************)
LEMMA ConcludeKeeps ==
  ASSUME NEW s \in Int, NEW n \in Int, NEW f \in Int, NEW W \in SUBSET Byte,
         IInv, verdict = "recording", Conclude(s, n, W, f),
         UNCHANGED <<mem, input, data, consumed, stored>>,
         stored = W \cup s .. f - 1,
         Output <= s, s + n <= Output + Length
  PROVE  IInv'
<1>1. /\ written' = IF f = s + n THEN W ELSE W \cup s .. f - 1
      /\ frontier' = f /\ start' = s /\ length' = n
      /\ verdict' \in {"recipe", "refused"}
      /\ pages \cup Bases(written') \subseteq pages'
      /\ verdict' = "recipe" => f = s + n \/ Span(s, n) \subseteq written'
  BY Zenon DEF Conclude, Marked
<1>2. Types'
  BY <1>1, Zenon DEF IInv, Types
<1>3. Begun' /\ Bounded' /\ Produced'
  BY <1>1, Zenon DEF Begun, Bounded, Produced
<1>4. Untouched' /\ InputsExact'
  BY <1>1, Zenon DEF IInv, Untouched, InputsExact
<1>5. Listed'
  BY <1>1, Zenon DEF IInv, Listed, Bases
<1>6. WritesKept'
  BY <1>1, Zenon DEF WritesKept
<1> QED BY <1>2, <1>3, <1>4, <1>5, <1>6, Zenon DEF IInv

(***************************************************************************)
(* finish() with the whole output.                                         *)
(***************************************************************************)
LEMMA FinishWholeKeeps ==
  ASSUME IInv, FinishWhole
  PROVE  IInv'
<1>1. /\ verdict = "recording" /\ Conclude(Output, Length, written, frontier)
      /\ UNCHANGED <<mem, input, data, consumed, stored>>
  BY Zenon DEF FinishWhole, truth
<1>2. stored = written \cup Output .. frontier - 1
  BY <1>1, Zenon DEF IInv, WritesKept, Begun
<1>3. written \in SUBSET Byte /\ frontier \in Int
  BY Zenon DEF IInv, Types
<1> QED BY <1>1, <1>2, <1>3, ConcludeKeeps, ConstantsAssumption

(***************************************************************************)
(* A run of whole pages lies in the allocation.                            *)
(***************************************************************************)
LEMMA RunInside ==
  ASSUME NEW j \in Nat, NEW k \in Nat, IsRun(j, k)
  PROVE  /\ Output + j * PAGE \in Int /\ RegionLength(j, k) \in Int
         /\ Output <= Output + j * PAGE /\ 0 <= RegionLength(j, k)
         /\ Output + j * PAGE + RegionLength(j, k) <= Output + Length
<1>1. PAGE \in Nat /\ Output \in Nat /\ Length \in Nat
  BY ConstantsAssumption, Zenon
<1>2. j <= k /\ (k + 1) * PAGE <= Length
  BY DEF IsRun, Whole
<1>3. j * PAGE \in Nat /\ (k - j + 1) * PAGE \in Nat
  BY <1>1, <1>2, k - j + 1 \in Nat
<1>4. j * PAGE + (k - j + 1) * PAGE = (k + 1) * PAGE
  BY <1>1
<1> QED BY <1>1, <1>2, <1>3, <1>4 DEF RegionLength

(***************************************************************************)
(* finish() with a region: "Never lose their dependencies".                *)
(***************************************************************************)
LEMMA FinishRegionKeeps ==
  ASSUME NEW j \in Nat, NEW k \in Nat, IInv, FinishRegion(j, k)
  PROVE  IInv'
<1> DEFINE s == Output + j * PAGE
           end == s + RegionLength(j, k)
           outside == (Output .. frontier - 1) \ (s .. end - 1)
           f == Higher(s, Lower(frontier, end))
<1>1. /\ verdict = "recording" /\ IsRun(j, k)
      /\ Conclude(s, RegionLength(j, k), written \cup outside, f)
      /\ UNCHANGED <<mem, input, data, consumed, stored>>
  BY Zenon DEF FinishRegion, Best, truth
<1>2. /\ s \in Int /\ RegionLength(j, k) \in Int /\ Output <= s /\ end \in Int /\ s <= end
      /\ s + RegionLength(j, k) <= Output + Length
  BY <1>1, RunInside
<1>3. frontier \in Int /\ f \in Int /\ written \subseteq Byte /\ stored \subseteq Byte
  BY <1>2, Zenon DEF IInv, Types, Higher, Lower
<1>4. stored = written \cup Output .. frontier - 1
  BY <1>1, Zenon DEF IInv, WritesKept, Begun
<1>5. outside \cup s .. f - 1 = Output .. frontier - 1
  BY <1>2, <1>3, FrontierMoves, Zenon
<1>6. stored = (written \cup outside) \cup s .. f - 1
  BY <1>4, <1>5, Zenon
<1>7. written \cup outside \in SUBSET Byte
  BY <1>3, <1>4, Zenon
<1> HIDE DEF s, end, outside, f
<1> QED BY <1>1, <1>2, <1>3, <1>6, <1>7, ConcludeKeeps, Zenon

(***************************************************************************)
(* A rejected capture promises nothing but that bytes never stored are as  *)
(* they were.                                                              *)
(***************************************************************************)
LEMMA RejectedKeeps ==
  ASSUME IInv, verdict' = "rejected", Types', Untouched'
  PROVE  IInv'
  BY Zenon DEF IInv, Begun, Listed, Produced, Bounded, InputsExact, WritesKept

(***************************************************************************)
(* Every step of the composition keeps the invariant.                      *)
(***************************************************************************)
LEMMA StepKeeps ==
  ASSUME IInv, [ReplayNext]_all
  PROVE  IInv'
<1>1. CASE UNCHANGED vars
  BY <1>1, Zenon DEF IInv, vars, recorder, region, truth, Types, Begun, Untouched, Listed, Produced,
     Bounded, InputsExact, WritesKept
<1>2. ASSUME NEW a \in Byte, NEW n \in 1 .. MaxAccess, NEW kind \in {"read", "write"},
             a + n <= Memory, Instruction(kind, a, n)
      PROVE  IInv'
  <2>1. a \in Int /\ n \in Int /\ Span(a, n) \subseteq Byte
    BY <1>2, ConstantsAssumption DEF Byte, Span
  <2>2. Read(a, n) \/ Write(a, n)
    BY <1>2, Zenon DEF Instruction
  <2> QED BY <2>1, <2>2, ReadKeeps, WriteKeeps, Zenon
<1>3. ASSUME NEW w \in 1 .. MaxAccess, NEW k \in 1 .. MaxIterations, InlineLoop(w, k)
      PROVE  IInv'
  <2> DEFINE a == last_store_end
             m == k * w
  <2>1. a \in Output .. Output + Length /\ a + m <= Memory
    BY <1>3, Zenon DEF InlineLoop
  <2>2. Write(a, m) \/ LoopRejected(Span(a, m))
    BY <1>3, Zenon DEF InlineLoop
  <2>3. m \in Int /\ a \in Int
    BY <2>1, ConstantsAssumption, ReplayAssumption
  <2> HIDE DEF a, m
  <2>4. Span(a, m) \subseteq Byte
    BY <2>1, <2>3, ConstantsAssumption DEF Byte, Span
  <2>5. CASE Write(a, m)
    BY <2>3, <2>4, <2>5, WriteKeeps, Zenon
  <2>6. CASE LoopRejected(Span(a, m))
    <3>1. verdict' = "rejected" /\ Types'
      BY <2>4, <2>6, Zenon DEF LoopRejected, IInv, Types, recorder, region
    <3>2. Untouched'
      BY <2>6, Zenon DEF LoopRejected, IInv, Types, Untouched
    <3> QED BY <3>1, <3>2, RejectedKeeps, Zenon
  <2> QED BY <2>2, <2>5, <2>6, Zenon
<1>4. ASSUME NEW k \in 1 .. MaxIterations, InlineSpin(k)
      PROVE  IInv'
  BY <1>4, Zenon DEF InlineSpin, IInv, recorder, region, truth, Types, Begun, Untouched, Listed, Produced,
     Bounded, InputsExact, WritesKept
<1>5. CASE Finish
  <2>1. CASE FinishWhole
    BY <2>1, FinishWholeKeeps, Zenon
  <2>2. ASSUME NEW j \in 0 .. LastPage, NEW k \in 0 .. LastPage, FinishRegion(j, k)
        PROVE  IInv'
    BY <2>2, j \in Nat, k \in Nat, FinishRegionKeeps, Zenon
  <2> QED BY <1>5, <2>1, <2>2, Zenon DEF Finish
<1>6. CASE GiveUp
  BY <1>6, Zenon DEF GiveUp, Reject, IInv, recorder, region, truth, Types, Begun, Untouched, Listed,
     Produced, Bounded, InputsExact, WritesKept
<1>7. CASE (\E hooks \in BOOLEAN : Start(hooks)) \/ Execute \/ Stop \/ Over \/ UNCHANGED all
  BY <1>1, <1>7, Zenon DEF Start, Execute, Stop, Over, all
<1> QED BY <1>2, <1>3, <1>4, <1>5, <1>6, <1>7, Zenon DEF ReplayNext

(***************************************************************************)
(* The invariant in every state of the composition.                        *)
(***************************************************************************)
LEMMA RecorderInvariant == ReplaySpec => []IInv
<1>1. ReplayInit => IInv
  BY InitEstablishes, Zenon DEF ReplayInit
<1>2. IInv /\ [ReplayNext]_all => IInv'
  BY StepKeeps, Zenon
<1> QED BY <1>1, <1>2, PTL DEF ReplaySpec

(***************************************************************************)
(* The inputs of a capture are exactly the bytes consumed before they were *)
(* written, with their original values.                                    *)
(***************************************************************************)
THEOREM InputsAreExact == ReplaySpec => []InputsExact
<1>1. IInv => InputsExact
  BY Zenon DEF IInv
<1> QED BY <1>1, RecorderInvariant, PTL

(***************************************************************************)
(* The frontier and the marks are exactly the bytes written, also after    *)
(* finish() has chosen a region.                                           *)
(***************************************************************************)
THEOREM WritesAreKept == ReplaySpec => []WritesKept
<1>1. IInv => WritesKept
  BY Zenon DEF IInv
<1> QED BY <1>1, RecorderInvariant, PTL

(***************************************************************************)
(* The region of a recipe lies in the allocation and was written in full.  *)
(***************************************************************************)
THEOREM RegionIsProduced == ReplaySpec => []RegionProduced
<1>1. IInv => RegionProduced
  BY ConstantsAssumption DEF IInv, Types, RegionProduced, Produced, Bounded, WritesKept, Allocation, Span
<1> QED BY <1>1, RecorderInvariant, PTL

(***************************************************************************)
(* What a recipe lists and its region hold what was read and written.      *)
(***************************************************************************)
LEMMA FootprintHeld == IInv => FootprintMapped
<1> SUFFICES ASSUME IInv, verdict = "recipe"
             PROVE  Bases(consumed \cup stored) \subseteq pages \cup Bases(Span(start, length))
  BY Zenon DEF FootprintMapped
<1>1. Bases(input \cup written) \subseteq pages /\ consumed = input
  BY Zenon DEF IInv, Listed, InputsExact
<1>2. stored \subseteq written \cup Span(start, length)
  BY DEF IInv, Types, Produced, WritesKept, Span
<1> QED BY <1>1, <1>2, Zenon DEF Bases

(***************************************************************************)
(* The pages of a recipe hold everything the producer touched.             *)
(***************************************************************************)
THEOREM FootprintIsMapped == ReplaySpec => []FootprintMapped
  BY FootprintHeld, RecorderInvariant, PTL

-----------------------------------------------------------------------------
(***************************************************************************)
(* A replay that has nothing but the recipe reads what the producer read   *)
(* and leaves what it left, for every value of the constants.              *)
(***************************************************************************)

Accesses ==
  [kind : {"read", "write"}, span : SUBSET Byte, cost : Nat,
   saw : UNION {[S -> {"old", "new"}] : S \in SUBSET Byte}]

(* One of the first i accesses of h wrote the byte b. *)
Wrote(h, b, i) == \E j \in 1 .. i : h[j].kind = "write" /\ b \in h[j].span

(***************************************************************************)
(* The history explains memory: a byte is new when some access wrote it;   *)
(* a read saw that, and what no earlier access had written was consumed.   *)
(***************************************************************************)
Explained ==
  /\ history \in Seq(Accesses)
  /\ \A b \in Byte : b \in stored <=> Wrote(history, b, Len(history))
  /\ \A b \in stored : mem[b] = "new"
  /\ \A i \in 1 .. Len(history) : history[i].kind = "read" =>
       \A b \in history[i].span :
         IF Wrote(history, b, i - 1) THEN history[i].saw[b] = "new"
         ELSE history[i].saw[b] = "old" /\ b \in consumed

(***************************************************************************)
(* The replay's memory after `at' accesses: what they wrote, and else what *)
(* the recipe holds.                                                       *)
(***************************************************************************)
Follows ==
  phase = "running" =>
    /\ at \in 0 .. Len(history)
    /\ copy \in [Byte -> {"unset", "old", "new"}]
    /\ \A b \in Byte : copy[b] = IF Wrote(history, b, at) THEN "new" ELSE Loaded[b]
    /\ \A b \in Byte : b \in input \/ Wrote(history, b, at) => b \in ready
    /\ \A b \in Byte : b \in made <=> b \in Span(start, length) /\ Wrote(history, b, at)
    /\ made \subseteq Byte

(***************************************************************************)
(* The hooks and the checks at the end never find a byte missing that the  *)
(* producer had, an output byte not produced, or another digest.           *)
(***************************************************************************)
NothingMissing ==
  phase \notin {"replay read a missing input byte", "replay did not produce every output byte",
                "replay output digest mismatch"}

RInv ==
  /\ Explained /\ Follows /\ NothingMissing /\ Reproduces
  /\ phase # "capture" => verdict = "recipe"

-----------------------------------------------------------------------------
(***************************************************************************)
(* A longer history says the same of its old part.                         *)
(***************************************************************************)
LEMMA Prolonged ==
  ASSUME NEW h \in Seq(Accesses), NEW g \in Seq(Accesses)
  PROVE  /\ h \o g \in Seq(Accesses) /\ Len(h \o g) = Len(h) + Len(g)
         /\ \A b : \A i \in 0 .. Len(h) : Wrote(h \o g, b, i) <=> Wrote(h, b, i)
         /\ \A b : Wrote(h \o g, b, Len(h \o g)) <=> Wrote(h, b, Len(h)) \/ Wrote(g, b, Len(g))
<1>1. /\ h \o g \in Seq(Accesses) /\ Len(h \o g) = Len(h) + Len(g)
      /\ \A i \in 1 .. Len(h) : (h \o g)[i] = h[i]
      /\ \A i \in 1 .. Len(g) : (h \o g)[Len(h) + i] = g[i]
  OBVIOUS
<1>2. Len(h) \in Nat /\ Len(g) \in Nat
  OBVIOUS
<1> DEFINE c == h \o g
<1> HIDE DEF c
<1>3. \A b : \A i \in 0 .. Len(h) : Wrote(c, b, i) <=> Wrote(h, b, i)
  BY <1>1, <1>2 DEF Wrote, c
<1>4. ASSUME NEW b, Wrote(c, b, Len(c))
      PROVE  Wrote(h, b, Len(h)) \/ Wrote(g, b, Len(g))
  <2>1. PICK j \in 1 .. Len(c) : c[j].kind = "write" /\ b \in c[j].span
    BY <1>4, Zenon DEF Wrote
  <2>2. CASE j <= Len(h)
    BY <1>1, <1>2, <2>1, <2>2 DEF Wrote, c
  <2>3. CASE j > Len(h)
    <3>1. j - Len(h) \in 1 .. Len(g) /\ c[j] = g[j - Len(h)]
      <4>1. j - Len(h) \in 1 .. Len(g) /\ Len(h) + (j - Len(h)) = j
        BY <1>1, <1>2, <2>3 DEF c
      <4> QED BY <1>1, <4>1, Zenon DEF c
    <3> QED BY <2>1, <3>1, Zenon DEF Wrote
  <2> QED BY <1>1, <1>2, <2>2, <2>3 DEF c
<1>5. ASSUME NEW b, Wrote(h, b, Len(h)) PROVE Wrote(c, b, Len(c))
  BY <1>1, <1>2, <1>5 DEF Wrote, c
<1>6. ASSUME NEW b, Wrote(g, b, Len(g)) PROVE Wrote(c, b, Len(c))
  <2>1. PICK j \in 1 .. Len(g) : g[j].kind = "write" /\ b \in g[j].span
    BY <1>6, Zenon DEF Wrote
  <2>2. Len(h) + j \in 1 .. Len(c) /\ c[Len(h) + j] = g[j]
    BY <1>1, <1>2 DEF c
  <2> QED BY <2>1, <2>2, Zenon DEF Wrote
<1> QED BY <1>1, <1>3, <1>4, <1>5, <1>6, Zenon DEF c

(***************************************************************************)
(* Adding accesses g to the history explains the memory they leave.  All   *)
(* of g writes, or g is one read, or reads of nothing.                     *)
(***************************************************************************)
LEMMA ExplainedGrows ==
  ASSUME NEW g \in Seq(Accesses), IInv, Explained,
         history' = history \o g,
         \A b \in Byte : b \in stored' <=> b \in stored \/ Wrote(g, b, Len(g)),
         stored' \subseteq Byte, \A b \in stored' : mem'[b] = "new", consumed \subseteq consumed',
         \A i \in 1 .. Len(g) : g[i].kind = "read" => \A b \in g[i].span :
           /\ Len(g) = 1
           /\ IF b \in stored THEN g[i].saw[b] = "new" ELSE g[i].saw[b] = "old" /\ b \in consumed'
  PROVE  Explained'
<1>1. history \in Seq(Accesses)
  BY Zenon DEF Explained
<1>2. /\ history' \in Seq(Accesses) /\ Len(history') = Len(history) + Len(g)
      /\ \A b : \A i \in 0 .. Len(history) : Wrote(history', b, i) <=> Wrote(history, b, i)
      /\ \A b : Wrote(history', b, Len(history')) <=>
                  Wrote(history, b, Len(history)) \/ Wrote(g, b, Len(g))
  BY <1>1, Prolonged, Zenon
<1>3. /\ \A i \in 1 .. Len(history) : history'[i] = history[i]
      /\ \A i \in 1 .. Len(g) : history'[Len(history) + i] = g[i]
      /\ Len(history) \in Nat /\ Len(g) \in Nat
  BY <1>1
<1>4. \A b \in Byte : b \in stored' <=> Wrote(history', b, Len(history'))
  BY <1>2, Zenon DEF Explained
<1>5. ASSUME NEW i \in 1 .. Len(history'), history'[i].kind = "read", NEW b \in history'[i].span
      PROVE  IF Wrote(history', b, i - 1) THEN history'[i].saw[b] = "new"
             ELSE history'[i].saw[b] = "old" /\ b \in consumed'
  <2>1. CASE i <= Len(history)
    <3>1. i \in 1 .. Len(history) /\ i - 1 \in 0 .. Len(history) /\ history'[i] = history[i]
      BY <1>2, <1>3, <2>1
    <3>2. Wrote(history', b, i - 1) <=> Wrote(history, b, i - 1)
      BY <1>2, <3>1, Zenon
    <3> QED BY <1>5, <3>1, <3>2 DEF Explained
  <2>2. CASE i > Len(history)
    <3>1. i - Len(history) \in 1 .. Len(g) /\ Len(history) + (i - Len(history)) = i
      BY <1>2, <1>3, <2>2
    <3>2. history'[i] = g[i - Len(history)]
      BY <1>3, <3>1, Zenon
    <3>3. Len(g) = 1 /\ b \in Byte
      <4>1. g[i - Len(history)] \in Accesses
        BY <3>1
      <4> QED BY <1>5, <3>1, <3>2, <4>1, Zenon DEF Accesses
    <3>4. i - 1 = Len(history)
      BY <1>3, <3>1, <3>3
    <3>5. Wrote(history', b, i - 1) <=> b \in stored
      BY <1>2, <1>3, <3>3, <3>4 DEF Explained
    <3> QED BY <1>5, <3>1, <3>2, <3>5
  <2> QED BY <1>2, <1>3, <2>1, <2>2
<1> QED BY <1>2, <1>4, <1>5, Zenon DEF Explained

(***************************************************************************)
(* While the producer is recorded no replay has begun.                     *)
(***************************************************************************)
LEMMA CaptureKeeps ==
  ASSUME RInv, verdict = "recording", UNCHANGED replay, Explained'
  PROVE  RInv'
<1>1. phase = "capture" /\ phase' = "capture" /\ same' = same
  BY Zenon DEF RInv, replay
<1> QED BY <1>1, Zenon DEF RInv, Follows, NothingMissing, Reproduces

(***************************************************************************)
(* What the history records of an access within memory is well-typed.      *)
(***************************************************************************)
LEMMA AccessTyped ==
  ASSUME IInv, NEW kind \in {"read", "write"}, NEW a, NEW n, NEW cost \in Nat,
         Span(a, n) \subseteq Byte
  PROVE  Access(kind, a, n, cost) \in Accesses
<1>1. [b \in Span(a, n) |-> mem[b]] \in [Span(a, n) -> {"old", "new"}]
  BY Zenon DEF IInv, Types
<1> QED BY <1>1, Zenon DEF Access, Accesses

(***************************************************************************)
(* Appending an element is appending a sequence of one.                    *)
(***************************************************************************)
LEMMA AppendOne ==
  ASSUME NEW S, NEW s \in Seq(S), NEW e \in S
  PROVE  Append(s, e) = s \o <<e>>
  OBVIOUS

(***************************************************************************)
(* One instruction.                                                        *)
(***************************************************************************)
LEMMA InstructionKeeps ==
  ASSUME IInv, IInv', RInv, NEW a \in Byte, NEW n \in 1 .. MaxAccess, NEW kind \in {"read", "write"},
         a + n <= Memory, Instruction(kind, a, n)
  PROVE  RInv'
<1> DEFINE e == Access(kind, a, n, 1)
           g == <<e>>
           S == Span(a, n)
<1>1. S \subseteq Byte
  BY ConstantsAssumption DEF Byte, Span
<1>2. e \in Accesses /\ e.kind = kind /\ e.span = S /\ \A b \in S : e.saw[b] = mem[b]
  <2>1. e \in Accesses
    BY <1>1, AccessTyped, Zenon
  <2> QED BY <2>1, Zenon DEF Access
<1>3. verdict = "recording" /\ UNCHANGED replay /\ history' = Append(history, e)
  BY Zenon DEF Instruction, Read, Write
<1> HIDE DEF e, S
<1>4. g \in Seq(Accesses) /\ Len(g) = 1 /\ g[1] = e
  BY <1>2
<1>5. history' = history \o g
  BY <1>2, <1>3, AppendOne DEF RInv, Explained
<1>6. \A b : Wrote(g, b, Len(g)) <=> kind = "write" /\ b \in S
  BY <1>2, <1>4 DEF Wrote
<1>7. CASE kind = "read"
  <2>1. stored' = stored /\ mem' = mem /\ consumed' = consumed \cup (S \ stored)
    BY <1>7, Zenon DEF Instruction, Read, S
  <2>2. \A b \in S : IF b \in stored THEN e.saw[b] = "new"
                     ELSE e.saw[b] = "old" /\ b \in consumed'
    BY <1>1, <1>2, <2>1, Zenon DEF RInv, Explained, IInv, Untouched
  <2>3. Explained'
    <3>1. \A b \in Byte : b \in stored' <=> b \in stored \/ Wrote(g, b, Len(g))
      BY <1>6, <1>7, <2>1, Zenon
    <3>2. stored' \subseteq Byte /\ consumed \subseteq consumed' /\ \A b \in stored' : mem'[b] = "new"
      BY <2>1, Zenon DEF RInv, Explained, IInv, Types
    <3>3. \A i \in 1 .. Len(g) : g[i].kind = "read" => \A b \in g[i].span :
           /\ Len(g) = 1
           /\ IF b \in stored THEN g[i].saw[b] = "new" ELSE g[i].saw[b] = "old" /\ b \in consumed'
      BY <1>2, <1>4, <2>2
    <3> HIDE DEF g
    <3> QED BY <1>4, <1>5, <3>1, <3>2, <3>3, ExplainedGrows, Zenon DEF RInv
  <2> QED BY <1>3, <2>3, CaptureKeeps, Zenon
<1>8. CASE kind = "write"
  <2>1. /\ stored' = stored \cup S /\ consumed' = consumed
        /\ mem' = [b \in Byte |-> IF b \in S THEN "new" ELSE mem[b]]
    BY <1>8, Zenon DEF Instruction, Write, S
  <2>2. Explained'
    <3>1. \A b \in Byte : b \in stored' <=> b \in stored \/ Wrote(g, b, Len(g))
      BY <1>6, <1>8, <2>1, Zenon
    <3>2. stored' \subseteq Byte /\ consumed \subseteq consumed' /\ \A b \in stored' : mem'[b] = "new"
      BY <1>1, <2>1, Zenon DEF RInv, Explained, IInv, Types
    <3>3. \A i \in 1 .. Len(g) : g[i].kind # "read"
      BY <1>2, <1>4, <1>8
    <3> HIDE DEF g
    <3> QED BY <1>4, <1>5, <3>1, <3>2, <3>3, ExplainedGrows, Zenon DEF RInv
  <2> QED BY <1>3, <2>2, CaptureKeeps, Zenon
<1> QED BY <1>7, <1>8, Zenon

(***************************************************************************)
(* The stores of a loop are the bytes it covers.                           *)
(***************************************************************************)
LEMMA LoopCovers ==
  ASSUME NEW a \in Int, NEW k \in Nat, NEW w \in Nat \ {0}, NEW b
  PROVE  b \in Span(a, k * w) <=> \E i \in 1 .. k : b \in Span(a + (i - 1) * w, w)
<1>1. k * w \in Nat
  OBVIOUS
<1>2. ASSUME b \in Span(a, k * w)
      PROVE  \E i \in 1 .. k : b \in Span(a + (i - 1) * w, w)
  <2>1. b \in Int /\ a <= b /\ b - a < k * w
    BY <1>1, <1>2 DEF Span
  <2> DEFINE d == b - a
             q == d \div w
  <2>2. d \in Nat /\ q \in Int /\ q * w <= d /\ d < q * w + w /\ q >= 0
    BY <2>1
  <2> HIDE DEF d, q
  <2>3. q < k
    <3>1. SUFFICES ASSUME q >= k PROVE FALSE
      BY <2>2
    <3>2. k * w <= q * w
      BY <2>2, <3>1
    <3> QED BY <1>1, <2>1, <2>2, <3>2 DEF d
  <2>4. q + 1 \in 1 .. k /\ (q + 1) - 1 = q
    BY <2>2, <2>3
  <2>5. b \in Span(a + q * w, w)
    BY <2>1, <2>2, q * w \in Int DEF Span, d
  <2> QED BY <2>4, <2>5, Zenon
<1>3. ASSUME NEW i \in 1 .. k, b \in Span(a + (i - 1) * w, w)
      PROVE  b \in Span(a, k * w)
  <2> DEFINE m == (i - 1) * w
  <2>1. m \in Nat
    BY i - 1 \in Nat
  <2>2. m + w <= k * w
    <3>1. m + w = i * w
      OBVIOUS
    <3>2. i * w <= k * w
      OBVIOUS
    <3> QED BY <3>1, <3>2, Zenon
  <2> HIDE DEF m
  <2>3. b \in Span(a + m, w)
    BY <1>3, Zenon DEF m
  <2> QED BY <1>1, <2>1, <2>2, <2>3 DEF Span
<1> QED BY <1>2, <1>3, Zenon

(***************************************************************************)
(* A loop that stores, whether its capture goes on or is given up.         *)
(***************************************************************************)
LEMMA InlineLoopKeeps ==
  ASSUME IInv, RInv, NEW w \in 1 .. MaxAccess, NEW k \in 1 .. MaxIterations, InlineLoop(w, k)
  PROVE  RInv'
<1> DEFINE a == last_store_end
           S == Span(a, k * w)
           e(i) == Access("write", a + (i - 1) * w, w, Body)
           g == [i \in 1 .. k |-> e(i)]
<1>1. a \in Output .. Output + Length /\ a + k * w <= Memory /\ history' = history \o g
  BY Zenon DEF InlineLoop
<1>2. Write(a, k * w) \/ LoopRejected(S)
  BY Zenon DEF InlineLoop
<1>3. UNCHANGED replay
  BY Zenon DEF InlineLoop
<1>4. a \in Int /\ 0 <= a /\ w \in Nat \ {0} /\ k \in Nat /\ k * w \in Nat
  BY <1>1, ConstantsAssumption, ReplayAssumption
<1>5. /\ verdict = "recording" /\ stored' = stored \cup S /\ consumed' = consumed
      /\ mem' = [b \in Byte |-> IF b \in S THEN "new" ELSE mem[b]]
  BY <1>2, Zenon DEF Write, LoopRejected
<1> HIDE DEF a
<1>6. S \subseteq Byte
  BY <1>1, <1>4, ConstantsAssumption DEF Span, Byte
<1>7. \A b : b \in S <=> \E i \in 1 .. k : b \in Span(a + (i - 1) * w, w)
  BY <1>4, LoopCovers, Zenon
<1>8. \A i \in 1 .. k : e(i) \in Accesses /\ e(i).kind = "write" /\ e(i).span = Span(a + (i - 1) * w, w)
  <2> SUFFICES ASSUME NEW i \in 1 .. k
               PROVE  e(i) \in Accesses /\ e(i).kind = "write" /\ e(i).span = Span(a + (i - 1) * w, w)
    BY Zenon
  <2>1. Span(a + (i - 1) * w, w) \subseteq Byte
    BY <1>6, <1>7, Zenon
  <2>2. e(i) \in Accesses
    BY <2>1, AccessTyped, ReplayAssumption, Zenon
  <2> QED BY <2>2, Zenon DEF Access
<1> HIDE DEF S, e
<1>9. g \in Seq(Accesses) /\ Len(g) = k /\ \A i \in 1 .. k : g[i] = e(i)
  BY <1>4, <1>8
<1> HIDE DEF g
<1>10. \A b : Wrote(g, b, Len(g)) <=> b \in S
  <2> SUFFICES ASSUME NEW b PROVE Wrote(g, b, Len(g)) <=> b \in S
    BY Zenon
  <2>1. Wrote(g, b, Len(g)) <=> \E i \in 1 .. k : e(i).kind = "write" /\ b \in e(i).span
    BY <1>9, Zenon DEF Wrote
  <2>2. (\E i \in 1 .. k : e(i).kind = "write" /\ b \in e(i).span)
          <=> \E i \in 1 .. k : b \in Span(a + (i - 1) * w, w)
    BY <1>8, Zenon
  <2> QED BY <1>7, <2>1, <2>2, Zenon
<1>11. \A b \in Byte : b \in stored' <=> b \in stored \/ Wrote(g, b, Len(g))
  BY <1>5, <1>10, Zenon
<1>12. stored' \subseteq Byte /\ consumed \subseteq consumed' /\ \A b \in stored' : mem'[b] = "new"
  BY <1>5, <1>6, Zenon DEF RInv, Explained, IInv, Types
<1>13. \A i \in 1 .. Len(g) : g[i].kind # "read"
  BY <1>8, <1>9, Zenon
<1>14. Explained'
  BY <1>1, <1>9, <1>11, <1>12, <1>13, ExplainedGrows, Zenon DEF RInv
<1> QED BY <1>3, <1>5, <1>14, CaptureKeeps, Zenon

(***************************************************************************)
(* A loop that does not store.                                             *)
(***************************************************************************)
LEMMA InlineSpinKeeps ==
  ASSUME IInv, RInv, NEW k \in 1 .. MaxIterations, InlineSpin(k)
  PROVE  RInv'
<1> DEFINE e == Access("read", 0, 0, Body)
           g == [i \in 1 .. k |-> e]
<1>1. /\ verdict = "recording" /\ UNCHANGED <<mem, stored, consumed>> /\ UNCHANGED replay
      /\ history' = history \o g
  BY Zenon DEF InlineSpin, truth
<1>2. e \in Accesses /\ e.kind = "read" /\ e.span = {}
  <2>1. Span(0, 0) = {}
    BY DEF Span
  <2>2. e \in Accesses
    BY <2>1, AccessTyped, ReplayAssumption, Zenon
  <2> QED BY <2>1, <2>2, Zenon DEF Access
<1> HIDE DEF e
<1>3. k \in Nat
  BY ReplayAssumption
<1>4. g \in Seq(Accesses) /\ Len(g) = k /\ \A i \in 1 .. k : g[i] = e
  BY <1>2, <1>3
<1> HIDE DEF g
<1>5. \A b : ~Wrote(g, b, Len(g))
  BY <1>2, <1>4, Zenon DEF Wrote
<1>6. \A i \in 1 .. Len(g) : g[i].span = {}
  BY <1>2, <1>4, Zenon
<1>7. stored' \subseteq Byte /\ consumed \subseteq consumed' /\ \A b \in stored' : mem'[b] = "new"
  BY <1>1, Zenon DEF RInv, Explained, IInv, Types
<1>8. Explained'
  BY <1>1, <1>4, <1>5, <1>6, <1>7, ExplainedGrows, Zenon DEF RInv
<1> QED BY <1>1, <1>8, CaptureKeeps, Zenon

(***************************************************************************)
(* The end of a capture leaves the history and what it explains.           *)
(***************************************************************************)
LEMMA EndKeeps ==
  ASSUME RInv, Finish \/ GiveUp
  PROVE  RInv'
<1>1. verdict = "recording" /\ UNCHANGED <<mem, stored, consumed, history>> /\ UNCHANGED replay
  BY Zenon DEF Finish, GiveUp, FinishWhole, FinishRegion, Reject, truth, captured
<1>2. Explained'
  BY <1>1, Zenon DEF RInv, Explained
<1> QED BY <1>1, <1>2, CaptureKeeps, Zenon

-----------------------------------------------------------------------------
(***************************************************************************)
(* A replay starts from the recipe.                                        *)
(***************************************************************************)
LEMMA StartKeeps ==
  ASSUME IInv, RInv, NEW hooks, Start(hooks)
  PROVE  RInv'
<1>1. /\ verdict = "recipe" /\ verdict' = "recipe" /\ same' = TRUE
      /\ UNCHANGED <<mem, stored, consumed, input, data, start, length, history, code>>
  BY Zenon DEF Start, vars, recorder, region, truth, captured
<1>2. /\ phase' = IF Refusal # "" THEN Refusal ELSE "running"
      /\ at' = 0 /\ made' = {} /\ ready' = input \cup CodeBytes /\ copy' = Loaded
  BY Zenon DEF Start
<1>3. Refusal \in {"", "recipe exceeds 64 MiB limit", "recipe is not smaller than output",
                   "invalid recipe header", "recipe length mismatch",
                   "overlapping recipe instructions", "overlapping recipe inputs",
                   "input conflicts with recipe code", "replay scratch exceeds the group budget",
                   "input outside mapped pages", "output overlaps code"}
  <2>1. /\ Unencodable \in {"", "recipe exceeds 64 MiB limit"}
        /\ Unsubmittable \in {"", "recipe is not smaller than output"}
    BY Zenon DEF Unencodable, Unsubmittable
  <2>2. Undecodable \in {"", "invalid recipe header", "recipe length mismatch",
                         "overlapping recipe instructions", "overlapping recipe inputs",
                         "input conflicts with recipe code"}
    BY Zenon DEF Undecodable
  <2>3. Unmappable \in {"", "replay scratch exceeds the group budget",
                        "input outside mapped pages", "output overlaps code"}
    BY Zenon DEF Unmappable
  <2> QED BY <2>1, <2>2, <2>3, Zenon DEF Refusal
<1>4. phase' \notin {"capture", "done"} /\ NothingMissing'
  BY <1>2, <1>3, Zenon DEF NothingMissing
<1>5. Explained'
  BY <1>1, Zenon DEF RInv, Explained
<1>6. Follows'
  <2>1. Loaded \in [Byte -> {"unset", "old", "new"}] /\ Loaded' = Loaded
    BY <1>1, Zenon DEF IInv, Types, Loaded, CodeBytes
  <2>2. \A b : ~Wrote(history', b, 0)
    BY DEF Wrote
  <2>3. Len(history') \in Nat
    BY <1>5 DEF Explained
  <2>4. at' \in 0 .. Len(history')
    <3>1. at' = 0
      BY <1>2, Zenon
    <3> QED BY <2>3, <3>1
  <2>5. \A b \in Byte : copy'[b] = IF Wrote(history', b, at') THEN "new" ELSE Loaded'[b]
    BY <1>2, <2>1, <2>2, Zenon
  <2>6. \A b \in Byte : b \in input' \/ Wrote(history', b, at') => b \in ready'
    BY <1>1, <1>2, <2>2, Zenon
  <2>7. /\ \A b \in Byte : b \in made' <=> b \in Span(start, length)' /\ Wrote(history', b, at')
        /\ made' \subseteq Byte /\ copy' \in [Byte -> {"unset", "old", "new"}]
    BY <1>2, <2>1, <2>2, Zenon
  <2> QED BY <2>4, <2>5, <2>6, <2>7, Zenon DEF Follows
<1>7. Reproduces'
  BY <1>1, <1>4, Zenon DEF Reproduces
<1> QED BY <1>1, <1>4, <1>5, <1>6, <1>7, Zenon DEF RInv

(***************************************************************************)
(* One access of the replay: a byte it reads was written by an access      *)
(* before it or is an input of the recipe, and so is there and the same.   *)
(***************************************************************************)
LEMMA ExecuteKeeps ==
  ASSUME IInv, RInv, Execute
  PROVE  RInv'
<1> DEFINE h == history[at + 1]
<1>1. /\ phase = "running" /\ at < Len(history)
      /\ UNCHANGED <<mem, verdict, stored, consumed, input, data, start, length, history, code>>
  BY Zenon DEF Execute, vars, recorder, region, truth, captured
<1>2. \/ Denied(h) # "" /\ phase' = Denied(h) /\ same' = same
      \/ Denied(h) = "" /\ at' = at + 1 /\ Replayed(h) /\ phase' = phase
  BY Zenon DEF Execute
<1>3. /\ verdict = "recipe" /\ history \in Seq(Accesses) /\ at \in 0 .. Len(history)
      /\ input = consumed /\ \A b \in input : data[b] = "old"
  BY <1>1, Zenon DEF RInv, Explained, Follows, IInv, InputsExact
<1>4. /\ at + 1 \in 1 .. Len(history) /\ (at + 1) - 1 = at /\ at \in Nat /\ Len(history) \in Nat
      /\ h \in Accesses /\ h.span \subseteq Byte
  <2>1. Len(history) \in Nat /\ at \in Nat /\ at + 1 \in 1 .. Len(history) /\ (at + 1) - 1 = at
    BY <1>1, <1>3
  <2>2. h \in Accesses
    BY <1>3, <2>1
  <2> QED BY <2>1, <2>2, Zenon DEF Accesses
<1>5. \A b : Wrote(history, b, at + 1) <=>
               Wrote(history, b, at) \/ (h.kind = "write" /\ b \in h.span)
  BY <1>4 DEF Wrote
<1>6. h.kind = "read" => \A b \in h.span : IF Wrote(history, b, at) THEN h.saw[b] = "new"
                                           ELSE h.saw[b] = "old" /\ b \in consumed
  BY <1>4, Zenon DEF RInv, Explained
<1>7. /\ copy \in [Byte -> {"unset", "old", "new"}]
      /\ \A b \in Byte : copy[b] = IF Wrote(history, b, at) THEN "new" ELSE Loaded[b]
      /\ \A b \in Byte : b \in input \/ Wrote(history, b, at) => b \in ready
      /\ \A b \in Byte : b \in made <=> b \in Span(start, length) /\ Wrote(history, b, at)
      /\ made \subseteq Byte
  BY <1>1, Zenon DEF RInv, Follows
<1>8. Explained' /\ (phase' # "capture" => verdict' = "recipe")
  BY <1>1, <1>3, Zenon DEF RInv, Explained
<1> HIDE DEF h
<1>9. h.kind = "read" => h.span \subseteq ready /\ \A b \in h.span : copy[b] = h.saw[b]
  <2> SUFFICES ASSUME h.kind = "read", NEW b \in h.span
               PROVE  b \in ready /\ copy[b] = h.saw[b]
    BY Zenon
  <2>1. b \in Byte
    BY <1>4, Zenon
  <2>2. CASE Wrote(history, b, at)
    BY <1>6, <1>7, <2>1, <2>2, Zenon
  <2>3. CASE ~Wrote(history, b, at)
    <3>1. b \in input /\ h.saw[b] = "old" /\ data[b] = "old"
      BY <1>3, <1>6, <2>3, Zenon
    <3>2. Loaded[b] = "old"
      BY <2>1, <3>1, Zenon DEF Loaded
    <3> QED BY <1>7, <2>1, <2>3, <3>1, <3>2, Zenon
  <2> QED BY <2>2, <2>3, Zenon
<1>10. CASE Denied(h) # "" /\ phase' = Denied(h) /\ same' = same
  <2>1. Denied(h) \in {"", "replay instruction bound exceeded", "replay touched an unobserved page",
                       "write to a protected page"}
    BY <1>9, Zenon DEF Denied
  <2>2. Follows' /\ NothingMissing'
    BY <1>10, <2>1, Zenon DEF Follows, NothingMissing
  <2>3. Reproduces'
    BY <1>10, <2>1, Zenon DEF RInv, Reproduces
  <2> QED BY <1>8, <2>2, <2>3, Zenon DEF RInv
<1>11. CASE at' = at + 1 /\ Replayed(h) /\ phase' = phase
  <2>1. NothingMissing' /\ Reproduces'
    <3>1. same' = TRUE
      <4>1. CASE h.kind = "read"
        BY <1>9, <1>11, <4>1, Zenon DEF Replayed, RInv, Reproduces
      <4>2. CASE h.kind # "read"
        BY <1>11, <4>2, Zenon DEF Replayed, RInv, Reproduces
      <4> QED BY <4>1, <4>2, Zenon
    <3> QED BY <1>1, <1>11, <3>1, Zenon DEF NothingMissing, Reproduces
  <2>2. Loaded' = Loaded /\ at' \in 0 .. Len(history') /\ Span(start, length)' = Span(start, length)
    BY <1>1, <1>4, <1>11 DEF Loaded, CodeBytes
  <2>3. CASE h.kind = "read"
    <3>1. UNCHANGED <<ready, made, copy>> /\ \A b : Wrote(history', b, at') <=> Wrote(history, b, at)
      BY <1>1, <1>5, <1>11, <2>3, Zenon DEF Replayed
    <3>2. Follows'
      BY <1>1, <1>7, <2>2, <3>1, Zenon DEF Follows
    <3> QED BY <1>8, <2>1, <3>2, Zenon DEF RInv
  <2>4. CASE h.kind = "write"
    <3>1. /\ copy' = [b \in Byte |-> IF b \in h.span THEN "new" ELSE copy[b]]
          /\ ready' = ready \cup h.span
          /\ made' = made \cup (h.span \cap Span(start, length))
      BY <1>11, <2>4, Zenon DEF Replayed
    <3>2. \A b : Wrote(history', b, at') <=> Wrote(history, b, at) \/ b \in h.span
      BY <1>1, <1>5, <1>11, <2>4, Zenon
    <3>3. copy' \in [Byte -> {"unset", "old", "new"}] /\ made' \subseteq Byte
      BY <1>4, <1>7, <3>1, Zenon
    <3>4. \A b \in Byte : copy'[b] = IF Wrote(history', b, at') THEN "new" ELSE Loaded'[b]
      BY <1>7, <2>2, <3>1, <3>2, Zenon
    <3>5. \A b \in Byte : b \in input' \/ Wrote(history', b, at') => b \in ready'
      BY <1>1, <1>7, <3>1, <3>2, Zenon
    <3>6. \A b \in Byte : b \in made' <=> b \in Span(start, length)' /\ Wrote(history', b, at')
      BY <1>7, <2>2, <3>1, <3>2, Zenon
    <3>7. Follows'
      BY <2>2, <3>3, <3>4, <3>5, <3>6, Zenon DEF Follows
    <3> QED BY <1>8, <2>1, <3>7, Zenon DEF RInv
  <2> QED BY <1>4, <2>3, <2>4, Zenon DEF Accesses
<1> QED BY <1>2, <1>10, <1>11, Zenon

(***************************************************************************)
(* The checks at the end find the region produced, with the producer's     *)
(* bytes, unless the replay was stopped before.                            *)
(***************************************************************************)
LEMMA StopKeeps ==
  ASSUME IInv, RInv, Stop
  PROVE  RInv'
<1>1. PICK other \in BOOLEAN : (other => ~same) /\ phase' = Conclusion(other)
  BY Zenon DEF Stop
<1>2. /\ phase = "running"
      /\ UNCHANGED <<mem, verdict, stored, consumed, input, data, start, length, history, copy, same>>
  BY Zenon DEF Stop, vars, recorder, region, truth, captured
<1>3. verdict = "recipe" /\ history \in Seq(Accesses) /\ at \in 0 .. Len(history)
  BY <1>2, Zenon DEF RInv, Explained, Follows
<1>4. Conclusion(other) # "running" /\ Conclusion(other) # "capture"
  BY Zenon DEF Conclusion
<1>5. Explained' /\ Follows' /\ verdict' = "recipe"
  BY <1>1, <1>2, <1>3, <1>4, Zenon DEF RInv, Explained, Follows
<1>6. CASE at < Len(history)
  <2>1. phase' = "replay control flow or return value diverged"
    BY <1>1, <1>6, Zenon DEF Conclusion
  <2> QED BY <1>2, <1>5, <2>1, Zenon DEF RInv, NothingMissing, Reproduces
<1>7. CASE at = Len(history)
  <2>1. Span(start, length) \subseteq stored /\ stored \subseteq Byte
    BY <1>3, ConstantsAssumption DEF IInv, Types, Produced, WritesKept, Span
  <2>2. \A b \in Span(start, length) : Wrote(history, b, at) /\ mem[b] = "new"
    BY <1>7, <2>1, Zenon DEF RInv, Explained
  <2>3. \A b \in Span(start, length) : copy[b] = mem[b]
    BY <1>2, <2>1, <2>2, Zenon DEF RInv, Follows
  <2>4. made = Span(start, length)
    BY <1>2, <2>1, <2>2, Zenon DEF RInv, Follows
  <2>5. Conclusion(other) \in {"replay control flow or return value diverged", "done"}
    BY <2>3, <2>4, Zenon DEF Conclusion
  <2>6. NothingMissing'
    BY <1>1, <2>5, Zenon DEF NothingMissing
  <2>7. Reproduces'
    BY <1>2, <2>3, Zenon DEF RInv, Reproduces, Span
  <2> QED BY <1>5, <2>6, <2>7, Zenon DEF RInv
<1>8. at < Len(history) \/ at = Len(history)
  BY <1>3
<1> QED BY <1>6, <1>7, <1>8, Zenon

-----------------------------------------------------------------------------
(***************************************************************************)
(* The replay's invariant in every state.                                  *)
(***************************************************************************)
LEMMA ReplayInvariant == ReplaySpec => [](IInv /\ RInv)
<1>1. ReplayInit => IInv /\ RInv
  <2> SUFFICES ASSUME ReplayInit PROVE IInv /\ RInv
    BY Zenon
  <2>1. IInv
    BY InitEstablishes, Zenon DEF ReplayInit
  <2>2. history = <<>> /\ stored = {} /\ phase = "capture" /\ same = TRUE
    BY Zenon DEF ReplayInit, Init
  <2>3. Explained
    BY <2>2 DEF Explained, Wrote
  <2> QED BY <2>1, <2>2, <2>3, Zenon DEF RInv, Follows, NothingMissing, Reproduces
<1>2. IInv /\ RInv /\ [ReplayNext]_all => (IInv /\ RInv)'
  <2> SUFFICES ASSUME IInv, RInv, [ReplayNext]_all PROVE IInv' /\ RInv'
    BY Zenon
  <2>1. IInv'
    BY StepKeeps, Zenon
  <2>2. CASE UNCHANGED all
    <3>1. /\ UNCHANGED <<mem, verdict, stored, consumed, input, data, start, length, history, code>>
          /\ UNCHANGED <<phase, at, ready, made, copy, same>>
      BY <2>2, Zenon DEF all, vars, recorder, region, truth, captured, replay
    <3>2. Loaded' = Loaded /\ Span(start, length)' = Span(start, length)
      BY <3>1, Zenon DEF Loaded, CodeBytes
    <3>3. Explained'
      BY <3>1, Zenon DEF RInv, Explained
    <3>4. Follows'
      BY <3>1, <3>2, Zenon DEF RInv, Follows
    <3>5. NothingMissing' /\ Reproduces'
      BY <3>1, <3>2, Zenon DEF RInv, NothingMissing, Reproduces
    <3> QED BY <2>1, <3>1, <3>3, <3>4, <3>5, Zenon DEF RInv
  <2>3. CASE Finish \/ GiveUp
    BY <2>1, <2>3, EndKeeps, Zenon
  <2> QED BY <2>1, <2>2, <2>3, InstructionKeeps, InlineLoopKeeps, InlineSpinKeeps, StartKeeps,
             ExecuteKeeps, StopKeeps, Zenon DEF ReplayNext, Over
<1> QED BY <1>1, <1>2, PTL DEF ReplaySpec

(***************************************************************************)
(* A replay, with its hooks or without, reads what the producer read and   *)
(* leaves in the region what it left.                                      *)
(***************************************************************************)
THEOREM ReplayReproduces == ReplaySpec => []Reproduces
<1>1. IInv /\ RInv => Reproduces
  BY Zenon DEF RInv
<1> QED BY <1>1, ReplayInvariant, PTL

(***************************************************************************)
(* No recipe that finish() lets through is refused for an input byte that  *)
(* is missing, an output byte that is not produced or another digest.      *)
(***************************************************************************)
THEOREM NothingIsMissing == ReplaySpec => []NothingMissing
<1>1. IInv /\ RInv => NothingMissing
  BY Zenon DEF RInv
<1> QED BY <1>1, ReplayInvariant, PTL

-----------------------------------------------------------------------------
(***************************************************************************)
(* An address is so many pages and a remainder.                            *)
(***************************************************************************)
LEMMA Division ==
  ASSUME NEW x \in Int
  PROVE  /\ x \div PAGE \in Int /\ x % PAGE \in Int
         /\ x = (x \div PAGE) * PAGE + (x % PAGE) /\ 0 <= x % PAGE /\ x % PAGE < PAGE
  BY ConstantsAssumption

(***************************************************************************)
(* A multiple of a page is at the start of one.                            *)
(***************************************************************************)
LEMMA Multiple ==
  ASSUME NEW q \in Int
  PROVE  q * PAGE \in Int /\ (q * PAGE) % PAGE = 0
<1> DEFINE x == q * PAGE
           d == x \div PAGE
           r == x % PAGE
<1>1. PAGE \in Nat /\ PAGE > 0
  BY ConstantsAssumption
<1>2. x \in Int
  BY <1>1
<1>3. d \in Int /\ r \in Int /\ x = d * PAGE + r /\ 0 <= r /\ r < PAGE
  BY <1>2, Division, Zenon
<1>4. (q - d) * PAGE = r
  <2>1. (q - d) * PAGE = q * PAGE - d * PAGE
    BY <1>1, <1>3
  <2> QED BY <1>1, <1>3, <2>1
<1> HIDE DEF d, r
<1>5. q - d = 0
  <2>1. CASE q - d >= 1
    <3>1. (q - d) * PAGE >= PAGE
      BY <1>1, <1>3, <2>1
    <3> QED BY <1>1, <1>3, <1>4, <3>1
  <2>2. CASE q - d <= -1
    <3>1. (q - d) * PAGE <= -PAGE
      BY <1>1, <1>3, <2>2
    <3> QED BY <1>1, <1>3, <1>4, <3>1
  <2> QED BY <1>3, <2>1, <2>2
<1>6. r = 0
  BY <1>1, <1>3, <1>4, <1>5
<1> QED BY <1>2, <1>6, Zenon DEF r

(***************************************************************************)
(* The page of a byte starts at or before it, and the byte is in it.       *)
(***************************************************************************)
LEMMA BaseOf ==
  ASSUME NEW a \in Nat
  PROVE  /\ Base(a) \in Nat /\ Base(a) % PAGE = 0
         /\ Base(a) <= a /\ a < Base(a) + PAGE
         /\ \E q \in Nat : Base(a) = q * PAGE
<1>1. PAGE \in Nat /\ PAGE > 0
  BY ConstantsAssumption
<1> DEFINE q == a \div PAGE
           x == q * PAGE
<1>2. q \in Nat /\ x <= a /\ a < x + PAGE /\ a = x + (a % PAGE) /\ a % PAGE \in Int
  <2>1. q \in Int /\ a % PAGE \in Int /\ a = x + (a % PAGE)
    BY Division
  <2>2. q \in Int /\ x <= a /\ a < x + PAGE /\ q >= 0
    BY <1>1
  <2> QED BY <2>1, <2>2
<1>3. x \in Nat
  <2> HIDE DEF q
  <2> QED BY <1>1, <1>2
<1> HIDE DEF q, x
<1>4. Base(a) = x
  <2> DEFINE r == a % PAGE
  <2>1. r \in Int /\ a = x + r /\ Base(a) = a - r
    BY <1>2, Zenon DEF Base
  <2> HIDE DEF r
  <2> QED BY <1>3, <2>1
<1>5. Base(a) % PAGE = 0
  BY <1>2, <1>4, Multiple DEF x
<1>6. \E p \in Nat : Base(a) = p * PAGE
  BY <1>2, <1>4, Zenon DEF x
<1> QED BY <1>1, <1>2, <1>3, <1>4, <1>5, <1>6, Zenon

(***************************************************************************)
(* A page that starts at or before a byte starts at or before its page.    *)
(***************************************************************************)
LEMMA PageBelow ==
  ASSUME NEW s \in Nat, NEW b \in Nat, s % PAGE = 0, s <= b
  PROVE  s <= Base(b)
<1>1. PAGE \in Nat /\ PAGE > 0
  BY ConstantsAssumption
<1>2. PICK q \in Nat : Base(b) = q * PAGE
  BY BaseOf, Zenon
<1>3. b < Base(b) + PAGE
  BY BaseOf, Zenon
<1> DEFINE p == s \div PAGE
<1>4. p \in Nat /\ s = p * PAGE
  BY <1>1
<1> HIDE DEF p
<1>5. p <= q
  <2>1. SUFFICES ASSUME p >= q + 1 PROVE FALSE
    BY <1>2, <1>4
  <2>2. p * PAGE >= (q + 1) * PAGE
    BY <1>1, <1>2, <1>4, <2>1
  <2>3. (q + 1) * PAGE = q * PAGE + PAGE
    BY <1>1, <1>2
  <2> QED BY <1>1, <1>2, <1>3, <1>4, <2>2, <2>3
<1>6. p * PAGE <= q * PAGE
  BY <1>1, <1>2, <1>4, <1>5
<1> QED BY <1>2, <1>4, <1>6, Zenon

(***************************************************************************)
(* The bytes of a page have that page.                                     *)
(***************************************************************************)
LEMMA PageOf ==
  ASSUME NEW s \in Nat, NEW b \in Nat, s % PAGE = 0, s <= b, b < s + PAGE
  PROVE  Base(b) = s
<1>1. PAGE \in Nat /\ PAGE > 0 /\ s <= Base(b) /\ Base(b) \in Nat /\ Base(b) <= b
  BY ConstantsAssumption, PageBelow, BaseOf
<1>2. ~(s + PAGE <= b)
  BY <1>1
<1>3. SUFFICES ASSUME s < Base(b) PROVE FALSE
  BY <1>1
<1>4. PICK q \in Nat : Base(b) = q * PAGE
  BY BaseOf, Zenon
<1> DEFINE p == s \div PAGE
<1>5. p \in Nat /\ s = p * PAGE
  BY <1>1
<1> HIDE DEF p
<1>6. p < q
  <2>1. SUFFICES ASSUME p >= q PROVE FALSE
    BY <1>4, <1>5
  <2>2. p * PAGE >= q * PAGE
    BY <1>1, <1>4, <1>5, <2>1
  <2> QED BY <1>1, <1>3, <1>4, <1>5, <2>2
<1>7. (p + 1) * PAGE <= q * PAGE /\ (p + 1) * PAGE = p * PAGE + PAGE
  BY <1>1, <1>4, <1>5, <1>6
<1> QED BY <1>1, <1>2, <1>4, <1>5, <1>7

(***************************************************************************)
(* Rounding up reaches a multiple of a page.                               *)
(***************************************************************************)
LEMMA RoundedUp ==
  ASSUME NEW n \in Nat
  PROVE  /\ Rounded(n) \in Nat /\ n <= Rounded(n) /\ Rounded(n) < n + PAGE
         /\ \E q \in Nat : Rounded(n) = q * PAGE
<1>1. PAGE \in Nat /\ PAGE > 0
  BY ConstantsAssumption
<1> DEFINE m == n + PAGE - 1
           q == m \div PAGE
<1>2. m \in Nat
  BY <1>1
<1>3. q \in Nat /\ q * PAGE <= m /\ m < q * PAGE + PAGE
  <2> HIDE DEF m
  <2> QED BY <1>1, <1>2
<1>4. Rounded(n) = q * PAGE
  BY Zenon DEF Rounded
<1> HIDE DEF q
<1>5. q * PAGE \in Nat
  BY <1>1, <1>3
<1> QED BY <1>1, <1>3, <1>4, <1>5

(***************************************************************************)
(* Whole pages are not rounded.                                            *)
(***************************************************************************)
LEMMA RoundedWhole ==
  ASSUME NEW q \in Nat
  PROVE  Rounded(q * PAGE) = q * PAGE
<1>1. PAGE \in Nat /\ PAGE > 0 /\ q * PAGE \in Nat
  BY ConstantsAssumption
<1>2. PICK k \in Nat : Rounded(q * PAGE) = k * PAGE
  BY <1>1, RoundedUp, Zenon
<1>3. q * PAGE <= k * PAGE /\ k * PAGE < q * PAGE + PAGE
  BY <1>1, <1>2, RoundedUp, Zenon
<1>4. CASE k <= q
  BY <1>1, <1>2, <1>3, <1>4
<1>5. CASE k >= q + 1
  <2>1. k * PAGE >= (q + 1) * PAGE /\ (q + 1) * PAGE = q * PAGE + PAGE
    BY <1>1, <1>5
  <2> QED BY <1>1, <1>3, <2>1
<1>6. CASE k < q
  <2>1. (k + 1) * PAGE <= q * PAGE /\ (k + 1) * PAGE = k * PAGE + PAGE
    BY <1>1, <1>6
  <2> QED BY <1>1, <1>3, <2>1
<1> QED BY <1>2, <1>4, <1>5, <1>6

(***************************************************************************)
(* Every page listed is a page of memory.                                  *)
(***************************************************************************)
Paged == pages \subseteq {a \in Byte : a % PAGE = 0}

(***************************************************************************)
(* What finish() has chosen when it comes to its checks: a region of n     *)
(* bytes from s, marks W and a frontier f.  They are all that was stored,  *)
(* and a region it picked, unlike the whole output, was stored in full.    *)
(***************************************************************************)
Chosen(s, n, W, f) ==
  /\ s % PAGE = 0 /\ Output <= s /\ 0 < n /\ s + n <= Output + Length
  /\ s + Rounded(n) <= Output + Rounded(Length)
  /\ stored = W \cup s .. f - 1
  /\ n # Length \/ Allocation \subseteq stored => Span(s, n) \subseteq stored

-----------------------------------------------------------------------------
(***************************************************************************)
(* The pages of bytes of memory are pages of memory.                       *)
(***************************************************************************)
LEMMA BasesInside ==
  ASSUME NEW S, S \subseteq Byte
  PROVE  Bases(S) \subseteq {a \in Byte : a % PAGE = 0}
<1> SUFFICES ASSUME NEW b \in S PROVE Base(b) \in Byte /\ Base(b) % PAGE = 0
  BY Zenon DEF Bases
<1>1. b \in Nat /\ b <= Memory - 1 /\ Memory \in Nat
  BY ConstantsAssumption DEF Byte
<1>2. Base(b) \in Nat /\ Base(b) <= b /\ Base(b) % PAGE = 0
  BY <1>1, BaseOf, Zenon
<1> QED BY <1>1, <1>2 DEF Byte

(***************************************************************************)
(* A byte of a run lies in one of its pages, all of which are covered.     *)
(***************************************************************************)
LEMMA RunCovered ==
  ASSUME NEW j \in Nat, NEW k \in Nat, IsRun(j, k),
         NEW b \in Span(Output + j * PAGE, RegionLength(j, k))
  PROVE  Output <= b /\ (b < frontier \/ b \in written)
<1>1. PAGE \in Nat /\ PAGE > 0 /\ Output \in Nat /\ Length \in Nat
  BY ConstantsAssumption
<1> DEFINE x == j * PAGE
           n == RegionLength(j, k)
           y == (k + 1) * PAGE
<1>2. x \in Nat /\ n \in Int /\ y <= Length /\ y \in Nat
  <2>1. n \in Int
    BY RunInside, Zenon
  <2>2. y <= Length
    BY DEF IsRun, Whole
  <2> QED BY <1>1, <2>1, <2>2
<1>3. x + n = y
  BY <1>1 DEF RegionLength
<1>4. b \in Int /\ Output + x <= b /\ b < Output + y
  <2>1. b \in Span(Output + x, n)
    BY Zenon
  <2> HIDE DEF x, n, y
  <2> QED BY <1>1, <1>2, <1>3, <2>1 DEF Span
<1> DEFINE d == b - Output
           i == d \div PAGE
           z == i * PAGE
<1>5. d \in Nat /\ x <= d /\ d < y
  <2> HIDE DEF x, y
  <2> QED BY <1>1, <1>2, <1>4
<1>6. i \in Int /\ z <= d /\ d < z + PAGE /\ i >= 0
  <2> HIDE DEF d
  <2> QED BY <1>1, <1>5
<1>7. z \in Nat
  <2> HIDE DEF i
  <2> QED BY <1>1, <1>6
<1> HIDE DEF i, d
<1>8. j <= i
  <2>1. SUFFICES ASSUME i + 1 <= j PROVE FALSE
    BY <1>6
  <2>2. (i + 1) * PAGE <= x /\ (i + 1) * PAGE = z + PAGE
    BY <1>1, <1>6, <2>1
  <2> HIDE DEF x, z
  <2> QED BY <1>1, <1>2, <1>5, <1>6, <1>7, <2>2
<1>9. i <= k
  <2>1. SUFFICES ASSUME k + 1 <= i PROVE FALSE
    BY <1>6
  <2>2. y <= z
    BY <1>1, <1>6, <2>1
  <2> HIDE DEF y, z
  <2> QED BY <1>1, <1>2, <1>5, <1>6, <1>7, <2>2
<1>10. Covered(i)
  BY <1>6, <1>8, <1>9 DEF IsRun
<1>11. b \in PageSpan(i)
  <2>1. PageSpan(i) = Span(Output + z, Lower(PAGE, Length - z))
    BY Zenon DEF PageSpan
  <2>2. Output + z <= b /\ b < Output + z + PAGE /\ b < Output + Length
    <3> HIDE DEF x, y, z
    <3> QED BY <1>1, <1>2, <1>4, <1>5, <1>6, <1>7 DEF d
  <2> HIDE DEF z
  <2> QED BY <1>1, <1>4, <1>7, <2>1, <2>2 DEF Span, Lower
<1>12. Output <= b
  <2> HIDE DEF x, y
  <2> QED BY <1>1, <1>2, <1>4
<1> QED BY <1>10, <1>11, <1>12, Zenon DEF Covered

(***************************************************************************)
(* finish() with the whole output.                                         *)
(***************************************************************************)
LEMMA WholeChosen ==
  ASSUME IInv, FinishWhole
  PROVE  Chosen(Output, Length, written, frontier)
<1>1. stored = written \cup Output .. frontier - 1
  BY Zenon DEF IInv, WritesKept, Begun, FinishWhole
<1>2. /\ Output % PAGE = 0 /\ Output \in Nat /\ Length \in Nat /\ 0 < Length
  BY ConstantsAssumption
<1>3. Rounded(Length) \in Nat
  BY <1>2, RoundedUp, Zenon
<1> QED BY <1>1, <1>2, <1>3 DEF Chosen, Allocation

(***************************************************************************)
(* finish() with a region.                                                 *)
(***************************************************************************)
LEMMA RegionChosen ==
  ASSUME NEW j \in Nat, NEW k \in Nat, IInv, FinishRegion(j, k)
  PROVE  \E s \in Nat, n \in Nat, f \in Int, W \in SUBSET Byte :
           Conclude(s, n, W, f) /\ Chosen(s, n, W, f)
<1> DEFINE s == Output + j * PAGE
           n == RegionLength(j, k)
           end == s + n
           outside == (Output .. frontier - 1) \ (s .. end - 1)
           f == Higher(s, Lower(frontier, end))
           W == written \cup outside
<1>1. verdict = "recording" /\ IsRun(j, k) /\ Conclude(s, n, W, f)
  BY Zenon DEF FinishRegion, Best
<1>2. /\ s \in Int /\ n \in Int /\ Output <= s /\ 0 <= n /\ end \in Int /\ s <= end
      /\ s + n <= Output + Length
  BY <1>1, RunInside
<1>3. frontier \in Int /\ f \in Int /\ written \subseteq Byte /\ stored \subseteq Byte
  BY <1>2, Zenon DEF IInv, Types, Higher, Lower
<1>4. stored = written \cup Output .. frontier - 1
  BY <1>1, Zenon DEF IInv, WritesKept, Begun
<1>5. outside \cup s .. f - 1 = Output .. frontier - 1
  BY <1>2, <1>3, FrontierMoves, Zenon
<1>6. stored = W \cup s .. f - 1 /\ W \in SUBSET Byte
  BY <1>3, <1>4, <1>5, Zenon
<1>7. Span(s, n) \subseteq stored
  <2> SUFFICES ASSUME NEW b \in Span(s, n) PROVE b \in stored
    BY Zenon
  <2>1. b \in Int
    BY <1>2 DEF Span
  <2>2. Output <= b /\ (b < frontier \/ b \in written)
    BY <1>1, RunCovered, Zenon
  <2> QED BY <1>3, <1>4, <2>1, <2>2, ConstantsAssumption
<1>8. PAGE \in Nat /\ PAGE > 0 /\ Output \in Nat /\ Output % PAGE = 0 /\ Length \in Nat
  BY ConstantsAssumption
<1>9. s % PAGE = 0
  <2> DEFINE q == Output \div PAGE
  <2>1. q \in Int /\ Output = q * PAGE
    BY <1>8, Division
  <2> HIDE DEF q
  <2>2. s = (q + j) * PAGE /\ q + j \in Int
    BY <1>8, <2>1
  <2> QED BY <2>1, <2>2, Multiple, Zenon
<1>10. 0 < n /\ Rounded(n) = n
  <2> DEFINE q == k - j + 1
  <2>1. q \in Nat /\ q > 0 /\ n = q * PAGE
    BY <1>1 DEF IsRun, RegionLength
  <2> HIDE DEF q, n
  <2> QED BY <1>8, <2>1, RoundedWhole
<1>11. Rounded(Length) \in Nat /\ Length <= Rounded(Length)
  BY <1>8, RoundedUp, Zenon
<1> HIDE DEF s, n, end, outside, f, W
<1>12. s + Rounded(n) <= Output + Rounded(Length)
  BY <1>2, <1>8, <1>10, <1>11
<1>13. Chosen(s, n, W, f)
  BY <1>2, <1>6, <1>7, <1>9, <1>10, <1>12, ZenonT(30) DEF Chosen
<1>14. s \in Nat /\ n \in Nat
  BY <1>2, <1>8
<1> QED BY <1>1, <1>3, <1>6, <1>13, <1>14, Zenon

(***************************************************************************)
(* finish() in either form.                                                *)
(***************************************************************************)
LEMMA FinishChooses ==
  ASSUME IInv, Finish
  PROVE  \E s \in Nat, n \in Nat, f \in Int, W \in SUBSET Byte :
           Conclude(s, n, W, f) /\ Chosen(s, n, W, f)
<1>1. CASE FinishWhole
  <2>1. Conclude(Output, Length, written, frontier) /\ Chosen(Output, Length, written, frontier)
    BY <1>1, WholeChosen, Zenon DEF FinishWhole
  <2>2. Output \in Nat /\ Length \in Nat /\ written \in SUBSET Byte /\ frontier \in Int
    BY ConstantsAssumption, Zenon DEF IInv, Types
  <2> QED BY <2>1, <2>2, Zenon
<1>2. ASSUME NEW j \in 0 .. LastPage, NEW k \in 0 .. LastPage, FinishRegion(j, k)
      PROVE  \E s \in Nat, n \in Nat, f \in Int, W \in SUBSET Byte :
               Conclude(s, n, W, f) /\ Chosen(s, n, W, f)
  BY <1>2, j \in Nat, k \in Nat, RegionChosen, Zenon
<1> QED BY <1>1, <1>2, Zenon DEF Finish

(***************************************************************************)
(* Bytes of a region are bytes of memory.                                  *)
(***************************************************************************)
LEMMA RegionInside ==
  ASSUME NEW s \in Nat, NEW n \in Nat, Output <= s, s + n <= Output + Length
  PROVE  Span(s, n) \subseteq Byte
  BY ConstantsAssumption DEF Span, Byte

(***************************************************************************)
(* No step lists anything but a page of memory.                            *)
(***************************************************************************)
LEMMA PagedStays ==
  ASSUME IInv, IInv', Paged, [ReplayNext]_all
  PROVE  Paged'
<1> DEFINE M == {a \in Byte : a % PAGE = 0}
<1>1. SUFFICES pages' \subseteq M
  BY Zenon DEF Paged
<1>2. pages \subseteq M /\ Code \subseteq M /\ written' \subseteq Byte
  BY ConstantsAssumption, Zenon DEF Paged, IInv, Types, Byte
<1> HIDE DEF M
<1>3. CASE UNCHANGED vars
  BY <1>2, <1>3, Zenon DEF vars, recorder
<1>4. ASSUME NEW S, S \subseteq Byte, pages' \in {pages, pages \cup Bases(S)}
      PROVE  pages' \subseteq M
  BY <1>2, <1>4, BasesInside, Zenon DEF M
<1>5. ASSUME NEW a \in Byte, NEW n \in 1 .. MaxAccess, NEW kind \in {"read", "write"},
             a + n <= Memory, Instruction(kind, a, n)
      PROVE  pages' \subseteq M
  <2>1. Span(a, n) \subseteq Byte
    BY <1>5, ConstantsAssumption DEF Byte, Span
  <2>2. pages' \in {pages, pages \cup Bases(Span(a, n))}
    BY <1>5, Zenon DEF Instruction, Read, Write
  <2> QED BY <1>4, <2>1, <2>2, Zenon
<1>6. ASSUME NEW w \in 1 .. MaxAccess, NEW k \in 1 .. MaxIterations, InlineLoop(w, k)
      PROVE  pages' \subseteq M
  <2> DEFINE a == last_store_end
             m == k * w
  <2>1. a \in Output .. Output + Length /\ a + m <= Memory
    BY <1>6, Zenon DEF InlineLoop
  <2>2. pages' \in {pages, pages \cup Bases(Span(a, m))}
    BY <1>6, Zenon DEF InlineLoop, Write, LoopRejected, recorder
  <2>3. m \in Int /\ a \in Int
    BY <2>1, ConstantsAssumption, ReplayAssumption
  <2> HIDE DEF a, m
  <2>4. Span(a, m) \subseteq Byte
    BY <2>1, <2>3, ConstantsAssumption DEF Byte, Span
  <2> QED BY <1>4, <2>2, <2>4, Zenon
<1>7. CASE Finish
  <2>1. PICK s \in Nat, n \in Nat, f \in Int, W \in SUBSET Byte :
               Conclude(s, n, W, f) /\ Chosen(s, n, W, f)
    BY <1>7, FinishChooses, Zenon
  <2>2. Span(s, n) \subseteq Byte
    BY <2>1, RegionInside, Zenon DEF Chosen
  <2>3. Bases(written') \subseteq M /\ Bases(Span(s, n)) \subseteq M
    BY <1>2, <2>2, BasesInside, Zenon DEF M
  <2> QED BY <1>2, <2>1, <2>3, Zenon DEF Conclude
<1>8. CASE GiveUp \/ \E k \in 1 .. MaxIterations : InlineSpin(k)
  BY <1>2, <1>8, Zenon DEF GiveUp, Reject, InlineSpin, recorder
<1>9. CASE (\E hooks \in BOOLEAN : Start(hooks)) \/ Execute \/ Stop \/ Over \/ UNCHANGED all
  BY <1>3, <1>9, Zenon DEF Start, Execute, Stop, Over, all
<1> QED BY <1>5, <1>6, <1>7, <1>8, <1>9, Zenon DEF ReplayNext

(***************************************************************************)
(* The invariants of the recorder in every state.                          *)
(***************************************************************************)
LEMMA PagesInvariant == ReplaySpec => [](IInv /\ Paged)
<1>1. ReplayInit => IInv /\ Paged
  <2>1. ReplayInit => IInv
    BY InitEstablishes, Zenon DEF ReplayInit
  <2>2. ReplayInit => Paged
    BY Zenon DEF ReplayInit, Init, Paged
  <2> QED BY <2>1, <2>2, Zenon
<1>2. IInv /\ Paged /\ [ReplayNext]_all => (IInv /\ Paged)'
  <2> SUFFICES ASSUME IInv, Paged, [ReplayNext]_all PROVE IInv' /\ Paged'
    BY Zenon
  <2>1. IInv'
    BY StepKeeps, Zenon
  <2> QED BY <2>1, PagedStays, Zenon
<1> QED BY <1>1, <1>2, PTL DEF ReplaySpec

-----------------------------------------------------------------------------
INSTANCE FiniteSetTheorems

(***************************************************************************)
(* A set of pages of memory is finite.                                     *)
(***************************************************************************)
LEMMA PagesFinite ==
  ASSUME NEW P, P \subseteq Byte
  PROVE  IsFiniteSet(P) /\ Cardinality(P) \in Nat
<1>1. IsFiniteSet(Byte)
  <2>1. 0 \in Int /\ Memory - 1 \in Int
    BY ConstantsAssumption
  <2> QED BY <2>1, FS_Interval, Zenon DEF Byte
<1>2. IsFiniteSet(P)
  BY <1>1, FS_Subset, Zenon
<1> QED BY <1>2, FS_CardinalityType, Zenon

(***************************************************************************)
(* Only finish() refuses.                                                  *)
(***************************************************************************)
LEMMA OnlyFinishRefuses ==
  ASSUME [ReplayNext]_all, verdict' = "refused", verdict # "refused"
  PROVE  Finish
<1>1. verdict' # verdict
  BY Zenon
<1>2. \A kind, a, n : Instruction(kind, a, n) => verdict' \in {verdict, "rejected"}
  BY DEF Instruction, Read, Write
<1>3. \A w, k : InlineLoop(w, k) => verdict' \in {verdict, "rejected"}
  BY Zenon DEF InlineLoop, Write, LoopRejected
<1>4. \A k : InlineSpin(k) => verdict' \in {verdict, "rejected"}
  BY Zenon DEF InlineSpin
<1>5. GiveUp => verdict' = "rejected"
  BY Zenon DEF GiveUp, Reject
<1>6. (\E hooks \in BOOLEAN : Start(hooks)) \/ Execute \/ Stop \/ Over \/ UNCHANGED all
         => verdict' = verdict
  BY Zenon DEF Start, Execute, Stop, Over, all, vars
<1> QED BY <1>1, <1>2, <1>3, <1>4, <1>5, <1>6, Zenon DEF ReplayNext

(***************************************************************************)
(* A region that finish() picked, or an output written in full, passes the *)
(* coverage check, so one of the other two has failed.                     *)
(***************************************************************************)
LEMMA RefusalExplained ==
  ASSUME IInv, Paged', [ReplayNext]_all, verdict' = "refused", verdict # "refused",
         length' # Length \/ Allocation \subseteq stored
  PROVE  \/ Cardinality(pages' \ Bases(Span(start', length'))) * PAGE > Spare
         \/ Bases(stored) \cap Code # {}
<1>1. PICK s \in Nat, n \in Nat, f \in Int, W \in SUBSET Byte :
             Conclude(s, n, W, f) /\ Chosen(s, n, W, f)
  BY FinishChooses, OnlyFinishRefuses, Zenon
<1>2. start' = s /\ length' = n /\ written' = Marked(W, s, n, f)
  BY <1>1, Zenon DEF Conclude
<1>3. Span(s, n) \subseteq stored /\ stored = W \cup s .. f - 1
  BY <1>1, <1>2, Zenon DEF Chosen
<1>4. f = s + n \/ Span(s, n) \subseteq written'
  BY <1>2, <1>3, Zenon DEF Marked
<1>5. CASE Code \cap Bases(written') # {}
  <2>1. written' \subseteq stored
    BY <1>2, <1>3, Zenon DEF Marked
  <2> QED BY <1>5, <2>1, Zenon DEF Bases
<1>6. CASE ~(Cardinality(Scratch(s, n)) * PAGE <= (n \div 4) + Spare)
  <2> DEFINE X == Scratch(s, n)
             Y == pages' \ Bases(Span(s, n))
  <2>1. Y \subseteq Byte /\ X \subseteq pages'
    BY Zenon DEF Paged, Scratch
  <2>2. X \subseteq Y
    <3> SUFFICES ASSUME NEW b \in Span(s, n) PROVE Base(b) \notin X
      BY <2>1, Zenon DEF Bases
    <3>1. b \in Nat /\ s <= b /\ b < s + n
      BY DEF Span
    <3>2. s <= Base(b) /\ Base(b) <= b /\ Base(b) \in Nat
      BY <1>1, <3>1, PageBelow, BaseOf, Zenon DEF Chosen
    <3>3. n <= Rounded(n) /\ Rounded(n) \in Nat
      BY RoundedUp, Zenon
    <3> QED BY <3>1, <3>2, <3>3 DEF Scratch
  <2>3. Cardinality(X) \in Nat /\ Cardinality(Y) \in Nat /\ Cardinality(X) <= Cardinality(Y)
    <3>1. X \subseteq Byte
      BY <2>1, <2>2, Zenon
    <3>2. IsFiniteSet(Y)
      BY <2>1, PagesFinite, Zenon
    <3> HIDE DEF X, Y
    <3> QED BY <2>1, <2>2, <3>1, <3>2, PagesFinite, FS_Subset, Zenon
  <2> DEFINE x == Cardinality(X)
             y == Cardinality(Y)
             z == n \div 4
  <2>4. z \in Nat /\ PAGE \in Nat /\ Spare \in Nat
    BY ConstantsAssumption
  <2>5. ~(x * PAGE <= z + Spare) /\ x \in Nat /\ y \in Nat /\ x <= y
    BY <1>6, <2>3, Zenon
  <2> HIDE DEF x, y, z, X, Y
  <2>6. x * PAGE <= y * PAGE /\ x * PAGE \in Nat /\ y * PAGE \in Nat
    BY <2>4, <2>5
  <2>7. y * PAGE > Spare
    BY <2>4, <2>5, <2>6
  <2> QED BY <1>2, <2>7, Zenon DEF y, Y
<1> QED BY <1>1, <1>4, <1>5, <1>6, Zenon DEF Conclude

(***************************************************************************)
(* finish() refuses a region it chose, or an output the producer wrote     *)
(* completely, only for scratch or for modified code.                      *)
(***************************************************************************)
THEOREM RefusalHasCause == ReplaySpec => RefusedForCause
<1>1. (IInv /\ Paged) /\ (IInv /\ Paged)' /\ [ReplayNext]_all =>
        [verdict' = "refused" /\ verdict # "refused"
           /\ (length' # Length \/ Allocation \subseteq stored) =>
         \/ Cardinality(pages' \ Bases(Span(start', length'))) * PAGE > Spare
         \/ Bases(stored) \cap Code # {}]_vars
  BY RefusalExplained, Zenon
<1> QED BY <1>1, PagesInvariant, PTL DEF ReplaySpec, RefusedForCause

(***************************************************************************)
(* The inputs of a recipe are cut into segments without loss or overlap.   *)
(* First, the ends of an interval.                                         *)
(***************************************************************************)
LEMMA SpanEnds ==
  ASSUME NEW a \in Nat, NEW e \in Nat, a <= e
  PROVE  Min(a .. e) = a /\ Max(a .. e) = e
<1>1. Min(a .. e) = a
  <2>1. a \in a .. e /\ \A y \in a .. e : a <= y
    OBVIOUS
  <2>2. Min(a .. e) \in a .. e /\ \A y \in a .. e : Min(a .. e) <= y
    BY <2>1, Zenon DEF Min
  <2> QED BY <2>1, <2>2
<1>2. Max(a .. e) = e
  <2>1. e \in a .. e /\ \A y \in a .. e : e >= y
    OBVIOUS
  <2>2. Max(a .. e) \in a .. e /\ \A y \in a .. e : Max(a .. e) >= y
    BY <2>1, Zenon DEF Max
  <2> QED BY <2>1, <2>2
<1> QED BY <1>1, <1>2, Zenon

(***************************************************************************)
(* A run of input bytes within a page that neither end can be added to.    *)
(***************************************************************************)
IsSegment(a, e) ==
  /\ a <= e /\ a .. e \subseteq input /\ \A x \in a .. e : Base(x) = Base(a)
  /\ a % PAGE = 0 \/ a - 1 \notin input
  /\ (e + 1) % PAGE = 0 \/ e + 1 \notin input

(* Every segment finish() writes is such a run. *)
LEMMA SegmentForm ==
  ASSUME input \subseteq Byte, NEW S \in Segments
  PROVE  \E a \in Nat, e \in Nat : S = a .. e /\ IsSegment(a, e)
<1>1. PICK a \in input, n \in 1 .. PAGE : S = Span(a, n)
  BY DEF Segments
<1>2. /\ S \subseteq input /\ Cardinality(Bases(S)) = 1
      /\ Min(S) % PAGE = 0 \/ Min(S) - 1 \notin input
      /\ (Max(S) + 1) % PAGE = 0 \/ Max(S) + 1 \notin input
  BY DEF Segments
<1> DEFINE e == a + n - 1
<1>3. a \in Nat /\ e \in Nat /\ a <= e /\ S = a .. e
  BY <1>1, ConstantsAssumption DEF Byte, Span
<1>4. Min(S) = a /\ Max(S) = e
  <2> HIDE DEF e
  <2> QED BY <1>3, SpanEnds, Zenon
<1>5. Bases(S) \subseteq Byte
  BY <1>2, BasesInside, Zenon
<1>6. IsFiniteSet(Bases(S))
  BY <1>5, PagesFinite, Zenon
<1>7. PICK p : Bases(S) = {p}
  BY <1>2, <1>6, FS_Singleton, Zenon
<1>8. \A x \in S : Base(x) = Base(a)
  <2>1. \A x \in S : Base(x) = p
    BY <1>7, Zenon DEF Bases
  <2>2. a \in S
    <3> HIDE DEF e
    <3> QED BY <1>3
  <2> QED BY <2>1, <2>2, Zenon
<1> HIDE DEF e
<1> QED BY <1>2, <1>3, <1>4, <1>8, Zenon DEF IsSegment

(* Every such run is a segment. *)
LEMMA SegmentMade ==
  ASSUME input \subseteq Byte, NEW a \in Nat, NEW e \in Nat, IsSegment(a, e)
  PROVE  a .. e \in Segments
<1> DEFINE n == e - a + 1
           S == a .. e
<1>1. a <= e /\ S \subseteq input /\ (\A x \in S : Base(x) = Base(a)) /\ a \in S /\ e \in S
  BY DEF IsSegment
<1>2. PAGE \in Nat /\ PAGE > 0
  BY ConstantsAssumption
<1>3. n \in 1 .. PAGE
  <2>1. Base(a) <= a /\ e < Base(e) + PAGE /\ Base(e) = Base(a) /\ Base(a) \in Nat
    BY <1>1, BaseOf, Zenon
  <2> QED BY <1>1, <1>2, <2>1
<1>4. S = Span(a, n) /\ a \in input
  BY <1>1 DEF Span
<1>5. Cardinality(Bases(S)) = 1
  <2>1. Bases(S) = {Base(a)}
    <3> HIDE DEF S
    <3> QED BY <1>1, Zenon DEF Bases
  <2> QED BY <2>1, FS_Singleton, Zenon
<1>6. Min(S) = a /\ Max(S) = e
  BY <1>1, SpanEnds, Zenon
<1>7. S \in {Span(c, m) : c \in input, m \in 1 .. PAGE}
  <2> HIDE DEF n, S
  <2> QED BY <1>3, <1>4
<1>8. /\ a % PAGE = 0 \/ a - 1 \notin input
      /\ (e + 1) % PAGE = 0 \/ e + 1 \notin input
  BY Zenon DEF IsSegment
<1> HIDE DEF S
<1>9. S \in Segments
  BY <1>1, <1>5, <1>6, <1>7, <1>8 DEF Segments
<1> QED BY <1>9, Zenon DEF S

(***************************************************************************)
(* Two segments that share a byte begin and end alike.                     *)
(***************************************************************************)
LEMMA SegmentReaches ==
  ASSUME NEW a \in Nat, NEW e \in Nat, IsSegment(a, e),
         NEW c \in Nat, NEW g \in Nat, IsSegment(c, g),
         NEW b \in Nat, b \in a .. e, b \in c .. g
  PROVE  c <= a /\ e <= g
<1>1. \A x \in a .. e : x \in input /\ Base(x) = Base(a)
  BY Zenon DEF IsSegment
<1>2. /\ c % PAGE = 0 \/ c - 1 \notin input
      /\ (g + 1) % PAGE = 0 \/ g + 1 \notin input
  BY Zenon DEF IsSegment
<1>3. ASSUME a < c PROVE FALSE
  <2>1. c - 1 \in a .. e /\ c \in a .. e
    BY <1>3
  <2>2. c % PAGE = 0
    BY <1>1, <1>2, <2>1, Zenon
  <2>3. Base(c) = c
    BY <2>2 DEF Base
  <2>4. Base(a) <= a /\ Base(c) = Base(a)
    BY <1>1, <2>1, BaseOf, Zenon
  <2> QED BY <1>3, <2>3, <2>4
<1>4. ASSUME g < e PROVE FALSE
  <2>1. g + 1 \in a .. e
    BY <1>4
  <2>2. (g + 1) % PAGE = 0 /\ g + 1 \in Nat
    BY <1>1, <1>2, <2>1
  <2>3. Base(g + 1) = g + 1
    BY <2>2 DEF Base
  <2>4. Base(b) <= b /\ Base(b) = Base(a) /\ Base(g + 1) = Base(a)
    BY <1>1, <2>1, BaseOf, Zenon
  <2> QED BY <2>3, <2>4
<1> QED BY <1>3, <1>4

(* Segments that share a byte are the same. *)
LEMMA SegmentsApart ==
  ASSUME input \subseteq Byte, NEW S \in Segments, NEW T \in Segments, S \cap T # {}
  PROVE  S = T
<1>1. PICK a \in Nat, e \in Nat : S = a .. e /\ IsSegment(a, e)
  BY SegmentForm, Zenon
<1>2. PICK c \in Nat, g \in Nat : T = c .. g /\ IsSegment(c, g)
  BY SegmentForm, Zenon
<1>3. PICK b \in S : b \in T
  BY Zenon
<1>4. b \in Nat
  BY <1>1, <1>3
<1>5. c <= a /\ e <= g
  BY <1>1, <1>2, <1>3, <1>4, SegmentReaches, Zenon
<1>6. a <= c /\ g <= e
  BY <1>1, <1>2, <1>3, <1>4, SegmentReaches, Zenon
<1>7. a = c /\ e = g
  BY <1>5, <1>6
<1> QED BY <1>1, <1>2, <1>7, Zenon

(***************************************************************************)
(* A set of naturals has a least one.                                      *)
(***************************************************************************)
LEMMA LeastElement ==
  ASSUME NEW T \in SUBSET Nat, T # {}
  PROVE  \E n \in T : \A m \in T : n <= m
<1>1. PICK x \in T : \A y \in T : ~(<<y, x>> \in OpToRel(<, Nat))
  BY NatLessThanWellFounded, WFMin, Zenon
<1>2. \A y \in T : ~(y < x)
  BY <1>1, Zenon DEF OpToRel
<1> QED BY <1>2

(***************************************************************************)
(* Every input byte is in a segment.                                       *)
(***************************************************************************)
LEMMA SegmentsCover ==
  ASSUME input \subseteq Byte, NEW b \in input
  PROVE  \E S \in Segments : b \in S
<1> DEFINE p == Base(b)
           top == p + PAGE - 1
           A == {x \in Nat : p <= x /\ x <= b /\ x .. b \subseteq input}
           E == {m \in Nat : b <= top - m /\ b .. top - m \subseteq input}
<1>1. /\ b \in Nat /\ PAGE \in Nat /\ PAGE > 0 /\ p \in Nat /\ p % PAGE = 0 /\ p <= b /\ b < p + PAGE
      /\ \E q \in Nat : p = q * PAGE
  <2>1. b \in Nat
    BY DEF Byte
  <2>2. PAGE \in Nat /\ PAGE > 0
    BY ConstantsAssumption
  <2> QED BY <2>1, <2>2, BaseOf, Zenon
<1>2. (p + PAGE) % PAGE = 0
  <2>1. PICK q \in Nat : p = q * PAGE
    BY <1>1, Zenon
  <2>2. p + PAGE = (q + 1) * PAGE
    BY <1>1, <2>1
  <2> QED BY <2>2, q + 1 \in Int, Multiple, Zenon
<1> HIDE DEF p
<1>3. PICK a \in A : \A x \in A : a <= x
  <2>1. b .. b \subseteq input
    BY <1>1
  <2>2. b \in A
    BY <1>1, <2>1
  <2> HIDE DEF A
  <2>3. A \in SUBSET Nat
    BY Zenon DEF A
  <2> QED BY <2>2, <2>3, LeastElement, Zenon
<1>4. PICK m \in E : \A x \in E : m <= x
  <2>1. b .. b \subseteq input /\ top - (top - b) = b /\ top - b \in Nat
    BY <1>1
  <2>2. top - b \in E
    BY <1>1, <2>1
  <2> HIDE DEF E
  <2>3. E \in SUBSET Nat
    BY Zenon DEF E
  <2> QED BY <2>2, <2>3, LeastElement, Zenon
<1> DEFINE e == top - m
<1>5. a \in Nat /\ p <= a /\ a <= b /\ a .. b \subseteq input
  BY <1>3, Zenon
<1>6. m \in Nat /\ e \in Int /\ b <= e /\ b .. e \subseteq input /\ e < p + PAGE
  BY <1>1, <1>4
<1>7. a .. e \subseteq input
  <2> HIDE DEF e
  <2> QED BY <1>1, <1>5, <1>6
<1>8. \A x \in a .. e : Base(x) = p
  <2> HIDE DEF e
  <2> SUFFICES ASSUME NEW x \in a .. e PROVE Base(x) = p
    BY Zenon
  <2>1. x \in Nat /\ p <= x /\ x < p + PAGE
    BY <1>1, <1>5, <1>6
  <2> QED BY <1>1, <2>1, PageOf, Zenon
<1>9. a % PAGE = 0 \/ a - 1 \notin input
  <2> SUFFICES ASSUME a % PAGE # 0, a - 1 \in input PROVE FALSE
    BY Zenon
  <2>1. a - 1 \in Nat /\ p <= a - 1 /\ a - 1 <= b
    BY <1>1, <1>5
  <2>2. a - 1 .. b \subseteq input
    BY <1>1, <1>5
  <2>3. a - 1 \in A
    BY <2>1, <2>2, Zenon
  <2> QED BY <1>3, <1>5, <2>3
<1>10. (e + 1) % PAGE = 0 \/ e + 1 \notin input
  <2> SUFFICES ASSUME (e + 1) % PAGE # 0, e + 1 \in input PROVE FALSE
    BY Zenon
  <2>1. m # 0
    BY <1>1, <1>2
  <2>2. m - 1 \in Nat /\ top - (m - 1) = e + 1 /\ b <= e + 1
    BY <1>1, <1>6, <2>1
  <2>3. b .. e + 1 \subseteq input
    <3> HIDE DEF e
    <3> QED BY <1>1, <1>6
  <2>4. m - 1 \in E
    <3> HIDE DEF e, top
    <3> QED BY <2>2, <2>3, Zenon
  <2> QED BY <1>4, <1>6, <2>4
<1> HIDE DEF e
<1>11. e \in Nat /\ a \in a .. e /\ b \in a .. e
  BY <1>1, <1>5, <1>6
<1>12. IsSegment(a, e)
  BY <1>5, <1>6, <1>7, <1>8, <1>9, <1>10, <1>11, SMTT(20) DEF IsSegment
<1>13. a .. e \in Segments
  BY <1>5, <1>11, <1>12, SegmentMade, Zenon
<1> QED BY <1>11, <1>13, Zenon

(***************************************************************************)
(* The segments hold as many bytes as there are inputs.                    *)
(***************************************************************************)
LEMMA SegmentsCount ==
  ASSUME input \subseteq Byte
  PROVE  Cardinality(SegmentBytes) = Cardinality(input)
<1> DEFINE seg(b) == CHOOSE S \in Segments : b \in S
           f == [b \in input |-> <<seg(b), b>>]
<1>1. \A b \in input : seg(b) \in Segments /\ b \in seg(b)
  BY SegmentsCover, Zenon
<1>2. \A S \in Segments : S \subseteq input
  BY DEF Segments
<1>3. \A S \in Segments : \A b \in S : seg(b) = S
  <2> SUFFICES ASSUME NEW S \in Segments, NEW b \in S PROVE seg(b) = S
    BY Zenon
  <2>1. seg(b) \in Segments /\ b \in seg(b)
    BY <1>1, <1>2, Zenon
  <2> HIDE DEF seg
  <2>2. S \cap seg(b) # {}
    BY <2>1, Zenon
  <2> QED BY <2>1, <2>2, SegmentsApart, Zenon
<1> HIDE DEF seg
<1>4. SegmentBytes = {<<seg(b), b>> : b \in input}
  <2>1. ASSUME NEW x \in SegmentBytes PROVE x \in {<<seg(b), b>> : b \in input}
    <3>1. PICK S \in Segments : x \in {S} \X S
      BY Zenon DEF SegmentBytes
    <3>2. PICK b \in S : x = <<S, b>>
      BY <3>1
    <3> QED BY <1>2, <1>3, <3>2, Zenon
  <2>2. ASSUME NEW b \in input PROVE <<seg(b), b>> \in SegmentBytes
    <3>1. <<seg(b), b>> \in {seg(b)} \X seg(b) /\ seg(b) \in Segments
      BY <1>1, Zenon
    <3> QED BY <3>1, Zenon DEF SegmentBytes
  <2> QED BY <2>1, <2>2, Zenon
<1>5. f \in Bijection(input, SegmentBytes)
  <2>1. f \in [input -> SegmentBytes]
    BY <1>4, Zenon
  <2>2. \A x, y \in input : f[x] = f[y] => x = y
    BY Zenon
  <2>3. \A t \in SegmentBytes : \E x \in input : f[x] = t
    BY <1>4, Zenon
  <2> HIDE DEF f
  <2>4. f \in Injection(input, SegmentBytes)
    BY <2>1, <2>2, Zenon DEF Injection, IsInjective
  <2>5. f \in Surjection(input, SegmentBytes)
    BY <2>1, <2>3, Zenon DEF Surjection
  <2> QED BY <2>4, <2>5, Zenon DEF Bijection
<1> HIDE DEF f
<1>6. IsFiniteSet(input)
  BY PagesFinite, Zenon
<1> QED BY <1>5, <1>6, FS_Bijection, Zenon DEF ExistsBijection

(***************************************************************************)
(* The instructions of the first n accesses of h, each with its access,    *)
(* and how many they are.                                                  *)
(***************************************************************************)
Ticks(h, n) == UNION {{i} \X (1 .. h[i].cost) : i \in 1 .. n}

Tally(h, n) == Cardinality(Ticks(h, n))

(* How many numbers there are from 1 to n, and from m + 1 to m + k. *)
LEMMA NumbersUpTo ==
  ASSUME NEW n \in Nat
  PROVE  IsFiniteSet(1 .. n) /\ Cardinality(1 .. n) = n
<1>1. 1 \in Int /\ n \in Int
  OBVIOUS
<1>2. IsFiniteSet(1 .. n) /\ Cardinality(1 .. n) = IF 1 > n THEN 0 ELSE n - 1 + 1
  BY <1>1, FS_Interval, Zenon
<1> QED BY <1>2

LEMMA NumbersAfter ==
  ASSUME NEW m \in Nat, NEW k \in Nat
  PROVE  IsFiniteSet(m + 1 .. m + k) /\ Cardinality(m + 1 .. m + k) = k
<1> DEFINE first == m + 1
           last == m + k
<1>1. first \in Int /\ last \in Int
  OBVIOUS
<1> HIDE DEF first, last
<1>2. IsFiniteSet(first .. last)
      /\ Cardinality(first .. last) = IF first > last THEN 0 ELSE last - first + 1
  BY <1>1, FS_Interval, Zenon
<1> QED BY <1>2 DEF first, last

(* They are finitely many. *)
LEMMA TicksFinite ==
  ASSUME NEW h \in Seq(Accesses), NEW n \in 0 .. Len(h)
  PROVE  IsFiniteSet(Ticks(h, n)) /\ Tally(h, n) \in Nat
<1> DEFINE S == 1 .. n
           Rows == {{i} \X (1 .. h[i].cost) : i \in S}
           f == [i \in S |-> {i} \X (1 .. h[i].cost)]
<1>1. n \in Nat /\ S \subseteq 1 .. Len(h)
  OBVIOUS
<1>2. IsFiniteSet(S)
  BY <1>1, NumbersUpTo, Zenon
<1>3. f \in Surjection(S, Rows)
  BY Zenon DEF Surjection
<1>4. \A i \in S : h[i].cost \in Nat
  <2>1. \A i \in S : h[i] \in Accesses
    BY <1>1
  <2> QED BY <2>1, Zenon DEF Accesses
<1> HIDE DEF S
<1>5. IsFiniteSet(Rows)
  BY <1>2, <1>3, FS_Surjection, Zenon
<1>6. \A row \in Rows : IsFiniteSet(row)
  <2> SUFFICES ASSUME NEW i \in S PROVE IsFiniteSet({i} \X (1 .. h[i].cost))
    BY Zenon
  <2>1. IsFiniteSet(1 .. h[i].cost)
    BY <1>4, NumbersUpTo, Zenon
  <2>2. IsFiniteSet({i})
    BY FS_Singleton, Zenon
  <2> QED BY <2>1, <2>2, FS_Product, Zenon
<1>7. IsFiniteSet(UNION Rows)
  BY <1>5, <1>6, FS_UNION, Zenon
<1>8. IsFiniteSet(Ticks(h, n))
  BY <1>7, Zenon DEF Ticks, S
<1> QED BY <1>8, FS_CardinalityType, Zenon DEF Tally

(***************************************************************************)
(* k more accesses of c instructions each.                                 *)
(***************************************************************************)
LEMMA TallyGrows ==
  ASSUME NEW h \in Seq(Accesses), NEW m \in Nat, NEW k \in Nat, NEW c \in Nat, m + k <= Len(h),
         \A i \in m + 1 .. m + k : h[i].cost = c
  PROVE  Tally(h, m + k) = Tally(h, m) + k * c
<1> DEFINE K == m + 1 .. m + k
           X == Ticks(h, m)
           Y == K \X (1 .. c)
<1>1. Ticks(h, m + k) = X \cup Y
  <2>1. 1 .. m + k = (1 .. m) \cup K
    OBVIOUS
  <2>2. \A i \in K : {i} \X (1 .. h[i].cost) = {i} \X (1 .. c)
    BY Zenon
  <2> HIDE DEF K
  <2>3. ASSUME NEW x \in Ticks(h, m + k) PROVE x \in X \cup Y
    <3>1. PICK i \in 1 .. m + k : x \in {i} \X (1 .. h[i].cost)
      BY Zenon DEF Ticks
    <3>2. CASE i \in 1 .. m
      BY <3>1, <3>2, Zenon DEF Ticks
    <3>3. CASE i \in K
      BY <2>2, <3>1, <3>3
    <3> QED BY <2>1, <3>2, <3>3, Zenon
  <2>4. X \subseteq Ticks(h, m + k)
    BY <2>1, Zenon DEF Ticks
  <2>5. ASSUME NEW x \in Y PROVE x \in Ticks(h, m + k)
    <3>1. PICK i \in K, j \in 1 .. c : x = <<i, j>>
      OBVIOUS
    <3>2. x \in {i} \X (1 .. h[i].cost)
      BY <2>2, <3>1, Zenon
    <3> QED BY <2>1, <3>2, Zenon DEF Ticks
  <2> HIDE DEF X, Y
  <2> QED BY <2>3, <2>4, <2>5, Zenon
<1>2. X \cap Y = {}
  <2>1. \A x \in X : x[1] \in 1 .. m
    BY DEF Ticks
  <2>2. \A x \in Y : x[1] \in K
    BY Zenon
  <2>3. (1 .. m) \cap K = {}
    OBVIOUS
  <2> HIDE DEF X, Y, K
  <2> QED BY <2>1, <2>2, <2>3, Zenon
<1>3. IsFiniteSet(X) /\ Cardinality(X) \in Nat
  <2>1. m \in 0 .. Len(h)
    OBVIOUS
  <2> QED BY <2>1, TicksFinite, Zenon DEF Tally
<1>4. IsFiniteSet(Y) /\ Cardinality(Y) = k * c
  <2>1. IsFiniteSet(K) /\ Cardinality(K) = k
    BY NumbersAfter, Zenon
  <2>2. IsFiniteSet(1 .. c) /\ Cardinality(1 .. c) = c
    BY NumbersUpTo, Zenon
  <2> HIDE DEF K
  <2>3. IsFiniteSet(Y) /\ Cardinality(Y) = Cardinality(K) * Cardinality(1 .. c)
    BY <2>1, <2>2, FS_Product, Zenon
  <2> QED BY <2>1, <2>2, <2>3, Zenon
<1> HIDE DEF X, Y, K
<1>5. Cardinality(X \cup Y) = Cardinality(X) + Cardinality(Y) - Cardinality(X \cap Y)
  BY <1>3, <1>4, FS_Union, Zenon
<1>6. Cardinality(X \cap Y) = 0
  BY <1>2, FS_EmptySet, Zenon
<1>7. k * c \in Nat
  OBVIOUS
<1>8. Cardinality(X \cup Y) = Cardinality(X) + k * c
  BY <1>3, <1>4, <1>5, <1>6, <1>7
<1> QED BY <1>1, <1>8, Zenon DEF Tally, X

(***************************************************************************)
(* Accesses of c instructions each after those of h.                       *)
(***************************************************************************)
LEMMA TallyAppended ==
  ASSUME NEW h \in Seq(Accesses), NEW g \in Seq(Accesses), NEW c \in Nat,
         \A i \in 1 .. Len(g) : g[i].cost = c
  PROVE  Tally(h \o g, Len(h \o g)) = Tally(h, Len(h)) + Len(g) * c
<1> DEFINE m == Len(h)
           k == Len(g)
           d == h \o g
<1>1. /\ m \in Nat /\ k \in Nat /\ d \in Seq(Accesses) /\ Len(d) = m + k
      /\ \A i \in 1 .. m : d[i] = h[i]
      /\ \A i \in 1 .. k : d[m + i] = g[i]
  OBVIOUS
<1> HIDE DEF m, k, d
<1>2. \A i \in m + 1 .. m + k : d[i].cost = c
  <2> SUFFICES ASSUME NEW i \in m + 1 .. m + k PROVE d[i].cost = c
    BY Zenon
  <2>1. i - m \in 1 .. k /\ m + (i - m) = i
    BY <1>1
  <2>2. d[i] = g[i - m]
    BY <1>1, <2>1, Zenon
  <2> QED BY <2>1, <2>2, Zenon DEF k
<1>3. Tally(d, m + k) = Tally(d, m) + k * c
  <2>1. m + k <= Len(d) /\ d \in Seq(Accesses) /\ m \in Nat /\ k \in Nat
    BY <1>1
  <2> QED BY <1>2, <2>1, TallyGrows, ZenonT(30)
<1>4. Ticks(d, m) = Ticks(h, m)
  <2>1. \A i \in 1 .. m : {i} \X (1 .. d[i].cost) = {i} \X (1 .. h[i].cost)
    BY <1>1, Zenon
  <2> QED BY <2>1, Zenon DEF Ticks
<1> QED BY <1>1, <1>3, <1>4, Zenon DEF Tally, m, k, d

(* The more accesses, the more instructions. *)
LEMMA TallyMonotone ==
  ASSUME NEW h \in Seq(Accesses), NEW n \in 0 .. Len(h)
  PROVE  Tally(h, n) <= Tally(h, Len(h))
<1>1. Len(h) \in 0 .. Len(h) /\ 1 .. n \subseteq 1 .. Len(h)
  OBVIOUS
<1>2. Ticks(h, n) \in SUBSET Ticks(h, Len(h))
  BY <1>1, Zenon DEF Ticks
<1>3. IsFiniteSet(Ticks(h, Len(h)))
  BY <1>1, TicksFinite, Zenon
<1> QED BY <1>2, <1>3, FS_Subset, Zenon DEF Tally

(***************************************************************************)
(* What finish() has checked of a recipe it lets through.                  *)
(***************************************************************************)
Settled ==
  verdict = "recipe" =>
    /\ start \in Nat /\ start % PAGE = 0 /\ length \in Nat
    /\ start + Rounded(length) <= Output + Rounded(Length)
    /\ Code \subseteq pages /\ Code \cap Bases(written) = {}
    /\ Cardinality(RecipePages) * PAGE <= (length \div 4) + Spare

(***************************************************************************)
(* The recorder's count of instructions is that of the accesses it has     *)
(* seen, and the replay's that of the accesses it has made.                *)
(***************************************************************************)
Metered ==
  /\ steps \in Nat /\ steps <= MaxSteps
  /\ verdict \in {"recording", "recipe"} => steps = Tally(history, Len(history))
  /\ phase = "running" => counted = Tally(history, at)

-----------------------------------------------------------------------------
(***************************************************************************)
(* Only finish() makes a recipe, and nothing changes one.                  *)
(***************************************************************************)
LEMMA OnlyFinishPublishes ==
  ASSUME [ReplayNext]_all, verdict' = "recipe"
  PROVE  Finish \/ UNCHANGED vars
<1>1. \A kind, a, n : Instruction(kind, a, n) => verdict' # "recipe"
  BY DEF Instruction, Read, Write
<1>2. \A w, k : InlineLoop(w, k) => verdict' # "recipe"
  BY Zenon DEF InlineLoop, Write, LoopRejected
<1>3. \A k : InlineSpin(k) => verdict' # "recipe"
  BY Zenon DEF InlineSpin
<1>4. GiveUp => verdict' # "recipe"
  BY Zenon DEF GiveUp, Reject
<1>5. (\E hooks \in BOOLEAN : Start(hooks)) \/ Execute \/ Stop \/ Over \/ UNCHANGED all
         => UNCHANGED vars
  BY Zenon DEF Start, Execute, Stop, Over, all
<1> QED BY <1>1, <1>2, <1>3, <1>4, <1>5, ZenonT(30) DEF ReplayNext

(* What finish() has checked stays so. *)
LEMMA SettledStays ==
  ASSUME IInv, Settled, [ReplayNext]_all
  PROVE  Settled'
<1> SUFFICES ASSUME verdict' = "recipe" PROVE Settled'
  BY Zenon DEF Settled
<1>1. CASE UNCHANGED vars
  <2>1. UNCHANGED <<verdict, start, length, pages, written>>
    BY <1>1, Zenon DEF vars, recorder, region
  <2>2. RecipePages' = RecipePages
    BY <2>1, Zenon DEF RecipePages
  <2> QED BY <2>1, <2>2, Zenon DEF Settled
<1>2. CASE Finish
  <2>1. PICK s \in Nat, n \in Nat, f \in Int, W \in SUBSET Byte :
               Conclude(s, n, W, f) /\ Chosen(s, n, W, f)
    BY <1>2, FinishChooses, Zenon
  <2>2. start' = s /\ length' = n /\ Code \subseteq pages'
    BY <2>1, Zenon DEF Conclude
  <2>3. Code \cap Bases(written') = {} /\ Cardinality(Scratch(s, n)) * PAGE <= (n \div 4) + Spare
    BY <2>1, Zenon DEF Conclude
  <2>4. RecipePages' = Scratch(s, n)
    BY <2>2, Zenon DEF RecipePages, Scratch
  <2>5. s % PAGE = 0 /\ s + Rounded(n) <= Output + Rounded(Length)
    BY <2>1, Zenon DEF Chosen
  <2> QED BY <2>2, <2>3, <2>4, <2>5, Zenon DEF Settled
<1> QED BY <1>1, <1>2, OnlyFinishPublishes, Zenon

-----------------------------------------------------------------------------
(***************************************************************************)
(* g, of accesses of c instructions each, is added to the history.         *)
(***************************************************************************)
LEMMA MeteredGrows ==
  ASSUME Metered, RInv, verdict = "recording", UNCHANGED replay,
         NEW g \in Seq(Accesses), NEW c \in Nat, history' = history \o g,
         \A i \in 1 .. Len(g) : g[i].cost = c,
         \/ verdict' = "rejected" /\ steps' = steps
         \/ steps' = steps + Len(g) * c /\ Len(g) * c <= MaxSteps - steps
  PROVE  Metered'
<1>1. history \in Seq(Accesses) /\ phase' = "capture"
  BY Zenon DEF RInv, Explained, replay
<1>2. Tally(history', Len(history')) = Tally(history, Len(history)) + Len(g) * c
  BY <1>1, TallyAppended, Zenon
<1>3. steps \in Nat /\ steps <= MaxSteps /\ steps = Tally(history, Len(history)) /\ MaxSteps \in Nat
  BY ReplayAssumption, Zenon DEF Metered
<1>4. Len(g) * c \in Nat
  <2>1. Len(g) \in Nat
    OBVIOUS
  <2> QED BY <2>1
<1>5. steps' \in Nat /\ steps' <= MaxSteps
  BY <1>3, <1>4
<1>6. verdict' \in {"recording", "recipe"} => steps' = Tally(history', Len(history'))
  BY <1>2, <1>3, Zenon
<1> QED BY <1>1, <1>5, <1>6, Zenon DEF Metered

(* One instruction is counted. *)
LEMMA InstructionMetered ==
  ASSUME IInv, RInv, Metered, NEW a \in Byte, NEW n \in 1 .. MaxAccess,
         NEW kind \in {"read", "write"}, a + n <= Memory, Instruction(kind, a, n)
  PROVE  Metered'
<1> DEFINE e == Access(kind, a, n, 1)
           g == <<e>>
<1>1. Span(a, n) \subseteq Byte
  BY ConstantsAssumption DEF Byte, Span
<1>2. e \in Accesses /\ e.cost = 1
  <2>1. e \in Accesses
    BY <1>1, AccessTyped, Zenon
  <2> QED BY <2>1, Zenon DEF Access
<1>3. verdict = "recording" /\ UNCHANGED replay /\ history' = Append(history, e)
  BY Zenon DEF Instruction, Read, Write
<1>4. steps < MaxSteps /\ steps' = steps + 1
  BY Zenon DEF Instruction
<1> HIDE DEF e
<1>5. g \in Seq(Accesses) /\ Len(g) = 1 /\ g[1] = e
  BY <1>2
<1>6. history' = history \o g
  BY <1>2, <1>3, AppendOne, Zenon DEF RInv, Explained
<1> HIDE DEF g
<1>7. steps' = steps + Len(g) * 1 /\ Len(g) * 1 <= MaxSteps - steps
  BY <1>4, <1>5, ReplayAssumption, SMTT(20) DEF Metered
<1>8. \A i \in 1 .. Len(g) : g[i].cost = 1
  BY <1>2, <1>5
<1> QED BY <1>3, <1>5, <1>6, <1>7, <1>8, MeteredGrows, Zenon

(* A loop that stores counts its iterations, unless it is given up. *)
LEMMA LoopMetered ==
  ASSUME IInv, RInv, Metered, NEW w \in 1 .. MaxAccess, NEW k \in 1 .. MaxIterations,
         InlineLoop(w, k)
  PROVE  Metered'
<1> DEFINE a == last_store_end
           e(i) == Access("write", a + (i - 1) * w, w, Body)
           g == [i \in 1 .. k |-> e(i)]
<1>1. a \in Output .. Output + Length /\ a + k * w <= Memory /\ history' = history \o g
  BY Zenon DEF InlineLoop
<1>2. \/ verdict = "recording" /\ verdict' = "rejected" /\ steps' = steps
      \/ verdict = "recording" /\ steps' = steps + k * Body /\ k * Body <= MaxSteps - steps
  BY Zenon DEF InlineLoop, Write, LoopRejected, LoopSteps
<1>3. UNCHANGED replay
  BY Zenon DEF InlineLoop
<1>4. a \in Int /\ 0 <= a /\ w \in Nat \ {0} /\ k \in Nat /\ k * w \in Nat
  BY <1>1, ConstantsAssumption, ReplayAssumption
<1> HIDE DEF a
<1>5. Span(a, k * w) \subseteq Byte
  BY <1>1, <1>4, ConstantsAssumption DEF Span, Byte
<1>6. \A i \in 1 .. k : e(i) \in Accesses /\ e(i).cost = Body
  <2> SUFFICES ASSUME NEW i \in 1 .. k PROVE e(i) \in Accesses /\ e(i).cost = Body
    BY Zenon
  <2>1. Span(a + (i - 1) * w, w) \subseteq Byte
    BY <1>4, <1>5, LoopCovers, Zenon
  <2>2. e(i) \in Accesses
    BY <2>1, AccessTyped, ReplayAssumption, Zenon
  <2> QED BY <2>2, Zenon DEF Access
<1> HIDE DEF e
<1>7. g \in Seq(Accesses) /\ Len(g) = k /\ \A i \in 1 .. Len(g) : g[i].cost = Body
  BY <1>4, <1>6
<1> HIDE DEF g
<1> QED BY <1>1, <1>2, <1>3, <1>7, ReplayAssumption, MeteredGrows, Zenon

(* So does one without a store. *)
LEMMA SpinMetered ==
  ASSUME IInv, RInv, Metered, NEW k \in 1 .. MaxIterations, InlineSpin(k)
  PROVE  Metered'
<1> DEFINE e == Access("read", 0, 0, Body)
           g == [i \in 1 .. k |-> e]
<1>1. verdict = "recording" /\ UNCHANGED replay /\ history' = history \o g
  BY Zenon DEF InlineSpin
<1>2. \/ verdict' = "rejected" /\ steps' = steps
      \/ steps' = steps + k * Body /\ k * Body <= MaxSteps - steps
  BY Zenon DEF InlineSpin, LoopSteps
<1>3. e \in Accesses /\ e.cost = Body
  <2>1. Span(0, 0) \subseteq Byte
    BY DEF Span
  <2>2. e \in Accesses
    BY <2>1, AccessTyped, ReplayAssumption, Zenon
  <2> QED BY <2>2, Zenon DEF Access
<1> HIDE DEF e
<1>4. k \in Nat
  BY ReplayAssumption
<1>5. g \in Seq(Accesses) /\ Len(g) = k /\ \A i \in 1 .. Len(g) : g[i].cost = Body
  BY <1>3, <1>4
<1> HIDE DEF g
<1> QED BY <1>1, <1>2, <1>5, ReplayAssumption, MeteredGrows, Zenon

(***************************************************************************)
(* The replay makes the next access, or stops short of it.                 *)
(***************************************************************************)
LEMMA ExecuteMetered ==
  ASSUME RInv, Metered, Execute
  PROVE  /\ Metered'
         /\ Denied(history[at + 1]) # "replay instruction bound exceeded"
<1> DEFINE h == history[at + 1]
           n == at + 1
<1>1. /\ phase = "running" /\ at < Len(history) /\ counted' = counted + h.cost
      /\ UNCHANGED <<verdict, history, steps>>
  BY Zenon DEF Execute, vars, captured
<1>2. history \in Seq(Accesses) /\ at \in 0 .. Len(history) /\ verdict = "recipe"
  BY <1>1, Zenon DEF RInv, Explained, Follows
<1>3. /\ at \in Nat /\ n \in 1 .. Len(history) /\ n \in 0 .. Len(history) /\ n <= Len(history)
      /\ h \in Accesses
  <2>1. Len(history) \in Nat
    BY <1>2
  <2>2. at \in Nat /\ n \in 1 .. Len(history) /\ n \in 0 .. Len(history) /\ n <= Len(history)
    BY <1>1, <1>2, <2>1
  <2> QED BY <1>2, <2>2
<1>4. h.cost \in Nat
  BY <1>3, Zenon DEF Accesses
<1>5. Tally(history, n) = Tally(history, at) + h.cost
  <2>1. \A i \in at + 1 .. at + 1 : history[i].cost = h.cost
    BY <1>3
  <2>2. Tally(history, at + 1) = Tally(history, at) + 1 * h.cost
    <3>1. at \in Nat /\ at + 1 <= Len(history) /\ 1 \in Nat
      BY <1>3, Zenon
    <3> HIDE DEF h
    <3> QED BY <1>2, <1>4, <2>1, <3>1, TallyGrows, ZenonT(30)
  <2> QED BY <1>4, <2>2
<1>6. counted = Tally(history, at) /\ steps = Tally(history, Len(history)) /\ steps \in Nat
  BY <1>1, <1>2, Zenon DEF Metered
<1>7. Tally(history, n) <= steps /\ Tally(history, n) \in Nat /\ Tally(history, at) \in Nat
  <2>1. Tally(history, n) \in Nat /\ Tally(history, at) \in Nat
    BY <1>2, <1>3, TicksFinite, Zenon
  <2>2. Tally(history, n) <= steps
    BY <1>2, <1>3, <1>6, TallyMonotone, Zenon
  <2> QED BY <2>1, <2>2, Zenon
<1> HIDE DEF h, n
<1>8. ~(counted + h.cost > steps)
  BY <1>4, <1>5, <1>6, <1>7
<1>9. Denied(h) # "replay instruction bound exceeded" /\ Denied(h) # "running"
  BY <1>8, Zenon DEF Denied
<1>10. phase' = "running" => at' = n
  BY <1>9, Zenon DEF Execute, h, n
<1>11. Metered'
  <2>1. phase' = "running" => counted' = Tally(history', at')
    BY <1>1, <1>5, <1>6, <1>10, Zenon
  <2> QED BY <1>1, <2>1, Zenon DEF Metered
<1> QED BY <1>9, <1>11, Zenon DEF h

(* Every step keeps the counts. *)
LEMMA MeteredStays ==
  ASSUME IInv, RInv, Metered, [ReplayNext]_all
  PROVE  Metered'
<1>1. CASE Finish \/ GiveUp
  <2>1. verdict = "recording" /\ UNCHANGED <<history, steps>> /\ UNCHANGED replay
    BY <1>1, Zenon DEF Finish, GiveUp, FinishWhole, FinishRegion, Reject, captured
  <2>2. phase' = "capture"
    BY <2>1, Zenon DEF RInv, replay
  <2> QED BY <2>1, <2>2, Zenon DEF Metered
<1>2. ASSUME NEW hooks \in BOOLEAN, Start(hooks) PROVE Metered'
  <2>1. UNCHANGED <<verdict, history, steps>> /\ at' = 0 /\ counted' = 0
    BY <1>2, Zenon DEF Start, vars, captured
  <2>2. Tally(history, 0) = 0
    <3>1. 1 .. 0 = {}
      OBVIOUS
    <3>2. Ticks(history, 0) = {}
      BY <3>1, Zenon DEF Ticks
    <3> QED BY <3>2, FS_EmptySet, Zenon DEF Tally
  <2>3. counted' = Tally(history', at')
    BY <2>1, <2>2, Zenon
  <2> QED BY <2>1, <2>3, Zenon DEF Metered
<1>3. CASE Stop
  <2>1. UNCHANGED <<verdict, history, steps>> /\ \E other \in BOOLEAN : phase' = Conclusion(other)
    BY <1>3, Zenon DEF Stop, vars, captured
  <2>2. phase' # "running"
    BY <2>1, Zenon DEF Conclusion
  <2> QED BY <2>1, <2>2, Zenon DEF Metered
<1>4. CASE Over \/ UNCHANGED all
  <2>1. UNCHANGED <<verdict, history, steps, phase, counted, at>>
    BY <1>4, Zenon DEF Over, all, vars, captured, replay
  <2> QED BY <2>1, Zenon DEF Metered
<1> QED BY <1>1, <1>2, <1>3, <1>4, InstructionMetered, LoopMetered, SpinMetered, ExecuteMetered, Zenon
    DEF ReplayNext

-----------------------------------------------------------------------------
(* The instructions stay the ones the producer runs. *)
LEMMA CodeStays ==
  ASSUME [ReplayNext]_all
  PROVE  code' = code
<1>1. \A kind, x, n : Instruction(kind, x, n) => code' = code
  BY Zenon DEF Instruction
<1>2. \A w, k : InlineLoop(w, k) => code' = code
  BY Zenon DEF InlineLoop
<1>3. \A k : InlineSpin(k) => code' = code
  BY Zenon DEF InlineSpin
<1>4. Finish \/ GiveUp => code' = code
  BY Zenon DEF Finish, GiveUp, captured
<1>5. (\E hooks \in BOOLEAN : Start(hooks)) \/ Execute \/ Stop \/ Over \/ UNCHANGED all => code' = code
  BY Zenon DEF Start, Execute, Stop, Over, all, captured
<1> QED BY <1>1, <1>2, <1>3, <1>4, <1>5, ZenonT(30) DEF ReplayNext

(* The limit of scratch keeps the pages of a recipe below decode()'s. *)
LEMMA PagesBelow ==
  ASSUME IInv, Paged, Settled, verdict = "recipe"
  PROVE  ~(Cardinality(RecipePages) > MaxPages)
<1> DEFINE r == Cardinality(RecipePages)
           z == length \div 4
           y == Length \div 4
<1>1. length \in Nat /\ start \in Nat /\ r * PAGE <= z + Spare
  BY Zenon DEF Settled
<1>2. r \in Nat
  <2>1. RecipePages \subseteq Byte
    BY Zenon DEF Paged, RecipePages
  <2> QED BY <2>1, PagesFinite, Zenon
<1>3. length <= Length /\ Length \in Nat
  BY <1>1, ConstantsAssumption DEF IInv, Bounded
<1>4. z \in Nat /\ y \in Nat /\ z <= y
  BY <1>1, <1>3
<1>5. PAGE \in Nat /\ PAGE > 0 /\ Spare \in Nat
  BY ConstantsAssumption
<1>6. MaxPages \in Nat /\ y + Spare <= MaxPages * PAGE
  BY ReplayAssumption, Zenon
<1> HIDE DEF r, z, y
<1>7. SUFFICES ASSUME r > MaxPages PROVE FALSE
  BY Zenon DEF r
<1>8. r * PAGE >= (MaxPages + 1) * PAGE /\ (MaxPages + 1) * PAGE = MaxPages * PAGE + PAGE
  BY <1>2, <1>5, <1>6, <1>7
<1>9. r * PAGE \in Nat /\ MaxPages * PAGE \in Nat /\ (MaxPages + 1) * PAGE \in Nat
  BY <1>2, <1>5, <1>6
<1> QED BY <1>1, <1>4, <1>5, <1>6, <1>8, <1>9

(***************************************************************************)
(* decode() accepts the recipe unless it has too many segments or          *)
(* instructions that overlap.                                              *)
(***************************************************************************)
LEMMA Decodes ==
  ASSUME IInv, Paged, Settled, Metered, code \in Layouts, verdict = "recipe"
  PROVE  \/ Undecodable = ""
         \/ Undecodable = "invalid recipe header" /\ Cardinality(Segments) > MaxInputs
         \/ Undecodable = "overlapping recipe instructions" /\ CodeOverlaps
<1>1. input \subseteq Byte
  BY Zenon DEF IInv, Types
<1>2. ~(steps > MaxSteps)
  BY ReplayAssumption DEF Metered
<1>3. Cardinality(SegmentBytes) = Cardinality(input)
  BY <1>1, SegmentsCount, Zenon
<1>4. \A S, T \in Segments : ~(S # T /\ S \cap T # {})
  BY <1>1, SegmentsApart, Zenon
<1>5. ~\E b \in CodeBytes \cap input : data[b] # "old"
  BY Zenon DEF IInv, InputsExact
<1>6. ~(Cardinality(code) > MaxCode)
  <2>1. Cardinality(code) <= MaxCode /\ IsFiniteSet(code) /\ MaxCode \in Nat
    BY ReplayAssumption, Zenon
  <2>2. Cardinality(code) \in Nat
    BY <2>1, FS_CardinalityType, Zenon
  <2> QED BY <2>1, <2>2
<1>7. ~(Cardinality(RecipePages) > MaxPages)
  BY PagesBelow, Zenon
<1>8. HeaderInvalid => Cardinality(Segments) > MaxInputs
  BY <1>2, <1>6, <1>7, Zenon DEF HeaderInvalid
<1>9. \/ Undecodable = ""
      \/ Undecodable = "invalid recipe header" /\ HeaderInvalid
      \/ Undecodable = "overlapping recipe instructions" /\ CodeOverlaps
  BY <1>3, <1>4, <1>5, Zenon DEF Undecodable
<1> QED BY <1>8, <1>9, Zenon

(***************************************************************************)
(* The pages of a region are as many as its rounded length has.            *)
(***************************************************************************)
LEMMA OutputPagesBounded ==
  ASSUME start \in Nat, start % PAGE = 0, length \in Nat
  PROVE  /\ IsFiniteSet(OutputPages) /\ Cardinality(OutputPages) \in Nat
         /\ Cardinality(OutputPages) * PAGE <= Rounded(length)
<1>1. PAGE \in Nat /\ PAGE > 0
  BY ConstantsAssumption
<1>2. PICK q \in Nat : Rounded(length) = q * PAGE
  BY RoundedUp, Zenon
<1>3. PICK t \in Int : start = t * PAGE
  <2> DEFINE d == start \div PAGE
             r == start % PAGE
  <2>1. d \in Int /\ start = d * PAGE + r /\ r = 0
    BY start \in Int, Division, Zenon
  <2> HIDE DEF d, r
  <2>2. d * PAGE \in Int
    BY <1>1, <2>1
  <2> QED BY <2>1, <2>2
<1> DEFINE place(i) == start + (i - 1) * PAGE
           T == {place(i) : i \in 1 .. q}
           f == [i \in 1 .. q |-> place(i)]
<1>4. OutputPages \subseteq T
  <2> SUFFICES ASSUME NEW b \in Span(start, Rounded(length)) PROVE Base(b) \in T
    BY Zenon DEF OutputPages, Bases
  <2> DEFINE x == q * PAGE
             d == b - start
             i == d \div PAGE
             z == i * PAGE
  <2>1. b \in Nat /\ start <= b /\ d \in Nat /\ d < x /\ x \in Nat
    <3>1. x \in Nat /\ Rounded(length) = x
      BY <1>1, <1>2
    <3> HIDE DEF x
    <3> QED BY <3>1 DEF Span
  <2>2. i \in Int /\ z <= d /\ d < z + PAGE /\ i >= 0
    <3> HIDE DEF d
    <3> QED BY <1>1, <2>1
  <2> HIDE DEF i
  <2>3. z \in Nat
    BY <1>1, <2>2
  <2>4. i < q
    <3>1. SUFFICES ASSUME q <= i PROVE FALSE
      BY <2>2
    <3>2. x <= z
      BY <1>1, <2>2, <3>1
    <3> HIDE DEF x, z, d
    <3> QED BY <2>1, <2>2, <2>3, <3>2
  <2>5. start + z = (t + i) * PAGE /\ t + i \in Int
    BY <1>1, <1>3, <2>2
  <2>6. (start + z) % PAGE = 0
    BY <2>5, Multiple
  <2>7. start + z \in Nat /\ start + z <= b /\ b < start + z + PAGE
    <3> HIDE DEF z
    <3> QED BY <1>1, <2>1, <2>2, <2>3
  <2>8. Base(b) = start + z
    BY <2>1, <2>6, <2>7, PageOf, Zenon
  <2>9. i + 1 \in 1 .. q /\ place(i + 1) = start + z
    BY <2>2, <2>4
  <2> HIDE DEF place, z
  <2> QED BY <2>8, <2>9, Zenon
<1>5. IsFiniteSet(T) /\ Cardinality(T) <= q /\ Cardinality(T) \in Nat
  <2>1. IsFiniteSet(1 .. q) /\ Cardinality(1 .. q) = q
    BY NumbersUpTo, Zenon
  <2> HIDE DEF place
  <2>2. f \in Surjection(1 .. q, T)
    BY Zenon DEF Surjection
  <2> HIDE DEF T, f
  <2>3. IsFiniteSet(T) /\ Cardinality(T) <= Cardinality(1 .. q)
    BY <2>1, <2>2, FS_Surjection, Zenon
  <2>4. Cardinality(T) \in Nat
    BY <2>3, FS_CardinalityType, Zenon
  <2> QED BY <2>1, <2>3, <2>4, Zenon
<1> HIDE DEF T
<1>6. IsFiniteSet(OutputPages) /\ Cardinality(OutputPages) <= Cardinality(T)
  BY <1>4, <1>5, FS_Subset, Zenon
<1> DEFINE c == Cardinality(OutputPages)
<1>7. c \in Nat
  BY <1>6, FS_CardinalityType, Zenon
<1> HIDE DEF c
<1>8. c <= q
  BY <1>5, <1>6, <1>7 DEF c
<1>9. c * PAGE <= q * PAGE
  BY <1>1, <1>7, <1>8
<1> QED BY <1>2, <1>6, <1>7, <1>9, Zenon DEF c

(***************************************************************************)
(* run() maps the pages the recorder listed and the region's.              *)
(***************************************************************************)
LEMMA AllMapped ==
  ASSUME Paged, Settled, verdict = "recipe"
  PROVE  /\ pages \subseteq MappedPages /\ MappedPages = RecipePages \cup OutputPages
         /\ Bases(Span(start, length)) \subseteq OutputPages
<1>1. start \in Nat /\ start % PAGE = 0 /\ length \in Nat /\ Code \subseteq pages
  BY Zenon DEF Settled
<1>2. Rounded(length) \in Nat /\ length <= Rounded(length)
  BY <1>1, RoundedUp, Zenon
<1>3. pages \subseteq RecipePages \cup OutputPages
  <2> SUFFICES ASSUME NEW p \in pages, p \notin RecipePages PROVE p \in OutputPages
    BY Zenon
  <2>1. p \in Nat /\ p % PAGE = 0
    BY DEF Paged, Byte
  <2>2. p \in Span(start, Rounded(length))
    BY <1>1, <1>2, <2>1 DEF RecipePages, Span
  <2>3. Base(p) = p
    BY <2>1 DEF Base
  <2> QED BY <2>2, <2>3, Zenon DEF OutputPages, Bases
<1>4. Span(start, length) \subseteq Span(start, Rounded(length))
  BY <1>1, <1>2 DEF Span
<1>5. Bases(Span(start, length)) \subseteq OutputPages
  BY <1>4, Zenon DEF OutputPages, Bases
<1> QED BY <1>1, <1>3, <1>5, Zenon DEF MappedPages

(* run() finds the pages within the budget, the inputs in them, and no code in the region. *)
LEMMA Maps ==
  ASSUME IInv, Paged, Settled, verdict = "recipe"
  PROVE  Unmappable = ""
<1>1. /\ start \in Nat /\ start % PAGE = 0 /\ length \in Nat
      /\ start + Rounded(length) <= Output + Rounded(Length)
      /\ Cardinality(RecipePages) * PAGE <= (length \div 4) + Spare
  BY Zenon DEF Settled
<1>2. MappedPages = RecipePages \cup OutputPages /\ pages \subseteq MappedPages
  BY AllMapped, Zenon
<1> DEFINE R == RecipePages
           O == OutputPages
           r == Cardinality(R)
           o == Cardinality(O)
           x == Rounded(length)
           z == length \div 4
           m == Cardinality(MappedPages)
<1>3. IsFiniteSet(R) /\ r \in Nat
  <2>1. R \subseteq Byte
    BY Zenon DEF Paged, RecipePages
  <2> QED BY <2>1, PagesFinite, Zenon
<1>4. IsFiniteSet(O) /\ o \in Nat /\ o * PAGE <= x
  BY <1>1, OutputPagesBounded, Zenon
<1>5. m \in Nat /\ m <= r + o
  <2>1. m = r + o - Cardinality(R \cap O)
    BY <1>2, <1>3, <1>4, FS_Union, Zenon
  <2>2. IsFiniteSet(R \cap O)
    BY <1>3, R \cap O \in SUBSET R, FS_Subset, Zenon
  <2>3. Cardinality(R \cap O) \in Nat
    BY <2>2, FS_CardinalityType, Zenon
  <2>4. IsFiniteSet(MappedPages)
    BY <1>2, <1>3, <1>4, FS_Union, Zenon
  <2>5. m \in Nat
    BY <2>4, FS_CardinalityType, Zenon
  <2> HIDE DEF m, r, o, R, O
  <2> QED BY <1>3, <1>4, <2>1, <2>3, <2>5
<1>6. PAGE \in Nat /\ Spare \in Nat /\ x \in Nat /\ z \in Nat
  <2>1. x \in Nat
    BY <1>1, RoundedUp, Zenon
  <2>2. z \in Nat
    BY <1>1
  <2> QED BY <2>1, <2>2, ConstantsAssumption, Zenon
<1>7. r * PAGE <= z + Spare
  BY <1>1, Zenon
<1>8. ~(m * PAGE > x + z + Spare)
  <2> HIDE DEF m, r, o, x, z
  <2>1. m * PAGE <= (r + o) * PAGE /\ (r + o) * PAGE = r * PAGE + o * PAGE
    BY <1>3, <1>4, <1>5, <1>6
  <2>2. r * PAGE \in Nat /\ o * PAGE \in Nat /\ m * PAGE \in Nat
    BY <1>3, <1>4, <1>5, <1>6
  <2> QED BY <1>4, <1>6, <1>7, <2>1, <2>2, SMTT(20)
<1>9. Bases(input) \subseteq MappedPages
  BY <1>2, Zenon DEF IInv, Listed, Bases
<1>10. Code \cap Span(start, Rounded(length)) = {}
  <2>1. Output <= start /\ Output \in Nat /\ Rounded(Length) \in Nat
    BY RoundedUp, ConstantsAssumption, Zenon DEF IInv, Bounded
  <2>2. Span(start, Rounded(length)) \subseteq Span(Output, Rounded(Length))
    BY <1>1, <1>6, <2>1 DEF Span
  <2> QED BY <2>2, ReplayAssumption, Zenon
<1> QED BY <1>8, <1>9, <1>10, Zenon DEF Unmappable

(***************************************************************************)
(* The pages of an access the producer made are mapped, and one it wrote   *)
(* holds no instruction.                                                   *)
(***************************************************************************)
LEMMA Allowed ==
  ASSUME IInv, RInv, Paged, Settled, verdict = "recipe", NEW i \in 1 .. Len(history)
  PROVE  /\ Bases(history[i].span) \subseteq MappedPages
         /\ history[i].kind = "write" => Bases(history[i].span) \cap Code = {}
<1> DEFINE h == history[i]
<1>1. h \in Accesses /\ Len(history) \in Nat
  BY DEF RInv, Explained
<1>2. h.span \subseteq Byte /\ h.kind \in {"read", "write"}
  BY <1>1, Zenon DEF Accesses
<1>3. \A b \in Byte : Wrote(history, b, i) => b \in stored
  BY <1>1 DEF RInv, Explained, Wrote
<1>4. h.kind = "write" => h.span \subseteq stored
  <2> SUFFICES ASSUME h.kind = "write", NEW b \in h.span PROVE b \in stored
    BY Zenon
  <2>1. i \in 1 .. i
    BY <1>1
  <2>2. Wrote(history, b, i)
    BY <2>1, Zenon DEF Wrote
  <2> QED BY <1>2, <1>3, <2>2, Zenon
<1>5. h.kind = "read" => h.span \subseteq consumed \cup stored
  <2> SUFFICES ASSUME h.kind = "read", NEW b \in h.span PROVE b \in consumed \cup stored
    BY Zenon
  <2>1. Wrote(history, b, i - 1) \/ b \in consumed
    BY Zenon DEF RInv, Explained
  <2>2. Wrote(history, b, i - 1) => Wrote(history, b, i)
    BY <1>1 DEF Wrote
  <2> QED BY <1>2, <1>3, <2>1, <2>2, Zenon
<1> HIDE DEF h
<1>6. h.span \subseteq consumed \cup stored
  BY <1>2, <1>4, <1>5, Zenon
<1>7. Bases(h.span) \subseteq MappedPages
  <2>1. Bases(consumed \cup stored) \subseteq pages \cup Bases(Span(start, length))
    BY FootprintHeld, Zenon DEF FootprintMapped
  <2>2. pages \cup Bases(Span(start, length)) \subseteq MappedPages
    BY AllMapped, Zenon
  <2>3. Bases(h.span) \subseteq Bases(consumed \cup stored)
    BY <1>6, Zenon DEF Bases
  <2> QED BY <2>1, <2>2, <2>3, Zenon
<1>8. \A b \in stored : Base(b) \notin Code
  <2> SUFFICES ASSUME NEW b \in stored PROVE Base(b) \notin Code
    BY Zenon
  <2>1. CASE b \in written
    BY <2>1, Zenon DEF Settled, Bases
  <2>2. CASE b \notin written
    <3>1. start \in Nat /\ start % PAGE = 0 /\ length \in Nat
      BY Zenon DEF Settled
    <3>2. b \in start .. frontier - 1 /\ frontier = start + length
      BY <2>2, Zenon DEF IInv, WritesKept, Produced
    <3>3. b \in Nat /\ start <= b /\ b < start + length
      BY <3>1, <3>2
    <3>4. start <= Base(b) /\ Base(b) \in Nat /\ Base(b) <= b
      BY <3>1, <3>3, PageBelow, BaseOf, Zenon
    <3>5. Output <= start /\ start + length <= Output + Length /\ Output \in Nat /\ Length \in Nat
      BY ConstantsAssumption, Zenon DEF IInv, Bounded
    <3>6. Length <= Rounded(Length) /\ Rounded(Length) \in Nat
      BY <3>5, RoundedUp, Zenon
    <3>7. Base(b) \in Span(Output, Rounded(Length))
      BY <3>1, <3>3, <3>4, <3>5, <3>6 DEF Span
    <3> QED BY <3>7, ReplayAssumption, Zenon
  <2> QED BY <2>1, <2>2, Zenon
<1>9. h.kind = "write" => Bases(h.span) \cap Code = {}
  BY <1>4, <1>8, Zenon DEF Bases
<1> QED BY <1>7, <1>9, Zenon DEF h

(***************************************************************************)
(* Whether the exceptions hold depends on what stays the same once there   *)
(* is a recipe.                                                            *)
(***************************************************************************)
LEMMA ExceptionsStay ==
  ASSUME UNCHANGED vars, code' = code
  PROVE  /\ EncodedSize' = EncodedSize /\ length' = length
         /\ Cardinality(Segments)' = Cardinality(Segments) /\ CodeOverlaps' = CodeOverlaps
<1>1. UNCHANGED <<input, pages, start, length>>
  BY Zenon DEF vars, recorder, region
<1>2. Segments' = Segments
  BY <1>1 DEF Segments
<1>3. RecipePages' = RecipePages
  BY <1>1, Zenon DEF RecipePages
<1>4. EncodedSize' = EncodedSize
  BY <1>1, <1>2, <1>3, Zenon DEF EncodedSize
<1> QED BY <1>1, <1>2, <1>4, Zenon DEF CodeOverlaps

(***************************************************************************)
(* The start, an access and the end of a replay find nothing to refuse,    *)
(* the exceptions aside.                                                   *)
(***************************************************************************)
LEMMA StartAccepts ==
  ASSUME IInv, Paged, Settled, Metered, code \in Layouts, NEW hooks \in BOOLEAN, Start(hooks)
  PROVE  AcceptsRecorded'
<1>1. verdict = "recipe" /\ UNCHANGED vars /\ code' = code
  BY Zenon DEF Start, captured
<1>2. phase' = IF Refusal # "" THEN Refusal ELSE "running"
  BY Zenon DEF Start
<1>3. \/ Undecodable = ""
      \/ Undecodable = "invalid recipe header" /\ Cardinality(Segments) > MaxInputs
      \/ Undecodable = "overlapping recipe instructions" /\ CodeOverlaps
  BY <1>1, Decodes, Zenon
<1>4. Unmappable = ""
  BY <1>1, Maps, Zenon
<1>5. /\ Unencodable = "" \/ (Unencodable = "recipe exceeds 64 MiB limit" /\ EncodedSize > MaxBlob)
      /\ \/ Unsubmittable = ""
         \/ Unsubmittable = "recipe is not smaller than output" /\ EncodedSize >= length
  BY Zenon DEF Unencodable, Unsubmittable
<1>6. \/ Refusal = ""
      \/ Refusal = "recipe exceeds 64 MiB limit" /\ EncodedSize > MaxBlob
      \/ Refusal = "recipe is not smaller than output" /\ EncodedSize >= length
      \/ Refusal = "invalid recipe header" /\ Cardinality(Segments) > MaxInputs
      \/ Refusal = "overlapping recipe instructions" /\ CodeOverlaps
  BY <1>3, <1>4, <1>5, Zenon DEF Refusal
<1>7. \/ phase' = "running"
      \/ phase' = "recipe exceeds 64 MiB limit" /\ EncodedSize > MaxBlob
      \/ phase' = "recipe is not smaller than output" /\ EncodedSize >= length
      \/ phase' = "invalid recipe header" /\ Cardinality(Segments) > MaxInputs
      \/ phase' = "overlapping recipe instructions" /\ CodeOverlaps
  BY <1>2, <1>6, Zenon
<1>8. /\ EncodedSize' = EncodedSize /\ length' = length
      /\ Cardinality(Segments)' = Cardinality(Segments) /\ CodeOverlaps' = CodeOverlaps
  BY <1>1, ExceptionsStay, Zenon
<1> QED BY <1>7, <1>8, Zenon DEF AcceptsRecorded

(* An access finds its pages mapped and its instructions within the count. *)
LEMMA ExecuteAccepts ==
  ASSUME IInv, RInv, RInv', Paged, Settled, Metered, Execute
  PROVE  AcceptsRecorded'
<1> DEFINE h == history[at + 1]
<1>1. phase = "running" /\ at < Len(history)
  BY Zenon DEF Execute
<1>2. verdict = "recipe" /\ at + 1 \in 1 .. Len(history)
  <2>1. history \in Seq(Accesses) /\ at \in 0 .. Len(history) /\ verdict = "recipe"
    BY <1>1, Zenon DEF RInv, Explained, Follows
  <2>2. Len(history) \in Nat
    BY <2>1
  <2> QED BY <1>1, <2>1, <2>2
<1>3. Bases(h.span) \subseteq MappedPages /\ (h.kind = "write" => Bases(h.span) \cap Code = {})
  BY <1>2, Allowed, Zenon
<1>4. Denied(h) # "replay instruction bound exceeded"
  BY ExecuteMetered, Zenon
<1>5. phase' = "running" \/ (phase' = Denied(h) /\ Denied(h) # "")
  <2>1. (Denied(h) # "" /\ phase' = Denied(h)) \/ phase' = phase
    BY Zenon DEF Execute
  <2> QED BY <1>1, <2>1, Zenon
<1>6. phase' # "replay read a missing input byte"
  BY Zenon DEF RInv, NothingMissing
<1> HIDE DEF h
<1>7. Denied(h) \in {"", "replay instruction bound exceeded", "replay read a missing input byte"}
  BY <1>3, Zenon DEF Denied
<1>8. phase' = "running"
  BY <1>4, <1>5, <1>6, <1>7, Zenon
<1> QED BY <1>8, Zenon DEF AcceptsRecorded

(* The checks at the end agree with the recorder, if the replay got there. *)
LEMMA StopAccepts ==
  ASSUME RInv, RInv', Metered, Stop
  PROVE  AcceptsRecorded'
<1>1. PICK other \in BOOLEAN : (other => ~same) /\ phase' = Conclusion(other)
  BY Zenon DEF Stop
<1>2. phase = "running" /\ UNCHANGED <<at, history>> /\ same
  BY Zenon DEF Stop, captured, RInv, Reproduces
<1>3. CASE at < Len(history)
  <2>1. phase' = "replay control flow or return value diverged"
    BY <1>1, <1>3, Zenon DEF Conclusion
  <2>2. at' < Len(history')
    BY <1>2, <1>3, Zenon
  <2> QED BY <2>1, <2>2, Zenon DEF AcceptsRecorded
<1>4. CASE ~(at < Len(history))
  <2>1. at = Len(history) /\ verdict = "recipe"
    <3>1. at \in 0 .. Len(history) /\ history \in Seq(Accesses) /\ verdict = "recipe"
      BY <1>2, Zenon DEF RInv, Explained, Follows
    <3> QED BY <1>4, <3>1
  <2>2. counted = steps
    BY <1>2, <2>1, Zenon DEF Metered
  <2>3. Conclusion(other) \in {"replay did not produce every output byte",
                               "replay output digest mismatch", "done"}
    BY <1>1, <1>2, <1>4, <2>2, Zenon DEF Conclusion
  <2>4. phase' = "done"
    BY <1>1, <2>3, Zenon DEF RInv, NothingMissing
  <2> QED BY <2>4, Zenon DEF AcceptsRecorded
<1> QED BY <1>3, <1>4, Zenon

(* No step of a replay refuses for any other cause. *)
LEMMA AcceptsStays ==
  ASSUME IInv, RInv, RInv', Paged, Settled, Metered, code \in Layouts, AcceptsRecorded,
         [ReplayNext]_all
  PROVE  AcceptsRecorded'
<1>1. ASSUME verdict = "recording", UNCHANGED replay PROVE AcceptsRecorded'
  BY <1>1, ZenonT(30) DEF RInv, replay, AcceptsRecorded
<1>2. \A kind, a, n : Instruction(kind, a, n) => verdict = "recording" /\ UNCHANGED replay
  BY DEF Instruction, Read, Write
<1>3. \A w, k : InlineLoop(w, k) => verdict = "recording" /\ UNCHANGED replay
  BY Zenon DEF InlineLoop, Write, LoopRejected
<1>4. \A k : InlineSpin(k) => verdict = "recording" /\ UNCHANGED replay
  BY Zenon DEF InlineSpin
<1>5. Finish \/ GiveUp => verdict = "recording" /\ UNCHANGED replay
  BY Zenon DEF Finish, GiveUp, FinishWhole, FinishRegion, Reject
<1>6. CASE Over \/ UNCHANGED all
  <2>1. UNCHANGED vars /\ code' = code /\ UNCHANGED <<phase, at, history>>
    BY <1>6, Zenon DEF Over, all, captured, replay
  <2>2. /\ EncodedSize' = EncodedSize /\ length' = length
        /\ Cardinality(Segments)' = Cardinality(Segments) /\ CodeOverlaps' = CodeOverlaps
    BY <2>1, ExceptionsStay, Zenon
  <2> QED BY <2>1, <2>2, Zenon DEF AcceptsRecorded
<1> QED BY <1>1, <1>2, <1>3, <1>4, <1>5, <1>6, StartAccepts, ExecuteAccepts, StopAccepts, Zenon
    DEF ReplayNext

-----------------------------------------------------------------------------
(***************************************************************************)
(* All that a replay rests on, in every state.                             *)
(***************************************************************************)
AInv == Paged /\ Settled /\ Metered /\ code \in Layouts /\ AcceptsRecorded

LEMMA AcceptanceInvariant == ReplaySpec => [](IInv /\ RInv /\ AInv)
<1>1. ReplayInit => AInv
  <2> SUFFICES ASSUME ReplayInit PROVE AInv
    BY Zenon
  <2>1. /\ history = <<>> /\ steps = 0 /\ phase = "capture" /\ verdict = "recording"
        /\ pages = {} /\ code \in Layouts
    BY Zenon DEF ReplayInit, Init
  <2>2. Tally(history, Len(history)) = 0
    <3>1. 1 .. Len(history) = {}
      BY <2>1
    <3>2. Ticks(history, Len(history)) = {}
      BY <3>1, Zenon DEF Ticks
    <3> QED BY <3>2, FS_EmptySet, Zenon DEF Tally
  <2>3. Metered
    BY <2>1, <2>2, ReplayAssumption DEF Metered
  <2> QED BY <2>1, <2>3, Zenon DEF AInv, Paged, Settled, AcceptsRecorded
<1>2. IInv /\ RInv /\ AInv /\ [ReplayNext]_all /\ (IInv /\ RInv)' => AInv'
  <2> SUFFICES ASSUME IInv, RInv, AInv, [ReplayNext]_all, IInv', RInv' PROVE AInv'
    BY Zenon
  <2>1. Paged /\ Settled /\ Metered /\ code \in Layouts /\ AcceptsRecorded
    BY Zenon DEF AInv
  <2>2. Paged' /\ Settled'
    BY <2>1, PagedStays, SettledStays, Zenon
  <2>3. Metered'
    BY <2>1, MeteredStays, Zenon
  <2>4. AcceptsRecorded'
    BY <2>1, AcceptsStays, Zenon
  <2>5. code' \in Layouts
    BY <2>1, CodeStays, Zenon
  <2> QED BY <2>2, <2>3, <2>4, <2>5, Zenon DEF AInv
<1> QED BY <1>1, <1>2, ReplayInvariant, PTL DEF ReplaySpec

(***************************************************************************)
(* What finish() lets through is replayed: the checks of encode(), submit()*)
(* and decode(), and the emulator's of pages, bytes, coverage, instruction *)
(* counts and digest, refuse nothing that was recorded but an encoding     *)
(* that is too long, too many segments, instructions that overlap, and a   *)
(* replay that was stopped before its end.                                 *)
(***************************************************************************)
THEOREM RecordedIsAccepted == ReplaySpec => []AcceptsRecorded
<1>1. AInv => AcceptsRecorded
  BY Zenon DEF AInv
<1> QED BY <1>1, AcceptanceInvariant, PTL
=============================================================================
