------------------------- MODULE NativeReplayProofs -------------------------
(***************************************************************************)
(* The properties of native_replay.hpp.  ControlFlow: compiled code stays  *)
(* within the recorded instructions and no test of the flags sees a value  *)
(* the checks destroyed, for every number of recorded instructions.        *)
(* NativeReplay: for every page size, sequence of blocks, recipe and       *)
(* window.                                                                 *)
(***************************************************************************)
EXTENDS NativeReplay, ControlFlow, TLAPS

-----------------------------------------------------------------------------
(***************************************************************************)
(* decode(): the control flow and the flags.                               *)
(***************************************************************************)
FlowTypes ==
  /\ DOMAIN code \subseteq 1 .. N
  /\ entry \in Nat \ {0}
  /\ flags_in \in [DOMAIN code -> BOOLEAN]
  /\ visited \subseteq DOMAIN code
  /\ changed \in BOOLEAN

(* What is live is needed: the passes only add. *)
Grounded == \A i \in DOMAIN code : flags_in[i] => Needed(flags_in, i)

(* As long as nothing changed, what this pass saw needed is live. *)
Settled == ~changed => \A i \in visited : Needed(flags_in, i) => flags_in[i]

(* Code runs once it is decoded, and where the flag is live it is the guest's. *)
Running == pc # 0 => Decoded /\ pc \in DOMAIN code /\ (flags_in[pc] => flag = "guest")

FlowInv == FlowTypes /\ Grounded /\ Settled /\ Running

-----------------------------------------------------------------------------
(* Where an instruction leads is recorded. *)
LEMMA Successors ==
  ASSUME Closed, NEW i \in DOMAIN code
  PROVE  /\ Branches(i) => code[i].target \in DOMAIN code
         /\ FallsThrough(i) => i + 1 \in DOMAIN code
  BY Zenon DEF Closed

(* More live flags after an instruction need no fewer before it. *)
LEMMA NeededGrows ==
  ASSUME Closed, NEW i \in DOMAIN code,
         NEW live, NEW more, \A j \in DOMAIN code : live[j] => more[j],
         Needed(live, i)
  PROVE  Needed(more, i)
  BY Successors, Zenon DEF Needed

(* One instruction's turn adds to what is live, and keeps the rest. *)
LEMMA VisitAdds ==
  ASSUME FlowInv, NEW i \in 1 .. N, Visit(i)
  PROVE  /\ flags_in' \in [DOMAIN code -> BOOLEAN]
         /\ flags_in'[i] <=> Needed(flags_in, i)
         /\ \A j \in DOMAIN code : j # i => flags_in'[j] = flags_in[j]
         /\ \A j \in DOMAIN code : flags_in[j] => flags_in'[j]
<1>1. i \in DOMAIN code /\ flags_in' = [flags_in EXCEPT ![i] = Needed(flags_in, i)]
  BY Zenon DEF Visit
<1>2. flags_in \in [DOMAIN code -> BOOLEAN] /\ (flags_in[i] => Needed(flags_in, i))
  BY <1>1, Zenon DEF FlowInv, FlowTypes, Grounded
<1>3. Needed(flags_in, i) \in BOOLEAN
  BY Zenon DEF Needed
<1>4. flags_in' \in [DOMAIN code -> BOOLEAN]
  BY <1>1, <1>2, <1>3, Zenon
<1>5. flags_in'[i] <=> Needed(flags_in, i)
  BY <1>1, <1>2, Zenon
<1>6. \A j \in DOMAIN code : j # i => flags_in'[j] = flags_in[j]
  BY <1>1, <1>2, Zenon
<1> QED BY <1>2, <1>4, <1>5, <1>6, Zenon

LEMMA VisitKeeps ==
  ASSUME FlowInv, NEW i \in 1 .. N, Visit(i)
  PROVE  FlowInv'
<1>1. /\ Closed /\ i \in DOMAIN code /\ i \notin visited
      /\ changed' = (changed \/ flags_in' # flags_in)
      /\ visited' = visited \cup {i}
      /\ UNCHANGED <<code, entry, pc, flag>>
  BY Zenon DEF Visit
<1>2. /\ flags_in' \in [DOMAIN code -> BOOLEAN]
      /\ flags_in'[i] <=> Needed(flags_in, i)
      /\ \A j \in DOMAIN code : j # i => flags_in'[j] = flags_in[j]
      /\ \A j \in DOMAIN code : flags_in[j] => flags_in'[j]
  BY VisitAdds, Zenon
<1>3. FlowTypes'
  BY <1>1, <1>2, Zenon DEF FlowInv, FlowTypes
<1>4. Grounded'
  <2> SUFFICES ASSUME NEW j \in DOMAIN code, flags_in'[j] PROVE Needed(flags_in', j)
    BY <1>1, Zenon DEF Grounded, Needed, Branches, FallsThrough, Kills
  <2>1. Needed(flags_in, j)
    BY <1>1, <1>2, Zenon DEF FlowInv, Grounded
  <2> QED BY <1>1, <1>2, <2>1, NeededGrows, Zenon
<1>5. Settled'
  <2> SUFFICES ASSUME ~changed', NEW j \in visited', Needed(flags_in', j) PROVE flags_in'[j]
    BY <1>1, Zenon DEF Settled, Needed, Branches, FallsThrough, Kills
  <2>1. ~changed /\ flags_in' = flags_in
    BY <1>1, Zenon
  <2> QED BY <1>1, <1>2, <2>1, Zenon DEF FlowInv, Settled
<1>6. Running'
  <2>1. pc = 0
    BY <1>1, Zenon DEF FlowInv, Running, Decoded
  <2> QED BY <1>1, <2>1, Zenon DEF Running
<1> QED BY <1>3, <1>4, <1>5, <1>6, Zenon DEF FlowInv

LEMMA AgainKeeps ==
  ASSUME FlowInv, Again
  PROVE  FlowInv'
<1>1. changed /\ visited' = {} /\ changed' = FALSE /\ UNCHANGED <<code, entry, flags_in, pc, flag>>
  BY Zenon DEF Again
<1>2. FlowTypes' /\ Settled'
  BY <1>1, Zenon DEF FlowInv, FlowTypes, Settled
<1>3. Grounded'
  BY <1>1, Zenon DEF FlowInv, Grounded, Needed, Branches, FallsThrough, Kills
<1>4. pc = 0
  BY <1>1, Zenon DEF FlowInv, Running, Decoded
<1> QED BY <1>1, <1>2, <1>3, <1>4, Zenon DEF FlowInv, Running

(* A step that leaves the decoded instructions alone. *)
LEMMA SameCode ==
  ASSUME FlowInv, UNCHANGED <<code, entry, flags_in, visited, changed>>
  PROVE  FlowTypes' /\ Grounded' /\ Settled' /\ (Decoded => Decoded')
<1>1. FlowTypes'
  BY Zenon DEF FlowInv, FlowTypes
<1>2. Grounded' /\ Settled'
  BY Zenon DEF FlowInv, Grounded, Settled, Needed, Branches, FallsThrough, Kills
<1>3. Decoded => Decoded'
  BY Zenon DEF Decoded, Closed, Branches, FallsThrough
<1> QED BY <1>1, <1>2, <1>3, Zenon

(* A flag that is live after an instruction is the guest's: it is written
   there, or live before it and saved around the checks. *)
LEMMA StepKeeps ==
  ASSUME FlowInv, Step
  PROVE  FlowInv'
<1>1. pc \in DOMAIN code /\ UNCHANGED <<code, entry, flags_in, visited, changed>>
  BY Zenon DEF Step
<1>2. pc # 0
  BY <1>1 DEF FlowInv, FlowTypes
<1>3. /\ Closed /\ visited = DOMAIN code /\ ~changed /\ Decoded
      /\ flags_in[pc] => flag = "guest"
  BY <1>2, Zenon DEF FlowInv, Running, Decoded
<1>4. Needed(flags_in, pc) => flags_in[pc]
  BY <1>1, <1>3, Zenon DEF FlowInv, Settled
<1>5. FlowTypes' /\ Grounded' /\ Settled' /\ Decoded'
  BY <1>1, <1>3, SameCode, Zenon
<1>6. Running'
  <2>1. CASE pc' = 0
    BY <2>1, Zenon DEF Running
  <2>2. CASE pc' # 0
    <3>1. \/ Branches(pc) /\ pc' = code[pc].target
          \/ FallsThrough(pc) /\ pc' = pc + 1
      BY <2>2 DEF Step
    <3>2. pc' \in DOMAIN code
      BY <1>1, <1>3, <3>1, Successors, Zenon
    <3>3. ASSUME flags_in[pc'] PROVE flag' = "guest"
      <4>1. Needed(flags_in, pc) \/ Kills(pc)
        BY <3>1, <3>3, Zenon DEF Needed
      <4>2. CASE Kills(pc)
        BY <4>2, Zenon DEF Step, Writes, Kills
      <4>3. CASE Needed(flags_in, pc)
        <5>1. Entering(pc) = "guest"
          BY <1>3, <1>4, <4>3, Zenon DEF Entering
        <5> QED BY <5>1, Zenon DEF Step
      <4> QED BY <4>1, <4>2, <4>3, Zenon
    <3> QED BY <1>1, <1>5, <3>2, <3>3, Zenon DEF Running
  <2> QED BY <2>1, <2>2, Zenon
<1> QED BY <1>5, <1>6, Zenon DEF FlowInv

LEMMA StartKeeps ==
  ASSUME FlowInv, Start
  PROVE  FlowInv'
<1>1. Decoded /\ pc' = entry /\ flag' = "guest" /\ UNCHANGED <<code, entry, flags_in, visited, changed>>
  BY Zenon DEF Start
<1>2. entry \in DOMAIN code
  BY <1>1, Zenon DEF Decoded, Closed
<1>3. FlowTypes' /\ Grounded' /\ Settled' /\ Decoded'
  BY <1>1, SameCode, Zenon
<1> QED BY <1>1, <1>2, <1>3, Zenon DEF FlowInv, Running

LEMMA StutterKeeps ==
  ASSUME FlowInv, UNCHANGED flow
  PROVE  FlowInv'
<1>1. UNCHANGED <<code, entry, flags_in, visited, changed>> /\ UNCHANGED <<pc, flag>>
  BY Zenon DEF flow
<1>2. FlowTypes' /\ Grounded' /\ Settled' /\ (Decoded => Decoded')
  BY <1>1, SameCode, Zenon
<1> QED BY <1>1, <1>2, Zenon DEF FlowInv, Running

LEMMA Starts ==
  ASSUME FlowInit
  PROVE  FlowInv
<1>1. DOMAIN code \subseteq 1 .. N
  BY Zenon DEF FlowInit
<1>2. entry \in Nat \ {0}
  BY DEF FlowInit
<1>3. flags_in = [i \in DOMAIN code |-> FALSE] /\ visited = {} /\ changed = FALSE /\ pc = 0
  BY Zenon DEF FlowInit
<1> QED BY <1>1, <1>2, <1>3, Zenon DEF FlowInv, FlowTypes, Grounded, Settled, Running

(***************************************************************************)
(* While decode() runs, the flags it finds live are needed, and a pass     *)
(* that changes nothing has found them all; code runs after such a pass.   *)
(***************************************************************************)
THEOREM DecodingKept == FlowSpec => []FlowInv
<1>1. FlowInit => FlowInv
  BY Starts, Zenon
<1>2. FlowInv /\ [FlowNext]_flow => FlowInv'
  BY VisitKeeps, AgainKeeps, StepKeeps, StartKeeps, StutterKeeps, Zenon DEF FlowNext, Rejected
<1> QED BY <1>1, <1>2, PTL DEF FlowSpec

(***************************************************************************)
(* Execution never leaves the recorded instructions, for every recorded    *)
(* graph that decode() accepts.                                            *)
(***************************************************************************)
THEOREM NeverLeavesRecording == FlowSpec => []StaysRecorded
<1>1. FlowInv => StaysRecorded
  BY Zenon DEF FlowInv, Running, StaysRecorded
<1> QED BY <1>1, DecodingKept, PTL

(***************************************************************************)
(* An instruction that tests the flags sees the guest's: over every loop   *)
(* and join, the checks of compile() never destroy a flag it reads.        *)
(***************************************************************************)
THEOREM TestsSeeGuestFlags == FlowSpec => []FlagsSeen
<1>1. FlowInv => FlagsSeen
  <2> SUFFICES ASSUME FlowInv, pc \in DOMAIN code, code[pc].tests PROVE Entering(pc) = "guest"
    BY Zenon DEF FlagsSeen
  <2>1. pc # 0
    BY DEF FlowInv, FlowTypes
  <2>2. /\ visited = DOMAIN code /\ ~changed
        /\ flags_in[pc] => flag = "guest"
    BY <2>1, Zenon DEF FlowInv, Running, Decoded
  <2>3. Needed(flags_in, pc)
    BY Zenon DEF Needed
  <2>4. flags_in[pc]
    BY <2>2, <2>3, Zenon DEF FlowInv, Settled
  <2> QED BY <2>2, <2>4, Zenon DEF Entering
<1> QED BY <1>1, DecodingKept, PTL

(***************************************************************************)
(* A flag found live stays live: each pass of decode() that changes        *)
(* something makes one more live, so the loop ends.                        *)
(***************************************************************************)
THEOREM LiveFlagsOnlyGrow == FlowSpec => [][\A i \in DOMAIN code : flags_in[i] => flags_in'[i]]_flow
<1>1. FlowInv /\ [FlowNext]_flow => [\A i \in DOMAIN code : flags_in[i] => flags_in'[i]]_flow
  <2> SUFFICES ASSUME FlowInv, FlowNext PROVE \A i \in DOMAIN code : flags_in[i] => flags_in'[i]
    BY Zenon
  <2>1. ASSUME NEW k \in 1 .. N, Visit(k) PROVE \A i \in DOMAIN code : flags_in[i] => flags_in'[i]
    BY <2>1, VisitAdds, Zenon
  <2>2. CASE Again \/ Step \/ Start \/ Rejected
    BY <2>2, Zenon DEF Again, Step, Start, Rejected, flow
  <2> QED BY <2>1, <2>2, Zenon DEF FlowNext
<1> QED BY <1>1, DecodingKept, PTL DEF FlowSpec

-----------------------------------------------------------------------------
INSTANCE FiniteSetTheorems

(***************************************************************************)
(* What the blocks of a run store.                                         *)
(***************************************************************************)
TraceOK ==
  /\ trace \in Seq(Nat \cup {Stray}) /\ Len(trace) # 0

Cells(i) == UNION {{j} \X (1 .. Bytes(j)) : j \in 1 .. i}

LEMMA BytesTyped ==
  ASSUME TraceOK
  PROVE  \A i \in DOMAIN trace : Bytes(i) \in Nat /\ (trace[i] # Stray => Bytes(i) = trace[i])
  BY DEF TraceOK, Bytes

(* The cells of one block more. *)
LEMMA CellsGrow ==
  ASSUME TraceOK, NEW i \in 1 .. Len(trace)
  PROVE  /\ Cells(i) = Cells(i - 1) \cup ({i} \X (1 .. Bytes(i)))
         /\ Cells(i - 1) \cap ({i} \X (1 .. Bytes(i))) = {}
<1>1. 1 .. i = 1 .. (i - 1) \cup {i}
  BY DEF TraceOK
<1>2. Cells(i) = Cells(i - 1) \cup ({i} \X (1 .. Bytes(i)))
  BY <1>1, Zenon DEF Cells
<1>3. \A c \in Cells(i - 1) : c[1] \in 1 .. (i - 1)
  BY DEF Cells
<1>4. \A c \in {i} \X (1 .. Bytes(i)) : c[1] = i
  OBVIOUS
<1>5. i \notin 1 .. (i - 1)
  BY DEF TraceOK
<1> QED BY <1>2, <1>3, <1>4, <1>5

LEMMA RowCount ==
  ASSUME TraceOK, NEW i \in 1 .. Len(trace)
  PROVE  /\ IsFiniteSet({i} \X (1 .. Bytes(i)))
         /\ Cardinality({i} \X (1 .. Bytes(i))) = Bytes(i)
<1>1. Bytes(i) \in Nat
  BY BytesTyped DEF TraceOK
<1>2. IsFiniteSet(1 .. Bytes(i)) /\ Cardinality(1 .. Bytes(i)) = Bytes(i)
  <2>1. 1 \in Int /\ Bytes(i) \in Int
    BY <1>1
  <2>2. IsFiniteSet(1 .. Bytes(i)) /\ Cardinality(1 .. Bytes(i)) = IF 1 > Bytes(i) THEN 0 ELSE Bytes(i) - 1 + 1
    BY <2>1, FS_Interval
  <2> QED BY <1>1, <2>2
<1>3. IsFiniteSet({i}) /\ Cardinality({i}) = 1
  BY FS_Singleton, Zenon
<1>4. /\ IsFiniteSet({i} \X (1 .. Bytes(i)))
      /\ Cardinality({i} \X (1 .. Bytes(i))) = Cardinality({i}) * Cardinality(1 .. Bytes(i))
  BY <1>2, <1>3, FS_Product, Zenon
<1> QED BY <1>1, <1>2, <1>3, <1>4

(***************************************************************************)
(* The cells of any number of blocks are finitely many.  The blocks whose  *)
(* cells are not would have a least one.                                   *)
(***************************************************************************)
LEMMA LeastElement ==
  ASSUME NEW T \in SUBSET Nat, T # {}
  PROVE  \E n \in T : \A m \in T : n <= m
<1>1. PICK x \in T : \A y \in T : ~(<<y, x>> \in OpToRel(<, Nat))
  BY NatLessThanWellFounded, WFMin
<1>2. \A y \in T : ~(y < x)
  BY <1>1, Zenon DEF OpToRel
<1> QED BY <1>2

LEMMA CellsFinite ==
  ASSUME TraceOK, NEW i \in 0 .. Len(trace)
  PROVE  IsFiniteSet(Cells(i))
<1> DEFINE T == {n \in 0 .. Len(trace) : ~IsFiniteSet(Cells(n))}
<1> SUFFICES ASSUME T # {} PROVE FALSE
  OBVIOUS
<1>1. T \in SUBSET Nat
  BY DEF TraceOK
<1>2. PICK n \in T : \A m \in T : n <= m
  BY <1>1, LeastElement, Zenon
<1>3. n # 0
  <2>1. 1 .. 0 = {}
    OBVIOUS
  <2>2. Cells(0) = {}
    BY <2>1, Zenon DEF Cells
  <2> QED BY <2>2, FS_EmptySet, Zenon
<1>4. n \in 1 .. Len(trace) /\ n - 1 \in 0 .. Len(trace) /\ n - 1 \notin T
  BY <1>2, <1>3 DEF TraceOK
<1>5. IsFiniteSet(Cells(n - 1))
  BY <1>4
<1>6. IsFiniteSet(Cells(n - 1) \cup ({n} \X (1 .. Bytes(n))))
  BY <1>4, <1>5, RowCount, FS_Union, Zenon
<1>7. IsFiniteSet(Cells(n))
  BY <1>4, <1>6, CellsGrow, Zenon
<1> QED BY <1>7

LEMMA StoredTyped ==
  ASSUME TraceOK
  PROVE  /\ Stored(0) = 0
         /\ \A i \in 0 .. Len(trace) : Stored(i) \in Nat
<1>1. \A i : Stored(i) = Cardinality(Cells(i))
  BY Zenon DEF Stored, Cells
<1>2. \A i \in 0 .. Len(trace) : Cardinality(Cells(i)) \in Nat
  BY CellsFinite, FS_CardinalityType, Zenon
<1>3. Cells(0) = {}
  <2>1. 1 .. 0 = {}
    OBVIOUS
  <2> QED BY <2>1, Zenon DEF Cells
<1> QED BY <1>1, <1>2, <1>3, FS_EmptySet, Zenon

LEMMA StoredStep ==
  ASSUME TraceOK, NEW i \in 1 .. Len(trace)
  PROVE  Stored(i) = Stored(i - 1) + Bytes(i)
<1> DEFINE R == {i} \X (1 .. Bytes(i))
<1>1. i - 1 \in 0 .. Len(trace) /\ i \in DOMAIN trace
  BY DEF TraceOK
<1>2. IsFiniteSet(Cells(i - 1)) /\ IsFiniteSet(R) /\ Cardinality(R) = Bytes(i)
  BY <1>1, CellsFinite, RowCount, Zenon
<1>3. Cardinality(Cells(i - 1) \cup R) = Cardinality(Cells(i - 1)) + Cardinality(R) - Cardinality(Cells(i - 1) \cap R)
  BY <1>2, FS_Union
<1>4. Cells(i) = Cells(i - 1) \cup R /\ Cells(i - 1) \cap R = {}
  BY CellsGrow
<1>5. Cardinality(Cells(i - 1) \cap R) = 0
  BY <1>4, FS_EmptySet
<1>6. Stored(i) = Cardinality(Cells(i)) /\ Stored(i - 1) = Cardinality(Cells(i - 1))
  BY Zenon DEF Stored, Cells
<1>7. Stored(i - 1) \in Nat /\ Bytes(i) \in Nat
  BY <1>1, StoredTyped, BytesTyped
<1> HIDE DEF R
<1>8. Cardinality(Cells(i)) = Cardinality(Cells(i - 1)) + Bytes(i) - 0
  BY <1>2, <1>3, <1>4, <1>5
<1> QED BY <1>6, <1>7, <1>8

LEMMA StoredGrows ==
  ASSUME TraceOK, NEW i \in 0 .. Len(trace), NEW j \in 0 .. Len(trace), i <= j
  PROVE  Stored(i) <= Stored(j)
<1>1. 1 .. i \subseteq 1 .. j
  BY DEF TraceOK
<1>2. Cells(i) \in SUBSET Cells(j)
  BY <1>1, Zenon DEF Cells
<1>3. Cardinality(Cells(i)) <= Cardinality(Cells(j))
  BY <1>2, CellsFinite, FS_Subset
<1> QED BY <1>3, Zenon DEF Stored, Cells

(***************************************************************************)
(* The byte at p is stored by block i; there is only one such block.       *)
(***************************************************************************)
IsByte(p, i) == i \in DOMAIN trace /\ Stored(i - 1) <= p /\ p < Stored(i)

LEMMA ByteUnique ==
  ASSUME TraceOK, NEW p \in Int, NEW i, IsByte(p, i)
  PROVE  Byte(p) = i
<1>1. DOMAIN trace = 1 .. Len(trace) /\ Len(trace) \in Nat
  BY DEF TraceOK
<1>2. ASSUME NEW j, IsByte(p, j), NEW k, IsByte(p, k) PROVE ~(j < k)
  <2> SUFFICES ASSUME j < k PROVE FALSE
    OBVIOUS
  <2>1. j \in 0 .. Len(trace) /\ k - 1 \in 0 .. Len(trace) /\ j <= k - 1
    BY <1>1, <1>2 DEF IsByte
  <2>2. Stored(j) <= Stored(k - 1) /\ Stored(j) \in Nat /\ Stored(k - 1) \in Nat
    BY <2>1, StoredGrows, StoredTyped
  <2> QED BY <1>2, <2>2 DEF IsByte
<1>3. \A j : IsByte(p, j) => j = i
  <2> SUFFICES ASSUME NEW j, IsByte(p, j) PROVE j = i
    OBVIOUS
  <2>1. ~(i < j) /\ ~(j < i)
    BY <1>2
  <2>2. i \in Int /\ j \in Int
    BY <1>1 DEF IsByte
  <2> QED BY <2>1, <2>2
<1>4. Byte(p) = CHOOSE j \in DOMAIN trace : IsByte(p, j)
  BY Zenon DEF Byte, IsByte
<1>5. i \in DOMAIN trace
  BY DEF IsByte
<1> QED BY <1>3, <1>4, <1>5, Zenon

(***************************************************************************)
(* Pages.                                                                  *)
(***************************************************************************)
LEMMA PageFacts ==
  ASSUME NEW n \in Nat, NEW k \in Nat
  PROVE  /\ n \div PAGE \in Nat
         /\ (k * PAGE) \div PAGE = k /\ k * PAGE \in Nat
         /\ n % PAGE = 0 => n = (n \div PAGE) * PAGE
         /\ n # 0 /\ k * PAGE < n => k <= (n - 1) \div PAGE
         /\ n # 0 /\ k <= (n - 1) \div PAGE => k * PAGE < n
         /\ k # 0 => k * PAGE >= PAGE
         /\ (k + 1) * PAGE = k * PAGE + PAGE
<1>1. PAGE \in Nat /\ PAGE > 0
  BY ConstantsAssumption
<1>2. (k + 1) * PAGE = k * PAGE + PAGE /\ k * PAGE \in Nat
  BY <1>1
<1>3. n \div PAGE \in Nat /\ (n % PAGE = 0 => n = (n \div PAGE) * PAGE)
  BY <1>1
<1>4. (k * PAGE) \div PAGE = k
  BY <1>1
<1>5. n # 0 /\ k * PAGE < n => k <= (n - 1) \div PAGE
  BY <1>1
<1>6. n # 0 /\ k <= (n - 1) \div PAGE => k * PAGE < n
  BY <1>1
<1>7. k # 0 => k * PAGE >= PAGE
  BY <1>1
<1> QED BY <1>2, <1>3, <1>4, <1>5, <1>6, <1>7

-----------------------------------------------------------------------------
(***************************************************************************)
(* The inductive invariant.                                                *)
(***************************************************************************)
State ==
  [entry : Nat, cursor : Nat, limit : Nat, remaining : Int, next_page : Nat, trigger : Nat,
   collecting : BOOLEAN, validating : BOOLEAN, error : BOOLEAN, running : BOOLEAN]

Job == [kind : {"none", "stream", "whole", "slice"}, offset : Nat, size : Nat, capacity : Nat]

LastPage == (recipe.length - 1) \div PAGE

Types ==
  /\ TraceOK
  /\ recipe \in [length : Nat \ {0}, steps : Int, right : BOOLEAN]
  /\ fast \in BOOLEAN /\ pages \in BOOLEAN
  /\ status \in {"new", "valid", "refused"}
  /\ job \in Job /\ s \in State
  /\ frames = [k \in 0 .. LastPage |-> frames[k]]

Validating == job.kind \in {"stream", "whole"}

(* A block that starts at i has been seen before next_page. *)
Seen(i) == Stored(i) < s.next_page \/ Stored(i) = recipe.length

(***************************************************************************)
(* The first d blocks have run, and the next one is about to, or the run   *)
(* has yielded before it, or there is none.                                *)
(***************************************************************************)
Done(d) ==
  /\ d \in 0 .. Len(trace)
  /\ s.cursor = Stored(d) /\ s.remaining = recipe.steps - Executed(d)
  /\ \A j \in 1 .. d : trace[j] # Stray

Before(d) == s.entry = d + 1 /\ d < Len(trace)

After(d) ==
  s.entry = d /\ d = Len(trace) /\ ~s.running /\ s.cursor = recipe.length /\ s.remaining = 0

Where(d) ==
  /\ Done(d)
  /\ \/ Before(d) /\ (s.running \/ (s.cursor = s.limit /\ ~s.validating))
     \/ After(d)
  /\ Validating /\ s.collecting => \A i \in 0 .. d - 1 : Seen(i)

Positions ==
  /\ s.running => ~s.error
  /\ ~s.error => \E d \in Nat : Where(d)

(***************************************************************************)
(* The window, and the bytes in it.                                        *)
(***************************************************************************)
Limits ==
  /\ s.limit = job.offset + job.size /\ s.limit <= recipe.length
  /\ job.offset <= s.cursor /\ s.cursor <= s.limit
  /\ Validating => (s.validating <=> s.limit = recipe.length)
  /\ s.running /\ fast => s.trigger <= s.limit /\ (s.collecting => s.trigger <= s.next_page)

Output ==
  /\ out = << >> \/ out = [p \in job.offset .. s.cursor - 1 |-> out[p]]
  /\ DOMAIN out = job.offset .. s.cursor - 1
  /\ \A p \in job.offset .. s.cursor - 1 : \A i : out[p] = i => IsByte(p, i)

Digested(n) ==
  /\ validated = << >> \/ validated = [p \in 0 .. n - 1 |-> validated[p]]
  /\ DOMAIN validated = 0 .. n - 1
  /\ \A p \in 0 .. n - 1 : \A i : validated[p] = i => IsByte(p, i)

Validated ==
  \E n \in Nat :
    /\ Digested(n)
    /\ status = "new" => n = job.offset
    /\ status = "valid" => n = recipe.length

(***************************************************************************)
(* The checkpoint of page k is the state after some number of blocks.      *)
(***************************************************************************)
FrameAt(k, d) ==
  /\ Stored(d) = k * PAGE
  /\ frames[k] = [entry |-> d + 1, cursor |-> Stored(d), remaining |-> recipe.steps - Executed(d)]
  /\ \A j \in 1 .. d : trace[j] # Stray

FrameOK(k) == \E d \in 0 .. Len(trace) - 1 : FrameAt(k, d)

(* Some page starts where no block does. *)
Unreachable(k) == \A i \in 0 .. Len(trace) - 1 : Stored(i) # k * PAGE
Missing == \E k \in 1 .. LastPage : Unreachable(k)

(***************************************************************************)
(* A checkpoint for every page below next_page; or a page was passed over. *)
(***************************************************************************)
Collection ==
  /\ s.collecting => \E m \in Nat \ {0} : s.next_page = m * PAGE /\ \A k \in 0 .. LastPage : k < m => FrameOK(k)
  /\ ~s.collecting => Missing

(* A restore ends where a block does, and cannot fail. *)
Restoring ==
  /\ ~s.error /\ ~s.collecting /\ job.size # 0
  /\ \E d \in 0 .. Len(trace) : Stored(d) = s.limit
  /\ s.validating => s.limit = recipe.length

WholeRun ==
  \E n \in {Len(trace)} :
    /\ Stored(n) = recipe.length /\ Executed(n) = recipe.steps
    /\ \A j \in 1 .. n : trace[j] # Stray

ValidOK ==
  status = "valid" =>
    /\ recipe.right /\ WholeRun
    /\ pages => \A k \in 0 .. LastPage : FrameOK(k)
    /\ ~pages => Missing

IInv ==
  /\ Types /\ Validated /\ ValidOK
  /\ Validating => status = "new" /\ Collection
  /\ job.kind = "slice" => status = "valid" /\ Restoring
  /\ job.kind # "none" => Positions /\ Limits /\ Output
  /\ job.kind = "none" => job = Idle /\ out = << >> /\ ~s.running

-----------------------------------------------------------------------------
(***************************************************************************)
(* The blocks and the recipe never change, nor what is said of them.       *)
(***************************************************************************)
LEMMA SameTrace ==
  ASSUME UNCHANGED trace
  PROVE  /\ TraceOK => TraceOK'
         /\ \A i : Stored(i)' = Stored(i) /\ Executed(i)' = Executed(i)
         /\ \A p, i : IsByte(p, i) => IsByte(p, i)'
<1>1. \A i : Bytes(i)' = Bytes(i)
  BY Zenon DEF Bytes
<1>2. \A i : Stored(i)' = Stored(i)
  BY <1>1, Zenon DEF Stored
<1>3. \A i : Executed(i)' = Executed(i)
  BY <1>2, Zenon DEF Executed
<1>4. \A p, i : IsByte(p, i) => IsByte(p, i)'
  BY <1>2, Zenon DEF IsByte
<1> QED BY <1>2, <1>3, <1>4, Zenon DEF TraceOK

LEMMA SameRun ==
  ASSUME UNCHANGED <<trace, recipe>>
  PROVE  /\ LastPage' = LastPage
         /\ Missing => Missing'
         /\ WholeRun => WholeRun'
<1>1. \A i : Stored(i)' = Stored(i) /\ Executed(i)' = Executed(i)
  BY SameTrace
<1>2. LastPage' = LastPage
  BY Zenon DEF LastPage
<1>3. \A k : Unreachable(k) => Unreachable(k)'
  BY <1>1, Zenon DEF Unreachable
<1>4. WholeRun => WholeRun'
  BY <1>1, Zenon DEF WholeRun
<1> QED BY <1>2, <1>3, <1>4, Zenon DEF Missing

LEMMA SameFrames ==
  ASSUME UNCHANGED <<trace, recipe, frames>>
  PROVE  \A k : FrameOK(k) => FrameOK(k)'
<1>1. \A i : Stored(i)' = Stored(i) /\ Executed(i)' = Executed(i)
  BY SameTrace
<1>2. \A k, d : FrameAt(k, d) => FrameAt(k, d)'
  BY <1>1, Zenon DEF FrameAt
<1> QED BY <1>2, Zenon DEF FrameOK

LEMMA SameDigests ==
  ASSUME UNCHANGED <<trace, validated>>
  PROVE  \A n : Digested(n) => Digested(n)'
<1>1. \A p, i : IsByte(p, i) => IsByte(p, i)'
  BY SameTrace
<1> QED BY <1>1, Zenon DEF Digested

LEMMA SameValid ==
  ASSUME UNCHANGED <<trace, recipe, frames, status, pages>>, ValidOK
  PROVE  ValidOK'
<1>1. \A k : FrameOK(k) => FrameOK(k)'
  BY SameFrames
<1> QED BY <1>1, SameRun, Zenon DEF ValidOK

(* While a job runs, what was validated before does not change. *)
LEMMA SameValidated ==
  ASSUME UNCHANGED <<trace, recipe, status, validated>>, job'.offset = job.offset, Validated
  PROVE  Validated'
<1>1. \A n : Digested(n) => Digested(n)'
  BY SameDigests
<1> QED BY <1>1, Zenon DEF Validated

(***************************************************************************)
(* The steps that do not run a block.                                      *)
(***************************************************************************)
LEMMA YieldKeeps ==
  ASSUME IInv, Yield
  PROVE  IInv'
<1>1. /\ UNCHANGED <<trace, recipe, fast, status, job, out, frames, validated, pages>>
      /\ s.running /\ ~s.validating /\ s.cursor = s.limit
      /\ s' = [s EXCEPT !.running = FALSE]
  BY DEF Yield, Yields
<1>2. s \in State /\ TraceOK
  BY DEF IInv, Types
<1>3. /\ s' \in State /\ s'.running = FALSE
      /\ s'.entry = s.entry /\ s'.cursor = s.cursor /\ s'.limit = s.limit /\ s'.remaining = s.remaining
      /\ s'.next_page = s.next_page /\ s'.trigger = s.trigger /\ s'.collecting = s.collecting
      /\ s'.validating = s.validating /\ s'.error = s.error
  BY <1>1, <1>2, Zenon DEF State
<1>4. Types'
  BY <1>1, <1>3, SameTrace, SameRun, Zenon DEF IInv, Types
<1>5. Validated' /\ ValidOK'
  BY <1>1, SameValidated, SameValid, Zenon DEF IInv
<1>6. \A i : Seen(i) => Seen(i)'
  BY <1>1, <1>3, SameTrace, Zenon DEF Seen
<1>7. Positions => Positions'
  <2>1. \A d : Where(d) => Where(d)'
    <3> SUFFICES ASSUME NEW d, Where(d) PROVE Where(d)'
      BY Zenon
    <3>1. Done(d)'
      BY <1>1, <1>3, SameTrace, Zenon DEF Where, Done
    <3>2. Before(d)'
      BY <1>1, <1>3, Zenon DEF Where, Before, After
    <3> QED BY <1>1, <1>3, <1>6, <3>1, <3>2, Zenon DEF Where, Validating
  <2> QED BY <1>3, <2>1, Zenon DEF Positions
<1>8. Limits => Limits'
  BY <1>1, <1>3, Zenon DEF Limits, Validating
<1>9. Output => Output'
  BY <1>1, <1>3, SameTrace, Zenon DEF Output
<1>10. Collection => Collection'
  BY <1>1, <1>3, SameFrames, SameRun, Zenon DEF Collection
<1>11. Restoring => Restoring'
  BY <1>1, <1>3, SameTrace, Zenon DEF Restoring
<1> QED BY <1>1, <1>3, <1>4, <1>5, <1>7, <1>8, <1>9, <1>10, <1>11, Zenon DEF IInv, Validating

LEMMA IdleKeeps ==
  ASSUME IInv, UNCHANGED <<trace, recipe, fast>>, job' = Idle, out' = << >>, s' = initial,
         frames' = [k \in 0 .. LastPage |-> frames'[k]], Validated', ValidOK', pages' \in BOOLEAN,
         status' \in {"new", "valid", "refused"}
  PROVE  IInv'
<1>1. initial \in State /\ ~initial.running
  BY DEF initial, State, IInv, Types
<1>2. Idle \in Job /\ Idle.kind = "none"
  BY DEF Idle, Job
<1>3. Types'
  BY <1>1, <1>2, SameTrace, SameRun, Zenon DEF IInv, Types
<1>4. job'.kind = "none"
  BY <1>2
<1> QED BY <1>1, <1>3, <1>4 DEF IInv, Validating

LEMMA RefuseKeeps ==
  ASSUME IInv, Refuse
  PROVE  IInv'
<1>1. /\ UNCHANGED <<trace, recipe, fast, frames, pages>>
      /\ job' = Idle /\ out' = << >> /\ s' = initial /\ validated' = << >> /\ status' = "refused"
  BY DEF Refuse
<1>2. DOMAIN << >> = 0 .. 0 - 1
  OBVIOUS
<1>3. \A p : p \notin 0 .. 0 - 1
  OBVIOUS
<1>4. Digested(0)'
  BY <1>1, <1>2, <1>3, Zenon DEF Digested
<1>5. Validated'
  BY <1>1, <1>4 DEF Validated
<1>6. ValidOK'
  BY <1>1 DEF ValidOK
<1>7. frames' = [k \in 0 .. LastPage |-> frames'[k]]
  BY <1>1, Zenon DEF IInv, Types
<1> QED BY <1>1, <1>5, <1>6, <1>7, IdleKeeps DEF IInv, Types

LEMMA EndRestoreKeeps ==
  ASSUME IInv, EndRestore
  PROVE  IInv'
<1>1. /\ UNCHANGED <<trace, recipe, fast, status, frames, validated, pages>>
      /\ job' = Idle /\ out' = << >> /\ s' = initial /\ job.kind = "slice"
  BY DEF EndRestore, Stopped
<1>2. status = "valid"
  BY <1>1 DEF IInv
<1>3. Validated'
  BY <1>1, <1>2, SameDigests DEF IInv, Validated
<1>4. ValidOK'
  BY <1>1, SameValid, Zenon DEF IInv
<1>5. frames' = [k \in 0 .. LastPage |-> frames'[k]]
  BY <1>1, Zenon DEF IInv, Types
<1> QED BY <1>1, <1>3, <1>4, <1>5, IdleKeeps DEF IInv, Types

(***************************************************************************)
(* The start of a validation.                                              *)
(***************************************************************************)

LEMMA StartOfRun ==
  ASSUME TraceOK
  PROVE  Stored(0) = 0 /\ Executed(0) = 0 /\ 0 \in 0 .. Len(trace) - 1 /\ Len(trace) \in Nat
<1>1. Stored(0) = 0
  BY StoredTyped
<1>2. Executed(0) = 0
  BY <1>1 DEF Executed
<1> QED BY <1>1, <1>2 DEF TraceOK

Started(l, v) == Launch([Collect(initial) EXCEPT !.limit = l, !.validating = v])

LEMMA Launched ==
  ASSUME NEW l \in Nat, NEW v \in BOOLEAN, recipe.steps \in Int, NEW t,
         t = Started(l, v)
  PROVE  /\ t \in State
         /\ t.entry = 1 /\ t.cursor = 0 /\ t.limit = l /\ t.remaining = recipe.steps
         /\ t.next_page = PAGE /\ t.trigger = Smaller(l, PAGE) /\ t.collecting
         /\ (t.validating <=> v) /\ ~t.error /\ t.running
<1>1. t = [entry |-> 1, cursor |-> 0, limit |-> l, remaining |-> recipe.steps, next_page |-> PAGE,
            trigger |-> Smaller(l, PAGE), collecting |-> TRUE, validating |-> v,
            error |-> FALSE, running |-> TRUE]
  BY Zenon DEF Started, Launch, Collect, initial, Trigger
<1>2. Smaller(l, PAGE) \in Nat /\ PAGE \in Nat
  BY ConstantsAssumption DEF Smaller
<1>3. /\ t.entry = 1 /\ t.cursor = 0 /\ t.limit = l /\ t.remaining = recipe.steps
      /\ t.next_page = PAGE /\ t.trigger = Smaller(l, PAGE) /\ t.collecting
      /\ t.validating = v /\ ~t.error /\ t.running
  BY <1>1
<1>4. t \in State
  <2>1. PICK b : b = TRUE
    BY Zenon
  <2>2. PICK c : c = FALSE
    BY Zenon
  <2>3. b \in BOOLEAN /\ c \in BOOLEAN
    BY <2>1, <2>2, Zenon
  <2>4. t = [entry |-> 1, cursor |-> 0, limit |-> l, remaining |-> recipe.steps, next_page |-> PAGE,
             trigger |-> Smaller(l, PAGE), collecting |-> b, validating |-> v,
             error |-> c, running |-> b]
    BY <1>1, <2>1, <2>2, Zenon
  <2> QED BY <1>2, <2>3, <2>4 DEF State
<1> QED BY <1>3, <1>4, Zenon

LEMMA BeginKeeps ==
  ASSUME IInv, status = "new", job = Idle,
         UNCHANGED <<trace, recipe, fast, status, validated, pages>>,
         frames' = [frames EXCEPT ![0] = Frame(initial)], out' = << >>,
         NEW l \in 1 .. recipe.length,
         job' \in Job, job'.kind \in {"stream", "whole"}, job'.offset = 0, job'.size = l,
         s' = Started(l, l = recipe.length)
  PROVE  IInv'
<1>1. /\ TraceOK /\ recipe.length \in Nat \ {0} /\ recipe.steps \in Int /\ PAGE \in Nat \ {0}
      /\ frames = [k \in 0 .. LastPage |-> frames[k]] /\ l \in Nat
  BY ConstantsAssumption DEF IInv, Types
<1>2. (l = recipe.length) \in BOOLEAN
  BY Zenon
<1>3. Smaller(l, PAGE) \in Nat /\ Smaller(l, PAGE) <= l /\ Smaller(l, PAGE) <= PAGE
  BY <1>1 DEF Smaller
<1>4. \A v \in BOOLEAN : s' = Started(l, v) =>
        /\ s' \in State
        /\ s'.entry = 1 /\ s'.cursor = 0 /\ s'.limit = l /\ s'.remaining = recipe.steps
        /\ s'.next_page = PAGE /\ s'.trigger = Smaller(l, PAGE) /\ s'.collecting
        /\ (s'.validating <=> v) /\ ~s'.error /\ s'.running
  <2> SUFFICES ASSUME NEW v \in BOOLEAN,
                      s' = Started(l, v)
               PROVE  /\ s' \in State
                      /\ s'.entry = 1 /\ s'.cursor = 0 /\ s'.limit = l /\ s'.remaining = recipe.steps
                      /\ s'.next_page = PAGE /\ s'.trigger = Smaller(l, PAGE) /\ s'.collecting
                      /\ (s'.validating <=> v) /\ ~s'.error /\ s'.running
    BY Zenon
  <2>1. l \in Nat /\ recipe.steps \in Int
    BY <1>1, Zenon
  <2> QED BY <2>1, Launched, ZenonT(30)
<1>5. /\ s' \in State
      /\ s'.entry = 1 /\ s'.cursor = 0 /\ s'.limit = l /\ s'.remaining = recipe.steps
      /\ s'.next_page = PAGE /\ s'.trigger = Smaller(l, PAGE) /\ s'.collecting
      /\ (s'.validating <=> l = recipe.length) /\ ~s'.error /\ s'.running
  BY <1>2, <1>4, Zenon
<1>6. LastPage \in Nat
  BY <1>1, PageFacts DEF LastPage
<1>7. frames' = [k \in 0 .. LastPage |-> frames'[k]] /\ frames'[0] = Frame(initial)
  <2>1. 0 \in 0 .. LastPage
    BY <1>6
  <2> QED BY <1>1, <2>1, Zenon
<1>8. Types'
  BY <1>5, <1>7, SameTrace, SameRun, Zenon DEF IInv, Types
<1>9. job.offset = 0
  BY DEF Idle
<1>10. Validated'
  BY <1>9, SameValidated, Zenon DEF IInv
<1>11. ValidOK'
  BY DEF ValidOK
<1>12. /\ Stored(0)' = 0 /\ Executed(0)' = 0 /\ 0 \in 0 .. Len(trace') - 1 /\ Len(trace') \in Nat
       /\ Stored(0) = 0 /\ Executed(0) = 0
  BY <1>1, StartOfRun, SameTrace
<1>13. FrameOK(0)'
  <2>1. Frame(initial) = [entry |-> 1, cursor |-> 0, remaining |-> recipe.steps]
    BY DEF Frame, initial
  <2>2. FrameAt(0, 0)'
    BY <1>1, <1>7, <1>12, <2>1 DEF FrameAt
  <2> QED BY <1>12, <2>2, Zenon DEF FrameOK
<1>14. Collection'
  <2>1. \A k \in 0 .. LastPage' : k < 1 => k = 0
    BY <1>6, SameRun
  <2>2. \A k \in 0 .. LastPage' : k < 1 => FrameOK(k)'
    BY <1>13, <2>1, Zenon
  <2>3. 1 \in Nat \ {0} /\ s'.next_page = 1 * PAGE
    BY <1>1, <1>5
  <2> QED BY <1>5, <2>2, <2>3, Zenon DEF Collection
<1>15. Where(0)'
  <2>1. \A j : j \notin 1 .. 0 /\ j \notin 0 .. 0 - 1
    OBVIOUS
  <2>2. Done(0)'
    BY <1>1, <1>5, <1>12, <2>1 DEF Done
  <2>3. Before(0)'
    BY <1>5, <1>12 DEF Before
  <2> QED BY <1>5, <2>1, <2>2, <2>3, Zenon DEF Where
<1>16. Positions'
  <2>1. 0 \in Nat
    OBVIOUS
  <2> QED BY <1>5, <1>15, <2>1, Zenon DEF Positions
<1>17. Limits'
  BY <1>1, <1>3, <1>5 DEF Limits
<1>18. Output'
  <2>1. DOMAIN << >> = 0 .. 0 - 1 /\ \A p : p \notin 0 .. 0 - 1
    OBVIOUS
  <2> QED BY <1>5, <2>1, Zenon DEF Output
<1>19. job'.kind # "slice" /\ job'.kind # "none"
  OBVIOUS
<1> QED BY <1>8, <1>10, <1>11, <1>14, <1>16, <1>17, <1>18, <1>19, Zenon DEF IInv

LEMMA BeginStreamKeeps ==
  ASSUME IInv, NEW c \in Capacities, BeginStream(c)
  PROVE  IInv'
<1> DEFINE l == Smaller(c, recipe.length)
<1>1. recipe.length \in Nat \ {0} /\ c \in Nat \ {0}
  BY ConstantsAssumption DEF IInv, Types
<1>2. l \in 1 .. recipe.length /\ l = 0 + Smaller(c, recipe.length - 0)
  BY <1>1 DEF Smaller
<1>3. s' = Started(l, l = recipe.length)
  BY <1>2, Zenon DEF BeginStream, Window, Started
<1>4. /\ job' = [kind |-> "stream", offset |-> 0, capacity |-> c, size |-> l]
      /\ UNCHANGED <<trace, recipe, fast, status, validated, pages>>
      /\ frames' = [frames EXCEPT ![0] = Frame(initial)] /\ out' = << >>
      /\ status = "new" /\ job = Idle
  BY DEF BeginStream
<1>5. l \in Nat
  BY <1>1, <1>2
<1> HIDE DEF l
<1>6. job' \in Job /\ job'.kind \in {"stream", "whole"} /\ job'.offset = 0 /\ job'.size = l
  BY <1>1, <1>4, <1>5 DEF Job
<1> QED BY <1>2, <1>3, <1>4, <1>6, BeginKeeps

LEMMA BeginWholeKeeps ==
  ASSUME IInv, BeginWhole
  PROVE  IInv'
<1>1. recipe.length \in Nat \ {0} /\ recipe.length \in 1 .. recipe.length
  BY DEF IInv, Types
<1>2. (recipe.length = recipe.length) = TRUE
  OBVIOUS
<1>3. s' = Started(recipe.length, recipe.length = recipe.length)
  BY <1>2, Zenon DEF BeginWhole, Started
<1>4. /\ job' = [kind |-> "whole", offset |-> 0, size |-> recipe.length, capacity |-> 0]
      /\ UNCHANGED <<trace, recipe, fast, status, validated, pages>>
      /\ frames' = [frames EXCEPT ![0] = Frame(initial)] /\ out' = << >>
      /\ status = "new" /\ job = Idle
  BY DEF BeginWhole
<1>6. job' \in Job /\ job'.kind \in {"stream", "whole"} /\ job'.offset = 0 /\ job'.size = recipe.length
  BY <1>1, <1>4 DEF Job
<1> QED BY <1>1, <1>3, <1>4, <1>6, BeginKeeps

LEMMA InitHolds ==
  ASSUME Init
  PROVE  IInv
<1>1. TraceOK
  <2>1. PICK n \in 1 .. MaxBlocks : trace \in [1 .. n -> Blocks]
    BY DEF Init
  <2>2. Blocks \subseteq Nat \cup {Stray} /\ n \in Nat \ {0}
    BY ConstantsAssumption DEF Blocks
  <2>3. trace \in [1 .. n -> Nat \cup {Stray}]
    BY <2>1, <2>2, Zenon
  <2>4. trace \in Seq(Nat \cup {Stray}) /\ Len(trace) = n
    BY <2>2, <2>3
  <2> QED BY <2>2, <2>4 DEF TraceOK
<1>2. Executed(Len(trace)) \in Int
  <2>1. Stored(Len(trace)) \in Nat /\ Len(trace) \in Nat
    BY <1>1, StoredTyped DEF TraceOK
  <2> QED BY <2>1 DEF Executed
<1>3. recipe \in [length : Nat \ {0}, steps : Int, right : BOOLEAN]
  BY <1>2, ConstantsAssumption DEF Init
<1>4. initial \in State
  BY <1>3 DEF initial, State
<1>5. Idle \in Job /\ Idle.kind = "none" /\ Idle.offset = 0
  BY DEF Idle, Job
<1>6. frames = [k \in 0 .. LastPage |-> frames[k]]
  BY Zenon DEF Init, LastPage
<1>7. Types
  BY <1>1, <1>3, <1>4, <1>5, <1>6, Zenon DEF Init, Types
<1>8. Digested(0)
  <2>1. DOMAIN << >> = 0 .. 0 - 1 /\ \A p : p \notin 0 .. 0 - 1
    OBVIOUS
  <2> QED BY <2>1, Zenon DEF Init, Digested
<1>9. Validated
  <2>1. 0 \in Nat
    OBVIOUS
  <2> QED BY <1>5, <1>8, <2>1 DEF Validated, Init
<1>10. ValidOK
  BY DEF ValidOK, Init
<1>11. ~initial.running
  BY DEF initial
<1> QED BY <1>5, <1>7, <1>9, <1>10, <1>11, SMTT(20) DEF IInv, Init, Validating

(***************************************************************************)
(* A run that is started, or goes on, with another window.                 *)
(***************************************************************************)
Opened(t, l, e, v) == Launch([t EXCEPT !.limit = l, !.error = e, !.validating = v])

IsOpened(u, t, l, e, v) ==
  /\ u \in State
  /\ u.entry = t.entry /\ u.cursor = t.cursor /\ u.limit = l /\ u.remaining = t.remaining
  /\ u.next_page = t.next_page /\ u.collecting = t.collecting
  /\ u.validating = v /\ u.error = e /\ u.running
  /\ u.trigger <= l /\ (t.collecting => u.trigger <= t.next_page)

LEMMA OpenedFields ==
  ASSUME NEW t \in State, NEW l \in Nat, NEW e \in BOOLEAN, NEW v \in BOOLEAN
  PROVE  IsOpened(Opened(t, l, e, v), t, l, e, v)
<1> DEFINE u == Opened(t, l, e, v)
<1> DEFINE w == [t EXCEPT !.limit = l, !.error = e, !.validating = v]
<1>1. /\ w \in State
      /\ w.entry = t.entry /\ w.cursor = t.cursor /\ w.limit = l /\ w.remaining = t.remaining
      /\ w.next_page = t.next_page /\ w.collecting = t.collecting
      /\ w.validating = v /\ w.error = e
  BY Zenon DEF State
<1>2. u = [w EXCEPT !.trigger = Trigger(w), !.running = TRUE]
  BY Zenon DEF Opened, Launch
<1> HIDE DEF w, u
<1>3. t.next_page \in Nat
  BY DEF State
<1>4. Trigger(w) \in Nat /\ Trigger(w) <= l /\ (t.collecting => Trigger(w) <= t.next_page)
  BY <1>1, <1>3 DEF Trigger, Smaller
<1>5. PICK x \in Nat : x = Trigger(w)
  BY <1>4, Zenon
<1>6. /\ u \in State
      /\ u.entry = w.entry /\ u.cursor = w.cursor /\ u.limit = w.limit /\ u.remaining = w.remaining
      /\ u.next_page = w.next_page /\ u.collecting = w.collecting
      /\ u.validating = w.validating /\ u.error = w.error /\ u.running /\ u.trigger = Trigger(w)
  <2>1. u = [w EXCEPT !.trigger = x, !.running = TRUE]
    BY <1>2, <1>5, Zenon
  <2>2. w \in State
    BY <1>1, Zenon
  <2> QED BY <1>5, <2>1, <2>2, Zenon DEF State
<1>7. IsOpened(u, t, l, e, v)
  BY <1>1, <1>4, <1>6, Zenon DEF IsOpened
<1> QED BY <1>7 DEF u

LEMMA OpenedSame ==
  ASSUME NEW t \in State, NEW l \in Nat, NEW v \in BOOLEAN
  PROVE  Launch([t EXCEPT !.limit = l, !.validating = v]) = Opened(t, l, t.error, v)
<1>1. [t EXCEPT !.limit = l, !.validating = v] = [t EXCEPT !.limit = l, !.error = t.error, !.validating = v]
  BY Zenon DEF State
<1> QED BY <1>1, Zenon DEF Opened

(* The digests after a window: those of everything stored so far. *)
LEMMA DigestsGrow ==
  ASSUME IInv, Validating, UNCHANGED trace,
         validated' = [p \in DOMAIN validated \cup DOMAIN out |->
                         IF p \in DOMAIN out THEN out[p] ELSE validated[p]]
  PROVE  \A n : n = s.cursor => Digested(n)'
<1>1. /\ status = "new" /\ Output /\ job.offset \in Nat /\ s.cursor \in Nat /\ job.offset <= s.cursor
  BY DEF IInv, Validating, Types, Job, State, Limits
<1>2. Digested(job.offset)
  BY <1>1 DEF IInv, Validated
<1>3. DOMAIN validated = 0 .. job.offset - 1 /\ DOMAIN out = job.offset .. s.cursor - 1
  BY <1>1, <1>2, Zenon DEF Digested, Output
<1>4. DOMAIN validated \cup DOMAIN out = 0 .. s.cursor - 1
  BY <1>1, <1>3
<1>5. /\ validated' = [p \in 0 .. s.cursor - 1 |-> IF p \in DOMAIN out THEN out[p] ELSE validated[p]]
      /\ DOMAIN validated' = 0 .. s.cursor - 1
  BY <1>4, Zenon
<1>6. validated' = [p \in 0 .. s.cursor - 1 |-> validated'[p]]
  BY <1>5, Zenon
<1>7. \A p \in 0 .. s.cursor - 1 : p \notin DOMAIN out => p \in 0 .. job.offset - 1
  BY <1>3, <1>4, Zenon
<1>8. ASSUME NEW p \in 0 .. s.cursor - 1, NEW i, validated'[p] = i
      PROVE  IsByte(p, i)
  <2>1. CASE p \in DOMAIN out
    BY <1>1, <1>3, <1>5, <1>8, <2>1, Zenon DEF Output
  <2>2. CASE p \notin DOMAIN out
    BY <1>2, <1>5, <1>7, <1>8, <2>2, Zenon DEF Digested
  <2> QED BY <2>1, <2>2
<1>9. \A p \in 0 .. s.cursor - 1 : \A i : validated'[p] = i => IsByte(p, i)'
  BY <1>8, SameTrace, Zenon
<1> QED BY <1>5, <1>6, <1>9, Zenon DEF Digested

LEMMA NextWindowKeeps ==
  ASSUME IInv, NextWindow
  PROVE  IInv'
<1> DEFINE l == s.limit + Smaller(job.capacity, recipe.length - s.limit)
<1>1. /\ UNCHANGED <<trace, recipe, fast, status, frames, pages>> /\ out' = << >>
      /\ job' = [job EXCEPT !.offset = s.limit, !.size = Smaller(job.capacity, recipe.length - s.limit)]
      /\ job.kind = "stream" /\ ~s.running /\ ~s.error /\ s.cursor = s.limit /\ s.limit < recipe.length
      /\ s' = Window(s, s.limit, job.capacity)
  BY DEF NextWindow, Stopped, Failed
<1>2. /\ s \in State /\ job \in Job /\ TraceOK /\ recipe.length \in Nat \ {0} /\ status = "new"
      /\ Positions /\ Limits /\ Output /\ Collection /\ Validating
      /\ frames = [k \in 0 .. LastPage |-> frames[k]]
  BY <1>1 DEF IInv, Types, Validating
<1>3. /\ s.limit \in Nat /\ s.cursor \in Nat /\ s.entry \in Nat /\ s.remaining \in Int /\ s.next_page \in Nat
      /\ job.capacity \in Nat /\ s.error \in BOOLEAN
  BY <1>2 DEF State, Job
<1>4. l \in Nat /\ s.limit <= l /\ l <= recipe.length
  BY <1>1, <1>2, <1>3 DEF Smaller
<1>5. Smaller(job.capacity, recipe.length - s.limit) \in Nat
  BY <1>1, <1>2, <1>3 DEF Smaller
<1>6. /\ job' \in Job /\ job'.kind = "stream" /\ job'.offset = s.limit
      /\ job'.offset + job'.size = l
  BY <1>1, <1>2, <1>3, <1>5, Zenon DEF Job
<1>7. s' = Opened(s, l, s.error, l = recipe.length)
  <2>1. s' = Launch([s EXCEPT !.limit = l, !.validating = (l = recipe.length)])
    BY <1>1, Zenon DEF Window
  <2>2. (l = recipe.length) \in BOOLEAN
    BY Zenon
  <2>3. \A v \in BOOLEAN : Launch([s EXCEPT !.limit = l, !.validating = v]) = Opened(s, l, s.error, v)
    BY <1>2, <1>4, OpenedSame, Zenon
  <2> QED BY <2>1, <2>2, <2>3, Zenon
<1> HIDE DEF l
<1>8. /\ s' \in State
      /\ s'.entry = s.entry /\ s'.cursor = s.cursor /\ s'.limit = l /\ s'.remaining = s.remaining
      /\ s'.next_page = s.next_page /\ s'.collecting = s.collecting
      /\ s'.validating = (l = recipe.length) /\ s'.error = s.error /\ s'.running
      /\ s'.trigger <= l /\ (s.collecting => s'.trigger <= s.next_page)
  <2>1. PICK v \in BOOLEAN : v = (l = recipe.length)
    BY Zenon
  <2>2. s' = Opened(s, l, s.error, v)
    BY <1>7, <2>1, Zenon
  <2>3. s \in State /\ l \in Nat /\ s.error \in BOOLEAN
    BY <1>2, <1>3, <1>4, Zenon
  <2>4. IsOpened(s', s, l, s.error, v)
    BY <2>2, <2>3, OpenedFields, Zenon
  <2> QED BY <2>1, <2>4, Zenon DEF IsOpened
<1>9. Types'
  BY <1>1, <1>2, <1>6, <1>8, SameTrace, SameRun, Zenon DEF IInv, Types
<1>10. Validated'
  <2>1. validated' = [p \in DOMAIN validated \cup DOMAIN out |->
                     IF p \in DOMAIN out THEN out[p] ELSE validated[p]]
    BY DEF NextWindow
  <2>3. \A n : n = s.cursor => Digested(n)'
    BY <1>1, <1>2, <2>1, DigestsGrow, Zenon
  <2> QED BY <1>1, <1>2, <1>3, <1>6, <2>3 DEF Validated
<1>11. ValidOK'
  BY <1>1, <1>2 DEF ValidOK
<1>12. Collection'
  BY <1>1, <1>2, <1>8, SameFrames, SameRun, Zenon DEF Collection
<1>13. Validating'
  BY <1>6 DEF Validating
<1>14. Positions'
  <2>1. PICK d \in Nat : Where(d)
    BY <1>1, <1>2 DEF Positions
  <2>2. ~After(d)
    BY <1>1, <1>2, <1>3 DEF After
  <2>3. Before(d) /\ Done(d)
    BY <2>1, <2>2, Zenon DEF Where
  <2>4. Before(d)'
    BY <1>1, <1>8, <2>3, Zenon DEF Before
  <2>5. Done(d)'
    BY <1>1, <1>8, <2>3, SameTrace, Zenon DEF Done
  <2>6. s.collecting => \A i \in 0 .. d - 1 : Seen(i)
    BY <1>2, <2>1, Zenon DEF Where
  <2>7. \A i : Seen(i) => Seen(i)'
    BY <1>1, <1>8, SameTrace, Zenon DEF Seen
  <2>8. Where(d)'
    BY <1>8, <2>4, <2>5, <2>6, <2>7, Zenon DEF Where
  <2> QED BY <1>1, <1>8, <2>8, Zenon DEF Positions
<1>15. Limits'
  <2>1. s'.validating <=> l = recipe.length
    BY <1>8, Zenon
  <2> QED BY <1>1, <1>3, <1>4, <1>6, <1>8, <2>1 DEF Limits
<1>16. Output'
  <2>1. DOMAIN << >> = s.limit .. s.limit - 1 /\ \A p : p \notin s.limit .. s.limit - 1
    BY <1>3
  <2> QED BY <1>1, <1>6, <1>8, <2>1, Zenon DEF Output
<1> QED BY <1>1, <1>2, <1>6, <1>9, <1>10, <1>11, <1>12, <1>14, <1>15, <1>16, SMTT(20) DEF IInv

(***************************************************************************)
(* The end of a validation: the run has ended, every page below next_page  *)
(* has its checkpoint, and one at or above it that is within the output    *)
(* starts where no block does.                                             *)
(***************************************************************************)
LEMMA EndsWhole ==
  ASSUME IInv, Validating, ~s.running, ~s.error, s.limit = recipe.length
  PROVE  WholeRun /\ \E d \in Nat : Where(d) /\ d = Len(trace)
<1>1. Positions /\ Limits /\ recipe.steps \in Int /\ TraceOK
  BY DEF IInv, Validating, Types
<1>2. PICK d \in Nat : Where(d)
  BY <1>1 DEF Positions
<1>3. s.validating
  BY <1>1 DEF Limits
<1>4. After(d) /\ Done(d)
  BY <1>2, <1>3, Zenon DEF Where
<1>5. d = Len(trace) /\ Stored(d) = recipe.length
  BY <1>4, Zenon DEF After, Done
<1>6. Stored(d) \in Nat
  BY <1>1, <1>4, StoredTyped DEF Done
<1>7. Executed(d) = recipe.steps
  BY <1>1, <1>2, <1>4, <1>6 DEF After, Done, Executed
<1> QED BY <1>2, <1>4, <1>5, <1>7, Zenon DEF WholeRun, Done

LEMMA CollectionExact ==
  ASSUME IInv, Validating, ~s.running, ~s.error, s.limit = recipe.length
  PROVE  /\ finish_collection => \A k \in 0 .. LastPage : FrameOK(k)
         /\ ~finish_collection => Missing
<1>1. Collection /\ recipe.length \in Nat \ {0} /\ TraceOK /\ s.next_page \in Nat
  BY DEF IInv, Types, State
<1>2. PICK d \in Nat : Where(d) /\ d = Len(trace)
  BY EndsWhole
<1>3. CASE ~s.collecting
  BY <1>1, <1>3 DEF Collection, finish_collection
<1>4. CASE s.collecting
  <2>1. PICK m \in Nat \ {0} : s.next_page = m * PAGE /\ \A k \in 0 .. LastPage : k < m => FrameOK(k)
    BY <1>1, <1>4 DEF Collection
  <2>2. CASE s.next_page >= recipe.length
    <3>1. \A k \in 0 .. LastPage : k < m
      <4> SUFFICES ASSUME NEW k \in 0 .. LastPage, m <= k PROVE FALSE
        BY <1>1, PageFacts DEF LastPage
      <4>0. recipe.length - 1 \in Nat
        BY <1>1
      <4>00. LastPage \in Nat
        BY <4>0, PageFacts DEF LastPage
      <4>1. m <= LastPage /\ m \in Nat
        BY <2>1, <4>00
      <4>2. m * PAGE < recipe.length
        BY <1>1, <4>1, PageFacts, SMTT(20) DEF LastPage
      <4> QED BY <1>1, <2>1, <2>2, <4>2
    <3> QED BY <1>4, <2>1, <2>2, <3>1, Zenon DEF finish_collection
  <2>3. CASE ~(s.next_page >= recipe.length)
    <3>1. m * PAGE < recipe.length /\ m \in Nat
      BY <1>1, <2>1, <2>3
    <3>2. m \in 1 .. LastPage
      BY <1>1, <2>1, <3>1, PageFacts, SMTT(20) DEF LastPage
    <3>3. Unreachable(m)
      <4> SUFFICES ASSUME NEW i \in 0 .. Len(trace) - 1, Stored(i) = m * PAGE PROVE FALSE
        BY DEF Unreachable
      <4>1. i \in 0 .. d - 1
        BY <1>2
      <4>2. Seen(i)
        BY <1>2, <1>4, <4>1, Zenon DEF Where
      <4> QED BY <1>1, <2>1, <3>1, <4>2 DEF Seen
    <3> QED BY <2>3, <3>2, <3>3, Zenon DEF Missing, finish_collection
  <2> QED BY <2>2, <2>3
<1> QED BY <1>3, <1>4

LEMMA AcceptKeeps ==
  ASSUME IInv, Accept
  PROVE  IInv'
<1>1. /\ UNCHANGED <<trace, recipe, fast>> /\ status' = "valid" /\ job' = Idle /\ s' = initial /\ out' = << >>
      /\ Validating /\ ~s.running /\ ~s.error /\ s.cursor = s.limit /\ s.limit = recipe.length /\ recipe.right
      /\ validated' = [p \in DOMAIN validated \cup DOMAIN out |->
                     IF p \in DOMAIN out THEN out[p] ELSE validated[p]]
      /\ frames' = IF finish_collection THEN frames ELSE [k \in DOMAIN frames |-> Frame(initial)]
  BY DEF Accept, Stopped, Failed, Validating
<1>2. pages' = finish_collection
  BY Zenon DEF Accept
<1>3. pages' \in BOOLEAN /\ (pages' <=> finish_collection)
  BY <1>2, Zenon DEF finish_collection
<1>4. frames = [k \in 0 .. LastPage |-> frames[k]] /\ recipe.length \in Nat
  BY DEF IInv, Types
<1>5. frames' = [k \in 0 .. LastPage |-> frames'[k]]
  <2>1. CASE finish_collection
    BY <1>1, <1>4, <2>1, Zenon
  <2>2. CASE ~finish_collection
    <3>1. DOMAIN frames = 0 .. LastPage
      BY <1>4, Zenon
    <3>2. frames' = [k \in 0 .. LastPage |-> Frame(initial)]
      BY <1>1, <2>2, <3>1, Zenon
    <3> QED BY <3>2, Zenon
  <2> QED BY <2>1, <2>2
<1>6. \A n : n = s.cursor => Digested(n)'
  BY <1>1, DigestsGrow, Zenon
<1>7. Validated'
  BY <1>1, <1>4, <1>6 DEF Validated
<1>8. ValidOK'
  <2>1. WholeRun'
    BY <1>1, EndsWhole, SameRun, Zenon
  <2>2. CASE finish_collection
    <3>1. \A k \in 0 .. LastPage : FrameOK(k)
      BY <1>1, <2>2, CollectionExact, Zenon
    <3>2. frames' = frames
      BY <1>1, <2>2, Zenon
    <3>3. \A k \in 0 .. LastPage : FrameOK(k)'
      BY <1>1, <3>1, <3>2, SameFrames, Zenon
    <3> QED BY <1>1, <1>3, <2>1, <2>2, <3>3, SameRun, Zenon DEF ValidOK
  <2>3. CASE ~finish_collection
    BY <1>1, <1>3, <2>1, <2>3, CollectionExact, SameRun, Zenon DEF ValidOK
  <2> QED BY <2>2, <2>3
<1> QED BY <1>1, <1>3, <1>5, <1>7, <1>8, IdleKeeps, SMTT(20)

(***************************************************************************)
(* The start of a restore: its checkpoint is the state at its first page,  *)
(* and some block ends where it does.                                      *)
(***************************************************************************)
LEMMA BeginRestoreKeeps ==
  ASSUME IInv, NEW offset \in Nat, NEW size \in Nat, BeginRestore(offset, size)
  PROVE  IInv'
<1> DEFINE f == frames[offset \div PAGE]
           t == IF offset = 0 THEN initial
                ELSE [initial EXCEPT !.entry = f.entry, !.cursor = f.cursor, !.remaining = f.remaining]
<1>1. /\ UNCHANGED <<trace, recipe, fast, status, frames, validated, pages>> /\ out' = << >>
      /\ job' = [kind |-> "slice", offset |-> offset, size |-> size, capacity |-> 0]
      /\ status = "valid" /\ job = Idle
      /\ offset < recipe.length /\ size \in 1 .. recipe.length - offset
      /\ \/ offset = 0 /\ size = recipe.length
         \/ pages /\ offset % PAGE = 0 /\ (size % PAGE = 0 \/ offset + size = recipe.length)
  BY DEF BeginRestore, Restorable
<1>2. s' = Opened(t, offset + size, offset # t.cursor, offset = 0 /\ size = recipe.length)
  BY Zenon DEF BeginRestore, Opened
<1>3. /\ TraceOK /\ recipe.length \in Nat \ {0} /\ recipe.steps \in Int /\ PAGE \in Nat \ {0}
      /\ ValidOK /\ Validated /\ LastPage = (recipe.length - 1) \div PAGE
  BY ConstantsAssumption DEF IInv, Types, LastPage
<1>4. WholeRun /\ (pages => \A k \in 0 .. LastPage : FrameOK(k))
  BY <1>1, <1>3 DEF ValidOK
<1>5. Stored(0) = 0 /\ Executed(0) = 0 /\ 0 \in 0 .. Len(trace) - 1 /\ Len(trace) \in Nat
  BY <1>3, StartOfRun
<1>6. \E d \in 0 .. Len(trace) - 1 :
        /\ Stored(d) = offset /\ t.entry = d + 1 /\ t.cursor = Stored(d) /\ t.remaining = recipe.steps - Executed(d)
        /\ \A j \in 1 .. d : trace[j] # Stray
  <2>1. CASE offset = 0
    <3>1. /\ t.entry = 1 /\ t.cursor = 0 /\ t.remaining = recipe.steps
      BY <2>1 DEF initial
    <3>2. \A j : j \notin 1 .. 0
      OBVIOUS
    <3> HIDE DEF t
    <3> QED BY <1>3, <1>5, <2>1, <3>1, <3>2
  <2>2. CASE offset # 0
    <3>1. pages /\ offset % PAGE = 0
      BY <1>1, <2>2
    <3>2. offset \div PAGE \in Nat /\ offset = (offset \div PAGE) * PAGE
      BY <3>1, PageFacts
    <3>3. offset \div PAGE \in 0 .. LastPage
      <4>1. offset \div PAGE <= (recipe.length - 1) \div PAGE
        BY <1>1, <1>3, <3>2, PageFacts, Zenon
      <4>2. recipe.length - 1 \in Nat
        BY <1>3
      <4>3. LastPage \in Nat
        BY <1>3, <4>2, PageFacts
      <4> QED BY <1>3, <3>2, <4>1, <4>3
    <3>4. PICK d \in 0 .. Len(trace) - 1 : FrameAt(offset \div PAGE, d)
      BY <1>4, <3>1, <3>3, Zenon DEF FrameOK
    <3>5. f = [entry |-> d + 1, cursor |-> Stored(d), remaining |-> recipe.steps - Executed(d)] /\ Stored(d) = offset
      BY <3>2, <3>4, Zenon DEF FrameAt
    <3> HIDE DEF f
    <3>6. /\ t.entry = d + 1 /\ t.cursor = Stored(d) /\ t.remaining = recipe.steps - Executed(d)
      BY <2>2, <3>5 DEF initial
    <3> QED BY <3>4, <3>5, <3>6, Zenon DEF FrameAt
  <2> QED BY <2>1, <2>2
<1>7. /\ t.next_page = 0 /\ t.collecting = FALSE
  BY DEF initial
<1>8. t \in State
  <2>1. initial \in State
    BY <1>3 DEF initial, State
  <2>2. PICK d \in 0 .. Len(trace) - 1 :
        /\ Stored(d) = offset /\ t.entry = d + 1 /\ t.cursor = Stored(d) /\ t.remaining = recipe.steps - Executed(d)
    BY <1>6, Zenon
  <2>3. Executed(d) \in Int /\ d \in Nat
    BY <1>5, <2>2 DEF Executed
  <2>4. CASE offset = 0
    BY <2>1, <2>4, Zenon
  <2>5. CASE offset # 0
    <3>1. t = [initial EXCEPT !.entry = f.entry, !.cursor = f.cursor, !.remaining = f.remaining]
      BY <2>5, Zenon
    <3>2. t.entry = f.entry /\ t.cursor = f.cursor /\ t.remaining = f.remaining
      BY <2>5 DEF initial
    <3> HIDE DEF f, t
    <3>3. f.entry \in Nat /\ f.cursor \in Nat /\ f.remaining \in Int
      <4>1. recipe.steps \in Int
        BY <1>3
      <4>2. f.entry = d + 1 /\ f.cursor = offset /\ f.remaining = recipe.steps - Executed(d)
        BY <2>2, <3>2, Zenon
      <4>3. recipe.steps - Executed(d) \in Int
        BY <2>3, <4>1
      <4>4. d + 1 \in Nat
        BY <2>3
      <4> QED BY <4>2, <4>3, <4>4, Zenon
    <3> QED BY <2>1, <3>1, <3>3, Zenon DEF State
  <2> QED BY <2>4, <2>5
<1> HIDE DEF f, t
<1>9. PICK d \in 0 .. Len(trace) - 1 :
        /\ Stored(d) = offset /\ t.entry = d + 1 /\ t.cursor = Stored(d) /\ t.remaining = recipe.steps - Executed(d)
        /\ \A j \in 1 .. d : trace[j] # Stray
  BY <1>6, Zenon
<1>10. PICK e \in BOOLEAN : e = (offset # t.cursor)
  BY Zenon
<1>11. PICK v \in BOOLEAN : v = (offset = 0 /\ size = recipe.length)
  BY Zenon
<1>12. e = FALSE
  BY <1>9, <1>10, Zenon
<1>13. IsOpened(s', t, offset + size, e, v)
  <2>1. s' = Opened(t, offset + size, e, v)
    BY <1>2, <1>10, <1>11, Zenon
  <2>2. offset + size \in Nat
    OBVIOUS
  <2> QED BY <1>8, <2>1, <2>2, OpenedFields, Zenon
<1>14. /\ s' \in State
       /\ s'.entry = d + 1 /\ s'.cursor = Stored(d) /\ s'.limit = offset + size
       /\ s'.remaining = recipe.steps - Executed(d) /\ s'.collecting = FALSE
       /\ s'.validating = v /\ s'.error = FALSE /\ s'.running /\ s'.trigger <= s'.limit
  BY <1>7, <1>9, <1>12, <1>13, Zenon DEF IsOpened
<1>15. /\ job' \in Job /\ job'.kind = "slice" /\ job'.offset = offset /\ job'.size = size
  BY <1>1 DEF Job
<1>16. Types'
  BY <1>1, <1>14, <1>15, SameTrace, SameRun, Zenon DEF IInv, Types
<1>17. Validated'
  BY <1>1, <1>3, SameDigests DEF Validated
<1>18. ValidOK'
  BY <1>1, <1>3, SameValid, Zenon
<1>19. Positions'
  <2>1. d \in Nat /\ d \in 0 .. Len(trace) /\ d < Len(trace)
    BY <1>5, <1>9
  <2>2. Done(d)'
    BY <1>1, <1>9, <1>14, <2>1, SameTrace, Zenon DEF Done
  <2>3. Before(d)'
    BY <1>1, <1>14, <2>1, Zenon DEF Before
  <2>4. Where(d)'
    BY <1>14, <2>2, <2>3, Zenon DEF Where
  <2> QED BY <1>14, <2>1, <2>4, Zenon DEF Positions
<1>20. Limits'
  <2>1. ~Validating'
    BY <1>15 DEF Validating
  <2> QED BY <1>1, <1>3, <1>9, <1>14, <1>15, <2>1 DEF Limits
<1>21. Output'
  <2>1. DOMAIN << >> = offset .. offset - 1 /\ \A p : p \notin offset .. offset - 1
    OBVIOUS
  <2> QED BY <1>1, <1>9, <1>14, <1>15, <2>1, Zenon DEF Output
<1>22. Restoring'
  <2>1. \E i \in 0 .. Len(trace) : Stored(i) = offset + size
    <3>1. CASE offset + size = recipe.length
      BY <1>4, <1>5, <3>1 DEF WholeRun
    <3>2. CASE offset + size # recipe.length
      <4>1. pages /\ offset % PAGE = 0 /\ size % PAGE = 0
        BY <1>1, <1>3, <3>2, SMTT(20)
      <4>2. PICK k \in Nat : offset + size = k * PAGE
        <5>1. offset = (offset \div PAGE) * PAGE /\ size = (size \div PAGE) * PAGE
          BY <4>1, PageFacts
        <5>2. offset \div PAGE \in Nat /\ size \div PAGE \in Nat
          BY PageFacts
        <5>3. \A a, b \in Nat : a * PAGE + b * PAGE = (a + b) * PAGE
          BY <1>3
        <5>4. PICK a \in Nat, b \in Nat : offset = a * PAGE /\ size = b * PAGE
          BY <5>1, <5>2, Zenon
        <5>5. offset + size = (a + b) * PAGE /\ a + b \in Nat
          BY <5>3, <5>4
        <5> QED BY <5>5, Zenon
      <4>3. k * PAGE < recipe.length
        BY <1>1, <1>3, <3>2, <4>2
      <4>4. k \in 0 .. LastPage
        <5>0. recipe.length - 1 \in Nat
          BY <1>3
        <5>1. recipe.length - 1 \in Nat /\ k <= (recipe.length - 1) \div PAGE
          BY <1>3, <4>3, <5>0, PageFacts
        <5>2. LastPage \in Nat
          BY <1>3, <5>1, PageFacts, SMTT(20)
        <5> QED BY <1>3, <4>2, <5>1, <5>2
      <4>5. PICK i \in 0 .. Len(trace) - 1 : FrameAt(k, i)
        BY <1>4, <4>1, <4>4, Zenon DEF FrameOK
      <4>6. Stored(i) = offset + size
        BY <4>2, <4>5, Zenon DEF FrameAt
      <4> QED BY <1>5, <4>6
    <3> QED BY <3>1, <3>2
  <2>2. v => offset + size = recipe.length
    <3>1. v => offset = 0 /\ size = recipe.length
      BY <1>11, Zenon
    <3> QED BY <1>3, <3>1
  <2>3. \E i \in 0 .. Len(trace') : Stored(i)' = s'.limit
    BY <1>1, <1>14, <2>1, SameTrace, Zenon
  <2>4. job'.size # 0
    BY <1>1, <1>15
  <2> QED BY <1>1, <1>14, <2>2, <2>3, <2>4, Zenon DEF Restoring
<1>23. ~Validating' /\ job'.kind # "none" /\ status' = "valid"
  BY <1>1, <1>15 DEF Validating
<1> QED BY <1>16, <1>17, <1>18, <1>19, <1>20, <1>21, <1>22, <1>23, Zenon DEF IInv

(***************************************************************************)
(* A block.                                                                *)
(***************************************************************************)
AtBlock(d) ==
  /\ d \in 0 .. Len(trace) - 1
  /\ s.entry = d + 1 /\ s.cursor = Stored(d) /\ s.remaining = recipe.steps - Executed(d)
  /\ \A j \in 1 .. d : trace[j] # Stray
  /\ Validating /\ s.collecting => \A i \in 0 .. d - 1 : Seen(i)

LEMMA RunningAt ==
  ASSUME IInv, s.running
  PROVE  /\ job.kind # "none" /\ ~s.error
         /\ \E d \in Nat : AtBlock(d)
<1>1. job.kind # "none" /\ Positions /\ ~s.error /\ TraceOK
  BY DEF IInv, Positions, Types
<1>2. PICK d \in Nat : Where(d)
  BY <1>1 DEF Positions
<1>3. ~After(d)
  BY Zenon DEF After
<1>4. Before(d) /\ Done(d)
  BY <1>2, <1>3, Zenon DEF Where
<1>5. d \in 0 .. Len(trace) - 1
  BY <1>1, <1>4 DEF Before, Done, TraceOK
<1>6. AtBlock(d)
  BY <1>2, <1>4, <1>5, Zenon DEF AtBlock, Where, Before, Done
<1> QED BY <1>1, <1>6

LEMMA BlockNumbers ==
  ASSUME TraceOK, NEW d \in 0 .. Len(trace) - 1
  PROVE  /\ d + 1 \in DOMAIN trace /\ d + 1 \in 1 .. Len(trace) /\ d + 1 \in 0 .. Len(trace) /\ d \in 0 .. Len(trace)
         /\ Stored(d) \in Nat /\ Stored(d + 1) \in Nat /\ Bytes(d + 1) \in Nat /\ Count(d + 1) = 1 + Bytes(d + 1)
         /\ Executed(d) = d + Stored(d) /\ Executed(d + 1) = Executed(d) + Count(d + 1)
         /\ Stored(d + 1) = Stored(d) + Bytes(d + 1)
         /\ trace[d + 1] # Stray => trace[d + 1] = Bytes(d + 1)
<1>1. d + 1 \in DOMAIN trace /\ d + 1 \in 1 .. Len(trace) /\ d + 1 \in 0 .. Len(trace) /\ d \in 0 .. Len(trace)
  BY DEF TraceOK
<1>2. Stored(d) \in Nat /\ Stored(d + 1) \in Nat
  BY <1>1, StoredTyped
<1>3. Bytes(d + 1) \in Nat /\ (trace[d + 1] # Stray => trace[d + 1] = Bytes(d + 1))
  BY <1>1, BytesTyped
<1>4. Stored(d + 1) = Stored((d + 1) - 1) + Bytes(d + 1)
  BY <1>1, StoredStep
<1>5. (d + 1) - 1 = d
  OBVIOUS
<1>6. Stored(d + 1) = Stored(d) + Bytes(d + 1)
  BY <1>4, <1>5
<1> QED BY <1>1, <1>2, <1>3, <1>6 DEF Executed, Count

(* The prologue changes only what it collects and where it looks again. *)
LEMMA CollectedFields ==
  ASSUME s \in State
  PROVE  /\ Collected \in State
         /\ Collected.entry = s.entry /\ Collected.cursor = s.cursor /\ Collected.limit = s.limit
         /\ Collected.remaining = s.remaining /\ Collected.validating = s.validating
         /\ Collected.error = s.error /\ Collected.running = s.running /\ Collected.trigger = s.trigger
         /\ Collected.next_page = (IF AtPage THEN s.next_page + PAGE ELSE s.next_page)
         /\ (Collected.collecting <=> s.collecting /\ ~PastPage)
<1>1. PICK n : n = IF AtPage THEN s.next_page + PAGE ELSE s.next_page
  BY Zenon
<1>2. PICK c \in BOOLEAN : c = (s.collecting /\ ~PastPage)
  BY Zenon
<1>3. Collected = [s EXCEPT !.next_page = n, !.collecting = c]
  BY <1>1, <1>2, Zenon DEF Collected
<1>4. n \in Nat
  BY <1>1, ConstantsAssumption DEF State
<1>5. /\ Collected \in State
      /\ Collected.entry = s.entry /\ Collected.cursor = s.cursor /\ Collected.limit = s.limit
      /\ Collected.remaining = s.remaining /\ Collected.validating = s.validating
      /\ Collected.error = s.error /\ Collected.running = s.running /\ Collected.trigger = s.trigger
      /\ Collected.next_page = n /\ Collected.collecting = c
  BY <1>3, <1>4, Zenon DEF State
<1> QED BY <1>1, <1>2, <1>5, Zenon

LEMMA PrologueFields ==
  ASSUME s \in State, fast \in BOOLEAN
  PROVE  /\ Prologue \in State
         /\ Prologue.entry = s.entry /\ Prologue.cursor = s.cursor /\ Prologue.limit = s.limit
         /\ Prologue.remaining = s.remaining /\ Prologue.validating = s.validating
         /\ Prologue.error = s.error /\ Prologue.running = s.running
         /\ Prologue.next_page = Collected.next_page /\ Prologue.collecting = Collected.collecting
         /\ Prologue.trigger = IF fast /\ ~Hot THEN Trigger(Collected) ELSE s.trigger
<1>1. PICK x : x = IF fast /\ ~Hot THEN Trigger(Collected) ELSE Collected.trigger
  BY Zenon
<1>2. Prologue = [Collected EXCEPT !.trigger = x]
  BY <1>1, Zenon DEF Prologue
<1>3. Collected \in State
  BY CollectedFields, Zenon
<1>4. x \in Nat
  BY <1>1, <1>3 DEF Trigger, Smaller, State
<1>5. /\ Prologue \in State
      /\ Prologue.entry = Collected.entry /\ Prologue.cursor = Collected.cursor
      /\ Prologue.limit = Collected.limit
      /\ Prologue.remaining = Collected.remaining /\ Prologue.validating = Collected.validating
      /\ Prologue.error = Collected.error /\ Prologue.running = Collected.running
      /\ Prologue.next_page = Collected.next_page /\ Prologue.collecting = Collected.collecting
      /\ Prologue.trigger = x
  BY <1>2, <1>3, <1>4 DEF State
<1> QED BY <1>1, <1>5, CollectedFields, Zenon

(* The fast path never runs past the end of the window or a page to be seen. *)
LEMMA PrologueTrigger ==
  ASSUME s \in State, fast \in BOOLEAN, fast,
         s.trigger <= s.limit, s.collecting => s.trigger <= s.next_page
  PROVE  /\ Prologue.trigger <= s.limit
         /\ Prologue.collecting => Prologue.trigger <= Prologue.next_page
<1>1. CASE Hot
  <2>1. ~AtPage /\ ~PastPage
    BY <1>1, Zenon DEF AtPage, PastPage
  <2>2. /\ Prologue.trigger = s.trigger /\ Prologue.next_page = s.next_page
        /\ Prologue.collecting => s.collecting
    BY <1>1, <2>1, PrologueFields, CollectedFields, Zenon
  <2> QED BY <2>2
<1>2. CASE ~Hot
  <2>1. /\ Prologue.trigger = Trigger(Collected) /\ Prologue.next_page = Collected.next_page
        /\ Prologue.collecting = Collected.collecting /\ Collected.limit = s.limit
    BY <1>2, PrologueFields, CollectedFields, Zenon
  <2>2. Collected \in State
    BY CollectedFields, Zenon
  <2>3. Collected.limit \in Nat /\ Collected.next_page \in Nat
    BY <2>2 DEF State
  <2> QED BY <2>1, <2>3 DEF Trigger, Smaller
<1> QED BY <1>1, <1>2

(***************************************************************************)
(* What the prologue collects: at a page the checkpoint is right, and a    *)
(* page passed over can never be reached.                                  *)
(***************************************************************************)
LEMMA PrologueCollects ==
  ASSUME IInv, Validating, s.running, NEW d \in Nat, AtBlock(d), UNCHANGED <<trace, recipe>>,
         frames' = IF AtPage THEN [frames EXCEPT ![s.cursor \div PAGE] = Saved] ELSE frames
  PROVE  /\ Collected.collecting =>
              \E m \in Nat \ {0} : Collected.next_page = m * PAGE /\ \A k \in 0 .. LastPage : k < m => FrameOK(k)'
         /\ ~Collected.collecting => Missing
         /\ Collected.collecting =>
              \A i \in 0 .. d : Stored(i) < Collected.next_page \/ Stored(i) = recipe.length
<1>1. /\ TraceOK /\ s \in State /\ Collection /\ Limits /\ recipe.length \in Nat \ {0}
      /\ frames = [k \in 0 .. LastPage |-> frames[k]] /\ PAGE \in Nat \ {0} /\ recipe.steps \in Int
  BY ConstantsAssumption DEF IInv, Types, Validating
<1>2. /\ Stored(d) \in Nat /\ Stored(d) = s.cursor /\ s.cursor <= recipe.length /\ s.next_page \in Nat
      /\ d \in 0 .. Len(trace) - 1 /\ Len(trace) \in Nat
      /\ s.limit \in Nat /\ s.trigger \in Nat
      /\ fast => s.trigger <= s.limit /\ (s.collecting => s.trigger <= s.next_page)
  <2>1. d \in 0 .. Len(trace) - 1 /\ Stored(d) = s.cursor
    BY Zenon DEF AtBlock
  <2>2. Stored(d) \in Nat /\ Len(trace) \in Nat
    BY <1>1, <2>1, BlockNumbers DEF TraceOK
  <2>3. s.next_page \in Nat /\ s.limit \in Nat /\ s.trigger \in Nat
    BY <1>1 DEF State
  <2>4. /\ s.cursor <= s.limit /\ s.limit <= recipe.length
        /\ fast => s.trigger <= s.limit /\ (s.collecting => s.trigger <= s.next_page)
    BY <1>1, Zenon DEF Limits
  <2> QED BY <1>1, <2>1, <2>2, <2>3, <2>4
<1>3. /\ Collected.next_page = (IF AtPage THEN s.next_page + PAGE ELSE s.next_page)
      /\ (Collected.collecting <=> s.collecting /\ ~PastPage)
  BY <1>1, CollectedFields, Zenon
<1>4. CASE ~s.collecting
  BY <1>1, <1>3, <1>4 DEF Collection
<1>5. CASE s.collecting
  <2>1. PICK m \in Nat \ {0} : s.next_page = m * PAGE /\ \A k \in 0 .. LastPage : k < m => FrameOK(k)
    BY <1>1, <1>5 DEF Collection
  <2>2. \A i \in 0 .. d - 1 : Stored(i) < s.next_page \/ Stored(i) = recipe.length
    BY <1>5, Zenon DEF AtBlock, Seen
  <2>3. CASE PastPage
    <3>1. ~Collected.collecting /\ s.cursor > s.next_page /\ s.cursor # recipe.length
      BY <1>3, <2>3, Zenon DEF PastPage
    <3>2. m \in 1 .. LastPage
      <4>1. m * PAGE < recipe.length /\ m \in Nat
        BY <1>1, <1>2, <2>1, <3>1
      <4>2. m <= (recipe.length - 1) \div PAGE
        BY <1>1, <4>1, PageFacts
      <4>3. recipe.length - 1 \in Nat
        BY <1>1
      <4>4. LastPage \in Nat
        BY <4>3, PageFacts, SMTT(20) DEF LastPage
      <4> QED BY <2>1, <4>2, <4>4 DEF LastPage
    <3>3. Unreachable(m)
      <4> SUFFICES ASSUME NEW i \in 0 .. Len(trace) - 1 PROVE Stored(i) # s.next_page
        BY <2>1, Zenon DEF Unreachable
      <4>0. i \in 0 .. Len(trace) /\ d \in 0 .. Len(trace)
        BY <1>2
      <4>1. Stored(i) \in Nat
        BY <1>1, <4>0, StoredTyped
      <4>2. CASE i <= d - 1
        <5>1. Stored(i) <= Stored(d)
          BY <1>1, <1>2, <4>0, <4>2, StoredGrows, SMTT(20)
        <5>2. Stored(i) < s.next_page \/ Stored(i) = recipe.length
          BY <2>2, <4>2
        <5> QED BY <1>1, <1>2, <3>1, <4>1, <5>1, <5>2, SMTT(20)
      <4>3. CASE ~(i <= d - 1)
        <5>1. Stored(d) <= Stored(i)
          BY <1>1, <1>2, <4>0, <4>3, StoredGrows, SMTT(20)
        <5> QED BY <1>2, <3>1, <4>1, <5>1, SMTT(20)
      <4> QED BY <4>2, <4>3
    <3> QED BY <3>1, <3>2, <3>3, Zenon DEF Missing
  <2>4. CASE AtPage
    <3>1. /\ Collected.collecting /\ Collected.next_page = s.next_page + PAGE
          /\ s.cursor = s.next_page /\ s.cursor # recipe.length
      BY <1>2, <1>3, <1>5, <2>4, SMTT(20) DEF PastPage, AtPage
    <3>2. m * PAGE = s.cursor /\ m * PAGE < recipe.length /\ m \in Nat /\ s.cursor \in Nat
      BY <1>1, <1>2, <2>1, <3>1, SMTT(20)
    <3>3. s.cursor \div PAGE = m /\ (m + 1) * PAGE = s.next_page + PAGE
      BY <2>1, <3>2, PageFacts
    <3>4. frames' = [frames EXCEPT ![m] = Saved]
      BY <2>4, <3>3, Zenon
    <3>5. \A i : Stored(i)' = Stored(i) /\ Executed(i)' = Executed(i)
      BY SameTrace
    <3>6. Saved = [entry |-> d + 1, cursor |-> Stored(d), remaining |-> recipe.steps - Executed(d)]
      BY Zenon DEF Saved, Frame, AtBlock
    <3>7. ASSUME NEW k \in 0 .. LastPage, k < m + 1 PROVE FrameOK(k)'
      <4>1. CASE k = m
        <5>1. frames'[k] = Saved
          BY <1>1, <3>4, <3>7, <4>1, Zenon
        <5>2. FrameAt(k, d)'
          BY <1>2, <3>2, <3>5, <3>6, <4>1, <5>1, Zenon DEF FrameAt, AtBlock
        <5> QED BY <1>2, <5>2, Zenon DEF FrameOK
      <4>2. CASE k # m
        <5>0. k < m
          BY <2>1, <3>7, <4>2
        <5>1. FrameOK(k)
          BY <2>1, <3>7, <5>0, Zenon
        <5>2. frames'[k] = frames[k]
          BY <1>1, <3>4, <3>7, <4>2, Zenon
        <5>3. \A i : FrameAt(k, i) => FrameAt(k, i)'
          BY <3>5, <5>2, Zenon DEF FrameAt
        <5> QED BY <5>1, <5>3, Zenon DEF FrameOK
      <4> QED BY <4>1, <4>2
    <3>8. m + 1 \in Nat \ {0} /\ Collected.next_page = (m + 1) * PAGE
      BY <3>1, <3>2, <3>3, SMTT(20)
    <3>9. \A i \in 0 .. d : Stored(i) < Collected.next_page \/ Stored(i) = recipe.length
      <4> SUFFICES ASSUME NEW i \in 0 .. d PROVE Stored(i) < Collected.next_page
        OBVIOUS
      <4>1. i \in 0 .. Len(trace) /\ d \in 0 .. Len(trace) /\ i <= d
        BY <1>2
      <4>2. Stored(i) \in Nat /\ Stored(i) <= Stored(d)
        BY <1>1, <4>1, StoredTyped, StoredGrows
      <4> QED BY <1>1, <1>2, <3>1, <4>2, SMTT(20)
    <3> QED BY <3>1, <3>7, <3>8, <3>9, Zenon
  <2>5. CASE ~PastPage /\ ~AtPage
    <3>1. Collected.collecting /\ Collected.next_page = s.next_page /\ frames' = frames
      BY <1>3, <1>5, <2>5, Zenon
    <3>2. \A k : FrameOK(k) => FrameOK(k)'
      BY <3>1, SameFrames, Zenon
    <3>3. Stored(d) < s.next_page \/ Stored(d) = recipe.length
      <4>1. CASE Hot
        BY <1>2, <1>5, <4>1 DEF Hot
      <4>2. CASE ~Hot
        BY <1>2, <1>5, <2>5, <4>2 DEF AtPage, PastPage
      <4> QED BY <4>1, <4>2
    <3>4. \A i \in 0 .. d : i \in 0 .. d - 1 \/ i = d
      OBVIOUS
    <3>5. \A i \in 0 .. d : Stored(i) < s.next_page \/ Stored(i) = recipe.length
      BY <2>2, <3>3, <3>4, Zenon
    <3> QED BY <2>1, <3>1, <3>2, <3>5, Zenon
  <2> QED BY <2>3, <2>4, <2>5
<1> QED BY <1>4, <1>5

(***************************************************************************)
(* No block of a restore fails: all its instructions are left, and it ends *)
(* within the slice, which ends where some block does.                     *)
(***************************************************************************)
LEMMA SliceAdmits ==
  ASSUME IInv, job.kind = "slice", s.running, ~Yields, NEW d \in Nat, AtBlock(d)
  PROVE  ~(s.remaining < Count(s.entry)) /\ AdmitsStore
<1>1. /\ TraceOK /\ s \in State /\ recipe.length \in Nat \ {0} /\ recipe.steps \in Int
      /\ status = "valid" /\ Restoring /\ Limits /\ ValidOK
  BY DEF IInv, Types
<1>2. PICK n \in {Len(trace)} :
         /\ Stored(n) = recipe.length /\ Executed(n) = recipe.steps
         /\ \A j \in 1 .. n : trace[j] # Stray
  BY <1>1, Zenon DEF ValidOK, WholeRun
<1>3. d \in 0 .. Len(trace) - 1 /\ s.entry = d + 1 /\ s.cursor = Stored(d) /\ s.remaining = recipe.steps - Executed(d)
  BY Zenon DEF AtBlock
<1>4. /\ d + 1 \in DOMAIN trace /\ d + 1 \in 1 .. Len(trace) /\ d + 1 \in 0 .. Len(trace) /\ d \in 0 .. Len(trace)
      /\ Stored(d) \in Nat /\ Stored(d + 1) \in Nat /\ Bytes(d + 1) \in Nat /\ Count(d + 1) = 1 + Bytes(d + 1)
      /\ Executed(d) = d + Stored(d) /\ Executed(d + 1) = Executed(d) + Count(d + 1)
      /\ Stored(d + 1) = Stored(d) + Bytes(d + 1)
      /\ trace[d + 1] # Stray => trace[d + 1] = Bytes(d + 1)
  BY <1>1, <1>3, BlockNumbers
<1>5. n = Len(trace) /\ n \in Nat /\ n \in 0 .. Len(trace) /\ d + 1 <= n
  BY <1>1, <1>2, <1>4 DEF TraceOK
<1>6. Stored(d + 1) <= Stored(n) /\ Stored(n) \in Nat
  BY <1>1, <1>4, <1>5, StoredGrows, StoredTyped, SMTT(20)
<1>7. Executed(d + 1) <= Executed(n)
  BY <1>4, <1>5, <1>6, SMTT(20) DEF Executed
<1>8. ~(s.remaining < Count(s.entry))
  BY <1>1, <1>2, <1>3, <1>4, <1>7, SMTT(20)
<1>9. trace[s.entry] # Stray /\ trace[s.entry] = Bytes(d + 1)
  BY <1>2, <1>3, <1>4, <1>5, Zenon
<1>10. Stored(d + 1) <= s.limit
  <2>1. CASE s.validating
    BY <1>1, <1>2, <1>6, <2>1, SMTT(20) DEF Restoring
  <2>2. CASE ~s.validating
    <3>1. s.cursor \in Nat /\ s.limit \in Nat /\ s.trigger \in Nat
      BY <1>1 DEF State
    <3>2. s.cursor <= s.limit /\ (fast => s.trigger <= s.limit)
      BY <1>1, Zenon DEF Limits
    <3>3. s.cursor < s.limit
      BY <2>2, <3>1, <3>2 DEF Yields, Hot
    <3>4. PICK i \in 0 .. Len(trace) : Stored(i) = s.limit
      BY <1>1, Zenon DEF Restoring
    <3>5. ~(i <= d)
      <4> SUFFICES ASSUME i <= d PROVE FALSE
        OBVIOUS
      <4>1. Stored(i) <= Stored(d)
        BY <1>1, <1>4, <3>4, StoredGrows, SMTT(20)
      <4> QED BY <1>3, <3>1, <3>3, <3>4, <4>1, SMTT(20)
    <3>6. d + 1 <= i
      BY <1>5, <3>4, <3>5
    <3> QED BY <1>1, <1>4, <3>4, <3>6, StoredGrows
  <2> QED BY <2>1, <2>2
<1>11. AdmitsStore
  <2>1. s.cursor + trace[s.entry] <= s.limit
    BY <1>3, <1>4, <1>9, <1>10
  <2> QED BY <1>9, <2>1, Zenon DEF AdmitsStore
<1> QED BY <1>8, <1>11

(***************************************************************************)
(* The state after a block.                                                *)
(***************************************************************************)
IsAfter(u, at, cursor, remaining, running, error) ==
  /\ u \in State
  /\ u.entry = at /\ u.cursor = cursor /\ u.remaining = remaining
  /\ u.running = running /\ u.error = error
  /\ u.limit = s.limit /\ u.validating = s.validating
  /\ u.next_page = Collected.next_page /\ u.collecting = Collected.collecting
  /\ u.trigger = Prologue.trigger

LEMMA AfterFail ==
  ASSUME s \in State, fast \in BOOLEAN
  PROVE  IsAfter(Fail(Prologue), s.entry, s.cursor, s.remaining, FALSE, TRUE)
<1>1. PICK t : t = Prologue
  BY Zenon
<1>2. /\ t \in State
      /\ t.entry = s.entry /\ t.cursor = s.cursor /\ t.limit = s.limit
      /\ t.remaining = s.remaining /\ t.validating = s.validating
      /\ t.next_page = Collected.next_page /\ t.collecting = Collected.collecting
  BY <1>1, PrologueFields, Zenon
<1>3. PICK u : u = Fail(t)
  BY Zenon
<1>4. u = [t EXCEPT !.error = TRUE, !.running = FALSE]
  BY <1>3, Zenon DEF Fail
<1>5. t \in State
  BY <1>2, Zenon
<1>6. /\ u \in State /\ u.entry = t.entry /\ u.cursor = t.cursor /\ u.remaining = t.remaining
      /\ u.running = FALSE /\ u.error = TRUE /\ u.limit = t.limit /\ u.validating = t.validating
      /\ u.next_page = t.next_page /\ u.collecting = t.collecting /\ u.trigger = t.trigger
  BY <1>4, <1>5, Zenon DEF State
<1> QED BY <1>1, <1>2, <1>3, <1>6, Zenon DEF IsAfter

Ran(r, c) == [Prologue EXCEPT !.remaining = r, !.cursor = c]

LEMMA AfterRun ==
  ASSUME s \in State, fast \in BOOLEAN, ~s.error, s.running, NEW r \in Int, NEW c \in Nat
  PROVE  /\ IsAfter(Ran(r, c), s.entry, c, r, TRUE, FALSE)
         /\ IsAfter([Ran(r, c) EXCEPT !.entry = s.entry + 1], s.entry + 1, c, r, TRUE, FALSE)
         /\ IsAfter([Ran(r, c) EXCEPT !.running = FALSE], s.entry, c, r, FALSE, FALSE)
         /\ IsAfter(Fail(Ran(r, c)), s.entry, c, r, FALSE, TRUE)
<1>1. PICK t : t = Prologue
  BY Zenon
<1>2. /\ t \in State
      /\ t.entry = s.entry /\ t.limit = s.limit /\ t.validating = s.validating
      /\ t.error = s.error /\ t.running = s.running
      /\ t.next_page = Collected.next_page /\ t.collecting = Collected.collecting
  BY <1>1, PrologueFields, Zenon
<1>3. PICK w : w = Ran(r, c)
  BY Zenon
<1>4. w = [t EXCEPT !.remaining = r, !.cursor = c]
  BY <1>1, <1>3, Zenon DEF Ran
<1>5. t \in State /\ s.entry \in Nat /\ s.error = FALSE /\ s.running = TRUE
  BY <1>2 DEF State
<1>6. /\ w \in State /\ w.entry = t.entry /\ w.cursor = c /\ w.remaining = r
      /\ w.running = t.running /\ w.error = t.error /\ w.limit = t.limit /\ w.validating = t.validating
      /\ w.next_page = t.next_page /\ w.collecting = t.collecting /\ w.trigger = t.trigger
  BY <1>4, <1>5, Zenon DEF State
<1>7. IsAfter(w, s.entry, c, r, TRUE, FALSE)
  BY <1>1, <1>2, <1>5, <1>6, Zenon DEF IsAfter
<1>8. w \in State
  BY <1>6, Zenon
<1>9. IsAfter([w EXCEPT !.entry = s.entry + 1], s.entry + 1, c, r, TRUE, FALSE)
  <2>1. PICK u : u = [w EXCEPT !.entry = s.entry + 1]
    BY Zenon
  <2>2. /\ u \in State /\ u.entry = s.entry + 1 /\ u.cursor = w.cursor /\ u.remaining = w.remaining
        /\ u.running = w.running /\ u.error = w.error /\ u.limit = w.limit /\ u.validating = w.validating
        /\ u.next_page = w.next_page /\ u.collecting = w.collecting /\ u.trigger = w.trigger
    BY <1>5, <1>8, <2>1 DEF State
  <2> QED BY <1>7, <2>1, <2>2, Zenon DEF IsAfter
<1>10. IsAfter([w EXCEPT !.running = FALSE], s.entry, c, r, FALSE, FALSE)
  <2>1. PICK u : u = [w EXCEPT !.running = FALSE]
    BY Zenon
  <2>2. /\ u \in State /\ u.entry = w.entry /\ u.cursor = w.cursor /\ u.remaining = w.remaining
        /\ u.running = FALSE /\ u.error = w.error /\ u.limit = w.limit /\ u.validating = w.validating
        /\ u.next_page = w.next_page /\ u.collecting = w.collecting /\ u.trigger = w.trigger
    BY <1>8, <2>1, Zenon DEF State
  <2> QED BY <1>7, <2>1, <2>2, Zenon DEF IsAfter
<1>11. IsAfter(Fail(w), s.entry, c, r, FALSE, TRUE)
  <2>1. PICK u : u = Fail(w)
    BY Zenon
  <2>2. u = [w EXCEPT !.error = TRUE, !.running = FALSE]
    BY <2>1, Zenon DEF Fail
  <2>3. /\ u \in State /\ u.entry = w.entry /\ u.cursor = w.cursor /\ u.remaining = w.remaining
        /\ u.running = FALSE /\ u.error = TRUE /\ u.limit = w.limit /\ u.validating = w.validating
        /\ u.next_page = w.next_page /\ u.collecting = w.collecting /\ u.trigger = w.trigger
    BY <1>8, <2>2, Zenon DEF State
  <2> QED BY <1>7, <2>1, <2>3, Zenon DEF IsAfter
<1> QED BY <1>3, <1>7, <1>9, <1>10, <1>11, Zenon

LEMMA BlockFrame ==
  ASSUME IInv, s.running, NEW d \in Nat, AtBlock(d),
         UNCHANGED <<trace, recipe, fast, status, job, validated, pages>>,
         frames' = IF AtPage THEN [frames EXCEPT ![s.cursor \div PAGE] = Saved] ELSE frames,
         NEW e, NEW c \in Nat, NEW r, NEW run, NEW err, IsAfter(s', e, c, r, run, err),
         job.offset <= c, c <= s.limit, Positions', Output', job.kind = "slice" => ~err
  PROVE  IInv'
<1>1. /\ s \in State /\ fast \in BOOLEAN /\ job \in Job /\ job.kind # "none" /\ Limits
      /\ frames = [k \in 0 .. LastPage |-> frames[k]]
  BY RunningAt DEF IInv, Types
<1>2. /\ s' \in State /\ s'.cursor = c /\ s'.running = run /\ s'.error = err
      /\ s'.limit = s.limit /\ s'.validating = s.validating
      /\ s'.next_page = Collected.next_page /\ s'.collecting = Collected.collecting
      /\ s'.trigger = Prologue.trigger
  BY Zenon DEF IsAfter
<1>3. frames' = [k \in 0 .. LastPage |-> frames'[k]]
  BY <1>1, Zenon
<1>4. Types'
  BY <1>2, <1>3, SameTrace, SameRun, Zenon DEF IInv, Types
<1>5. Validated'
  BY SameValidated, Zenon DEF IInv
<1>6. Limits'
  <2>1. fast => Prologue.trigger <= s.limit /\ (Prologue.collecting => Prologue.trigger <= Prologue.next_page)
    BY <1>1, PrologueTrigger, Zenon DEF Limits
  <2>2. Prologue.collecting = Collected.collecting /\ Prologue.next_page = Collected.next_page
    BY <1>1, PrologueFields, Zenon
  <2> QED BY <1>1, <1>2, <2>1, <2>2, Zenon DEF Limits, Validating
<1>7. CASE Validating
  <2>1. status = "new" /\ job.kind # "slice"
    BY <1>7 DEF IInv, Validating
  <2>2. ValidOK'
    BY <2>1 DEF ValidOK
  <2>3. Collection'
    <3>1. /\ Collected.collecting =>
               \E m \in Nat \ {0} : Collected.next_page = m * PAGE /\ \A k \in 0 .. LastPage : k < m => FrameOK(k)'
          /\ ~Collected.collecting => Missing
      BY <1>7, PrologueCollects, Zenon
    <3> QED BY <1>2, <3>1, SameRun, Zenon DEF Collection
  <2> QED BY <1>1, <1>4, <1>5, <1>6, <2>1, <2>2, <2>3, Zenon DEF IInv, Validating
<1>8. CASE job.kind = "slice"
  <2>1. ~s.collecting /\ Restoring /\ status = "valid" /\ ~Validating
    BY <1>8 DEF IInv, Restoring, Validating
  <2>2. ~AtPage /\ ~Collected.collecting
    BY <1>1, <2>1, CollectedFields, Zenon DEF AtPage
  <2>3. frames' = frames
    BY <2>2, Zenon
  <2>4. ValidOK'
    BY <2>3, SameValid, Zenon DEF IInv
  <2>5. Restoring'
    BY <1>2, <1>8, <2>1, <2>2, SameTrace, Zenon DEF Restoring
  <2> QED BY <1>1, <1>4, <1>5, <1>6, <1>8, <2>1, <2>4, <2>5, Zenon DEF IInv, Validating
<1>9. Validating \/ job.kind = "slice"
  BY <1>1 DEF Job, Validating
<1> QED BY <1>7, <1>8, <1>9, SMTT(20)

(* The bytes of a block are its own. *)
LEMMA OutputGrows ==
  ASSUME TraceOK, Output, NEW d \in 0 .. Len(trace) - 1, s.cursor = Stored(d), NEW c, c = Stored(d + 1),
         job.offset \in Nat, job.offset <= s.cursor, UNCHANGED <<trace, job>>, s'.cursor = c,
         out' = [p \in DOMAIN out \cup s.cursor .. c - 1 |-> IF p \in DOMAIN out THEN out[p] ELSE d + 1]
  PROVE  Output'
<1>1. /\ Stored(d) \in Nat /\ Stored(d + 1) \in Nat /\ Stored(d) <= Stored(d + 1) /\ d + 1 \in DOMAIN trace
      /\ (d + 1) - 1 = d
  <2>1. Bytes(d + 1) \in Nat /\ Stored(d + 1) = Stored(d) + Bytes(d + 1) /\ Stored(d) \in Nat /\ d + 1 \in DOMAIN trace
    BY BlockNumbers
  <2> QED BY <2>1
<1>2. DOMAIN out = job.offset .. s.cursor - 1
  BY Zenon DEF Output
<1>3. DOMAIN out \cup s.cursor .. c - 1 = job.offset .. c - 1
  BY <1>1, <1>2
<1>4. /\ out' = [p \in job.offset .. c - 1 |-> IF p \in DOMAIN out THEN out[p] ELSE d + 1]
      /\ DOMAIN out' = job.offset .. c - 1
  BY <1>3, Zenon
<1>5. out' = [p \in job.offset .. c - 1 |-> out'[p]]
  BY <1>4, Zenon
<1>6. ASSUME NEW p \in job.offset .. c - 1, NEW i, out'[p] = i
      PROVE  IsByte(p, i)
  <2>1. CASE p \in DOMAIN out
    BY <1>2, <1>4, <1>6, <2>1, Zenon DEF Output
  <2>2. CASE p \notin DOMAIN out
    <3>1. i = d + 1
      BY <1>4, <1>6, <2>2, Zenon
    <3>2. Stored(d) <= p /\ p < Stored(d + 1)
      BY <1>1, <1>2, <1>6, <2>2
    <3> QED BY <1>1, <3>1, <3>2, Zenon DEF IsByte
  <2> QED BY <2>1, <2>2
<1>7. \A p \in job.offset .. c - 1 : \A i : out'[p] = i => IsByte(p, i)'
  BY <1>6, SameTrace, Zenon
<1> QED BY <1>4, <1>5, <1>7, Zenon DEF Output

LEMMA BlockFails ==
  ASSUME IInv, Block, NEW d \in Nat, AtBlock(d), s.remaining < Count(s.entry) \/ ~AdmitsStore
  PROVE  IInv'
<1>1. /\ UNCHANGED <<trace, recipe, fast, status, job, validated, pages, out>>
      /\ s.running /\ ~Yields /\ s' = Fail(Prologue)
      /\ frames' = IF AtPage THEN [frames EXCEPT ![s.cursor \div PAGE] = Saved] ELSE frames
  BY Zenon DEF Block
<1>2. s \in State /\ fast \in BOOLEAN /\ Limits /\ Output
  BY <1>1, RunningAt DEF IInv, Types
<1>3. IsAfter(s', s.entry, s.cursor, s.remaining, FALSE, TRUE)
  BY <1>1, <1>2, AfterFail, Zenon
<1>4. s'.cursor = s.cursor /\ s'.error /\ ~s'.running
  BY <1>3, Zenon DEF IsAfter
<1>5. Positions'
  BY <1>4, Zenon DEF Positions
<1>6. Output'
  BY <1>1, <1>2, <1>4, SameTrace, Zenon DEF Output
<1>7. job.kind # "slice"
  BY <1>1, SliceAdmits
<1>8. s.cursor \in Nat /\ job.offset <= s.cursor /\ s.cursor <= s.limit
  BY <1>2 DEF State, Limits
<1> QED BY <1>1, <1>3, <1>5, <1>6, <1>7, <1>8, BlockFrame, Zenon

LEMMA BlockRuns ==
  ASSUME IInv, Block, NEW d \in Nat, AtBlock(d), ~(s.remaining < Count(s.entry)), AdmitsStore
  PROVE  IInv'
<1> DEFINE r == s.remaining - Count(s.entry)
           c == s.cursor + trace[s.entry]
           u == [Prologue EXCEPT !.remaining = @ - Count(s.entry), !.cursor = @ + trace[s.entry]]
<1>1. /\ UNCHANGED <<trace, recipe, fast, status, job, validated, pages>>
      /\ s.running /\ ~Yields
      /\ frames' = IF AtPage THEN [frames EXCEPT ![s.cursor \div PAGE] = Saved] ELSE frames
      /\ s' = IF s.entry < Len(trace) THEN [u EXCEPT !.entry = @ + 1]
              ELSE IF Returns(u) THEN [u EXCEPT !.running = FALSE] ELSE Fail(u)
      /\ out' = [p \in DOMAIN out \cup s.cursor .. u.cursor - 1 |->
                   IF p \in DOMAIN out THEN out[p] ELSE s.entry]
  BY Zenon DEF Block
<1>2. /\ s \in State /\ fast \in BOOLEAN /\ job \in Job /\ Limits /\ Output /\ TraceOK /\ ~s.error
      /\ recipe.steps \in Int /\ recipe.length \in Nat
  BY <1>1, RunningAt DEF IInv, Types
<1>3. d \in 0 .. Len(trace) - 1 /\ s.entry = d + 1 /\ s.cursor = Stored(d) /\ s.remaining = recipe.steps - Executed(d)
  BY Zenon DEF AtBlock
<1>4. /\ d + 1 \in DOMAIN trace /\ d + 1 \in 1 .. Len(trace) /\ d + 1 \in 0 .. Len(trace)
      /\ Stored(d) \in Nat /\ Stored(d + 1) \in Nat /\ Bytes(d + 1) \in Nat /\ Count(d + 1) = 1 + Bytes(d + 1)
      /\ Executed(d) = d + Stored(d) /\ Executed(d + 1) = Executed(d) + Count(d + 1)
      /\ Stored(d + 1) = Stored(d) + Bytes(d + 1)
      /\ trace[d + 1] # Stray => trace[d + 1] = Bytes(d + 1)
  BY <1>2, <1>3, BlockNumbers
<1>5. trace[s.entry] # Stray /\ s.cursor + trace[s.entry] <= s.limit
  BY Zenon DEF AdmitsStore
<1>6. c = Stored(d + 1) /\ c \in Nat /\ s.cursor <= c /\ c <= s.limit
  BY <1>3, <1>4, <1>5, SMTT(20)
<1>7. r = recipe.steps - Executed(d + 1) /\ r \in Int
  BY <1>2, <1>3, <1>4, SMTT(20)
<1>8. u = Ran(r, c)
  <2>1. Prologue.remaining = s.remaining /\ Prologue.cursor = s.cursor
    BY <1>2, PrologueFields, Zenon
  <2>2. u = [Prologue EXCEPT !.remaining = Prologue.remaining - Count(s.entry),
                             !.cursor = Prologue.cursor + trace[s.entry]]
    <3>1. Prologue \in State
      BY <1>2, PrologueFields, Zenon
    <3> QED BY <3>1 DEF State
  <2> QED BY <2>1, <2>2, Zenon DEF Ran
<1> HIDE DEF r, c, u
<1>9. /\ IsAfter(u, s.entry, c, r, TRUE, FALSE)
      /\ IsAfter([u EXCEPT !.entry = s.entry + 1], s.entry + 1, c, r, TRUE, FALSE)
      /\ IsAfter([u EXCEPT !.running = FALSE], s.entry, c, r, FALSE, FALSE)
      /\ IsAfter(Fail(u), s.entry, c, r, FALSE, TRUE)
  BY <1>1, <1>2, <1>6, <1>7, <1>8, AfterRun, Zenon
<1>10. u \in State /\ u.cursor = c /\ u.remaining = r /\ u.entry = s.entry
  BY <1>9, Zenon DEF IsAfter
<1>11. out' = [p \in DOMAIN out \cup s.cursor .. c - 1 |-> IF p \in DOMAIN out THEN out[p] ELSE d + 1]
  BY <1>1, <1>3, <1>10, Zenon
<1>12. /\ job.offset \in Nat /\ job.offset <= s.cursor /\ s.cursor \in Nat
  BY <1>2 DEF Job, Limits, State
<1>13. s'.cursor = c => Output'
  BY <1>1, <1>2, <1>3, <1>6, <1>11, <1>12, OutputGrows, Zenon
<1>14. job.offset <= c
  BY <1>6, <1>12
<1>15. \A i : i = d + 1 => (s'.cursor = c /\ s'.remaining = r => Done(i)')
  <2>1. \A j \in 1 .. d + 1 : trace[j] # Stray
    <3>1. \A j \in 1 .. d + 1 : j \in 1 .. d \/ j = d + 1
      OBVIOUS
    <3> QED BY <1>3, <1>5, <3>1, Zenon DEF AtBlock
  <2> QED BY <1>1, <1>4, <1>6, <1>7, <2>1, SameTrace, Zenon DEF Done
<1>16. CASE s.entry < Len(trace)
  <2>1. s' = [u EXCEPT !.entry = s.entry + 1]
    <3>1. s' = [u EXCEPT !.entry = @ + 1]
      BY <1>1, <1>16, Zenon
    <3> QED BY <1>10, <3>1 DEF State
  <2>2. IsAfter(s', s.entry + 1, c, r, TRUE, FALSE)
    BY <1>9, <2>1, Zenon
  <2>3. /\ s'.cursor = c /\ s'.remaining = r /\ s'.entry = s.entry + 1 /\ s'.running /\ ~s'.error
        /\ s'.collecting = Collected.collecting /\ s'.next_page = Collected.next_page
    BY <2>2, Zenon DEF IsAfter
  <2>4. PICK i \in Nat : i = d + 1
    OBVIOUS
  <2>5. Done(i)'
    BY <1>15, <2>3, <2>4, Zenon
  <2>6. Before(i)'
    BY <1>1, <1>3, <1>16, <2>3, <2>4, SMTT(20) DEF Before
  <2>7. Validating /\ s'.collecting => \A j \in 0 .. i - 1 : Seen(j)'
    <3> SUFFICES ASSUME Validating, s'.collecting PROVE \A j \in 0 .. i - 1 : Seen(j)'
      BY Zenon
    <3>1. \A j \in 0 .. d : Stored(j) < Collected.next_page \/ Stored(j) = recipe.length
      BY <1>1, <2>3, PrologueCollects, Zenon
    <3>2. i - 1 = d
      BY <2>4
    <3> QED BY <1>1, <2>3, <3>1, <3>2, SameTrace, Zenon DEF Seen
  <2>8. Where(i)'
    BY <1>1, <2>3, <2>5, <2>6, <2>7, Zenon DEF Where, Validating
  <2>9. Positions'
    BY <2>3, <2>8, Zenon DEF Positions
  <2> QED BY <1>1, <1>6, <1>13, <1>14, <2>2, <2>3, <2>9, BlockFrame, Zenon
<1>17. CASE ~(s.entry < Len(trace)) /\ Returns(u)
  <2>1. s' = [u EXCEPT !.running = FALSE]
    BY <1>1, <1>17, Zenon
  <2>2. IsAfter(s', s.entry, c, r, FALSE, FALSE)
    BY <1>9, <2>1, Zenon
  <2>3. /\ s'.cursor = c /\ s'.remaining = r /\ s'.entry = s.entry /\ ~s'.running /\ ~s'.error
        /\ s'.collecting = Collected.collecting /\ s'.next_page = Collected.next_page
    BY <2>2, Zenon DEF IsAfter
  <2>4. PICK i \in Nat : i = d + 1
    OBVIOUS
  <2>5. Done(i)'
    BY <1>15, <2>3, <2>4, Zenon
  <2>6. After(i)'
    <3>1. i = Len(trace)
      BY <1>2, <1>3, <1>4, <1>17, <2>4, SMTT(20) DEF TraceOK
    <3>2. c = recipe.length /\ r = 0
      BY <1>10, <1>17, Zenon DEF Returns
    <3> QED BY <1>1, <1>3, <2>3, <2>4, <3>1, <3>2, Zenon DEF After
  <2>7. Validating /\ s'.collecting => \A j \in 0 .. i - 1 : Seen(j)'
    <3> SUFFICES ASSUME Validating, s'.collecting PROVE \A j \in 0 .. i - 1 : Seen(j)'
      BY Zenon
    <3>1. \A j \in 0 .. d : Stored(j) < Collected.next_page \/ Stored(j) = recipe.length
      BY <1>1, <2>3, PrologueCollects, Zenon
    <3>2. i - 1 = d
      BY <2>4
    <3> QED BY <1>1, <2>3, <3>1, <3>2, SameTrace, Zenon DEF Seen
  <2>8. Where(i)'
    BY <1>1, <2>3, <2>5, <2>6, <2>7, Zenon DEF Where, Validating
  <2>9. Positions'
    BY <2>3, <2>8, Zenon DEF Positions
  <2> QED BY <1>1, <1>6, <1>13, <1>14, <2>2, <2>3, <2>9, BlockFrame, Zenon
<1>18. CASE ~(s.entry < Len(trace)) /\ ~Returns(u)
  <2>1. s' = Fail(u)
    BY <1>1, <1>18, Zenon
  <2>2. IsAfter(s', s.entry, c, r, FALSE, TRUE)
    BY <1>9, <2>1, Zenon
  <2>3. s'.cursor = c /\ s'.error /\ ~s'.running
    BY <2>2, Zenon DEF IsAfter
  <2>4. Positions'
    BY <2>3, Zenon DEF Positions
  <2>5. job.kind # "slice"
    <3> SUFFICES ASSUME job.kind = "slice" PROVE FALSE
      OBVIOUS
    <3>1. recipe.right /\ WholeRun
      BY DEF IInv, ValidOK
    <3>2. d + 1 = Len(trace)
      BY <1>2, <1>3, <1>4, <1>18 DEF TraceOK
    <3>3. Stored(d + 1) = recipe.length /\ Executed(d + 1) = recipe.steps
      BY <3>1, <3>2, Zenon DEF WholeRun
    <3>4. c = recipe.length /\ r = 0
      BY <1>2, <1>6, <1>7, <3>3, SMTT(20)
    <3> QED BY <1>10, <1>18, <3>1, <3>4, Zenon DEF Returns
  <2> QED BY <1>1, <1>6, <1>13, <1>14, <2>2, <2>3, <2>4, <2>5, BlockFrame, Zenon
<1> QED BY <1>16, <1>17, <1>18

LEMMA BlockKeeps ==
  ASSUME IInv, Block
  PROVE  IInv'
<1>1. s.running
  BY DEF Block
<1>2. PICK d \in Nat : AtBlock(d)
  BY <1>1, RunningAt
<1> QED BY <1>2, BlockFails, BlockRuns

LEMMA NextKeeps ==
  ASSUME IInv, [Next]_vars
  PROVE  IInv'
<1>1. CASE \E c \in Capacities : BeginStream(c)
  BY <1>1, BeginStreamKeeps
<1>2. CASE BeginWhole
  BY <1>2, BeginWholeKeeps
<1>3. CASE Yield
  BY <1>3, YieldKeeps, SMTT(20)
<1>4. CASE Block
  BY <1>4, BlockKeeps
<1>5. CASE NextWindow
  BY <1>5, NextWindowKeeps
<1>6. CASE Accept
  BY <1>6, AcceptKeeps
<1>7. CASE Refuse
  BY <1>7, RefuseKeeps
<1>8. CASE \E o \in 0 .. MaxLength, n \in 1 .. MaxLength : BeginRestore(o, n)
  <2>1. PICK o \in 0 .. MaxLength, n \in 1 .. MaxLength : BeginRestore(o, n)
    BY <1>8
  <2>2. o \in Nat /\ n \in Nat
    BY <2>1, ConstantsAssumption
  <2> QED BY <2>1, <2>2, BeginRestoreKeeps
<1>9. CASE EndRestore
  BY <1>9, EndRestoreKeeps
<1>10. CASE UNCHANGED vars
  <2>1. UNCHANGED <<trace, recipe, fast, status, job, s, out, frames, validated, pages>>
    BY <1>10, Zenon DEF vars
  <2>2. Types'
    BY <2>1, SameTrace, SameRun, Zenon DEF IInv, Types
  <2>3. Validated' /\ ValidOK'
    BY <2>1, SameValidated, SameValid, Zenon DEF IInv
  <2>4. Collection => Collection'
    BY <2>1, SameFrames, SameRun, Zenon DEF Collection
  <2>5. Restoring => Restoring'
    BY <2>1, SameTrace, Zenon DEF Restoring
  <2>6. Limits => Limits'
    BY <2>1, Zenon DEF Limits, Validating
  <2>7. Output => Output'
    BY <2>1, SameTrace, Zenon DEF Output
  <2>8. \A d : Where(d) => Where(d)'
    BY <2>1, SameTrace, Zenon DEF Where, Done, Before, After, Seen, Validating
  <2>9. Positions => Positions'
    BY <2>1, <2>8, Zenon DEF Positions
  <2> QED BY <2>1, <2>2, <2>3, <2>4, <2>5, <2>6, <2>7, <2>9, Zenon DEF IInv, Validating
<1> QED BY <1>1, <1>2, <1>3, <1>4, <1>5, <1>6, <1>7, <1>8, <1>9, <1>10, Zenon DEF Next, Dropped

-----------------------------------------------------------------------------
(***************************************************************************)
(* The properties.                                                         *)
(***************************************************************************)
LEMMA DigestsAreBytes ==
  ASSUME IInv, status = "valid"
  PROVE  validated = [p \in 0 .. recipe.length - 1 |-> Byte(p)]
<1>1. TraceOK /\ recipe.length \in Nat \ {0}
  BY DEF IInv, Types
<1>2. Digested(recipe.length)
  BY DEF IInv, Validated
<1>3. validated # << >>
  <2> SUFFICES ASSUME validated = << >> PROVE FALSE
    OBVIOUS
  <2>1. DOMAIN << >> = 0 .. recipe.length - 1
    BY <1>2, Zenon DEF Digested
  <2>2. 0 \in 0 .. recipe.length - 1
    BY <1>1
  <2> QED BY <2>1, <2>2
<1>4. validated = [p \in 0 .. recipe.length - 1 |-> validated[p]]
  BY <1>2, <1>3, Zenon DEF Digested
<1>5. ASSUME NEW p \in 0 .. recipe.length - 1 PROVE validated[p] = Byte(p)
  <2>1. IsByte(p, validated[p])
    BY <1>2, Zenon DEF Digested
  <2>2. p \in Int
    BY <1>1
  <2> QED BY <1>1, <2>1, <2>2, ByteUnique, Zenon
<1> QED BY <1>4, <1>5, Zenon

LEMMA WholeHolds ==
  ASSUME IInv
  PROVE  ValidIsWhole
<1> SUFFICES ASSUME status = "valid"
             PROVE  /\ Stored(Len(trace)) = recipe.length /\ Executed(Len(trace)) = recipe.steps
                    /\ Stray \notin {trace[i] : i \in DOMAIN trace}
                    /\ validated = [p \in 0 .. recipe.length - 1 |-> Byte(p)]
  BY Zenon DEF ValidIsWhole
<1>1. WholeRun
  BY Zenon DEF IInv, ValidOK
<1>2. DOMAIN trace = 1 .. Len(trace)
  BY DEF IInv, Types, TraceOK
<1>3. Stray \notin {trace[i] : i \in DOMAIN trace}
  BY <1>1, <1>2, Zenon DEF WholeRun
<1> QED BY <1>1, <1>3, DigestsAreBytes, Zenon DEF WholeRun

LEMMA WindowHolds ==
  ASSUME IInv
  PROVE  StaysInWindow
<1>1. CASE job.kind = "none"
  <2>1. out = << >>
    BY <1>1, Zenon DEF IInv
  <2>2. DOMAIN << >> = {}
    OBVIOUS
  <2> QED BY <2>1, <2>2, Zenon DEF StaysInWindow
<1>2. CASE job.kind # "none"
  <2>1. Limits /\ Output /\ s \in State /\ job \in Job
    BY <1>2, Zenon DEF IInv, Types
  <2>2. DOMAIN out = job.offset .. s.cursor - 1
    BY <2>1, Zenon DEF Output
  <2>3. /\ job.offset \in Nat /\ job.size \in Nat /\ s.cursor \in Nat /\ s.limit \in Nat
        /\ s.limit = job.offset + job.size /\ s.cursor <= s.limit
    BY <2>1 DEF Limits, State, Job
  <2> QED BY <2>2, <2>3 DEF StaysInWindow
<1> QED BY <1>1, <1>2

LEMMA PageableHolds ==
  ASSUME IInv
  PROVE  PageableExact
<1> SUFFICES ASSUME status = "valid"
             PROVE  pages <=> \A k \in 1 .. (recipe.length - 1) \div PAGE :
                                \E i \in DOMAIN trace : Stored(i - 1) = k * PAGE
  BY Zenon DEF PageableExact
<1>1. /\ TraceOK /\ pages \in BOOLEAN /\ recipe.length \in Nat \ {0} /\ LastPage = (recipe.length - 1) \div PAGE
      /\ pages => \A k \in 0 .. LastPage : FrameOK(k)
      /\ ~pages => Missing
  BY Zenon DEF IInv, Types, ValidOK, LastPage
<1>2. DOMAIN trace = 1 .. Len(trace) /\ Len(trace) \in Nat /\ 1 .. LastPage \subseteq 0 .. LastPage
  BY <1>1 DEF TraceOK
<1>3. ASSUME pages, NEW k \in 1 .. LastPage
      PROVE  \E i \in DOMAIN trace : Stored(i - 1) = k * PAGE
  <2>1. PICK d \in 0 .. Len(trace) - 1 : FrameAt(k, d)
    BY <1>1, <1>2, <1>3, Zenon DEF FrameOK
  <2>2. d + 1 \in DOMAIN trace /\ (d + 1) - 1 = d
    BY <1>2
  <2>3. Stored(d) = k * PAGE
    BY <2>1, Zenon DEF FrameAt
  <2>4. Stored((d + 1) - 1) = k * PAGE
    BY <2>2, <2>3
  <2> QED BY <2>2, <2>4, Zenon
<1>4. ASSUME ~pages
      PROVE  \E k \in 1 .. LastPage : ~\E i \in DOMAIN trace : Stored(i - 1) = k * PAGE
  <2>1. PICK k \in 1 .. LastPage : Unreachable(k)
    BY <1>1, <1>4, Zenon DEF Missing
  <2>2. \A i \in DOMAIN trace : i - 1 \in 0 .. Len(trace) - 1
    BY <1>2
  <2> QED BY <2>1, <2>2, Zenon DEF Unreachable
<1> QED BY <1>1, <1>3, <1>4, Zenon

LEMMA RestoreHolds ==
  ASSUME IInv
  PROVE  RestoreExact
<1> SUFFICES ASSUME job.kind = "slice", ~s.running
             PROVE  /\ ~Failed
                    /\ out = [p \in job.offset .. job.offset + job.size - 1 |-> validated[p]]
  BY DEF RestoreExact, Stopped
<1>1. /\ TraceOK /\ s \in State /\ job \in Job /\ recipe.length \in Nat \ {0}
      /\ Restoring /\ Positions /\ Limits /\ Output /\ status = "valid"
  BY DEF IInv, Types
<1>2. /\ s.cursor \in Nat /\ s.limit \in Nat /\ job.offset \in Nat /\ job.size \in Nat /\ job.size # 0
      /\ s.limit = job.offset + job.size /\ s.cursor <= s.limit /\ s.limit <= recipe.length /\ ~s.error
  BY <1>1 DEF State, Job, Limits, Restoring
<1>3. s.cursor = s.limit
  <2>1. PICK d \in Nat : Where(d)
    BY <1>1, <1>2, Zenon DEF Positions
  <2>2. s.cursor = s.limit \/ s.cursor = recipe.length
    BY <2>1, Zenon DEF Where, After
  <2> QED BY <1>1, <1>2, <2>2
<1>4. ~Failed
  BY <1>2, <1>3, Zenon DEF Failed
<1>0. job.offset .. s.cursor - 1 = job.offset .. job.offset + job.size - 1
  BY <1>2, <1>3
<1>5. DOMAIN out = job.offset .. job.offset + job.size - 1
  BY <1>0, <1>1, Zenon DEF Output
<1>6. out # << >>
  <2>1. job.offset \in job.offset .. job.offset + job.size - 1
    BY <1>2
  <2>2. DOMAIN << >> = {}
    OBVIOUS
  <2> QED BY <1>5, <2>1, <2>2, Zenon
<1>7. out = [p \in job.offset .. job.offset + job.size - 1 |-> out[p]]
  BY <1>0, <1>1, <1>6, Zenon DEF Output
<1>8. ASSUME NEW p \in job.offset .. job.offset + job.size - 1 PROVE out[p] = validated[p]
  <2>1. p \in job.offset .. s.cursor - 1 /\ p \in 0 .. recipe.length - 1 /\ p \in Int
    BY <1>1, <1>2, <1>3
  <2>2. IsByte(p, out[p])
    BY <1>1, <2>1, Zenon DEF Output
  <2>3. Byte(p) = out[p]
    BY <1>1, <2>1, <2>2, ByteUnique, Zenon
  <2>4. validated[p] = Byte(p)
    BY <1>1, <2>1, DigestsAreBytes, Zenon
  <2> QED BY <2>3, <2>4
<1> QED BY <1>4, <1>7, <1>8, Zenon

(***************************************************************************)
(* What validation accepts is the whole run, with exactly its bytes and    *)
(* instructions, for every sequence of blocks, header and window size      *)
(* (native_replay.hpp:577-618, 382-390).                                   *)
(***************************************************************************)
THEOREM ValidRunIsWhole == Spec => []ValidIsWhole
<1>1. Init => IInv
  BY InitHolds
<1>2. IInv /\ [Next]_vars => IInv'
  BY NextKeeps
<1>3. IInv => ValidIsWhole
  BY WholeHolds, SMTT(20)
<1> QED BY <1>1, <1>2, <1>3, PTL DEF Spec

(***************************************************************************)
(* No run stores outside the window or slice it was given                  *)
(* (native_replay.hpp:416-425).                                            *)
(***************************************************************************)
THEOREM StoresStayInWindow == Spec => []StaysInWindow
<1>1. Init => IInv
  BY InitHolds
<1>2. IInv /\ [Next]_vars => IInv'
  BY NextKeeps
<1>3. IInv => StaysInWindow
  BY WindowHolds, SMTT(20)
<1> QED BY <1>1, <1>2, <1>3, PTL DEF Spec

(***************************************************************************)
(* A valid recipe can be restored by pages exactly when every page starts  *)
(* where some block does: with or without the fast path, and wherever the  *)
(* windows end (native_replay.hpp:284-364, 545-546).                       *)
(***************************************************************************)
THEOREM PageableIsExact == Spec => []PageableExact
<1>1. Init => IInv
  BY InitHolds
<1>2. IInv /\ [Next]_vars => IInv'
  BY NextKeeps
<1>3. IInv => PageableExact
  BY PageableHolds
<1> QED BY <1>1, <1>2, <1>3, PTL DEF Spec

(***************************************************************************)
(* A restore that the worker lets through succeeds with the validated      *)
(* bytes of its range (native_replay.hpp:619-681).                         *)
(***************************************************************************)
THEOREM RestoresAreExact == Spec => []RestoreExact
<1>1. Init => IInv
  BY InitHolds
<1>2. IInv /\ [Next]_vars => IInv'
  BY NextKeeps
<1>3. IInv => RestoreExact
  BY RestoreHolds
<1> QED BY <1>1, <1>2, <1>3, PTL DEF Spec
=============================================================================
