---------------------------- MODULE ControlFlow -----------------------------
(***************************************************************************)
(* decode() of native/native_replay.hpp: the recorded instructions of a    *)
(* recipe must form a closed control-flow graph, and a fixed point over it *)
(* says where the guest's flags are live.  The compiled code checks        *)
(* accesses and budgets with instructions that destroy the flags, and      *)
(* saves them around those checks only where they are live.                *)
(*                                                                         *)
(* An instruction occupies one address.  One flag stands for all of them:  *)
(* the masks of decode() are computed bit by bit.                          *)
(***************************************************************************)
EXTENDS Naturals

CONSTANT N    \* bound: addresses

ASSUME NAssumption == N \in Nat \ {0}

VARIABLES
  code,         \* the recorded instructions: a function from their addresses
  entry,
  flags_in,     \* where the flag is live
  visited,      \* the instructions this pass has looked at
  changed,      \* one of them changed
  pc,           \* 0: not running
  flag          \* "guest": the value the guest would see; "lost": destroyed

flow == <<code, entry, flags_in, visited, changed, pc, flag>>

-----------------------------------------------------------------------------
(* `kills': the flag is always written; `shifts': written or kept, depending
   on a count, or left undefined. *)
Plain(tests, kills, shifts, memory) ==
  [kind |-> "plain", target |-> 0, tests |-> tests, kills |-> kills, shifts |-> shifts,
   memory |-> memory]
Branch(kind, target) ==
  [kind |-> kind, target |-> target, tests |-> kind = "jcc", kills |-> FALSE, shifts |-> FALSE,
   memory |-> FALSE]

Instructions ==
  {Plain(t, k, FALSE, m) : t, k, m \in BOOLEAN} \cup {Plain(FALSE, TRUE, TRUE, FALSE)}
    \cup {Branch(kind, target) : kind \in {"jcc", "jmp"}, target \in 1 .. N + 1}
    \cup {Branch("ret", 0)}

Branches(i) == code[i].kind \in {"jcc", "jmp"}
FallsThrough(i) == code[i].kind \in {"plain", "jcc"}

block_starts ==
  {entry} \cup {code[i].target : i \in {j \in DOMAIN code : Branches(j)}}
          \cup {i + 1 : i \in {j \in DOMAIN code : Branches(j)}}

(* Fault: where a conditional branch falls through is not looked at. *)
ClosedForJumps ==
  /\ entry \in DOMAIN code
  /\ \A i \in DOMAIN code :
       /\ Branches(i) => code[i].target \in DOMAIN code
       /\ code[i].kind = "plain" => i + 1 \in DOMAIN code

(* What decode() demands of the graph. *)
Closed ==
  /\ entry \in DOMAIN code
  /\ \A i \in DOMAIN code :
       /\ Branches(i) => code[i].target \in DOMAIN code
       /\ FallsThrough(i) => i + 1 \in DOMAIN code

-----------------------------------------------------------------------------
(* What ends the life of a flag: shifts do not. *)
Kills(i) == code[i].kills /\ ~code[i].shifts

Needed(live, i) ==
  LET after == \/ Branches(i) /\ live[code[i].target]
               \/ FallsThrough(i) /\ live[i + 1]
  IN  code[i].tests \/ (after /\ ~Kills(i))

(* The loop looks at the instructions from the last to the first, each
   seeing the results of the ones after it, and starts over when one of
   them changed. *)
Visit(i) ==
  /\ Closed /\ i \in DOMAIN code \ visited /\ \A j \in DOMAIN code \ visited : j <= i
  /\ flags_in' = [flags_in EXCEPT ![i] = Needed(flags_in, i)]
  /\ changed' = (changed \/ flags_in' # flags_in)
  /\ visited' = visited \cup {i}
  /\ UNCHANGED <<code, entry, pc, flag>>

Again ==
  /\ Closed /\ visited = DOMAIN code /\ changed
  /\ visited' = {} /\ changed' = FALSE
  /\ UNCHANGED <<code, entry, flags_in, pc, flag>>

(* Fault: one pass is taken to be enough. *)
DecodedOnce == Closed /\ visited = DOMAIN code

Decoded == Closed /\ visited = DOMAIN code /\ ~changed

-----------------------------------------------------------------------------
(* What the processor does: an instruction always writes the flag, or not. *)
Writes(i) == code[i].kills /\ ~code[i].shifts

(* The checks before an instruction: at a block's start, before a memory
   operand.  Where the flag is not live they destroy it. *)
Checked(i) == i \in block_starts \/ code[i].memory

Entering(i) == IF Checked(i) /\ ~flags_in[i] THEN "lost" ELSE flag

Step ==
  /\ pc \in DOMAIN code
  /\ \/ flag' = (IF Writes(pc) THEN "guest" ELSE Entering(pc))
     \/ code[pc].shifts /\ flag' = "guest"
  /\ \/ Branches(pc) /\ pc' = code[pc].target
     \/ FallsThrough(pc) /\ pc' = pc + 1
     \/ code[pc].kind = "ret" /\ pc' = 0
  /\ UNCHANGED <<code, entry, flags_in, visited, changed>>

(* Run again: each run starts with the guest's flags. *)
Start ==
  /\ pc = 0 /\ Decoded
  /\ pc' = entry /\ flag' = "guest"
  /\ UNCHANGED <<code, entry, flags_in, visited, changed>>

Rejected == ~Closed /\ UNCHANGED flow

FlowInit ==
  /\ \E addresses \in SUBSET (1 .. N) : code \in [addresses -> Instructions]
  /\ entry = 1
  /\ flags_in = [i \in DOMAIN code |-> FALSE] /\ visited = {} /\ changed = FALSE
  /\ pc = 0 /\ flag = "guest"

FlowNext == (\E i \in 1 .. N : Visit(i)) \/ Again \/ Step \/ Start \/ Rejected

FlowSpec == FlowInit /\ [][FlowNext]_flow

-----------------------------------------------------------------------------
(***************************************************************************)
(* Execution never leaves the recorded instructions: what decode() accepts *)
(* is closed under every branch and fall-through (native_replay.hpp:       *)
(* 156-164).                                                               *)
(***************************************************************************)
StaysRecorded == pc # 0 => pc \in DOMAIN code

(***************************************************************************)
(* An instruction that tests the flags sees the guest's, over loops and    *)
(* joins and after shifts by zero, although the checks before it destroy   *)
(* flags that are not live (native_replay.hpp:165-196, 280-282, 400-402).  *)
(***************************************************************************)
FlagsSeen == pc \in DOMAIN code /\ code[pc].tests => Entering(pc) = "guest"
=============================================================================
