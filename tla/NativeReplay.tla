---------------------------- MODULE NativeReplay ----------------------------
(***************************************************************************)
(* How native/native_replay.hpp runs a compiled recipe: once from the start*)
(* to validate it, window by window or in one piece, leaving a checkpoint  *)
(* (a frame) wherever the output reaches a page at a block's start; and    *)
(* later, page by page, from those checkpoints.                            *)
(*                                                                         *)
(* The compiled code is deterministic, so a run is a fixed sequence of     *)
(* basic blocks.  A block is the number of bytes it stores at the output   *)
(* frontier, or Stray for one with an access its checks refuse; registers, *)
(* flags and vectors are represented by the position in the sequence.      *)
(* A byte of output is the number of the block that stores it.             *)
(***************************************************************************)
EXTENDS Integers, Sequences, FiniteSets

CONSTANTS
  PAGE,
  MaxStore,     \* bound: bytes one block stores
  MaxBlocks,    \* bound: blocks of a run
  MaxLength,    \* bound: bytes of an output
  Capacities,   \* the sizes of the validation window
  Stray

ASSUME ConstantsAssumption ==
  /\ PAGE \in Nat \ {0} /\ MaxStore \in Nat /\ MaxBlocks \in Nat /\ MaxLength \in Nat
  /\ \A c \in Capacities : c \in Nat \ {0} /\ c % PAGE = 0
  /\ Stray \notin Nat

VARIABLES
  trace,        \* the blocks
  recipe,       \* the header: length, steps, and whether result and digest are right
  fast,         \* fast_boundary
  status,       \* "new", "valid", or "refused" (the worker drops the native code)
  job,          \* what runs: "none", "stream", "whole" or "slice", and its range
  s,            \* State
  out,          \* the bytes stored in the current window or slice
  frames,       \* page -> checkpoint
  validated,    \* the bytes whose digests are kept
  pages         \* whether single pages can be restored

vars == <<trace, recipe, fast, status, job, s, out, frames, validated, pages>>

-----------------------------------------------------------------------------
Smaller(a, b) == IF a < b THEN a ELSE b

Bytes(i) == IF trace[i] = Stray THEN 0 ELSE trace[i]

(* The bytes the first i blocks store, counted one by one, and their
   instructions: a block has one more than it stores bytes. *)
Stored(i) == Cardinality(UNION {{j} \X (1 .. Bytes(j)) : j \in 1 .. i})
Count(i) == 1 + Bytes(i)
Executed(i) == i + Stored(i)

Blocks == 0 .. MaxStore \cup {Stray}
Recipe == [length : 1 .. MaxLength, steps : Nat, right : BOOLEAN]

Idle == [kind |-> "none", offset |-> 0, size |-> 0, capacity |-> 0]

initial ==
  [entry |-> 1, cursor |-> 0, limit |-> 0, remaining |-> recipe.steps, next_page |-> 0,
   trigger |-> 0, collecting |-> FALSE, validating |-> FALSE, error |-> FALSE, running |-> FALSE]

(* Fault: only the end of the window stops the fast path. *)
TriggerAtLimit(t) == t.limit

(* Where the fast path of a block must stop and look. *)
Trigger(t) == IF t.collecting THEN Smaller(t.limit, t.next_page) ELSE t.limit

Collect(t) == [t EXCEPT !.collecting = TRUE, !.next_page = PAGE]

Launch(t) == [t EXCEPT !.trigger = Trigger(t), !.running = TRUE]

Frame(t) == [entry |-> t.entry, cursor |-> t.cursor, remaining |-> t.remaining]

-----------------------------------------------------------------------------
(***************************************************************************)
(* One block of compiled code: its prologue, its stores and its end.       *)
(***************************************************************************)
Hot == fast /\ s.cursor < s.trigger

Yields == ~Hot /\ ~s.validating /\ s.cursor = s.limit

AtPage == ~Hot /\ s.collecting /\ s.cursor # recipe.length /\ s.cursor = s.next_page

PastPage == ~Hot /\ s.collecting /\ s.cursor # recipe.length /\ s.cursor > s.next_page

Collected ==
  [s EXCEPT !.next_page = IF AtPage THEN @ + PAGE ELSE @,
            !.collecting = @ /\ ~PastPage]

(* Fault: the checkpoint is taken after the block is charged. *)
SavedLate == [Frame(s) EXCEPT !.remaining = @ - Count(s.entry)]

Saved == Frame(s)

Prologue ==
  LET t == Collected
  IN  [t EXCEPT !.trigger = IF fast /\ ~Hot THEN Trigger(t) ELSE @]

(* Fault: a store is checked against the end of the output only. *)
AdmitsStoreToEnd == trace[s.entry] # Stray /\ s.cursor + trace[s.entry] <= recipe.length

AdmitsStore == trace[s.entry] # Stray /\ s.cursor + trace[s.entry] <= s.limit

(* Fault: the return does not look at the instructions left. *)
ReturnsAnyhow(t) == t.cursor = recipe.length /\ recipe.right

Returns(t) == t.cursor = recipe.length /\ t.remaining = 0 /\ recipe.right

Fail(t) == [t EXCEPT !.error = TRUE, !.running = FALSE]

Yield ==
  /\ s.running /\ Yields
  /\ s' = [s EXCEPT !.running = FALSE]
  /\ UNCHANGED <<trace, recipe, fast, status, job, out, frames, validated, pages>>

Block ==
  /\ s.running /\ ~Yields
  /\ frames' = IF AtPage THEN [frames EXCEPT ![s.cursor \div PAGE] = Saved] ELSE frames
  /\ IF s.remaining < Count(s.entry) \/ ~AdmitsStore
     THEN s' = Fail(Prologue) /\ UNCHANGED out
     ELSE LET t == [Prologue EXCEPT !.remaining = @ - Count(s.entry), !.cursor = @ + trace[s.entry]]
          IN  /\ s' = IF s.entry < Len(trace) THEN [t EXCEPT !.entry = @ + 1]
                      ELSE IF Returns(t) THEN [t EXCEPT !.running = FALSE] ELSE Fail(t)
              /\ out' = [p \in DOMAIN out \cup s.cursor .. t.cursor - 1 |->
                           IF p \in DOMAIN out THEN out[p] ELSE s.entry]
  /\ UNCHANGED <<trace, recipe, fast, status, job, validated, pages>>

-----------------------------------------------------------------------------
(***************************************************************************)
(* validate_stream and run(validate).                                      *)
(***************************************************************************)
Window(t, offset, capacity) ==
  LET limit == offset + Smaller(capacity, recipe.length - offset)
  IN  Launch([t EXCEPT !.limit = limit, !.validating = (limit = recipe.length)])

BeginStream(capacity) ==
  /\ status = "new" /\ job = Idle
  /\ job' = [kind |-> "stream", offset |-> 0, capacity |-> capacity,
             size |-> Smaller(capacity, recipe.length)]
  /\ s' = Window(Collect(initial), 0, capacity)
  /\ frames' = [frames EXCEPT ![0] = Frame(initial)]
  /\ out' = << >>
  /\ UNCHANGED <<trace, recipe, fast, status, validated, pages>>

BeginWhole ==
  /\ status = "new" /\ job = Idle
  /\ job' = [kind |-> "whole", offset |-> 0, size |-> recipe.length, capacity |-> 0]
  /\ s' = Launch([Collect(initial) EXCEPT !.limit = recipe.length, !.validating = TRUE])
  /\ frames' = [frames EXCEPT ![0] = Frame(initial)]
  /\ out' = << >>
  /\ UNCHANGED <<trace, recipe, fast, status, validated, pages>>

Stopped(kinds) == job.kind \in kinds /\ ~s.running

Failed == s.error \/ s.cursor # s.limit

Refuse ==
  /\ Stopped({"stream", "whole"})
  /\ Failed \/ (s.limit = recipe.length /\ ~recipe.right)
  /\ status' = "refused" /\ job' = Idle /\ s' = initial /\ out' = << >> /\ validated' = << >>
  /\ UNCHANGED <<trace, recipe, fast, frames, pages>>

NextWindow ==
  /\ Stopped({"stream"}) /\ ~Failed /\ s.limit < recipe.length
  /\ job' = [job EXCEPT !.offset = s.limit,
                        !.size = Smaller(job.capacity, recipe.length - s.limit)]
  /\ s' = Window(s, s.limit, job.capacity)
  /\ validated' = [p \in DOMAIN validated \cup DOMAIN out |->
                     IF p \in DOMAIN out THEN out[p] ELSE validated[p]]
  /\ out' = << >>
  /\ UNCHANGED <<trace, recipe, fast, status, frames, pages>>

finish_collection == s.collecting /\ s.next_page >= recipe.length

Accept ==
  /\ Stopped({"stream", "whole"}) /\ ~Failed /\ s.limit = recipe.length /\ recipe.right
  /\ status' = "valid" /\ job' = Idle
  /\ pages' = finish_collection
  /\ validated' = [p \in DOMAIN validated \cup DOMAIN out |->
                     IF p \in DOMAIN out THEN out[p] ELSE validated[p]]
  /\ frames' = IF finish_collection THEN frames ELSE [k \in DOMAIN frames |-> Frame(initial)]
  /\ out' = << >> /\ s' = initial
  /\ UNCHANGED <<trace, recipe, fast>>

-----------------------------------------------------------------------------
(***************************************************************************)
(* run(): the whole output again, or pages of a pageable one.  What the    *)
(* worker lets through: a range starts at a page and ends at a page or at  *)
(* the end.                                                                *)
(***************************************************************************)
Restorable(offset, size) ==
  /\ offset < recipe.length /\ size \in 1 .. recipe.length - offset
  /\ \/ offset = 0 /\ size = recipe.length
     \/ pages /\ offset % PAGE = 0 /\ (size % PAGE = 0 \/ offset + size = recipe.length)

BeginRestore(offset, size) ==
  /\ status = "valid" /\ job = Idle /\ Restorable(offset, size)
  /\ LET f == frames[offset \div PAGE]
         t == IF offset = 0 THEN initial
              ELSE [initial EXCEPT !.entry = f.entry, !.cursor = f.cursor, !.remaining = f.remaining]
     IN  s' = Launch([t EXCEPT !.limit = offset + size,
                               !.error = offset # t.cursor,
                               !.validating = (offset = 0 /\ size = recipe.length)])
  /\ job' = [kind |-> "slice", offset |-> offset, size |-> size, capacity |-> 0]
  /\ out' = << >>
  /\ UNCHANGED <<trace, recipe, fast, status, frames, validated, pages>>

EndRestore ==
  /\ Stopped({"slice"})
  /\ job' = Idle /\ out' = << >> /\ s' = initial
  /\ UNCHANGED <<trace, recipe, fast, status, frames, validated, pages>>

Dropped == status = "refused" /\ UNCHANGED vars

-----------------------------------------------------------------------------
(***************************************************************************)
(* Any blocks, and a header that is right or off by one in its length or   *)
(* its steps, or wrong in its result or digest.                            *)
(***************************************************************************)
Init ==
  /\ \E n \in 1 .. MaxBlocks : trace \in [1 .. n -> Blocks]
  /\ fast \in BOOLEAN
  /\ LET length == Stored(Len(trace))
         steps == Executed(Len(trace))
     IN  /\ recipe \in [length : {length, length + 1, length - 1} \cap 1 .. MaxLength,
                        steps : {steps, steps + 1, steps - 1}, right : BOOLEAN]
         /\ Cardinality({x \in {1, 2, 3} : \/ x = 1 /\ recipe.length # length
                                           \/ x = 2 /\ recipe.steps # steps
                                           \/ x = 3 /\ ~recipe.right}) <= 1
  /\ status = "new" /\ job = Idle /\ s = initial /\ out = << >>
  /\ frames = [k \in 0 .. (recipe.length - 1) \div PAGE |-> Frame(initial)]
  /\ validated = << >> /\ pages = FALSE

Next ==
  \/ \E c \in Capacities : BeginStream(c)
  \/ BeginWhole \/ Yield \/ Block \/ NextWindow \/ Accept \/ Refuse
  \/ \E o \in 0 .. MaxLength, n \in 1 .. MaxLength : BeginRestore(o, n)
  \/ EndRestore \/ Dropped

Spec == Init /\ [][Next]_vars

-----------------------------------------------------------------------------
(* The byte of output at p: the block that a run from the start stores it in. *)
Byte(p) == CHOOSE i \in DOMAIN trace : Stored(i - 1) <= p /\ p < Stored(i)

(***************************************************************************)
(* What validation accepts is the whole run: it stores the recipe's length *)
(* in full, in exactly the recipe's number of instructions, and the bytes  *)
(* digested are the run's, whatever the windows (native_replay.hpp:577-618,*)
(* 382-390).                                                               *)
(***************************************************************************)
ValidIsWhole ==
  status = "valid" =>
    /\ Stored(Len(trace)) = recipe.length /\ Executed(Len(trace)) = recipe.steps
    /\ Stray \notin {trace[i] : i \in DOMAIN trace}
    /\ validated = [p \in 0 .. recipe.length - 1 |-> Byte(p)]

(***************************************************************************)
(* A run stores only within the window or slice it was given               *)
(* (native_replay.hpp:416-425).                                            *)
(***************************************************************************)
StaysInWindow == DOMAIN out \subseteq job.offset .. job.offset + job.size - 1

(***************************************************************************)
(* A recipe can be restored by pages exactly when at every page some block *)
(* starts with the output there: neither the fast path nor the end of a    *)
(* window makes a boundary go unseen, and none is taken for seen           *)
(* (native_replay.hpp:284-364, 545-546).                                   *)
(***************************************************************************)
PageableExact ==
  status = "valid" =>
    (pages <=> \A k \in 1 .. (recipe.length - 1) \div PAGE :
                 \E i \in DOMAIN trace : Stored(i - 1) = k * PAGE)

(***************************************************************************)
(* A restore that the worker lets through never fails, and yields the      *)
(* validated bytes of its range: the checkpoint holds the state, the       *)
(* frontier and the instructions left at the page (native_replay.hpp:      *)
(* 619-681).  The application has no second source for these bytes.        *)
(***************************************************************************)
RestoreExact ==
  Stopped({"slice"}) =>
    /\ ~Failed
    /\ out = [p \in job.offset .. job.offset + job.size - 1 |-> validated[p]]
=============================================================================
