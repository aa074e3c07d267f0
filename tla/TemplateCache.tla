--------------------------- MODULE TemplateCache ----------------------------
(***************************************************************************)
(* TemplateCache of native/template.hpp: templates by the entry of their   *)
(* producer, a clock that orders their uses, and the bytes they retain.    *)
(* A template is only its size in bytes here.                              *)
(***************************************************************************)
EXTENDS Naturals, FiniteSets, Sequences

CONSTANTS
  Entries,      \* entries of producers
  Bytes,        \* the sizes a template may have
  LIMIT,        \* how many bytes the cache may retain (8 MiB)
  MaxEntries,   \* how many templates it may hold (64)
  MaxClock,     \* bound: how often the cache is used
  None          \* no entry

ASSUME ConstantsAssumption ==
  Bytes \subseteq Nat \ {0} /\ LIMIT \in Nat /\ MaxEntries \in Nat \ {0} /\ MaxClock \in Nat /\ None \notin Entries

VARIABLES
  entries,      \* a function from the entries present to [bytes, used]
  clock,
  retained,
  peak_bytes,
  recent        \* history: the entry last found or put

vars == <<entries, clock, retained, peak_bytes, recent>>

Template == [bytes : Bytes, used : 0 .. MaxClock]

Present == DOMAIN entries

-----------------------------------------------------------------------------
(***************************************************************************)
(* erase() on a cache c = [entries, retained].                             *)
(***************************************************************************)
(* Fault: the bytes of the erased template stay counted. *)
ErasedUncounted(c, e) ==
  IF e \notin DOMAIN c.entries THEN c
  ELSE [c EXCEPT !.entries = [d \in DOMAIN c.entries \ {e} |-> c.entries[d]]]

Erased(c, e) ==
  IF e \notin DOMAIN c.entries THEN c
  ELSE [entries |-> [d \in DOMAIN c.entries \ {e} |-> c.entries[d]],
        retained |-> c.retained - c.entries[e].bytes]

Oldest(c) ==
  CHOOSE e \in DOMAIN c.entries :
    \A d \in DOMAIN c.entries : c.entries[e].used <= c.entries[d].used

(***************************************************************************)
(* The loop of put() that makes room for n bytes.  An iteration erases a   *)
(* template, so there are no more of them than templates.                  *)
(***************************************************************************)
Crowded(c, n) ==
  /\ DOMAIN c.entries # {}
  /\ c.retained + n > LIMIT \/ Cardinality(DOMAIN c.entries) >= MaxEntries

Iteration(c, n) == IF Crowded(c, n) THEN Erased(c, Oldest(c)) ELSE c

Shrunk(c, n) ==
  LET most == Cardinality(DOMAIN c.entries)
      after[i \in 0 .. most] == IF i = 0 THEN c ELSE Iteration(after[i - 1], n)
  IN  after[most]

-----------------------------------------------------------------------------
(* Fault: a hit leaves the time of the last use. *)
GetUnused(e) ==
  /\ clock < MaxClock /\ e \in Present
  /\ clock' = clock + 1 /\ recent' = e
  /\ UNCHANGED <<entries, retained, peak_bytes>>

Get(e) ==
  /\ clock < MaxClock /\ e \in Present
  /\ clock' = clock + 1 /\ recent' = e
  /\ entries' = [entries EXCEPT ![e].used = clock + 1]
  /\ UNCHANGED <<retained, peak_bytes>>

Erase(e) ==
  LET c == Erased([entries |-> entries, retained |-> retained], e)
  IN  /\ entries' = c.entries /\ retained' = c.retained
      /\ UNCHANGED <<clock, peak_bytes, recent>>

Put(e, n) ==
  /\ clock < MaxClock /\ n <= LIMIT
  /\ LET c == Shrunk(Erased([entries |-> entries, retained |-> retained], e), n)
     IN  /\ entries' = [d \in DOMAIN c.entries \cup {e} |->
                          IF d = e THEN [bytes |-> n, used |-> clock + 1] ELSE c.entries[d]]
         /\ retained' = c.retained + n
  /\ clock' = clock + 1 /\ recent' = e
  /\ peak_bytes' = IF retained' > peak_bytes THEN retained' ELSE peak_bytes

(* A template larger than the whole cache: put() returns at once. *)
PutTooLarge(e, n) == n > LIMIT /\ UNCHANGED vars

Init == entries = << >> /\ clock = 0 /\ retained = 0 /\ peak_bytes = 0 /\ recent = None

Next ==
  \E e \in Entries :
    Get(e) \/ Erase(e) \/ \E n \in Bytes : Put(e, n) \/ PutTooLarge(e, n)

Spec == Init /\ [][Next]_vars

-----------------------------------------------------------------------------
(* The bytes of the templates a function or a list holds, counted one by one. *)
Total(f) == Cardinality(UNION {{x} \X (1 .. f[x].bytes) : x \in DOMAIN f})

(***************************************************************************)
(* `retained' is the bytes of the templates present, never more than the   *)
(* limit, and the number of templates keeps its limit too: erase() and     *)
(* put() subtract what was added, whatever the order of evictions,         *)
(* replacements and misses.                                                *)
(***************************************************************************)
RetainedExact ==
  /\ retained = Total(entries)
  /\ retained <= peak_bytes /\ peak_bytes <= LIMIT
  /\ Cardinality(Present) <= MaxEntries

(***************************************************************************)
(* The cache forgets the least recently used template first and never more *)
(* than it must: it implements a list in the order of use.                 *)
(***************************************************************************)
ByUse(f) ==
  LET at(e) == Cardinality({d \in DOMAIN f : f[d].used <= f[e].used})
  IN  [i \in 1 .. Cardinality(DOMAIN f) |->
         LET e == CHOOSE d \in DOMAIN f : at(d) = i IN [entry |-> e, bytes |-> f[e].bytes]]

FitsAll(l) == Total(l) <= LIMIT /\ Len(l) <= MaxEntries

Recency == INSTANCE RecencyList WITH
  list <- ByUse(entries), Item <- [entry : Entries, bytes : Bytes], Fits <- FitsAll

ForgetsOldest == Recency!Spec
=============================================================================
