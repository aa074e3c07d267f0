---------------------------- MODULE RecencyList ----------------------------
(***************************************************************************)
(* What a cache of bounded size that forgets the least recently used item  *)
(* promises.  An item is a record with a field `entry', its key; the list  *)
(* holds one item for a key, and the item used last at its end.            *)
(***************************************************************************)
EXTENDS Naturals, Sequences

CONSTANTS
  Item,         \* what the cache may hold
  Fits(_),      \* whether a list of items keeps the limits
  None          \* no key

VARIABLES
  list,
  recent        \* the key used last, by a hit or by an insertion

Keys(l) == {l[i].entry : i \in DOMAIN l}

Position(l, e) == CHOOSE i \in DOMAIN l : l[i].entry = e

Without(l, e) ==
  IF e \in Keys(l)
  THEN SubSeq(l, 1, Position(l, e) - 1) \o SubSeq(l, Position(l, e) + 1, Len(l))
  ELSE l

Lookup(l, e) == l[Position(l, e)]

Touched(l, e) == Append(Without(l, e), Lookup(l, e))

(***************************************************************************)
(* The item at the end and as many of the last used ones as fit.           *)
(***************************************************************************)
Admitted(l, item) ==
  LET rest == Without(l, item.entry)
      from(k) == Append(SubSeq(rest, k, Len(rest)), item)
      first == CHOOSE k \in 1 .. Len(rest) + 1 :
                 /\ Fits(from(k)) \/ k = Len(rest) + 1
                 /\ \A j \in 1 .. k - 1 : ~Fits(from(j))
  IN  from(first)

Init == list = << >> /\ recent = None

Get(e) == e \in Keys(list) /\ list' = Touched(list, e) /\ recent' = e

Erase(e) == list' = Without(list, e) /\ UNCHANGED recent

Put(item) == Fits(<<item>>) /\ list' = Admitted(list, item) /\ recent' = item.entry

Next ==
  \/ \E e \in Keys(list) : Get(e) \/ Erase(e)
  \/ \E item \in Item : Put(item)

Spec == Init /\ [][Next]_<<list, recent>>
=============================================================================
