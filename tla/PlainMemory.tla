---------------------------- MODULE PlainMemory ----------------------------
(***************************************************************************)
(* What the pager promises to the application: memory.  An allocation is   *)
(* a run of zeroed pages, a load returns the value of the last store to    *)
(* the page, and nothing else the runtime does can be told apart from      *)
(* that.  The one thing the runtime may do that plain memory does not is   *)
(* to stop the process; it may never let it go on with a wrong value.      *)
(***************************************************************************)
EXTENDS Integers

CONSTANTS Buffer,    \* the slots of the runtime's buffer table
          MaxPages,  \* the largest allocation, in pages
          Values,    \* what a page can hold
          Zero       \* what a fresh page holds

VARIABLES extent,    \* extent[b]: pages of allocation b, 0 when there is none
          mem,       \* mem[b][i]: the value of page i of allocation b
          out,       \* the value the application's last load returned
          status     \* "running", or "stopped" once the process was ended

vars == <<extent, mem, out, status>>

Page == 0 .. MaxPages - 1

Blank == [i \in Page |-> Zero]

Init ==
  /\ extent = [b \in Buffer |-> 0]
  /\ mem = [b \in Buffer |-> Blank]
  /\ out = Zero
  /\ status = "running"

Alloc(b, n) ==
  /\ status = "running" /\ extent[b] = 0
  /\ extent' = [extent EXCEPT ![b] = n]
  /\ mem' = [mem EXCEPT ![b] = Blank]
  /\ UNCHANGED <<out, status>>

Free(b) ==
  /\ status = "running" /\ extent[b] # 0
  /\ extent' = [extent EXCEPT ![b] = 0]
  /\ mem' = [mem EXCEPT ![b] = Blank]
  /\ UNCHANGED <<out, status>>

Load(b, i) ==
  /\ status = "running" /\ i < extent[b]
  /\ out' = mem[b][i]
  /\ UNCHANGED <<extent, mem, status>>

Store(b, i, v) ==
  /\ status = "running" /\ i < extent[b]
  /\ mem' = [mem EXCEPT ![b][i] = v]
  /\ UNCHANGED <<extent, out, status>>

Stop ==
  /\ status = "running"
  /\ status' = "stopped"
  /\ UNCHANGED <<extent, mem, out>>

Next ==
  \/ \E b \in Buffer :
       \/ \E n \in 1 .. MaxPages : Alloc(b, n)
       \/ Free(b)
       \/ \E i \in Page : Load(b, i)
       \/ \E i \in Page, v \in Values : Store(b, i, v)
  \/ Stop

Spec == Init /\ [][Next]_vars
=============================================================================
