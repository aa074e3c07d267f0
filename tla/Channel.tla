------------------------------ MODULE Channel ------------------------------
(***************************************************************************)
(* The conversation between the application (native/runtime.cpp) and the   *)
(* replay worker (native/worker.cpp) over their socket pair and the shared *)
(* replay window (native/transport.hpp).                                   *)
(*                                                                         *)
(* A recipe's output is Windows windows long, or one message when it goes  *)
(* over the socket.  What a window holds is told apart only by whether it  *)
(* equals the application's bytes.  Every struct written to the socket is  *)
(* one message; a message carries the number n of the call it answers,     *)
(* which neither side looks at.                                            *)
(***************************************************************************)
EXTENDS Integers, Sequences, FiniteSets

CONSTANTS
  Ids,          \* buffer ids
  Windows,      \* windows of a recipe's output
  Sizes,        \* encoded and retained sizes of recipes
  Budget,       \* what the worker may retain (512 MiB in the code)
  Modes,        \* ways to pass output: "stream", "shared" and "socket"
  MaxCalls      \* bound: how many calls a behaviour makes

ASSUME ConstantsAssumption ==
  /\ IsFiniteSet(Ids) /\ Windows \in Nat \ {0}
  /\ Sizes \subseteq Nat \ {0} /\ IsFiniteSet(Sizes)
  /\ Budget \in Nat
  /\ Modes \subseteq {"stream", "shared", "socket"}
  /\ MaxCalls \in Nat

VARIABLES
  (* the application *)
  pc,           \* where the call in progress is
  cur,          \* the buffer it is about
  offset,       \* windows compared so far
  equal,        \* and whether all of them were equal
  state,        \* state[i]: "resident", "sealed" (has a recipe) or "gone"
  sliced,       \* sliced[i]: page_bytes # 0
  view,         \* view[i]: whether every restore of i gave the right bytes
  broken,       \* channel_broken
  call,         \* number of the call in progress
  (* the channel *)
  mode,         \* how output is passed, since af_init
  open,         \* the application has not shut the socket down
  toWorker, toApp,
  window,       \* what the shared window holds: the right bytes of buffer `of'?
  (* the worker *)
  wpc,          \* where the worker is; "gone" when the process has ended
  job,          \* the request it is serving
  sent,         \* windows published in this pass
  native,       \* the pass is the native replay's
  exact,        \* every window of this pass had the right bytes
  store,        \* store[i]: the recipe of buffer i
  bytes         \* what the recipes retain

app == <<pc, cur, offset, equal, state, sliced, view, broken, call>>
channel == <<mode, open, toWorker, toApp, window>>
worker == <<wpc, job, sent, native, exact, store, bytes>>
vars == <<app, channel, worker>>

(***************************************************************************)
(* Whether there is a shared window, and whether validation streams        *)
(* through it: without, a restore alone uses it.                           *)
(***************************************************************************)
Shared == mode # "socket"

Streaming == mode = "stream"

NoRecipe == [size |-> 0, exact |-> FALSE, sliced |-> FALSE]

Header(status, size, n) == [kind |-> "header", status |-> status, size |-> size, n |-> n]

Extra(kind, right, slices, n) == [kind |-> kind, right |-> right, sliced |-> slices, n |-> n]

-----------------------------------------------------------------------------
(***************************************************************************)
(* The application.  A call starts when it is idle; Ask writes a request.  *)
(***************************************************************************)
Starts == pc = "idle" /\ call < MaxCalls

Request(cmd, i, size) == [cmd |-> cmd, id |-> i, size |-> size, n |-> call + 1]

Ask(cmd, i, size, next) ==
  /\ call' = call + 1
  /\ toWorker' = toWorker \o (IF cmd = "REGISTER"
                                THEN <<Request(cmd, i, size), Request("blob", i, size)>>
                                ELSE <<Request(cmd, i, size)>>)
  /\ pc' = next /\ cur' = i

(***************************************************************************)
(* What the application gets when it reads a struct of the given kind.  A  *)
(* profile whose bytes came too late stays in the socket, and from then on *)
(* every read is off by them: the first header is read from the profile    *)
(* (its first word, decode_ns, becomes the status), the next ones, and a   *)
(* registration, from the unused tail of an earlier message: zeros.        *)
(***************************************************************************)
Leftover == {"profile", "tail"}

Readable(kind) ==
  IF toApp = <<>> THEN {}
  ELSE IF Head(toApp).kind = kind THEN {[m |-> Head(toApp), rest |-> Tail(toApp)]}
  ELSE IF Head(toApp).kind \notin Leftover THEN {}
  ELSE IF kind # "header" THEN {[m |-> Extra(kind, FALSE, FALSE, call), rest |-> toApp]}
  ELSE IF Len(toApp) = 1 THEN {}
  ELSE {[m |-> Header(status, 0, call),
         rest |-> <<Extra("tail", FALSE, FALSE, call)>> \o SubSeq(toApp, 3, Len(toApp))] :
        status \in IF Head(toApp).kind = "profile" THEN {0, 1} ELSE {0}}

Expects ==
  CASE pc \in {"validate", "drop", "restore", "profile", "query", "hello"} -> "header"
    [] pc = "registration" -> "registration"
    [] pc \in {"output", "payload"} -> "data"
    [] pc = "profile_data" -> "profile"
    [] OTHER -> "nothing"

Break == broken' = TRUE /\ open' = FALSE

(***************************************************************************)
(* submit writes the request and the recipe.                               *)
(***************************************************************************)
Submit(i, size) ==
  /\ Starts /\ state[i] = "resident" /\ ~broken
  /\ Ask("REGISTER", i, size, "validate")
  /\ offset' = 0 /\ equal' = TRUE
  /\ UNCHANGED <<mode, state, sliced, view, broken, open, toApp, window, worker>>

(***************************************************************************)
(* The loop of submit: a restart, a rejection, the end, or a window.       *)
(***************************************************************************)
Validate ==
  /\ pc = "validate"
  /\ \E p \in Readable("header") :
       /\ toApp' = p.rest
       /\ \/ /\ p.m.status = 2
             /\ offset' = 0 /\ equal' = TRUE
             /\ UNCHANGED <<pc, broken, open>>
          \/ /\ p.m.status = 1
             /\ pc' = "idle"
             /\ UNCHANGED <<offset, equal, broken, open>>
          \/ /\ p.m.status = 0 /\ Streaming /\ p.m.size = 0
             /\ equal' = (equal /\ offset = Windows)
             /\ pc' = "registration"
             /\ UNCHANGED <<offset, broken, open>>
          \/ /\ p.m.status = 0 /\ Streaming /\ p.m.size # 0
             /\ IF offset + p.m.size > Windows
                  THEN pc' = "idle" /\ Break
                  ELSE pc' = "compare" /\ UNCHANGED <<broken, open>>
             /\ UNCHANGED <<offset, equal>>
          \/ /\ p.m.status = 0 /\ ~Streaming
             /\ IF p.m.size # Windows
                  THEN pc' = "idle" /\ Break
                  ELSE pc' = "registration" /\ UNCHANGED <<broken, open>>
             /\ UNCHANGED <<offset, equal>>
  /\ UNCHANGED <<mode, cur, state, sliced, view, call, toWorker, window, worker>>

(* Fault: the comparison remembers only the last window. *)
CompareLast ==
  /\ pc = "compare"
  /\ equal' = (window = [of |-> cur, right |-> TRUE])
  /\ offset' = offset + 1
  /\ toWorker' = Append(toWorker, [cmd |-> "STREAM_ACK", id |-> cur, size |-> offset + 1, n |-> call])
  /\ pc' = "validate"
  /\ UNCHANGED <<mode, cur, state, sliced, view, broken, call, open, toApp, window, worker>>

Compare ==
  /\ pc = "compare"
  /\ equal' = (equal /\ window = [of |-> cur, right |-> TRUE])
  /\ offset' = offset + 1
  /\ toWorker' = Append(toWorker, [cmd |-> "STREAM_ACK", id |-> cur, size |-> offset + 1, n |-> call])
  /\ pc' = "validate"
  /\ UNCHANGED <<mode, cur, state, sliced, view, broken, call, open, toApp, window, worker>>

(***************************************************************************)
(* The end of submit.  A recipe that did not reproduce the bytes, or that  *)
(* is refused for what it retains or because mprotect fails, is dropped.   *)
(***************************************************************************)
Judge(matches, slices) ==
  \/ /\ matches
     /\ state' = [state EXCEPT ![cur] = "sealed"]
     /\ sliced' = [sliced EXCEPT ![cur] = slices]
     /\ pc' = "idle"
     /\ UNCHANGED <<cur, call, toWorker>>
  \/ Ask("DROP", cur, 0, "drop") /\ UNCHANGED <<state, sliced>>

Registration ==
  /\ pc = "registration"
  /\ \E p \in Readable("registration") :
       /\ toApp' = p.rest
       /\ IF Streaming
            THEN Judge(equal, p.m.sliced)
            ELSE /\ sliced' = [sliced EXCEPT ![cur] = p.m.sliced]
                 /\ pc' = "output"
                 /\ UNCHANGED <<cur, call, toWorker, state>>
  /\ UNCHANGED <<mode, offset, equal, view, broken, open, window, worker>>

Output ==
  /\ pc = "output"
  /\ \E p \in Readable("data") :
       /\ toApp' = p.rest /\ equal' = (equal /\ p.m.right)
       /\ Judge(equal', sliced[cur])
  /\ UNCHANGED <<mode, offset, view, broken, open, window, worker>>

(***************************************************************************)
(* A recipe is released by af_free, or by materialize when the buffer was  *)
(* modified.  The answer to a DROP is not looked at.                       *)
(***************************************************************************)
Drop(i) ==
  /\ Starts /\ state[i] = "sealed" /\ ~broken
  /\ Ask("DROP", i, 0, "drop")
  /\ state' = [state EXCEPT ![i] = "gone"]
  /\ UNCHANGED <<mode, offset, equal, sliced, view, broken, open, toApp, window, worker>>

Free(i) ==
  /\ pc = "idle" /\ (state[i] = "resident" \/ (state[i] = "sealed" /\ broken))
  /\ state' = [state EXCEPT ![i] = "gone"]
  /\ UNCHANGED <<pc, cur, offset, equal, sliced, view, broken, call, channel, worker>>

(***************************************************************************)
(* restore_span: the bytes come in the window, or after the header.        *)
(***************************************************************************)
Length(i) == IF sliced[i] THEN 1 ELSE Windows

Stop == pc' = "stopped" /\ open' = FALSE

Restore(i) ==
  /\ Starts /\ state[i] = "sealed"
  /\ \/ /\ ~broken
        /\ Ask(IF ~sliced[i] THEN "RESTORE" ELSE IF Shared THEN "RESTORE_SHARED" ELSE "RESTORE_RANGE",
               i, Length(i), "restore")
        /\ UNCHANGED open
     \/ broken /\ Stop /\ UNCHANGED <<cur, call, toWorker>>
  /\ UNCHANGED <<mode, offset, equal, state, sliced, view, broken, toApp, window, worker>>

Restoring ==
  /\ pc = "restore"
  /\ \E p \in Readable("header") :
       /\ toApp' = p.rest
       /\ IF p.m.status # 0 \/ p.m.size # Length(cur)
            THEN Stop
            ELSE /\ pc' = IF sliced[cur] /\ Shared THEN "copy" ELSE "payload"
                 /\ UNCHANGED open
  /\ UNCHANGED <<cur, offset, equal, state, sliced, view, broken, call>>
  /\ UNCHANGED <<mode, toWorker, window, worker>>

Copy ==
  /\ pc = "copy"
  /\ view' = [view EXCEPT ![cur] = @ /\ window = [of |-> cur, right |-> TRUE]]
  /\ pc' = "idle"
  /\ UNCHANGED <<cur, offset, equal, state, sliced, broken, call, channel, worker>>

Payload ==
  /\ pc = "payload"
  /\ \E p \in Readable("data") :
       /\ toApp' = p.rest
       /\ view' = [view EXCEPT ![cur] = @ /\ p.m.right /\ p.m.n = call]
  /\ pc' = "idle"
  /\ UNCHANGED <<cur, offset, equal, state, sliced, broken, call>>
  /\ UNCHANGED <<mode, open, toWorker, window, worker>>

(***************************************************************************)
(* The calls that only ask: af_worker_peak_rss, af_get_worker_profile.     *)
(***************************************************************************)
Query(cmd) ==
  /\ Starts /\ ~broken
  /\ Ask(cmd, cur, 0, IF cmd = "PROFILE" THEN "profile" ELSE "query")
  /\ UNCHANGED <<mode, offset, equal, state, sliced, view, broken, open, toApp, window, worker>>

Answered ==
  /\ pc \in {"drop", "query", "profile", "hello"}
  /\ \E p \in Readable("header") :
       /\ toApp' = p.rest
       /\ pc' = IF pc = "profile" /\ p.m.status = 0 /\ p.m.size # 0 THEN "profile_data"
                ELSE IF pc = "hello" /\ p.m.status # 0 THEN "wait" ELSE "idle"
       /\ open' = (open /\ pc' # "wait")
  /\ UNCHANGED <<cur, offset, equal, state, sliced, view, broken, call>>
  /\ UNCHANGED <<mode, toWorker, window, worker>>

ProfileRead ==
  /\ pc = "profile_data"
  /\ \E p \in Readable("profile") : toApp' = p.rest
  /\ pc' = "idle"
  /\ UNCHANGED <<cur, offset, equal, state, sliced, view, broken, call>>
  /\ UNCHANGED <<mode, open, toWorker, window, worker>>

(* Fault: a call that times out leaves the channel in use. *)
NoAnswerQuiet ==
  /\ Expects # "nothing" /\ Readable(Expects) = {}
  /\ pc' = CASE pc \in {"restore", "payload"} -> "stopped"
             [] pc = "hello" -> "wait"
             [] OTHER -> "idle"
  /\ UNCHANGED <<broken, open>>
  /\ UNCHANGED <<cur, offset, equal, state, sliced, view, call>>
  /\ UNCHANGED <<mode, toWorker, toApp, window, worker>>

(***************************************************************************)
(* A read fails: the worker is gone, or it did not write for 35 seconds.   *)
(* A restore that fails ends the process.  The failed read of a profile's  *)
(* bytes does not break the channel.                                       *)
(***************************************************************************)
NoAnswer ==
  /\ Expects # "nothing" /\ Readable(Expects) = {}
  /\ pc' = CASE pc \in {"restore", "payload"} -> "stopped"
             [] pc = "hello" -> "wait"
             [] OTHER -> "idle"
  /\ IF pc = "profile_data" THEN UNCHANGED <<broken, open>> ELSE Break
  /\ UNCHANGED <<cur, offset, equal, state, sliced, view, call>>
  /\ UNCHANGED <<mode, toWorker, toApp, window, worker>>

-----------------------------------------------------------------------------
(***************************************************************************)
(* af_init starts a worker and greets it; af_shutdown, once every buffer   *)
(* is freed, tells it to quit, closes the socket and waits for it.         *)
(***************************************************************************)
AfInit ==
  /\ pc = "down" /\ call < MaxCalls
  /\ pc' = "hello" /\ call' = call + 1
  /\ toWorker' = <<Request("PING", cur, 0)>> /\ toApp' = <<>>
  /\ broken' = FALSE /\ open' = TRUE
  /\ state' = [i \in Ids |-> "resident"]
  /\ mode' \in Modes
  /\ wpc' = "start" /\ store' = [i \in Ids |-> NoRecipe] /\ bytes' = 0
  /\ UNCHANGED <<cur, offset, equal, sliced, view, window, job, sent, native, exact>>

AfShutdown ==
  /\ pc = "idle" /\ \A i \in Ids : state[i] = "gone"
  /\ pc' = "wait"
  /\ toWorker' = IF open THEN Append(toWorker, Request("QUIT", cur, 0)) ELSE toWorker
  /\ open' = FALSE
  /\ UNCHANGED <<cur, offset, equal, state, sliced, view, broken, call>>
  /\ UNCHANGED <<mode, toApp, window, worker>>

Waited ==
  /\ pc = "wait" /\ wpc = "gone"
  /\ pc' = "down"
  /\ UNCHANGED <<cur, offset, equal, state, sliced, view, broken, call, channel, worker>>

(***************************************************************************)
(* The application ends, for a reason of its own, in the middle of a call. *)
(***************************************************************************)
AppEnds ==
  /\ pc \notin {"down", "stopped"}
  /\ Stop
  /\ UNCHANGED <<cur, offset, equal, state, sliced, view, broken, call>>
  /\ UNCHANGED <<mode, toWorker, toApp, window, worker>>

-----------------------------------------------------------------------------
(***************************************************************************)
(* The worker.  Say writes a message; when the application has shut the    *)
(* socket down the write fails and the worker leaves its loop.             *)
(***************************************************************************)
Say(m, next) ==
  /\ toApp' = IF open THEN Append(toApp, m) ELSE toApp
  /\ wpc' = IF open THEN next ELSE "gone"

Refuse(n) == Say(Header(1, 0, n), "idle")

Takes(cmds) ==
  /\ wpc = "idle" /\ toWorker # <<>> /\ Head(toWorker).cmd \in cmds
  /\ toWorker' = Tail(toWorker)

WStart ==
  /\ wpc = "start"
  /\ \/ wpc' = "idle" /\ UNCHANGED toApp
     \/ toApp' = Append(toApp, Header(1, 0, call)) /\ wpc' = "gone"
  /\ UNCHANGED <<app, mode, open, toWorker, window, job, sent, native, exact, store, bytes>>

(***************************************************************************)
(* A recipe arrives: too large for the budget, not decodable, or taken.    *)
(***************************************************************************)
WRegister ==
  /\ wpc = "idle" /\ toWorker # <<>> /\ Head(toWorker).cmd = "REGISTER"
  /\ toWorker' = SubSeq(toWorker, 3, Len(toWorker))
  /\ \/ /\ Refuse(Head(toWorker).n)
        /\ UNCHANGED <<job, sent, native, exact>>
     \/ /\ bytes + Head(toWorker).size <= Budget
        /\ wpc' = "replay" /\ job' = Head(toWorker)
        /\ sent' = 0 /\ native' = TRUE /\ exact' = TRUE
        /\ UNCHANGED toApp
  /\ UNCHANGED <<app, mode, open, window, store, bytes>>

(* Fault: the next window is written without waiting for the ack. *)
WPublishEager(right) ==
  /\ wpc = "replay" /\ Streaming /\ sent < Windows
  /\ window' = [of |-> job.id, right |-> right]
  /\ sent' = sent + 1 /\ exact' = (exact /\ right)
  /\ Say(Header(0, 1, job.n), "replay")
  /\ UNCHANGED <<app, mode, open, toWorker, job, native, store, bytes>>

WPublish(right) ==
  /\ wpc = "replay" /\ Streaming /\ sent < Windows
  /\ window' = [of |-> job.id, right |-> right]
  /\ sent' = sent + 1 /\ exact' = (exact /\ right)
  /\ Say(Header(0, 1, job.n), "ack")
  /\ UNCHANGED <<app, mode, open, toWorker, job, native, store, bytes>>

WAck ==
  /\ wpc = "ack" /\ toWorker # <<>>
  /\ toWorker' = Tail(toWorker)
  /\ LET q == Head(toWorker)
     IN  IF q.cmd = "STREAM_ACK" /\ q.id = job.id /\ q.size = sent
           THEN wpc' = "replay" /\ UNCHANGED toApp
           ELSE Refuse(job.n)
  /\ UNCHANGED <<app, mode, open, window, job, sent, native, exact, store, bytes>>

(* Fault: the fallback may fall back again. *)
WFallbackAgain ==
  /\ wpc = "replay" /\ native
  /\ sent' = 0 /\ exact' = TRUE
  /\ Say(Header(2, 0, job.n), "replay")
  /\ UNCHANGED <<app, mode, open, toWorker, window, job, native, store, bytes>>

(***************************************************************************)
(* The native replay fails, at any window or at the final digest.  The     *)
(* emulator replays the recipe instead, and the comparison starts again.   *)
(***************************************************************************)
WFallback ==
  /\ wpc = "replay" /\ native
  /\ \/ Refuse(job.n) /\ UNCHANGED <<native, sent, exact>>
     \/ /\ native' = FALSE /\ sent' = 0 /\ exact' = TRUE
        /\ IF Streaming THEN Say(Header(2, 0, job.n), "replay") ELSE UNCHANGED <<toApp, wpc>>
  /\ UNCHANGED <<app, mode, open, toWorker, window, job, store, bytes>>

(***************************************************************************)
(* The recipe is kept before the answer is written.                        *)
(***************************************************************************)
WCommit(size, slices, right) ==
  /\ wpc = "replay" /\ (Streaming => sent = Windows)
  /\ LET total == bytes - store[job.id].size + size
     IN  IF total > Budget
           THEN Refuse(job.n) /\ UNCHANGED <<store, bytes>>
           ELSE /\ store' = [store EXCEPT ![job.id] =
                               [size |-> size, exact |-> IF Streaming THEN exact ELSE right,
                                sliced |-> native /\ slices]]
                /\ bytes' = total
                /\ Say(Header(0, IF Streaming THEN 0 ELSE Windows, job.n), "registration")
  /\ UNCHANGED <<app, mode, open, toWorker, window, job, sent, native, exact>>

WRegistration ==
  /\ wpc = "registration"
  /\ Say(Extra("registration", TRUE, store[job.id].sliced, job.n), IF Streaming THEN "idle" ELSE "data")
  /\ UNCHANGED <<app, mode, open, toWorker, window, job, sent, native, exact, store, bytes>>

WData ==
  /\ wpc = "data"
  /\ Say(Extra("data", store[job.id].exact, FALSE, job.n), "idle")
  /\ UNCHANGED <<app, mode, open, toWorker, window, job, sent, native, exact, store, bytes>>

(* Fault: a dropped recipe still counts. *)
WDropUncounted ==
  /\ Takes({"DROP"})
  /\ store' = [store EXCEPT ![Head(toWorker).id] = NoRecipe]
  /\ Say(Header(0, 0, Head(toWorker).n), "idle")
  /\ UNCHANGED <<app, mode, open, window, job, sent, native, exact, bytes>>

WDrop ==
  /\ Takes({"DROP"})
  /\ LET q == Head(toWorker)
     IN  /\ bytes' = bytes - store[q.id].size
         /\ store' = [store EXCEPT ![q.id] = NoRecipe]
         /\ Say(Header(0, 0, q.n), "idle")
  /\ UNCHANGED <<app, mode, open, window, job, sent, native, exact>>

(* Fault: the reply does not wait for the window. *)
WRestoreEarly ==
  /\ Takes({"RESTORE", "RESTORE_RANGE", "RESTORE_SHARED"})
  /\ Say(Header(0, Head(toWorker).size, Head(toWorker).n),
         IF Head(toWorker).cmd = "RESTORE_SHARED" THEN "idle" ELSE "data")
  /\ job' = Head(toWorker)
  /\ UNCHANGED <<app, mode, open, window, sent, native, exact, store, bytes>>

(***************************************************************************)
(* A restore fails when there is no such recipe, when a range is asked of  *)
(* a recipe without page checkpoints, or when the replay does.             *)
(***************************************************************************)
WRestore ==
  /\ Takes({"RESTORE", "RESTORE_RANGE", "RESTORE_SHARED"})
  /\ LET q == Head(toWorker)
         stored == store[q.id]
     IN  \/ Refuse(q.n) /\ UNCHANGED <<window, job>>
         \/ /\ stored # NoRecipe /\ (q.cmd # "RESTORE" => stored.sliced)
            /\ job' = q
            /\ IF q.cmd = "RESTORE_SHARED"
                 THEN /\ window' = [of |-> q.id, right |-> stored.exact]
                      /\ Say(Header(0, q.size, q.n), "idle")
                 ELSE /\ Say(Header(0, q.size, q.n), "data")
                      /\ UNCHANGED window
  /\ UNCHANGED <<app, mode, open, sent, native, exact, store, bytes>>

WQuery ==
  /\ Takes({"PING", "PEAK_RSS"})
  /\ Say(Header(0, 0, Head(toWorker).n), "idle")
  /\ UNCHANGED <<app, mode, open, window, job, sent, native, exact, store, bytes>>

WProfile ==
  /\ \/ /\ Takes({"PROFILE"})
        /\ job' = Head(toWorker)
        /\ Say(Header(0, 1, Head(toWorker).n), "profile")
     \/ /\ wpc = "profile"
        /\ Say(Extra("profile", TRUE, FALSE, job.n), "idle")
        /\ UNCHANGED <<toWorker, job>>
  /\ UNCHANGED <<app, mode, open, window, sent, native, exact, store, bytes>>

WQuit ==
  /\ Takes({"QUIT"})
  /\ wpc' = "gone"
  /\ UNCHANGED <<app, mode, open, toApp, window, job, sent, native, exact, store, bytes>>

WUnknown ==
  /\ Takes({"STREAM_ACK", "blob"})
  /\ Say(Header(1, 0, Head(toWorker).n), "gone")
  /\ UNCHANGED <<app, mode, open, window, job, sent, native, exact, store, bytes>>

(* Fault: the end of the stream goes unnoticed while waiting for an ack. *)
WEofIdle ==
  /\ wpc = "idle" /\ toWorker = <<>> /\ ~open
  /\ wpc' = "gone"
  /\ UNCHANGED <<app, channel, job, sent, native, exact, store, bytes>>

(***************************************************************************)
(* The socket was shut down and there is nothing left to read.             *)
(***************************************************************************)
WEof ==
  /\ wpc \in {"idle", "ack"} /\ toWorker = <<>> /\ ~open
  /\ wpc' = "gone"
  /\ UNCHANGED <<app, channel, job, sent, native, exact, store, bytes>>

WDies ==
  /\ wpc # "gone"
  /\ wpc' = "gone"
  /\ UNCHANGED <<app, channel, job, sent, native, exact, store, bytes>>

-----------------------------------------------------------------------------
Init ==
  /\ pc = "down" /\ cur \in Ids /\ offset = 0 /\ equal = TRUE
  /\ state = [i \in Ids |-> "gone"] /\ sliced = [i \in Ids |-> FALSE]
  /\ view = [i \in Ids |-> TRUE] /\ broken = FALSE /\ call = 0
  /\ mode = "socket" /\ open = FALSE /\ toWorker = <<>> /\ toApp = <<>>
  /\ window = [of |-> cur, right |-> FALSE]
  /\ wpc = "gone" /\ job = [cmd |-> "PING", id |-> cur, size |-> 0, n |-> 0]
  /\ sent = 0 /\ native = FALSE /\ exact = FALSE
  /\ store = [i \in Ids |-> NoRecipe] /\ bytes = 0

Begin ==
  \/ AfInit \/ AfShutdown
  \/ \E i \in Ids : \/ \E size \in Sizes : Submit(i, size)
                    \/ Drop(i) \/ Free(i) \/ Restore(i)
  \/ \E cmd \in {"PEAK_RSS", "PROFILE"} : Query(cmd)

Continue ==
  \/ Validate \/ Compare \/ Registration \/ Output
  \/ Restoring \/ Copy \/ Payload
  \/ Answered \/ ProfileRead \/ NoAnswer \/ Waited

Work ==
  \/ WStart \/ WRegister \/ WAck \/ WFallback
  \/ \E right \in BOOLEAN : WPublish(right)
  \/ \E size \in Sizes, slices, right \in BOOLEAN : WCommit(size, slices, right)
  \/ WRegistration \/ WData \/ WDrop \/ WRestore \/ WQuery \/ WProfile
  \/ WQuit \/ WUnknown \/ WEof

(***************************************************************************)
(* The process has ended, or the bound on the calls is reached.            *)
(***************************************************************************)
Rest ==
  /\ pc = "stopped" \/ (call >= MaxCalls /\ pc \in {"idle", "down"})
  /\ UNCHANGED vars

Next == Begin \/ Continue \/ AppEnds \/ Work \/ WDies \/ Rest

(***************************************************************************)
(* Both processes are scheduled; a read of the application ends after 35   *)
(* seconds (SO_RCVTIMEO), and every replay is bounded.                     *)
(***************************************************************************)
Spec == Init /\ [][Next]_vars /\ WF_vars(Continue) /\ WF_vars(Work)

-----------------------------------------------------------------------------

(***************************************************************************)
(* While the channel works and the worker lives, a buffer that submit      *)
(* sealed has a recipe in the worker that reproduces every byte of it:     *)
(* whatever was restarted, refused, timed out or left unread before.       *)
(***************************************************************************)
SealedIsExact ==
  wpc # "gone" /\ ~broken => \A i \in Ids : state[i] = "sealed" => store[i].exact

(***************************************************************************)
(* A restore that returns gave the bytes that were evicted.  Otherwise it  *)
(* ends the process, even when a worker died, was late, or left a profile  *)
(* in the socket.                                                          *)
(***************************************************************************)
RestoredIsOriginal == \A i \in Ids : view[i]

Skewed == pc # "profile_data" /\ \E k \in DOMAIN toApp : toApp[k].kind \in Leftover

(***************************************************************************)
(* Request and answer stay paired although no message carries a number     *)
(* anyone checks: everything the application can still read answers the    *)
(* call in progress, and between calls both directions are empty.  The     *)
(* exception is a profile whose bytes were not read.                       *)
(***************************************************************************)
InStep ==
  ~broken /\ ~Skewed /\ pc # "stopped" =>
    /\ \A k \in DOMAIN toApp : toApp[k].n = call
    /\ pc = "idle" => toApp = <<>> /\ toWorker = <<>>

(***************************************************************************)
(* retained_bytes is the sum over the stored recipes, and within the       *)
(* budget, after every mix of commits, refusals and drops.  The sum is the *)
(* number of pairs of an id and one of the bytes of its recipe.            *)
(***************************************************************************)
Held(recipes) == Cardinality(UNION {{i} \X (1 .. recipes[i].size) : i \in Ids})

BudgetKept == bytes = Held(store) /\ bytes <= Budget

(***************************************************************************)
(* The worker never writes the window while the application reads it: the  *)
(* contract of SharedArena.                                                *)
(***************************************************************************)
WindowHeld == [][(pc \in {"compare", "copy"} => window' = window)]_vars

(***************************************************************************)
(* Every call returns or ends the process, whatever the worker does.       *)
(***************************************************************************)
CallsReturn == pc \notin {"idle", "stopped", "down"} ~> pc \in {"idle", "stopped", "down"}

(***************************************************************************)
(* Once the application's end is closed the worker ends, so that waitpid   *)
(* in af_shutdown returns.                                                 *)
(***************************************************************************)
WorkerLeaves == ~open ~> wpc = "gone"
=============================================================================
