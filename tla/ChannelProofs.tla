--------------------------- MODULE ChannelProofs ---------------------------
(***************************************************************************)
(* Sealed buffers keep exact recipes, restores give back what was evicted, *)
(* calls and answers stay paired and the window is not overwritten, for    *)
(* every number of buffers, windows and calls, every budget and every way  *)
(* the output is passed, whenever the worker dies.                         *)
(***************************************************************************)
EXTENDS Channel, TLAPS

(***************************************************************************)
(* The types of the state.                                                 *)
(***************************************************************************)
Commands == {"PING", "PEAK_RSS", "PROFILE", "QUIT", "REGISTER", "blob", "STREAM_ACK", "DROP",
             "RESTORE", "RESTORE_RANGE", "RESTORE_SHARED"}

Requests == [cmd : Commands, id : Ids, size : Nat, n : Nat]

Answers ==
  [kind : {"header"}, status : {0, 1, 2}, size : Nat, n : Nat]
    \cup [kind : {"registration", "data", "profile", "tail"}, right : BOOLEAN, sliced : BOOLEAN, n : Nat]

AppTypes ==
  /\ cur \in Ids /\ offset \in Nat /\ equal \in BOOLEAN /\ call \in Nat
  /\ state \in [Ids -> {"resident", "sealed", "gone"}]
  /\ sliced \in [Ids -> BOOLEAN] /\ view \in [Ids -> BOOLEAN]
  /\ broken \in BOOLEAN /\ open \in BOOLEAN

ChannelTypes == toWorker \in Seq(Requests) /\ toApp \in Seq(Answers)

WorkerTypes ==
  /\ window \in [of : Ids, right : BOOLEAN]
  /\ job \in Requests /\ sent \in Nat /\ native \in BOOLEAN /\ exact \in BOOLEAN
  /\ store \in [Ids -> [size : Nat, exact : BOOLEAN, sliced : BOOLEAN]]

Types == AppTypes /\ ChannelTypes /\ WorkerTypes

(* Sequences with the same elements are the same. *)
LEMMA SeqSame ==
  ASSUME NEW S, NEW s \in Seq(S), NEW t \in Seq(S), Len(s) = Len(t), \A i \in 1 .. Len(s) : s[i] = t[i]
  PROVE  s = t
  OBVIOUS

(* A sequence of one that is appended to. *)
LEMMA AppendTwo == \A a, b : Append(<<a>>, b) = <<a, b>>
<1> SUFFICES ASSUME NEW a, NEW b PROVE Append(<<a>>, b) = <<a, b>>
  BY Zenon
<1>1. <<a>> \in Seq({a, b}) /\ b \in {a, b} /\ <<a, b>> \in Seq({a, b})
  OBVIOUS
<1>2. Append(<<a>>, b) \in Seq({a, b}) /\ Len(Append(<<a>>, b)) = 2
  OBVIOUS
<1>3. \A i \in 1 .. 2 : Append(<<a>>, b)[i] = <<a, b>>[i]
  BY <1>1
<1>4. Len(<<a, b>>) = 2
  OBVIOUS
<1> QED BY <1>1, <1>2, <1>3, <1>4, SeqSame, Zenon

(* A sequence of two that is appended to. *)
LEMMA AppendThree == \A a, b, c : Append(<<a, b>>, c) = <<a, b, c>>
<1> SUFFICES ASSUME NEW a, NEW b, NEW c PROVE Append(<<a, b>>, c) = <<a, b, c>>
  BY Zenon
<1>1. <<a, b>> \in Seq({a, b, c}) /\ <<a, b, c>> \in Seq({a, b, c})
  OBVIOUS
<1>2. Append(<<a, b>>, c) \in Seq({a, b, c}) /\ Len(Append(<<a, b>>, c)) = 3
  OBVIOUS
<1>3. \A i \in 1 .. 3 : Append(<<a, b>>, c)[i] = <<a, b, c>>[i]
  BY <1>1
<1>4. Len(<<a, b, c>>) = 3
  OBVIOUS
<1> QED BY <1>1, <1>2, <1>3, <1>4, SeqSame, Zenon

(***************************************************************************)
(* Short sequences and concatenations of elements of a set are sequences   *)
(* over it.                                                                *)
(***************************************************************************)
LEMMA SeqFacts ==
  ASSUME NEW S
  PROVE  /\ \A a \in S : <<a>> \in Seq(S)
         /\ \A a, b \in S : <<a, b>> \in Seq(S)
         /\ \A s, t \in Seq(S) : s \o t \in Seq(S)
  OBVIOUS

(* A ResponseHeader is an answer. *)
LEMMA HeaderTyped ==
  ASSUME NEW s \in {0, 1, 2}, NEW z \in Nat, NEW k \in Nat
  PROVE  Header(s, z, k) \in Answers
  BY Zenon DEF Header, Answers

(* A struct that follows a header is an answer. *)
LEMMA ExtraTyped ==
  ASSUME NEW kind \in {"registration", "data", "profile", "tail"}, NEW r \in BOOLEAN, NEW s \in BOOLEAN,
         NEW k \in Nat
  PROVE  Extra(kind, r, s, k) \in Answers
  BY Zenon DEF Extra, Answers

(***************************************************************************)
(* What the application reads is an answer, and what stays in the socket a *)
(* sequence of them.                                                       *)
(***************************************************************************)
LEMMA ReadTyped ==
  ASSUME Types, NEW kind \in {"header", "registration", "data", "profile"}, NEW p \in Readable(kind)
  PROVE  p.m \in Answers /\ p.m.kind = kind /\ p.rest \in Seq(Answers)
<1>1. toApp # <<>> /\ toApp \in Seq(Answers) /\ call \in Nat
  BY Zenon DEF Types, AppTypes, ChannelTypes, Readable
<1>2. Head(toApp) \in Answers /\ Tail(toApp) \in Seq(Answers)
  BY <1>1
<1>3. CASE Head(toApp).kind = kind
  <2>1. p = [m |-> Head(toApp), rest |-> Tail(toApp)]
    BY <1>1, <1>3, Zenon DEF Readable
  <2> QED BY <1>2, <1>3, <2>1, Zenon
<1>4. CASE Head(toApp).kind # kind /\ kind # "header"
  <2>1. p = [m |-> Extra(kind, FALSE, FALSE, call), rest |-> toApp]
    BY <1>1, <1>4, Zenon DEF Readable
  <2>2. Extra(kind, FALSE, FALSE, call) \in Answers /\ Extra(kind, FALSE, FALSE, call).kind = kind
    BY <1>1, <1>4, ExtraTyped, Zenon DEF Extra
  <2> QED BY <1>1, <2>1, <2>2, Zenon
<1>5. CASE Head(toApp).kind # kind /\ kind = "header"
  <2>1. PICK status \in {0, 1} :
          p = [m |-> Header(status, 0, call),
               rest |-> <<Extra("tail", FALSE, FALSE, call)>> \o SubSeq(toApp, 3, Len(toApp))]
    BY <1>1, <1>5, Zenon DEF Readable
  <2>2. Header(status, 0, call) \in Answers /\ Header(status, 0, call).kind = "header"
    BY <1>1, HeaderTyped, Zenon DEF Header
  <2>3. <<Extra("tail", FALSE, FALSE, call)>> \in Seq(Answers)
    BY <1>1, ExtraTyped, SeqFacts, Zenon
  <2>4. SubSeq(toApp, 3, Len(toApp)) \in Seq(Answers)
    BY <1>1
  <2>5. <<Extra("tail", FALSE, FALSE, call)>> \o SubSeq(toApp, 3, Len(toApp)) \in Seq(Answers)
    BY <2>3, <2>4, SeqFacts, Zenon
  <2> QED BY <1>5, <2>1, <2>2, <2>5, Zenon
<1> QED BY <1>3, <1>4, <1>5, Zenon

(* Writing a request keeps the types. *)
LEMMA AskTyped ==
  ASSUME Types, NEW cmd \in Commands, NEW i \in Ids, NEW size \in Nat, NEW next, Ask(cmd, i, size, next)
  PROVE  call' \in Nat /\ cur' \in Ids /\ toWorker' \in Seq(Requests)
<1>1. Request(cmd, i, size) \in Requests /\ Request("blob", i, size) \in Requests
  BY DEF Request, Requests, Commands, Types, AppTypes
<1>2. \A q \in Seq(Requests) : toWorker \o q \in Seq(Requests)
  BY SeqFacts, Zenon DEF Types, ChannelTypes
<1>3. <<Request(cmd, i, size)>> \in Seq(Requests)
      /\ <<Request(cmd, i, size), Request("blob", i, size)>> \in Seq(Requests)
  BY <1>1, SeqFacts, Zenon
<1>4. \/ toWorker' = toWorker \o <<Request(cmd, i, size)>>
      \/ toWorker' = toWorker \o <<Request(cmd, i, size), Request("blob", i, size)>>
  BY Zenon DEF Ask
<1>5. call' \in Nat /\ cur' \in Ids
  BY DEF Ask, Types, AppTypes
<1> QED BY <1>2, <1>3, <1>4, <1>5, Zenon

(* Writing an answer keeps the types. *)
LEMMA SayTyped ==
  ASSUME Types, NEW m \in Answers, NEW next, Say(m, next)
  PROVE  toApp' \in Seq(Answers)
  BY DEF Say, Types, ChannelTypes

(***************************************************************************)
(* The steps of the application keep the types.                            *)
(***************************************************************************)
LEMMA AppTyped ==
  ASSUME Types, Begin \/ Continue \/ AppEnds
  PROVE  Types'
<1> USE ConstantsAssumption
<1>w. ASSUME UNCHANGED worker, window' = window
      PROVE  WorkerTypes'
  BY <1>w, Zenon DEF worker, Types, WorkerTypes
<1>l. \A i \in Ids : Length(i) \in Nat /\ Length(i) # 0
  BY DEF Length
<1>1. ASSUME NEW i \in Ids, NEW size \in Sizes, Submit(i, size) PROVE Types'
  <2>1. call' \in Nat /\ cur' \in Ids /\ toWorker' \in Seq(Requests)
    BY <1>1, AskTyped, Zenon DEF Submit, Commands
  <2> QED BY <1>1, <1>w, <2>1, Zenon DEF Submit, Types, AppTypes, ChannelTypes
<1>2. ASSUME NEW i \in Ids, Drop(i) PROVE Types'
  <2>1. call' \in Nat /\ cur' \in Ids /\ toWorker' \in Seq(Requests)
    BY <1>2, AskTyped, Zenon DEF Drop, Commands
  <2> QED BY <1>2, <1>w, <2>1, Zenon DEF Drop, Types, AppTypes, ChannelTypes
<1>3. ASSUME NEW i \in Ids, Free(i) PROVE Types'
  BY <1>3, <1>w, Zenon DEF Free, channel, Types, AppTypes, ChannelTypes
<1>4. ASSUME NEW i \in Ids, Restore(i) PROVE Types'
  <2>1. call' \in Nat /\ cur' \in Ids /\ toWorker' \in Seq(Requests)
    <3>1. CASE UNCHANGED <<cur, call, toWorker>>
      BY <3>1, Zenon DEF Types, AppTypes, ChannelTypes
    <3>2. ASSUME NEW cmd \in Commands, Ask(cmd, i, Length(i), "restore")
          PROVE  call' \in Nat /\ cur' \in Ids /\ toWorker' \in Seq(Requests)
      BY <1>l, <3>2, AskTyped, Zenon
    <3> QED BY <1>4, <3>1, <3>2, Zenon DEF Restore, Commands
  <2>2. open' \in BOOLEAN
    BY <1>4, Zenon DEF Restore, Stop, Types, AppTypes
  <2> QED BY <1>4, <1>w, <2>1, <2>2, Zenon DEF Restore, Types, AppTypes, ChannelTypes
<1>5. ASSUME NEW cmd \in {"PEAK_RSS", "PROFILE"}, Query(cmd) PROVE Types'
  <2>0. cmd \in Commands /\ cur \in Ids
    BY Zenon DEF Commands, Types, AppTypes
  <2>1. call' \in Nat /\ cur' \in Ids /\ toWorker' \in Seq(Requests)
    BY <1>5, <2>0, AskTyped, Zenon DEF Query
  <2> QED BY <1>5, <1>w, <2>1, Zenon DEF Query, Types, AppTypes, ChannelTypes
<1>6. CASE AfInit
  <2>1. Request("PING", cur, 0) \in Requests
    BY DEF Request, Requests, Commands, Types, AppTypes
  <2>2. toWorker' \in Seq(Requests) /\ toApp' \in Seq(Answers)
    BY <1>6, <2>1, SeqFacts DEF AfInit
  <2>3. WorkerTypes'
    BY <1>6, Zenon DEF AfInit, Types, WorkerTypes, NoRecipe
  <2>4. AppTypes'
    <3>1. broken' \in BOOLEAN /\ open' \in BOOLEAN
      BY <1>6, Zenon DEF AfInit
    <3>2. state' \in [Ids -> {"resident", "sealed", "gone"}] /\ call' \in Nat
      BY <1>6 DEF AfInit, Types, AppTypes
    <3> QED BY <1>6, <3>1, <3>2, Zenon DEF AfInit, Types, AppTypes
  <2> QED BY <2>2, <2>3, <2>4, Zenon DEF Types, ChannelTypes
<1>7. CASE AfShutdown
  <2>1. Request("QUIT", cur, 0) \in Requests
    BY DEF Request, Requests, Commands, Types, AppTypes
  <2>2. toWorker' \in Seq(Requests)
    BY <1>7, <2>1 DEF AfShutdown, Types, ChannelTypes
  <2> QED BY <1>7, <1>w, <2>2, Zenon DEF AfShutdown, Types, AppTypes, ChannelTypes
<1>8. CASE Validate
  <2>1. PICK p \in Readable("header") : toApp' = p.rest
    BY <1>8, Zenon DEF Validate
  <2>2. toApp' \in Seq(Answers)
    BY <2>1, ReadTyped, Zenon
  <2>3. /\ offset' \in {0, offset} /\ (UNCHANGED <<broken, open>> \/ Break)
        /\ (equal' = TRUE \/ equal' = equal \/ equal' = (equal /\ offset = Windows))
    BY <1>8, Zenon DEF Validate
  <2>4. equal' \in BOOLEAN /\ broken' \in BOOLEAN /\ open' \in BOOLEAN
    BY <2>3, Zenon DEF Break, Types, AppTypes
  <2>5. offset' \in Nat
    BY <2>3 DEF Types, AppTypes
  <2> QED BY <1>8, <1>w, <2>2, <2>4, <2>5, Zenon DEF Validate, Types, AppTypes, ChannelTypes
<1>9. CASE Compare
  <2>1. [cmd |-> "STREAM_ACK", id |-> cur, size |-> offset + 1, n |-> call] \in Requests
    BY DEF Requests, Commands, Types, AppTypes
  <2>2. toWorker' \in Seq(Requests)
    BY <1>9, <2>1 DEF Compare, Types, ChannelTypes
  <2> QED BY <1>9, <1>w, <2>2 DEF Compare, Types, AppTypes, ChannelTypes
<1>j. ASSUME NEW matches, NEW slices \in BOOLEAN, Judge(matches, slices)
      PROVE  /\ call' \in Nat /\ cur' \in Ids /\ toWorker' \in Seq(Requests)
             /\ state' \in [Ids -> {"resident", "sealed", "gone"}] /\ sliced' \in [Ids -> BOOLEAN]
  <2>1. CASE Ask("DROP", cur, 0, "drop") /\ UNCHANGED <<state, sliced>>
    <3>1. cur \in Ids /\ "DROP" \in Commands
      BY Zenon DEF Types, AppTypes, Commands
    <3> QED BY <2>1, <3>1, AskTyped, Zenon DEF Types, AppTypes
  <2>2. CASE /\ state' = [state EXCEPT ![cur] = "sealed"]
             /\ sliced' = [sliced EXCEPT ![cur] = slices]
             /\ UNCHANGED <<cur, call, toWorker>>
    BY <2>2, Zenon DEF Types, AppTypes, ChannelTypes
  <2> QED BY <1>j, <2>1, <2>2, Zenon DEF Judge
<1>10. CASE Registration
  <2>1. PICK p \in Readable("registration") :
          /\ toApp' = p.rest
          /\ IF Streaming
               THEN Judge(equal, p.m.sliced)
               ELSE /\ sliced' = [sliced EXCEPT ![cur] = p.m.sliced]
                    /\ UNCHANGED <<cur, call, toWorker, state>>
    BY <1>10, Zenon DEF Registration
  <2>2. toApp' \in Seq(Answers) /\ p.m.sliced \in BOOLEAN
    BY <2>1, ReadTyped, Zenon DEF Answers
  <2>3. /\ call' \in Nat /\ cur' \in Ids /\ toWorker' \in Seq(Requests)
        /\ state' \in [Ids -> {"resident", "sealed", "gone"}] /\ sliced' \in [Ids -> BOOLEAN]
    <3>1. CASE Streaming
      BY <1>j, <2>1, <2>2, <3>1, Zenon
    <3>2. CASE ~Streaming
      BY <2>1, <2>2, <3>2, Zenon DEF Types, AppTypes, ChannelTypes
    <3> QED BY <3>1, <3>2, Zenon
  <2> QED BY <1>10, <1>w, <2>2, <2>3, Zenon DEF Registration, Types, AppTypes, ChannelTypes
<1>11. CASE Output
  <2>1. PICK p \in Readable("data") : toApp' = p.rest /\ equal' = (equal /\ p.m.right)
    BY <1>11, Zenon DEF Output
  <2>2. toApp' \in Seq(Answers) /\ equal' \in BOOLEAN
    BY <2>1, ReadTyped, Zenon
  <2>3. Judge(equal', sliced[cur]) /\ sliced[cur] \in BOOLEAN
    BY <1>11, Zenon DEF Output, Types, AppTypes
  <2>4. /\ call' \in Nat /\ cur' \in Ids /\ toWorker' \in Seq(Requests)
        /\ state' \in [Ids -> {"resident", "sealed", "gone"}] /\ sliced' \in [Ids -> BOOLEAN]
    BY <1>j, <2>3, Zenon
  <2> QED BY <1>11, <1>w, <2>2, <2>4, Zenon DEF Output, Types, AppTypes, ChannelTypes
<1>12. CASE Restoring
  <2>1. PICK p \in Readable("header") : toApp' = p.rest
    BY <1>12, Zenon DEF Restoring
  <2>2. toApp' \in Seq(Answers) /\ open' \in BOOLEAN
    BY <1>12, <2>1, ReadTyped, Zenon DEF Restoring, Stop, Types, AppTypes
  <2> QED BY <1>12, <1>w, <2>2, Zenon DEF Restoring, Types, AppTypes, ChannelTypes
<1>13. CASE Copy
  BY <1>13, <1>w, Zenon DEF Copy, channel, Types, AppTypes, ChannelTypes
<1>14. CASE Payload
  <2>1. PICK p \in Readable("data") :
          toApp' = p.rest /\ view' = [view EXCEPT ![cur] = @ /\ p.m.right /\ p.m.n = call]
    BY <1>14, Zenon DEF Payload
  <2>2. toApp' \in Seq(Answers)
    BY <2>1, ReadTyped, Zenon
  <2>3. view' \in [Ids -> BOOLEAN]
    BY <2>1, Zenon DEF Types, AppTypes
  <2> QED BY <1>14, <1>w, <2>2, <2>3, Zenon DEF Payload, Types, AppTypes, ChannelTypes
<1>15. CASE Answered
  <2>1. PICK p \in Readable("header") : toApp' = p.rest
    BY <1>15, Zenon DEF Answered
  <2>2. toApp' \in Seq(Answers) /\ open' \in BOOLEAN
    BY <1>15, <2>1, ReadTyped, Zenon DEF Answered
  <2> QED BY <1>15, <1>w, <2>2, Zenon DEF Answered, Types, AppTypes, ChannelTypes
<1>16. CASE ProfileRead
  <2>1. PICK p \in Readable("profile") : toApp' = p.rest
    BY <1>16, Zenon DEF ProfileRead
  <2>2. toApp' \in Seq(Answers)
    BY <2>1, ReadTyped, Zenon
  <2> QED BY <1>16, <1>w, <2>2, Zenon DEF ProfileRead, Types, AppTypes, ChannelTypes
<1>17. CASE NoAnswer
  BY <1>17, <1>w, Zenon DEF NoAnswer, Break, Types, AppTypes, ChannelTypes
<1>18. CASE Waited
  BY <1>18, <1>w, Zenon DEF Waited, channel, Types, AppTypes, ChannelTypes
<1>19. CASE AppEnds
  BY <1>19, <1>w, Zenon DEF AppEnds, Stop, Types, AppTypes, ChannelTypes
<1> QED BY <1>1, <1>2, <1>3, <1>4, <1>5, <1>6, <1>7, <1>8, <1>9, <1>10, <1>11, <1>12, <1>13, <1>14,
           <1>15, <1>16, <1>17, <1>18, <1>19, Zenon DEF Begin, Continue

(***************************************************************************)
(* The steps of the worker keep the types.                                 *)
(***************************************************************************)
LEMMA WorkerTyped ==
  ASSUME Types, Work \/ WDies
  PROVE  Types'
<1> USE ConstantsAssumption
<1>a. ASSUME UNCHANGED <<app, open>> PROVE AppTypes'
  BY <1>a, Zenon DEF app, Types, AppTypes
<1>h. /\ \A k \in Nat : Header(1, 0, k) \in Answers /\ Header(0, 0, k) \in Answers
                        /\ Header(0, 1, k) \in Answers /\ Header(2, 0, k) \in Answers
      /\ \A z, k \in Nat : Header(0, z, k) \in Answers
      /\ job.n \in Nat /\ job.size \in Nat /\ job.id \in Ids /\ job \in Requests /\ call \in Nat
  BY HeaderTyped, Zenon DEF Types, WorkerTypes, AppTypes, Requests
<1>t. toWorker # <<>> => Head(toWorker) \in Requests /\ Tail(toWorker) \in Seq(Requests)
  BY DEF Types, ChannelTypes
<1>q. toWorker # <<>> => Head(toWorker).n \in Nat /\ Head(toWorker).size \in Nat /\ Head(toWorker).id \in Ids
  BY <1>t, Zenon DEF Requests
<1>s. /\ \A next, k : k \in Nat /\ Refuse(k) => toApp' \in Seq(Answers)
      /\ \A m, next : m \in Answers /\ Say(m, next) => toApp' \in Seq(Answers)
  BY <1>h, SayTyped, Zenon DEF Refuse
<1>1. CASE WStart
  <2>1. Header(1, 0, call) \in Answers
    BY <1>h, Zenon
  <2>2. toApp' = toApp \/ toApp' = Append(toApp, Header(1, 0, call))
    BY <1>1, Zenon DEF WStart
  <2>3. toApp' \in Seq(Answers)
    BY <2>1, <2>2 DEF Types, ChannelTypes
  <2> QED BY <1>1, <1>a, <2>3, Zenon DEF WStart, Types, ChannelTypes, WorkerTypes
<1>2. CASE WRegister
  <2>1. toWorker' \in Seq(Requests)
    BY <1>2 DEF WRegister, Types, ChannelTypes
  <2>2. toApp' \in Seq(Answers)
    BY <1>2, <1>q, <1>s, Zenon DEF WRegister, Types, ChannelTypes
  <2>3. job' \in Requests /\ sent' \in Nat
    BY <1>2, <1>t DEF WRegister, Types, WorkerTypes
  <2>4. native' \in BOOLEAN /\ exact' \in BOOLEAN
    BY <1>2, Zenon DEF WRegister, Types, WorkerTypes
  <2> QED BY <1>2, <1>a, <2>1, <2>2, <2>3, <2>4, Zenon DEF WRegister, Types, ChannelTypes, WorkerTypes
<1>3. ASSUME NEW right \in BOOLEAN, WPublish(right) PROVE Types'
  <2>1. toApp' \in Seq(Answers)
    BY <1>3, <1>h, <1>s, Zenon DEF WPublish
  <2>2. WorkerTypes'
    BY <1>3, <1>h DEF WPublish, Types, WorkerTypes
  <2> QED BY <1>3, <1>a, <2>1, <2>2, Zenon DEF WPublish, Types, ChannelTypes
<1>4. CASE WAck
  <2>1. toApp' \in Seq(Answers)
    BY <1>4, <1>h, <1>s, Zenon DEF WAck, Types, ChannelTypes
  <2> QED BY <1>4, <1>a, <1>t, <2>1, Zenon DEF WAck, Types, ChannelTypes, WorkerTypes
<1>5. CASE WFallback
  <2>1. toApp' \in Seq(Answers)
    BY <1>5, <1>h, <1>s, Zenon DEF WFallback, Types, ChannelTypes
  <2>2. native' \in BOOLEAN /\ exact' \in BOOLEAN
    BY <1>5, Zenon DEF WFallback, Types, WorkerTypes
  <2>3. sent' = sent \/ sent' = 0
    BY <1>5, Zenon DEF WFallback
  <2>4. sent' \in Nat
    BY <2>3 DEF Types, WorkerTypes
  <2> QED BY <1>5, <1>a, <2>1, <2>2, <2>4, Zenon DEF WFallback, Types, ChannelTypes, WorkerTypes
<1>6. ASSUME NEW size \in Sizes, NEW slices \in BOOLEAN, NEW right \in BOOLEAN,
             WCommit(size, slices, right)
      PROVE  Types'
  <2> DEFINE recipe == [size |-> size, exact |-> IF Streaming THEN exact ELSE right,
                        sliced |-> native /\ slices]
  <2>1. toApp' \in Seq(Answers)
    <3>1. \/ Refuse(job.n)
          \/ Say(Header(0, 0, job.n), "registration") \/ Say(Header(0, Windows, job.n), "registration")
      BY <1>6, Zenon DEF WCommit
    <3> QED BY <1>h, <1>s, <3>1, Zenon
  <2>2. recipe \in [size : Nat, exact : BOOLEAN, sliced : BOOLEAN]
    <3>1. (IF Streaming THEN exact ELSE right) \in BOOLEAN /\ (native /\ slices) \in BOOLEAN /\ size \in Nat
      BY Zenon DEF Types, WorkerTypes
    <3> QED BY <3>1, Zenon
  <2>3. store' = store \/ store' = [store EXCEPT ![job.id] = recipe]
    BY <1>6, Zenon DEF WCommit
  <2>4. store' \in [Ids -> [size : Nat, exact : BOOLEAN, sliced : BOOLEAN]]
    <3> HIDE DEF recipe
    <3> QED BY <2>2, <2>3 DEF Types, WorkerTypes
  <2> QED BY <1>6, <1>a, <2>1, <2>4, Zenon DEF WCommit, Types, ChannelTypes, WorkerTypes
<1>7. CASE WRegistration
  <2>1. Extra("registration", TRUE, store[job.id].sliced, job.n) \in Answers
    BY <1>h, ExtraTyped, Zenon DEF Types, WorkerTypes
  <2>2. toApp' \in Seq(Answers)
    BY <1>7, <1>s, <2>1, Zenon DEF WRegistration
  <2> QED BY <1>7, <1>a, <2>2, Zenon DEF WRegistration, Types, ChannelTypes, WorkerTypes
<1>8. CASE WData
  <2>1. Extra("data", store[job.id].exact, FALSE, job.n) \in Answers
    BY <1>h, ExtraTyped, Zenon DEF Types, WorkerTypes
  <2>2. toApp' \in Seq(Answers)
    BY <1>8, <1>s, <2>1, Zenon DEF WData
  <2> QED BY <1>8, <1>a, <2>2, Zenon DEF WData, Types, ChannelTypes, WorkerTypes
<1>9. CASE WDrop
  <2>1. toApp' \in Seq(Answers)
    BY <1>9, <1>h, <1>q, <1>s, Zenon DEF WDrop, Takes
  <2>2. store' \in [Ids -> [size : Nat, exact : BOOLEAN, sliced : BOOLEAN]]
    BY <1>9, Zenon DEF WDrop, NoRecipe, Types, WorkerTypes
  <2> QED BY <1>9, <1>a, <1>t, <2>1, <2>2, Zenon DEF WDrop, Takes, Types, ChannelTypes, WorkerTypes
<1>10. CASE WRestore
  <2>1. toApp' \in Seq(Answers)
    BY <1>10, <1>h, <1>q, <1>s, Zenon DEF WRestore, Takes
  <2>2. window' \in [of : Ids, right : BOOLEAN] /\ job' \in Requests
    BY <1>10, <1>t, <1>q DEF WRestore, Takes, Types, WorkerTypes
  <2> QED BY <1>10, <1>a, <1>t, <2>1, <2>2, Zenon DEF WRestore, Takes, Types, ChannelTypes, WorkerTypes
<1>11. CASE WQuery
  <2>1. toApp' \in Seq(Answers)
    BY <1>11, <1>h, <1>q, <1>s, Zenon DEF WQuery, Takes
  <2> QED BY <1>11, <1>a, <1>t, <2>1, Zenon DEF WQuery, Takes, Types, ChannelTypes, WorkerTypes
<1>12. CASE WProfile
  <2>1. Extra("profile", TRUE, FALSE, job.n) \in Answers
    BY <1>h, ExtraTyped, Zenon
  <2>2. toApp' \in Seq(Answers)
    BY <1>12, <1>h, <1>q, <1>s, <2>1, Zenon DEF WProfile, Takes
  <2>3. toWorker' \in Seq(Requests) /\ job' \in Requests
    BY <1>12, <1>t, <1>h, Zenon DEF WProfile, Takes, Types, ChannelTypes
  <2> QED BY <1>12, <1>a, <2>2, <2>3, Zenon DEF WProfile, Types, ChannelTypes, WorkerTypes
<1>13. CASE WQuit
  BY <1>13, <1>a, <1>t, Zenon DEF WQuit, Takes, Types, ChannelTypes, WorkerTypes
<1>14. CASE WUnknown
  <2>1. toApp' \in Seq(Answers)
    BY <1>14, <1>h, <1>q, <1>s, Zenon DEF WUnknown, Takes
  <2> QED BY <1>14, <1>a, <1>t, <2>1, Zenon DEF WUnknown, Takes, Types, ChannelTypes, WorkerTypes
<1>15. CASE WEof \/ WDies
  BY <1>15, <1>a, Zenon DEF WEof, WDies, channel, Types, ChannelTypes, WorkerTypes
<1> QED BY <1>1, <1>2, <1>3, <1>4, <1>5, <1>6, <1>7, <1>8, <1>9, <1>10, <1>11, <1>12, <1>13, <1>14,
           <1>15, Zenon DEF Work

-----------------------------------------------------------------------------
(***************************************************************************)
(* The conversation.  While the channel is in use, the call in progress,   *)
(* what is in the socket and where the worker is fit together in one of    *)
(* the ways below; a worker that has ended may have done so anywhere.      *)
(***************************************************************************)
At(w) == wpc \in {w, "gone"}

Calm(w, q, a) == At(w) /\ toWorker = q /\ toApp = a

Msg(cmd, size) == [cmd |-> cmd, id |-> cur, size |-> size, n |-> call]

Head0(status, size) == Header(status, size, call)

Record == Extra("registration", TRUE, store[cur].sliced, call)

Bytes == Extra("data", store[cur].exact, FALSE, call)

Profile == Extra("profile", TRUE, FALSE, call)

Mine == job.id = cur /\ job.n = call

Rests == pc = "idle" /\ Calm("idle", <<>>, <<>>)

(* A call with one answer, or the profile with its two. *)
Greets ==
  /\ pc = "hello"
  /\ \/ wpc \in {"start", "idle", "gone"} /\ toWorker = <<Msg("PING", 0)>> /\ toApp = <<>>
     \/ wpc = "gone" /\ toApp = <<Head0(1, 0)>>
     \/ Calm("idle", <<>>, <<Head0(0, 0)>>)

Drops ==
  /\ pc = "drop"
  /\ Calm("idle", <<Msg("DROP", 0)>>, <<>>) \/ Calm("idle", <<>>, <<Head0(0, 0)>>)

Queries ==
  /\ pc = "query"
  /\ Calm("idle", <<Msg("PEAK_RSS", 0)>>, <<>>) \/ Calm("idle", <<>>, <<Head0(0, 0)>>)

Profiles ==
  \/ pc = "profile" /\ Calm("idle", <<Msg("PROFILE", 0)>>, <<>>)
  \/ pc = "profile" /\ Calm("profile", <<>>, <<Head0(0, 1)>>) /\ job.n = call
  \/ pc = "profile" /\ Calm("idle", <<>>, <<Head0(0, 1), Profile>>)
  \/ pc = "profile_data" /\ Calm("profile", <<>>, <<>>) /\ job.n = call
  \/ pc = "profile_data" /\ Calm("idle", <<>>, <<Profile>>)

(* A restore: in the window when pages are restored in place. *)
InPlace == sliced[cur] /\ Shared

RestoreCommand ==
  IF ~sliced[cur] THEN "RESTORE" ELSE IF Shared THEN "RESTORE_SHARED" ELSE "RESTORE_RANGE"

Shown == window = [of |-> cur, right |-> TRUE]

Restores ==
  /\ state[cur] = "sealed"
  /\ \/ pc = "restore" /\ Calm("idle", <<Msg(RestoreCommand, Length(cur))>>, <<>>)
     \/ pc = "restore" /\ Calm("idle", <<>>, <<Head0(1, 0)>>)
     \/ pc = "restore" /\ Calm("idle", <<>>, <<Head0(0, Length(cur))>>) /\ InPlace /\ Shown
     \/ pc = "copy" /\ Calm("idle", <<>>, <<>>) /\ Shown
     \/ pc = "restore" /\ Calm("data", <<>>, <<Head0(0, Length(cur))>>) /\ ~InPlace /\ Mine
     \/ pc = "restore" /\ Calm("idle", <<>>, <<Head0(0, Length(cur)), Bytes>>) /\ ~InPlace
     \/ pc = "payload" /\ Calm("data", <<>>, <<>>) /\ Mine
     \/ pc = "payload" /\ Calm("idle", <<>>, <<Bytes>>)

(* A submission, before its replay and when it is refused. *)
Submits ==
  /\ pc = "validate"
  /\ \/ /\ offset = 0 /\ equal
        /\ \E size \in Sizes : Calm("idle", <<Msg("REGISTER", size), Msg("blob", size)>>, <<>>)
     \/ Calm("idle", <<>>, <<Head0(1, 0)>>)
     \/ Calm("idle", <<>>, <<Head0(2, 0), Head0(1, 0)>>) /\ Streaming

(* A submission that streams: n windows were published in this pass. *)
Pass(n) == Streaming /\ Mine /\ sent = n

Published == window.of = cur /\ (equal /\ window.right => exact)

Streams ==
  \/ pc = "validate" /\ Calm("replay", <<>>, <<>>) /\ Pass(offset) /\ (equal => exact)
  \/ pc = "validate" /\ Calm("ack", <<>>, <<Head0(0, 1)>>) /\ Pass(offset + 1) /\ Published
  \/ pc = "compare" /\ Calm("ack", <<>>, <<>>) /\ Pass(offset + 1) /\ Published
  \/ pc = "validate" /\ Calm("ack", <<Msg("STREAM_ACK", offset)>>, <<>>) /\ Pass(offset)
       /\ (equal => exact)
  \/ pc = "validate" /\ Calm("replay", <<>>, <<Head0(2, 0)>>) /\ Pass(0) /\ exact /\ ~native
  \/ pc = "validate" /\ Calm("ack", <<>>, <<Head0(2, 0), Head0(0, 1)>>) /\ Pass(1)
       /\ window.of = cur /\ (window.right => exact)

Seals ==
  /\ Streaming
  /\ \/ /\ pc = "validate" /\ (equal /\ offset = Windows => store[cur].exact)
        /\ \/ Calm("registration", <<>>, <<Head0(0, 0)>>) /\ Mine
           \/ Calm("idle", <<>>, <<Head0(0, 0), Record>>)
     \/ /\ pc = "registration" /\ (equal => store[cur].exact)
        /\ \/ Calm("registration", <<>>, <<>>) /\ Mine
           \/ Calm("idle", <<>>, <<Record>>)

(* A submission whose output comes in one piece. *)
Sends ==
  /\ ~Streaming
  /\ \/ pc = "validate" /\ Calm("replay", <<>>, <<>>) /\ Mine
     \/ pc = "validate" /\ Calm("registration", <<>>, <<Head0(0, Windows)>>) /\ Mine
     \/ pc = "validate" /\ Calm("data", <<>>, <<Head0(0, Windows), Record>>) /\ Mine
     \/ pc = "validate" /\ Calm("idle", <<>>, <<Head0(0, Windows), Record, Bytes>>)
     \/ pc = "registration" /\ Calm("registration", <<>>, <<>>) /\ Mine
     \/ pc = "registration" /\ Calm("data", <<>>, <<Record>>) /\ Mine
     \/ pc = "registration" /\ Calm("idle", <<>>, <<Record, Bytes>>)
     \/ pc = "output" /\ Calm("data", <<>>, <<>>) /\ Mine
     \/ pc = "output" /\ Calm("idle", <<>>, <<Bytes>>)

Registers == state[cur] = "resident" /\ (Submits \/ Streams \/ Seals \/ Sends)

Normal == Rests \/ Greets \/ Drops \/ Queries \/ Profiles \/ Restores \/ Registers

(***************************************************************************)
(* After a profile that came late every read is off; nothing read then     *)
(* passes for a validation or a restore.                                   *)
(***************************************************************************)
Late ==
  /\ pc \in {"idle", "drop", "query", "profile", "restore", "validate", "registration"}
  /\ pc \in {"validate", "registration"} => state[cur] = "resident"
  /\ pc = "validate" => offset = 0
  /\ pc = "registration" => ~equal /\ Streaming
  /\ toApp = <<>> => At("profile") /\ (pc = "idle" => toWorker = <<>>)
  /\ toApp # <<>> => Head(toApp).kind \in Leftover

Talking == pc \notin {"down", "wait", "stopped"} /\ ~broken

Conversation == Talking => open /\ (Normal \/ Late)

(* The channel is not in use: nothing more is written to the application. *)
Silence ==
  /\ broken => pc \in {"idle", "down", "wait", "stopped"}
  /\ ~Talking => ~open
  /\ pc \in {"down", "wait"} /\ ~broken =>
       \/ \E k \in DOMAIN toApp : toApp[k].kind \in Leftover
       \/ \A k \in DOMAIN toApp : toApp[k].n = call
  /\ pc = "down" => wpc = "gone"

(* The worker is not about to change the recipe of a sealed buffer. *)
Harmless(q) == q.cmd \in {"REGISTER", "DROP"} => state[q.id] # "sealed"

InFlight ==
  /\ \A k \in DOMAIN toWorker : Harmless(toWorker[k])
  /\ wpc \in {"replay", "ack"} => state[job.id] # "sealed"

Exact == \A i \in Ids : state[i] = "sealed" => store[i].exact

CInv == Types /\ Conversation /\ Silence /\ InFlight /\ Exact /\ RestoredIsOriginal

-----------------------------------------------------------------------------
(***************************************************************************)
(* What the application reads.                                             *)
(***************************************************************************)
LEMMA Reads ==
  ASSUME NEW kind, NEW m, NEW rest, toApp # <<>>, Head(toApp) = m, Tail(toApp) = rest, m.kind = kind,
         NEW p \in Readable(kind)
  PROVE  p.m = m /\ p.rest = rest
<1>1. Readable(kind) = {[m |-> Head(toApp), rest |-> Tail(toApp)]}
  BY Zenon DEF Readable
<1> QED BY <1>1

(* The only answer in the socket is read. *)
LEMMA TakesOne ==
  ASSUME NEW kind, NEW a, toApp = <<a>>, a.kind = kind, NEW p \in Readable(kind)
  PROVE  p.m = a /\ p.rest = <<>>
<1>1. toApp # <<>> /\ Head(toApp) = a /\ Tail(toApp) = <<>>
  OBVIOUS
<1> QED BY <1>1, Reads, Zenon

(* The first of two answers is read. *)
LEMMA TakesTwo ==
  ASSUME NEW kind, NEW a, NEW b, toApp = <<a, b>>, a.kind = kind, NEW p \in Readable(kind)
  PROVE  p.m = a /\ p.rest = <<b>>
<1>1. toApp # <<>> /\ Head(toApp) = a /\ Tail(toApp) = <<b>>
  OBVIOUS
<1> QED BY <1>1, Reads, Zenon

(* The first of three answers is read. *)
LEMMA TakesThree ==
  ASSUME NEW kind, NEW a, NEW b, NEW c, toApp = <<a, b, c>>, a.kind = kind, NEW p \in Readable(kind)
  PROVE  p.m = a /\ p.rest = <<b, c>>
<1>1. toApp # <<>> /\ Head(toApp) = a /\ Tail(toApp) = <<b, c>>
  OBVIOUS
<1> QED BY <1>1, Reads, Zenon

(* Nothing is read from an empty socket. *)
LEMMA ReadsNothing ==
  ASSUME NEW kind, toApp = <<>>
  PROVE  Readable(kind) = {}
  BY Zenon DEF Readable

(***************************************************************************)
(* A header read behind a leftover profile announces no bytes, and leaves  *)
(* a leftover.                                                             *)
(***************************************************************************)
LEMMA ReadsLate ==
  ASSUME Types, Late, NEW p \in Readable("header")
  PROVE  /\ p.m.status \in {0, 1} /\ p.m.size = 0
         /\ p.rest # <<>> /\ Head(p.rest).kind \in Leftover
<1>1. toApp # <<>> /\ Head(toApp).kind \in Leftover
  BY Zenon DEF Late, Readable
<1>2. Head(toApp).kind # "header"
  BY <1>1, Zenon DEF Leftover
<1> DEFINE tail == <<Extra("tail", FALSE, FALSE, call)>> \o SubSeq(toApp, 3, Len(toApp))
<1>3. PICK status \in {0, 1} : p = [m |-> Header(status, 0, call), rest |-> tail]
  BY <1>1, <1>2, Zenon DEF Readable
<1>4. SubSeq(toApp, 3, Len(toApp)) \in Seq(Answers)
  BY DEF Types, ChannelTypes
<1>5. Extra("tail", FALSE, FALSE, call) \in Answers
  BY ExtraTyped, Zenon DEF Types, AppTypes
<1>6. \A e \in Answers, s \in Seq(Answers) : <<e>> \o s # <<>> /\ Head(<<e>> \o s) = e
  OBVIOUS
<1>7. tail # <<>> /\ Head(tail) = Extra("tail", FALSE, FALSE, call)
  BY <1>4, <1>5, <1>6, Zenon
<1>8. p.m = Header(status, 0, call) /\ p.rest = tail
  BY <1>3, Zenon
<1> HIDE DEF tail
<1>9. p.m.status = status /\ p.m.size = 0
  BY <1>8 DEF Header
<1>10. Head(p.rest).kind = "tail"
  BY <1>7, <1>8 DEF Extra
<1> QED BY <1>7, <1>8, <1>9, <1>10, Zenon DEF Leftover

(***************************************************************************)
(* A registration read behind a leftover profile leaves the socket as it   *)
(* is.                                                                     *)
(***************************************************************************)
LEMMA ReadsLateRegistration ==
  ASSUME Late, NEW p \in Readable("registration")
  PROVE  p.rest = toApp /\ toApp # <<>>
<1>1. toApp # <<>> /\ Head(toApp).kind \in Leftover
  BY Zenon DEF Late, Readable
<1>2. Head(toApp).kind # "registration"
  BY <1>1, Zenon DEF Leftover
<1>3. Readable("registration") = {[m |-> Extra("registration", FALSE, FALSE, call), rest |-> toApp]}
  BY <1>1, <1>2, Zenon DEF Readable
<1>4. p = [m |-> Extra("registration", FALSE, FALSE, call), rest |-> toApp]
  BY <1>3, Zenon
<1>5. p.rest = toApp
  BY <1>4, Zenon
<1> QED BY <1>1, <1>5, Zenon

(***************************************************************************)
(* What a longer or a shorter queue holds.                                 *)
(***************************************************************************)
LEMMA Elements ==
  ASSUME NEW S, NEW s \in Seq(S), NEW a \in S, NEW b \in S
  PROVE  /\ \A k \in DOMAIN Append(s, a) : Append(s, a)[k] = a \/ \E j \in DOMAIN s : Append(s, a)[k] = s[j]
         /\ \A k \in DOMAIN (s \o <<a>>) : (s \o <<a>>)[k] = a \/ \E j \in DOMAIN s : (s \o <<a>>)[k] = s[j]
         /\ \A k \in DOMAIN (s \o <<a, b>>) :
              (s \o <<a, b>>)[k] \in {a, b} \/ \E j \in DOMAIN s : (s \o <<a, b>>)[k] = s[j]
         /\ s # <<>> => \A k \in DOMAIN Tail(s) : \E j \in DOMAIN s : Tail(s)[k] = s[j]
         /\ \A k \in DOMAIN SubSeq(s, 3, Len(s)) : \E j \in DOMAIN s : SubSeq(s, 3, Len(s))[k] = s[j]
<1>1. \A k \in DOMAIN Append(s, a) : Append(s, a)[k] = a \/ \E j \in DOMAIN s : Append(s, a)[k] = s[j]
  OBVIOUS
<1>2. \A k \in DOMAIN (s \o <<a>>) : (s \o <<a>>)[k] = a \/ \E j \in DOMAIN s : (s \o <<a>>)[k] = s[j]
  OBVIOUS
<1>3. \A k \in DOMAIN (s \o <<a, b>>) :
        (s \o <<a, b>>)[k] \in {a, b} \/ \E j \in DOMAIN s : (s \o <<a, b>>)[k] = s[j]
  OBVIOUS
<1>4. s # <<>> => \A k \in DOMAIN Tail(s) : \E j \in DOMAIN s : Tail(s)[k] = s[j]
  OBVIOUS
<1>5. \A k \in DOMAIN SubSeq(s, 3, Len(s)) : \E j \in DOMAIN s : SubSeq(s, 3, Len(s))[k] = s[j]
  OBVIOUS
<1> QED BY <1>1, <1>2, <1>3, <1>4, <1>5, Zenon

(***************************************************************************)
(* A request is written at the end; it stands alone in an empty socket.    *)
(***************************************************************************)
LEMMA Asks ==
  ASSUME Types, NEW cmd \in Commands \ {"REGISTER"}, NEW i \in Ids, NEW size \in Nat, NEW next,
         Ask(cmd, i, size, next)
  PROVE  /\ toWorker = <<>> => toWorker' = <<[cmd |-> cmd, id |-> i, size |-> size, n |-> call']>>
         /\ \A k \in DOMAIN toWorker' :
              \/ toWorker'[k] = [cmd |-> cmd, id |-> i, size |-> size, n |-> call']
              \/ \E j \in DOMAIN toWorker : toWorker'[k] = toWorker[j]
         /\ pc' = next /\ cur' = i /\ call' = call + 1
<1> DEFINE q == [cmd |-> cmd, id |-> i, size |-> size, n |-> call']
<1>1. pc' = next /\ cur' = i /\ call' = call + 1 /\ toWorker' = toWorker \o <<q>>
  BY Zenon DEF Ask, Request
<1>2. q \in Requests
  BY <1>1 DEF Requests, Types, AppTypes
<1>3. toWorker \in Seq(Requests)
  BY Zenon DEF Types, ChannelTypes
<1> HIDE DEF q
<1>4. \A k \in DOMAIN toWorker' : toWorker'[k] = q \/ \E j \in DOMAIN toWorker : toWorker'[k] = toWorker[j]
  BY <1>1, <1>2, <1>3, Elements
<1>5. toWorker = <<>> => toWorker' = <<q>>
  BY <1>1
<1> QED BY <1>1, <1>4, <1>5, Zenon DEF q

(***************************************************************************)
(* Between calls nothing is in the socket, or reads are off.               *)
(***************************************************************************)
LEMMA Idle ==
  ASSUME CInv, pc = "idle", ~broken
  PROVE  open /\ (Rests \/ Late)
  BY Zenon DEF CInv, Conversation, Talking, Normal, Greets, Drops, Queries, Profiles, Restores, Registers,
         Submits, Streams, Seals, Sends

(***************************************************************************)
(* A step of the application that is no more than a request leaves the     *)
(* late reads late.                                                        *)
(***************************************************************************)
LEMMA LateAsks ==
  ASSUME Late, pc = "idle", toApp' = toApp, wpc' = wpc,
         pc' \in {"drop", "query", "profile", "restore", "validate"},
         pc' = "validate" => offset' = 0 /\ state'[cur'] = "resident"
  PROVE  Late'
  BY Zenon DEF Late, At

(***************************************************************************)
(* submit writes a request and its recipe into an empty socket, or behind  *)
(* a leftover.                                                             *)
(***************************************************************************)
LEMMA SubmitKeeps ==
  ASSUME CInv, NEW i \in Ids, NEW size \in Sizes, Submit(i, size)
  PROVE  CInv'
<1>1. pc = "idle" /\ ~broken /\ state[i] = "resident" /\ Ask("REGISTER", i, size, "validate")
  BY Zenon DEF Submit, Starts
<1>2. open /\ (Rests \/ Late)
  BY <1>1, Idle, Zenon
<1>3. /\ pc' = "validate" /\ offset' = 0 /\ equal' = TRUE /\ cur' = i /\ call' = call + 1
      /\ UNCHANGED <<mode, state, sliced, view, broken, open, toApp, window, wpc, job, store>>
  BY Zenon DEF Submit, Ask, worker
<1>4. Types'
  BY AppTyped, Zenon DEF CInv, Begin
<1> DEFINE q == [cmd |-> "REGISTER", id |-> i, size |-> size, n |-> call']
           b == [cmd |-> "blob", id |-> i, size |-> size, n |-> call']
<1>5. toWorker' = toWorker \o <<q, b>>
  BY <1>1, <1>3, Zenon DEF Ask, Request
<1>6. q \in Requests /\ b \in Requests /\ toWorker \in Seq(Requests)
  BY <1>3, <1>4, ConstantsAssumption, Zenon DEF Requests, Commands, CInv, Types, AppTypes, ChannelTypes
<1>7. q.cmd = "REGISTER" /\ q.id = i /\ b.cmd = "blob"
  BY Zenon
<1> HIDE DEF q, b
<1>8. \A k \in DOMAIN toWorker' : toWorker'[k] \in {q, b} \/ \E j \in DOMAIN toWorker : toWorker'[k] = toWorker[j]
  BY <1>5, <1>6, Elements
<1>9. InFlight'
  BY <1>1, <1>3, <1>7, <1>8, Zenon DEF CInv, InFlight, Harmless
<1>10. ASSUME Rests PROVE Normal'
  <2>1. toWorker' = <<q, b>> /\ toApp' = <<>> /\ wpc' \in {"idle", "gone"}
    BY <1>3, <1>5, <1>10 DEF Rests, Calm, At
  <2>2. Submits'
    BY <1>3, <2>1, Zenon DEF Submits, Calm, At, Msg, q, b
  <2>3. Registers'
    BY <1>1, <1>3, <2>2, Zenon DEF Registers
  <2> QED BY <2>3, Zenon DEF Normal
<1>11. ASSUME Late PROVE Late'
  BY <1>1, <1>3, <1>11, LateAsks, Zenon
<1>12. Conversation' /\ Silence'
  BY <1>1, <1>2, <1>3, <1>10, <1>11, Zenon DEF Conversation, Silence, Talking
<1>13. Exact' /\ RestoredIsOriginal'
  BY <1>3, Zenon DEF CInv, Exact, RestoredIsOriginal
<1> QED BY <1>4, <1>9, <1>12, <1>13, Zenon DEF CInv

(***************************************************************************)
(* The requests of one message.                                            *)
(***************************************************************************)
LEMMA RequestKeeps ==
  ASSUME CInv, pc = "idle", ~broken,
         NEW cmd \in Commands \ {"REGISTER"}, NEW i \in Ids, NEW size \in Nat,
         NEW next \in {"drop", "query", "profile", "restore"}, Ask(cmd, i, size, next),
         UNCHANGED <<mode, sliced, view, broken, open, toApp, window, wpc, job, store>>, Types',
         \A j \in Ids : state'[j] = "sealed" => state[j] = "sealed",
         cmd = "DROP" => state'[i] # "sealed",
         Rests /\ toWorker' = <<Msg(cmd, size)'>> => Normal'
  PROVE  CInv'
<1>1. open /\ (Rests \/ Late)
  BY Idle, Zenon
<1>2. pc' = next /\ cur' = i /\ call' = call + 1
  BY Asks, Zenon DEF CInv
<1> DEFINE q == [cmd |-> cmd, id |-> i, size |-> size, n |-> call']
<1>3. /\ toWorker = <<>> => toWorker' = <<q>>
      /\ \A k \in DOMAIN toWorker' : toWorker'[k] = q \/ \E j \in DOMAIN toWorker : toWorker'[k] = toWorker[j]
  BY Asks, Zenon DEF CInv
<1>4. q.cmd = cmd /\ q.id = i /\ Msg(cmd, size)' = q
  BY <1>2, Zenon DEF Msg
<1> HIDE DEF q
<1>5. InFlight'
  <2>1. \A k \in DOMAIN toWorker : toWorker[k].id \in Ids
    <3>1. \A k \in DOMAIN toWorker : toWorker[k] \in Requests
      BY DEF CInv, Types, ChannelTypes
    <3> QED BY <3>1, Zenon DEF Requests
  <2>2. job.id \in Ids
    BY Zenon DEF CInv, Types, WorkerTypes, Requests
  <2> QED BY <1>3, <1>4, <2>1, <2>2 DEF CInv, InFlight, Harmless, Commands
<1>6. Normal' \/ Late'
  <2>1. CASE Rests
    BY <1>3, <1>4, <2>1, Zenon DEF Rests, Calm
  <2>2. CASE Late
    BY <1>2, <2>2, LateAsks, Zenon
  <2> QED BY <1>1, <2>1, <2>2, Zenon
<1>7. Conversation' /\ Silence'
  BY <1>1, <1>2, <1>6, Zenon DEF Conversation, Silence, Talking
<1>8. Exact' /\ RestoredIsOriginal'
  BY Zenon DEF CInv, Exact, RestoredIsOriginal
<1> QED BY <1>5, <1>7, <1>8, Zenon DEF CInv

(***************************************************************************)
(* af_free and a modified buffer ask for a DROP once the buffer is no      *)
(* longer sealed.                                                          *)
(***************************************************************************)
LEMMA DropKeeps ==
  ASSUME CInv, NEW i \in Ids, Drop(i)
  PROVE  CInv'
<1>1. /\ pc = "idle" /\ ~broken /\ Ask("DROP", i, 0, "drop") /\ state' = [state EXCEPT ![i] = "gone"]
      /\ UNCHANGED <<mode, sliced, view, broken, open, toApp, window, wpc, job, store>>
  BY Zenon DEF Drop, Starts, worker
<1>2. Types'
  BY AppTyped, Zenon DEF CInv, Begin
<1>3. /\ \A j \in Ids : state'[j] = "sealed" => state[j] = "sealed"
      /\ state'[i] # "sealed"
  BY <1>1, Zenon DEF CInv, Types, AppTypes
<1>4. pc' = "drop" /\ "DROP" \in Commands \ {"REGISTER"}
  BY <1>1, Zenon DEF Ask, Commands
<1>5. ASSUME Rests, toWorker' = <<Msg("DROP", 0)'>> PROVE Normal'
  <2>1. toApp' = <<>> /\ wpc' \in {"idle", "gone"}
    BY <1>1, <1>5, Zenon DEF Rests, Calm, At
  <2> QED BY <1>4, <1>5, <2>1, Zenon DEF Normal, Drops, Calm, At
<1> QED BY <1>1, <1>2, <1>3, <1>4, <1>5, RequestKeeps, Zenon

(* af_worker_peak_rss and af_get_worker_profile write one request. *)
LEMMA QueryKeeps ==
  ASSUME CInv, NEW cmd \in {"PEAK_RSS", "PROFILE"}, Query(cmd)
  PROVE  CInv'
<1> DEFINE next == IF cmd = "PROFILE" THEN "profile" ELSE "query"
<1>1. /\ pc = "idle" /\ ~broken /\ Ask(cmd, cur, 0, next) /\ state' = state
      /\ UNCHANGED <<mode, sliced, view, broken, open, toApp, window, wpc, job, store>>
  BY Zenon DEF Query, Starts, worker
<1>2. Types'
  BY AppTyped, Zenon DEF CInv, Begin
<1>3. cmd \in Commands \ {"REGISTER"} /\ cur \in Ids /\ next \in {"drop", "query", "profile", "restore"} /\ cmd # "DROP"
  BY Zenon DEF Commands, CInv, Types, AppTypes
<1>4. pc' = next
  BY <1>1, Zenon DEF Ask
<1>5. ASSUME Rests, toWorker' = <<Msg(cmd, 0)'>> PROVE Normal'
  <2>1. toApp' = <<>> /\ wpc' \in {"idle", "gone"}
    BY <1>1, <1>5, Zenon DEF Rests, Calm, At
  <2> QED BY <1>4, <1>5, <2>1, Zenon DEF Normal, Queries, Profiles, Calm, At
<1> HIDE DEF next
<1> QED BY <1>1, <1>2, <1>3, <1>5, RequestKeeps, Zenon

(***************************************************************************)
(* restore_span writes one request, or ends the process when the channel   *)
(* is broken.                                                              *)
(***************************************************************************)
LEMMA RestoreKeeps ==
  ASSUME CInv, NEW i \in Ids, Restore(i)
  PROVE  CInv'
<1>1. /\ pc = "idle" /\ state[i] = "sealed" /\ state' = state
      /\ UNCHANGED <<mode, sliced, view, broken, toApp, window, wpc, job, store>>
  BY Zenon DEF Restore, Starts, worker
<1>2. Types'
  BY AppTyped, Zenon DEF CInv, Begin
<1>3. ASSUME broken, Stop, UNCHANGED <<cur, call, toWorker>> PROVE CInv'
  <2>1. Conversation' /\ Silence'
    BY <1>1, <1>3, Zenon DEF Stop, Conversation, Silence, Talking
  <2>2. InFlight' /\ Exact' /\ RestoredIsOriginal'
    BY <1>1, <1>3, Zenon DEF CInv, InFlight, Harmless, Exact, RestoredIsOriginal
  <2> QED BY <1>2, <2>1, <2>2, Zenon DEF CInv
<1>4. ASSUME NEW cmd, ~broken, open' = open, Ask(cmd, i, Length(i), "restore"),
             cmd = IF ~sliced[i] THEN "RESTORE" ELSE IF Shared THEN "RESTORE_SHARED" ELSE "RESTORE_RANGE"
      PROVE  CInv'
  <2>1. cmd \in Commands \ {"REGISTER"} /\ Length(i) \in Nat /\ cmd # "DROP"
    BY <1>4, ConstantsAssumption, Zenon DEF Commands, Length
  <2>2. pc' = "restore" /\ cur' = i
    BY <1>4, Zenon DEF Ask
  <2>3. PICK size \in Nat : size = Length(i)
    BY <2>1, Zenon
  <2>4. ASSUME Rests, toWorker' = <<Msg(cmd, size)'>> PROVE Normal'
    <3>1. toApp' = <<>> /\ wpc' \in {"idle", "gone"}
      BY <1>1, <2>4, Zenon DEF Rests, Calm, At
    <3>2. cmd = RestoreCommand' /\ Length(cur)' = size
      BY <1>1, <1>4, <2>2, <2>3, Zenon DEF RestoreCommand, Length, Shared
    <3>3. Msg(cmd, size)' = Msg(RestoreCommand, Length(cur))'
      BY <3>2, Zenon DEF Msg
    <3> QED BY <1>1, <2>2, <2>4, <3>1, <3>3, Zenon DEF Normal, Restores, Calm, At
  <2> QED BY <1>1, <1>2, <1>4, <2>1, <2>3, <2>4, RequestKeeps, Zenon
<1> QED BY <1>3, <1>4, Zenon DEF Restore

(* af_free without a recipe, or with a broken channel, writes nothing. *)
LEMMA FreeKeeps ==
  ASSUME CInv, NEW i \in Ids, Free(i)
  PROVE  CInv'
<1>1. /\ pc = "idle" /\ state' = [state EXCEPT ![i] = "gone"]
      /\ UNCHANGED <<pc, cur, offset, equal, sliced, view, broken, call, mode, open, toWorker, toApp, window,
                     wpc, job, store>>
  BY Zenon DEF Free, channel, worker
<1>2. Types'
  BY AppTyped, Zenon DEF CInv, Begin
<1>3. \A j \in Ids : state'[j] = "sealed" => state[j] = "sealed"
  BY <1>1, Zenon DEF CInv, Types, AppTypes
<1>4. InFlight'
  <2>1. \A k \in DOMAIN toWorker : toWorker[k] \in Requests
    BY DEF CInv, Types, ChannelTypes
  <2>2. job.id \in Ids /\ \A k \in DOMAIN toWorker : toWorker[k].id \in Ids
    BY <2>1, Zenon DEF CInv, Types, WorkerTypes, Requests
  <2> QED BY <1>1, <1>3, <2>2, Zenon DEF CInv, InFlight, Harmless
<1>5. (Rests => Rests') /\ (Late => Late')
  BY <1>1, Zenon DEF Rests, Late, Calm, At, Streaming
<1>6. Conversation'
  BY <1>1, <1>5, Idle, Zenon DEF Conversation, Talking, Normal
<1>7. Silence'
  BY <1>1, Zenon DEF CInv, Silence, Talking
<1>8. Exact' /\ RestoredIsOriginal'
  BY <1>1, <1>3, Zenon DEF CInv, Exact, RestoredIsOriginal
<1> QED BY <1>2, <1>4, <1>6, <1>7, <1>8, Zenon DEF CInv

(* af_init begins a conversation with a new worker and an empty store. *)
LEMMA AfInitKeeps ==
  ASSUME CInv, AfInit
  PROVE  CInv'
<1>1. /\ pc' = "hello" /\ call' = call + 1 /\ toWorker' = <<Request("PING", cur, 0)>> /\ toApp' = <<>>
      /\ ~broken' /\ open' /\ state' = [i \in Ids |-> "resident"] /\ wpc' = "start"
      /\ cur' = cur /\ view' = view
  BY Zenon DEF AfInit
<1>2. Types'
  BY AppTyped, Zenon DEF CInv, Begin
<1>3. toWorker' = <<Msg("PING", 0)'>>
  BY <1>1, Zenon DEF Msg, Request
<1>4. Conversation' /\ Silence'
  BY <1>1, <1>3, Zenon DEF Conversation, Silence, Talking, Normal, Greets
<1>5. InFlight'
  <2>1. \A k \in DOMAIN toWorker' : toWorker'[k] = Request("PING", cur, 0)
    BY <1>1
  <2>2. Request("PING", cur, 0).cmd = "PING"
    BY Zenon DEF Request
  <2> QED BY <1>1, <2>1, <2>2, Zenon DEF InFlight, Harmless
<1>6. Exact' /\ RestoredIsOriginal'
  BY <1>1, Zenon DEF CInv, Exact, RestoredIsOriginal
<1> QED BY <1>2, <1>4, <1>5, <1>6, Zenon DEF CInv

(* af_shutdown closes the socket between two calls. *)
LEMMA AfShutdownKeeps ==
  ASSUME CInv, AfShutdown
  PROVE  CInv'
<1>1. /\ pc = "idle" /\ (\A i \in Ids : state[i] = "gone") /\ pc' = "wait" /\ ~open'
      /\ toWorker' = toWorker \/ toWorker' = Append(toWorker, Request("QUIT", cur, 0))
      /\ UNCHANGED <<state, view, broken, call, toApp, wpc, job, store>>
  BY Zenon DEF AfShutdown, worker
<1>2. Types'
  BY AppTyped, Zenon DEF CInv, Begin
<1>3. InFlight'
  <2>1. \A k \in DOMAIN toWorker' : toWorker'[k] \in Requests
    BY <1>2 DEF Types, ChannelTypes
  <2>2. job.id \in Ids /\ \A k \in DOMAIN toWorker' : toWorker'[k].id \in Ids
    BY <2>1, Zenon DEF CInv, Types, WorkerTypes, Requests
  <2> QED BY <1>1, <2>2, Zenon DEF InFlight, Harmless
<1>4. Conversation'
  BY <1>1, Zenon DEF Conversation, Talking
<1>5. Silence'
  <2>1. ASSUME ~broken
        PROVE  \/ \E k \in DOMAIN toApp : toApp[k].kind \in Leftover
               \/ \A k \in DOMAIN toApp : toApp[k].n = call
    <3>1. toApp = <<>> \/ (toApp # <<>> /\ Head(toApp).kind \in Leftover)
      BY <1>1, <2>1, Idle, Zenon DEF Rests, Calm, Late
    <3>2. toApp # <<>> => 1 \in DOMAIN toApp /\ Head(toApp) = toApp[1]
      BY DEF CInv, Types, ChannelTypes
    <3> QED BY <3>1, <3>2
  <2> QED BY <1>1, <2>1, Zenon DEF Silence, Talking
<1>6. Exact' /\ RestoredIsOriginal'
  BY <1>1, Zenon DEF CInv, Exact, RestoredIsOriginal
<1> QED BY <1>2, <1>3, <1>4, <1>5, <1>6, Zenon DEF CInv

(* waitpid in af_shutdown returns when the worker has ended. *)
LEMMA WaitedKeeps ==
  ASSUME CInv, Waited
  PROVE  CInv'
<1>1. /\ pc = "wait" /\ wpc = "gone" /\ pc' = "down"
      /\ UNCHANGED <<state, view, broken, call, open, toWorker, toApp, wpc, job, store>>
  BY Zenon DEF Waited, channel, worker
<1>2. Types'
  BY AppTyped, Zenon DEF CInv, Continue
<1>3. Conversation' /\ Silence'
  BY <1>1, Zenon DEF CInv, Conversation, Silence, Talking
<1>4. InFlight' /\ Exact' /\ RestoredIsOriginal'
  BY <1>1, Zenon DEF CInv, InFlight, Harmless, Exact, RestoredIsOriginal
<1> QED BY <1>2, <1>3, <1>4, Zenon DEF CInv

(* The application may end in the middle of a call. *)
LEMMA AppEndsKeeps ==
  ASSUME CInv, AppEnds
  PROVE  CInv'
<1>1. /\ pc' = "stopped" /\ ~open'
      /\ UNCHANGED <<state, view, broken, call, toWorker, toApp, wpc, job, store>>
  BY Zenon DEF AppEnds, Stop, worker
<1>2. Types'
  BY AppTyped, Zenon DEF CInv
<1>3. Conversation' /\ Silence'
  BY <1>1, Zenon DEF CInv, Conversation, Silence, Talking
<1>4. InFlight' /\ Exact' /\ RestoredIsOriginal'
  BY <1>1, Zenon DEF CInv, InFlight, Harmless, Exact, RestoredIsOriginal
<1> QED BY <1>2, <1>3, <1>4, Zenon DEF CInv

-----------------------------------------------------------------------------
(***************************************************************************)
(* The application's reads.  They leave the recipes and the worker alone.  *)
(***************************************************************************)
LEMMA Aside ==
  ASSUME CInv, UNCHANGED <<state, view, toWorker, wpc, job, store>>
  PROVE  InFlight' /\ Exact' /\ RestoredIsOriginal'
  BY Zenon DEF CInv, InFlight, Harmless, Exact, RestoredIsOriginal

(* A call in progress has an open, unbroken channel. *)
LEMMA Waits ==
  ASSUME CInv, pc \notin {"idle", "down", "wait", "stopped"}
  PROVE  ~broken /\ open /\ (Normal \/ Late)
  BY Zenon DEF CInv, Silence, Conversation, Talking

(* A step within a conversation. *)
LEMMA Goes ==
  ASSUME ~broken, open, UNCHANGED <<broken, open>>, pc' \notin {"down", "wait", "stopped"}, Normal' \/ Late'
  PROVE  Conversation' /\ Silence'
  BY Zenon DEF Conversation, Silence, Talking

(* A step that breaks the channel. *)
LEMMA Breaks ==
  ASSUME broken', ~open', pc' \in {"idle", "wait", "stopped"}
  PROVE  Conversation' /\ Silence'
  BY Zenon DEF Conversation, Silence, Talking

(***************************************************************************)
(* A read that fails breaks the channel; the read of a profile makes later *)
(* reads late instead.                                                     *)
(***************************************************************************)
LEMMA NoAnswerKeeps ==
  ASSUME CInv, NoAnswer
  PROVE  CInv'
<1>1. /\ pc \notin {"idle", "down", "wait", "stopped"} /\ pc' \in {"stopped", "wait", "idle"}
      /\ UNCHANGED <<cur, offset, equal, state, sliced, view, call, mode, toWorker, toApp, window, wpc, job, store>>
  BY Zenon DEF NoAnswer, Expects, worker
<1>2. Types' /\ InFlight' /\ Exact' /\ RestoredIsOriginal'
  BY <1>1, AppTyped, Aside, Zenon DEF CInv, Continue
<1>3. CASE pc # "profile_data"
  <2>1. broken' /\ ~open'
    BY <1>3, Zenon DEF NoAnswer, Break
  <2>2. Conversation' /\ Silence'
    BY <1>1, <2>1, Zenon DEF Conversation, Silence, Talking
  <2> QED BY <1>2, <2>2, Zenon DEF CInv
<1>4. CASE pc = "profile_data"
  <2>1. pc' = "idle" /\ UNCHANGED <<broken, open>> /\ Readable("profile") = {}
    BY <1>4, Zenon DEF NoAnswer, Expects
  <2>2. ~broken /\ open /\ Profiles
    BY <1>1, <1>4, Waits, Zenon DEF Normal, Rests, Greets, Drops, Queries, Restores, Registers, Submits, Streams,
       Seals, Sends, Late
  <2>3. toApp # <<Profile>>
    <3>1. toApp = <<Profile>> => toApp # <<>> /\ Head(toApp).kind = "profile"
      BY DEF Profile, Extra
    <3>2. toApp # <<>> /\ Head(toApp).kind = "profile" => Readable("profile") # {}
      BY Zenon DEF Readable
    <3> QED BY <2>1, <3>1, <3>2, Zenon
  <2>4. toApp = <<>> /\ toWorker = <<>> /\ wpc \in {"profile", "gone"}
    BY <1>4, <2>2, <2>3, Zenon DEF Profiles, Calm, At
  <2>5. Late'
    BY <1>1, <2>1, <2>4, Zenon DEF Late, At
  <2>6. Conversation' /\ Silence'
    BY <2>1, <2>2, <2>5, Zenon DEF Conversation, Silence, Talking
  <2> QED BY <1>2, <2>6, Zenon DEF CInv
<1> QED BY <1>3, <1>4, Zenon

(* The header that answers a DROP, a PING or a query is read. *)
LEMMA AnsweredKeeps ==
  ASSUME CInv, Answered
  PROVE  CInv'
<1>1. /\ pc \in {"drop", "query", "profile", "hello"}
      /\ UNCHANGED <<cur, offset, equal, state, sliced, view, broken, call, mode, toWorker, window, wpc, job, store>>
  BY Zenon DEF Answered, worker
<1>2. Types' /\ InFlight' /\ Exact' /\ RestoredIsOriginal'
  BY <1>1, AppTyped, Aside, Zenon DEF CInv, Continue
<1>3. ~broken /\ open /\ (Normal \/ Late)
  BY <1>1, Waits, Zenon
<1>4. PICK p \in Readable("header") :
        /\ toApp' = p.rest
        /\ pc' = IF pc = "profile" /\ p.m.status = 0 /\ p.m.size # 0 THEN "profile_data"
                 ELSE IF pc = "hello" /\ p.m.status # 0 THEN "wait" ELSE "idle"
        /\ open' = (open /\ pc' # "wait")
  BY Zenon DEF Answered
<1>5. (pc' # "wait" => open') /\ (pc' = "wait" => ~open')
  BY <1>3, <1>4, Zenon
<1>6. toApp # <<>>
  BY ReadsNothing, Zenon
<1>7. ASSUME NEW m, NEW rest, Head(toApp) = m, Tail(toApp) = rest, m.kind = "header"
      PROVE  p.m = m /\ toApp' = rest
  BY <1>4, <1>6, <1>7, Reads, Zenon
<1>8. CASE Late
  <2>1. /\ p.m.size = 0 /\ p.rest # <<>> /\ Head(p.rest).kind \in Leftover
    BY <1>8, ReadsLate, Zenon DEF CInv
  <2>2. pc' = "idle"
    BY <1>1, <1>4, <1>8, <2>1, Zenon DEF Late
  <2>3. Late'
    BY <1>4, <2>1, <2>2, Zenon DEF Late
  <2>4. Conversation' /\ Silence'
    BY <1>1, <1>3, <1>5, <2>2, <2>3, Zenon DEF Conversation, Silence, Talking
  <2> QED BY <1>2, <2>4, Zenon DEF CInv
<1>9. CASE Greets
  <2>1. CASE toApp = <<Head0(1, 0)>>
    <3>1. p.m.status = 1 /\ toApp' = <<>>
      BY <1>7, <2>1 DEF Head0, Header
    <3>2. pc' = "wait"
      BY <1>4, <1>9, <3>1 DEF Greets
    <3>3. Conversation' /\ Silence'
      BY <1>5, <3>1, <3>2 DEF Conversation, Silence, Talking
    <3> QED BY <1>2, <3>3, Zenon DEF CInv
  <2>2. CASE Calm("idle", <<>>, <<Head0(0, 0)>>)
    <3>1. p.m.status = 0 /\ toApp' = <<>>
      BY <1>7, <2>2 DEF Head0, Header, Calm
    <3>2. pc' = "idle"
      BY <1>4, <1>9, <3>1, Zenon DEF Greets
    <3>3. Rests'
      BY <1>1, <2>2, <3>1, <3>2, Zenon DEF Rests, Calm, At
    <3>4. Conversation' /\ Silence'
      BY <1>1, <1>3, <1>5, <3>2, <3>3, Zenon DEF Conversation, Silence, Talking, Normal
    <3> QED BY <1>2, <3>4, Zenon DEF CInv
  <2> QED BY <1>6, <1>9, <2>1, <2>2, Zenon DEF Greets
<1>10. CASE Drops \/ Queries
  <2>1. Calm("idle", <<>>, <<Head0(0, 0)>>) /\ pc \in {"drop", "query"}
    BY <1>6, <1>10, Zenon DEF Drops, Queries, Calm
  <2>2. toApp' = <<>>
    BY <1>7, <2>1 DEF Head0, Header, Calm
  <2>3. pc' = "idle"
    BY <1>4, <2>1, Zenon
  <2>4. Rests'
    BY <1>1, <2>1, <2>2, <2>3, Zenon DEF Rests, Calm, At
  <2>5. Conversation' /\ Silence'
    BY <1>1, <1>3, <1>5, <2>3, <2>4, Zenon DEF Conversation, Silence, Talking, Normal
  <2> QED BY <1>2, <2>5, Zenon DEF CInv
<1>11. CASE Profiles
  <2>1. /\ pc = "profile" /\ p.m.status = 0 /\ p.m.size = 1 /\ toWorker = <<>>
        /\ \/ At("profile") /\ toApp' = <<>> /\ job.n = call
           \/ At("idle") /\ toApp' = <<Profile>>
    <3>1. CASE Calm("profile", <<>>, <<Head0(0, 1)>>) /\ job.n = call
      <4>1. p.m = Head0(0, 1) /\ toApp' = <<>>
        BY <1>7, <3>1 DEF Head0, Header, Calm
      <4> QED BY <1>1, <1>11, <3>1, <4>1 DEF Head0, Header, Calm, Profiles
    <3>2. CASE Calm("idle", <<>>, <<Head0(0, 1), Profile>>)
      <4>1. p.m = Head0(0, 1) /\ toApp' = <<Profile>>
        <5>1. toApp = <<Head0(0, 1), Profile>>
          BY <3>2, Zenon DEF Calm
        <5>2. Head0(0, 1).kind = "header"
          BY Zenon DEF Head0, Header
        <5> QED BY <1>4, <5>1, <5>2, TakesTwo
      <4> QED BY <1>1, <1>11, <3>2, <4>1 DEF Head0, Header, Calm, Profiles
    <3> QED BY <1>1, <1>6, <1>11, <3>1, <3>2, Zenon DEF Profiles, Calm
  <2>2. pc' = "profile_data"
    BY <1>4, <2>1
  <2>3. Profile' = Profile
    BY <1>1, Zenon DEF Profile
  <2>4. Profiles'
    BY <1>1, <2>1, <2>2, <2>3, Zenon DEF Profiles, Calm, At
  <2>5. Conversation' /\ Silence'
    BY <1>1, <1>3, <1>5, <2>2, <2>4, Zenon DEF Conversation, Silence, Talking, Normal
  <2> QED BY <1>2, <2>5, Zenon DEF CInv
<1>12. ~Rests /\ ~Restores /\ ~Registers
  BY <1>1, Zenon DEF Rests, Restores, Registers, Submits, Streams, Seals, Sends
<1> QED BY <1>3, <1>8, <1>9, <1>10, <1>11, <1>12, Zenon DEF Normal

(***************************************************************************)
(* The loop of submit: a restart, a rejection, a window or the end, or a   *)
(* leftover that passes for none of them.                                  *)
(***************************************************************************)
LEMMA ValidateKeeps ==
  ASSUME CInv, Validate
  PROVE  CInv'
<1>1. /\ pc = "validate"
      /\ UNCHANGED <<mode, cur, state, sliced, view, call, toWorker, window, wpc, job, sent, native, exact, store>>
  BY Zenon DEF Validate, worker
<1>2. Types' /\ InFlight' /\ Exact' /\ RestoredIsOriginal'
  BY <1>1, AppTyped, Aside, Zenon DEF CInv, Continue
<1>3. ~broken /\ open /\ (Registers \/ Late)
  BY <1>1, Waits, Zenon DEF Normal, Rests, Greets, Drops, Queries, Profiles, Restores
<1>4. PICK p \in Readable("header") :
        /\ toApp' = p.rest
        /\ p.m.status = 2 => offset' = 0 /\ equal' = TRUE /\ UNCHANGED <<pc, broken, open>>
        /\ p.m.status = 1 => pc' = "idle" /\ UNCHANGED <<offset, equal, broken, open>>
        /\ p.m.status = 0 /\ Streaming /\ p.m.size = 0 =>
             equal' = (equal /\ offset = Windows) /\ pc' = "registration" /\ UNCHANGED <<offset, broken, open>>
        /\ p.m.status = 0 /\ Streaming /\ p.m.size # 0 =>
             /\ (pc' = "idle" /\ Break) \/ (pc' = "compare" /\ UNCHANGED <<broken, open>>)
             /\ UNCHANGED <<offset, equal>>
        /\ p.m.status = 0 /\ ~Streaming =>
             /\ IF p.m.size # Windows THEN pc' = "idle" /\ Break
                                      ELSE pc' = "registration" /\ UNCHANGED <<broken, open>>
             /\ UNCHANGED <<offset, equal>>
  BY DEF Validate
<1>5. /\ \A s, z : Head0(s, z).kind = "header" /\ Head0(s, z).status = s /\ Head0(s, z).size = z
      /\ \A s, z : Head0(s, z)' = Head0(s, z)
      /\ Record' = Record /\ Bytes' = Bytes /\ Streaming' = Streaming
  BY <1>1, Zenon DEF Head0, Header, Record, Bytes, Streaming
<1>6. ASSUME Conversation' /\ Silence' PROVE CInv'
  BY <1>2, <1>6, Zenon DEF CInv
<1>7. CASE Late
  <2>1. /\ p.m.status \in {0, 1} /\ p.m.size = 0
        /\ p.rest # <<>> /\ Head(p.rest).kind \in Leftover
    BY <1>7, ReadsLate, Zenon DEF CInv
  <2>2. offset = 0 /\ Windows # 0
    BY <1>1, <1>7, ConstantsAssumption, Zenon DEF Late
  <2>3. CASE p.m.status = 1
    <3>1. Late'
      BY <1>4, <2>1, <2>3, Zenon DEF Late
    <3> QED BY <1>3, <1>4, <1>6, <2>3, <3>1, Goes, Zenon
  <2>4. CASE p.m.status = 0 /\ Streaming
    <3>1. pc' = "registration" /\ ~equal' /\ UNCHANGED <<broken, open>>
      BY <1>4, <2>1, <2>2, <2>4, Zenon
    <3>2. Late'
      BY <1>1, <1>4, <1>5, <1>7, <2>1, <2>4, <3>1, Zenon DEF Late
    <3> QED BY <1>3, <1>6, <3>1, <3>2, Goes, Zenon
  <2>5. CASE p.m.status = 0 /\ ~Streaming
    <3>1. pc' = "idle" /\ Break
      BY <1>4, <2>1, <2>2, <2>5, Zenon
    <3> QED BY <1>6, <3>1, Breaks, Zenon DEF Break
  <2> QED BY <2>1, <2>3, <2>4, <2>5, Zenon
<1>8. CASE Registers /\ Submits
  <2>1. CASE Calm("idle", <<>>, <<Head0(1, 0)>>)
    <3>1. p.m = Head0(1, 0) /\ p.rest = <<>>
      BY <1>5, <2>1, TakesOne DEF Calm
    <3>2. pc' = "idle" /\ UNCHANGED <<broken, open>> /\ toApp' = <<>>
      BY <1>4, <1>5, <3>1
    <3>3. Rests'
      BY <1>1, <2>1, <3>2, Zenon DEF Rests, Calm, At
    <3> QED BY <1>3, <1>6, <3>2, <3>3, Goes, Zenon DEF Normal
  <2>2. CASE Calm("idle", <<>>, <<Head0(2, 0), Head0(1, 0)>>) /\ Streaming
    <3>1. p.m = Head0(2, 0) /\ p.rest = <<Head0(1, 0)>>
      BY <1>5, <2>2, TakesTwo DEF Calm
    <3>2. pc' = "validate" /\ UNCHANGED <<broken, open>> /\ toApp' = <<Head0(1, 0)>>
      BY <1>1, <1>4, <1>5, <3>1
    <3>3. Calm("idle", <<>>, <<Head0(1, 0)>>)'
      BY <1>1, <1>5, <2>2, <3>2, Zenon DEF Calm, At
    <3>4. Registers'
      BY <1>1, <1>8, <3>2, <3>3, Zenon DEF Registers, Submits
    <3> QED BY <1>3, <1>6, <3>2, <3>4, Goes, Zenon DEF Normal
  <2> QED BY <1>8, <2>1, <2>2, ReadsNothing, Zenon DEF Submits, Calm
<1>9. CASE Registers /\ Streams
  <2>1. CASE Calm("ack", <<>>, <<Head0(0, 1)>>) /\ Pass(offset + 1) /\ Published
    <3>1. p.m = Head0(0, 1) /\ p.rest = <<>>
      BY <1>5, <2>1, TakesOne DEF Calm
    <3>2. CASE pc' = "idle" /\ Break
      BY <1>6, <3>2, Breaks, Zenon DEF Break
    <3>3. CASE pc' = "compare" /\ UNCHANGED <<broken, open>>
      <4>1. toApp' = <<>> /\ UNCHANGED <<offset, equal>>
        BY <1>4, <1>5, <2>1, <3>1 DEF Pass
      <4>2. Calm("ack", <<>>, <<>>)' /\ Pass(offset + 1)' /\ Published'
        BY <1>1, <1>5, <2>1, <4>1, Zenon DEF Calm, At, Pass, Mine, Published
      <4>3. Registers'
        BY <1>1, <1>9, <3>3, <4>2, Zenon DEF Registers, Streams
      <4> QED BY <1>3, <1>6, <3>3, <4>3, Goes, Zenon DEF Normal
    <3> QED BY <1>4, <1>5, <2>1, <3>1, <3>2, <3>3 DEF Pass
  <2>2. CASE Calm("replay", <<>>, <<Head0(2, 0)>>) /\ Pass(0) /\ exact /\ ~native
    <3>1. p.m = Head0(2, 0) /\ p.rest = <<>>
      BY <1>5, <2>2, TakesOne DEF Calm
    <3>2. toApp' = <<>> /\ offset' = 0 /\ pc' = "validate" /\ UNCHANGED <<broken, open>>
      BY <1>1, <1>4, <1>5, <3>1
    <3>3. Calm("replay", <<>>, <<>>)' /\ Pass(offset)' /\ exact'
      BY <1>1, <1>5, <2>2, <3>2, Zenon DEF Calm, At, Pass, Mine
    <3>4. Registers'
      BY <1>1, <1>9, <3>2, <3>3, Zenon DEF Registers, Streams
    <3> QED BY <1>3, <1>6, <3>2, <3>4, Goes, Zenon DEF Normal
  <2>3. CASE /\ Calm("ack", <<>>, <<Head0(2, 0), Head0(0, 1)>>) /\ Pass(1)
             /\ window.of = cur /\ (window.right => exact)
    <3>1. p.m = Head0(2, 0) /\ p.rest = <<Head0(0, 1)>>
      BY <1>5, <2>3, TakesTwo DEF Calm
    <3>2. toApp' = <<Head0(0, 1)>> /\ offset' = 0 /\ pc' = "validate" /\ UNCHANGED <<broken, open>>
      BY <1>1, <1>4, <1>5, <3>1
    <3>3. Calm("ack", <<>>, <<Head0(0, 1)>>)' /\ Pass(offset + 1)' /\ Published'
      BY <1>1, <1>5, <2>3, <3>2 DEF Calm, At, Pass, Mine, Published
    <3>4. Registers'
      BY <1>1, <1>9, <3>2, <3>3, Zenon DEF Registers, Streams
    <3> QED BY <1>3, <1>6, <3>2, <3>4, Goes, Zenon DEF Normal
  <2> QED BY <1>1, <1>9, <2>1, <2>2, <2>3, ReadsNothing, Zenon DEF Streams, Calm
<1>10. CASE Registers /\ Seals
  <2>1. p.m = Head0(0, 0) => pc' = "registration" /\ UNCHANGED <<broken, open>>
    BY <1>4, <1>5, <1>10 DEF Seals
  <2>2. p.m = Head0(0, 0) => (equal' => store[cur].exact)
    <3>1. p.m = Head0(0, 0) => equal' = (equal /\ offset = Windows)
      BY <1>4, <1>5, <1>10 DEF Seals
    <3>2. equal /\ offset = Windows => store[cur].exact
      BY <1>1, <1>10, Zenon DEF Seals
    <3> QED BY <3>1, <3>2, Zenon
  <2>3. ASSUME p.m = Head0(0, 0),
               (Calm("registration", <<>>, <<>>)' /\ Mine) \/ Calm("idle", <<>>, <<Record>>)'
        PROVE  CInv'
    <3>1. Registers'
      BY <1>1, <1>5, <1>10, <2>1, <2>2, <2>3, Zenon DEF Registers, Seals, Mine
    <3> QED BY <1>3, <1>6, <2>1, <2>3, <3>1, Goes, Zenon DEF Normal
  <2>4. CASE Calm("registration", <<>>, <<Head0(0, 0)>>) /\ Mine
    <3>1. p.m = Head0(0, 0) /\ p.rest = <<>>
      BY <1>5, <2>4, TakesOne DEF Calm
    <3> QED BY <1>1, <1>4, <2>3, <2>4, <3>1, Zenon DEF Calm, At
  <2>5. CASE Calm("idle", <<>>, <<Head0(0, 0), Record>>)
    <3>1. p.m = Head0(0, 0) /\ p.rest = <<Record>>
      BY <1>5, <2>5, TakesTwo DEF Calm
    <3> QED BY <1>1, <1>4, <1>5, <2>3, <2>5, <3>1, Zenon DEF Calm, At
  <2> QED BY <1>1, <1>10, <2>4, <2>5, Zenon DEF Seals
<1>11. CASE Registers /\ Sends
  <2>1. p.m = Head0(0, Windows) => pc' = "registration" /\ UNCHANGED <<broken, open>>
    BY <1>4, <1>5, <1>11 DEF Sends
  <2>2. ASSUME p.m = Head0(0, Windows),
               \/ Calm("registration", <<>>, <<>>)' /\ Mine
               \/ Calm("data", <<>>, <<Record>>)' /\ Mine
               \/ Calm("idle", <<>>, <<Record, Bytes>>)'
        PROVE  CInv'
    <3>1. Registers'
      BY <1>1, <1>5, <1>11, <2>1, <2>2, Zenon DEF Registers, Sends, Mine
    <3> QED BY <1>3, <1>6, <2>1, <2>2, <3>1, Goes, Zenon DEF Normal
  <2>3. CASE Calm("registration", <<>>, <<Head0(0, Windows)>>) /\ Mine
    <3>1. p.m = Head0(0, Windows) /\ p.rest = <<>>
      BY <1>5, <2>3, TakesOne DEF Calm
    <3> QED BY <1>1, <1>4, <2>2, <2>3, <3>1, Zenon DEF Calm, At
  <2>4. CASE Calm("data", <<>>, <<Head0(0, Windows), Record>>) /\ Mine
    <3>1. p.m = Head0(0, Windows) /\ p.rest = <<Record>>
      BY <1>5, <2>4, TakesTwo DEF Calm
    <3> QED BY <1>1, <1>4, <1>5, <2>2, <2>4, <3>1, Zenon DEF Calm, At
  <2>5. CASE Calm("idle", <<>>, <<Head0(0, Windows), Record, Bytes>>)
    <3>1. p.m = Head0(0, Windows) /\ p.rest = <<Record, Bytes>>
      BY <1>5, <2>5, TakesThree DEF Calm
    <3> QED BY <1>1, <1>4, <1>5, <2>2, <2>5, <3>1, Zenon DEF Calm, At
  <2> QED BY <1>1, <1>11, <2>3, <2>4, <2>5, ReadsNothing, Zenon DEF Sends, Calm
<1> QED BY <1>3, <1>7, <1>8, <1>9, <1>10, <1>11, Zenon DEF Registers

(***************************************************************************)
(* A window is compared and acknowledged; all equal so far means all exact *)
(* so far.                                                                 *)
(***************************************************************************)
LEMMA CompareKeeps ==
  ASSUME CInv, Compare
  PROVE  CInv'
<1>1. /\ pc = "compare" /\ pc' = "validate" /\ offset' = offset + 1
      /\ toWorker' = Append(toWorker, Msg("STREAM_ACK", offset + 1))
      /\ UNCHANGED <<mode, cur, state, sliced, view, broken, call, open, toApp, window, wpc, job, sent, native, exact, store>>
  BY Zenon DEF Compare, worker, Msg
<1>2. Types'
  BY AppTyped, Zenon DEF CInv, Continue
<1>3. ~broken /\ open /\ Registers
  BY <1>1, Waits, Zenon DEF Normal, Rests, Greets, Drops, Queries, Profiles, Restores, Late
<1>4. /\ Calm("ack", <<>>, <<>>) /\ Pass(offset + 1) /\ Published
  BY <1>1, <1>3, Zenon DEF Registers, Submits, Streams, Seals, Sends
<1>5. equal' => exact
  <2>1. equal' => equal /\ window.right
    <3>1. equal' = (equal /\ window = [of |-> cur, right |-> TRUE])
      BY Zenon DEF Compare
    <3>2. window = [of |-> cur, right |-> TRUE] => window.right
      OBVIOUS
    <3> QED BY <3>1, <3>2, Zenon
  <2> QED BY <1>4, <2>1, Zenon DEF Published
<1>6. toWorker' = <<Msg("STREAM_ACK", offset + 1)>>
  BY <1>1, <1>4 DEF Calm
<1>7. Msg("STREAM_ACK", offset)' = Msg("STREAM_ACK", offset + 1)
  BY <1>1, Zenon DEF Msg
<1>8. Registers'
  <2>1. Calm("ack", <<Msg("STREAM_ACK", offset)>>, <<>>)' /\ Pass(offset)' /\ (equal' => exact')
    BY <1>1, <1>4, <1>5, <1>6, <1>7, Zenon DEF Calm, At, Pass, Mine, Streaming
  <2> QED BY <1>1, <1>3, <2>1, Zenon DEF Registers, Streams
<1>9. Conversation' /\ Silence'
  BY <1>1, <1>3, <1>8, Goes, Zenon DEF Normal
<1>10. InFlight'
  <2>1. \A k \in DOMAIN toWorker' : toWorker'[k] = Msg("STREAM_ACK", offset + 1)
    BY <1>6
  <2>2. Msg("STREAM_ACK", offset + 1).cmd = "STREAM_ACK"
    BY Zenon DEF Msg
  <2> QED BY <1>1, <2>1, <2>2, Zenon DEF CInv, InFlight, Harmless
<1>11. Exact' /\ RestoredIsOriginal'
  BY <1>1, Zenon DEF CInv, Exact, RestoredIsOriginal
<1> QED BY <1>2, <1>9, <1>10, <1>11, Zenon DEF CInv

(***************************************************************************)
(* The end of a submission: the buffer is sealed only if the stored recipe *)
(* reproduces it, and else the recipe is dropped.                          *)
(***************************************************************************)
LEMMA JudgeKeeps ==
  ASSUME CInv, Types', ~broken, open, state[cur] = "resident",
         UNCHANGED <<view, broken, open, wpc, job, store>>,
         \/ /\ At("idle") /\ toWorker = <<>> /\ toApp' = <<>>
            /\ store[cur].exact /\ state' = [state EXCEPT ![cur] = "sealed"] /\ pc' = "idle"
            /\ UNCHANGED toWorker
         \/ /\ Ask("DROP", cur, 0, "drop") /\ UNCHANGED state
            /\ \/ At("idle") /\ toWorker = <<>> /\ toApp' = <<>>
               \/ toApp' # <<>> /\ Head(toApp').kind \in Leftover
  PROVE  CInv'
<1>1. cur \in Ids /\ state \in [Ids -> {"resident", "sealed", "gone"}] /\ toWorker \in Seq(Requests)
  BY Zenon DEF CInv, Types, AppTypes, ChannelTypes
<1>2. CASE /\ At("idle") /\ toWorker = <<>> /\ toApp' = <<>>
           /\ store[cur].exact /\ state' = [state EXCEPT ![cur] = "sealed"] /\ pc' = "idle"
           /\ UNCHANGED toWorker
  <2>1. Rests'
    BY <1>2, Zenon DEF Rests, Calm, At
  <2>2. Conversation' /\ Silence'
    BY <1>2, <2>1, Goes, Zenon DEF Normal
  <2>3. InFlight'
    BY <1>2 DEF InFlight, At
  <2>4. Exact' /\ RestoredIsOriginal'
    BY <1>1, <1>2, Zenon DEF CInv, Exact, RestoredIsOriginal
  <2> QED BY <2>2, <2>3, <2>4, Zenon DEF CInv
<1>3. CASE /\ Ask("DROP", cur, 0, "drop") /\ UNCHANGED state
           /\ \/ At("idle") /\ toWorker = <<>> /\ toApp' = <<>>
              \/ toApp' # <<>> /\ Head(toApp').kind \in Leftover
  <2> DEFINE q == [cmd |-> "DROP", id |-> cur, size |-> 0, n |-> call']
  <2>1. "DROP" \in Commands \ {"REGISTER"} /\ 0 \in Nat
    BY Zenon DEF Commands
  <2>2. /\ toWorker = <<>> => toWorker' = <<q>>
        /\ \A k \in DOMAIN toWorker' : toWorker'[k] = q \/ \E j \in DOMAIN toWorker : toWorker'[k] = toWorker[j]
        /\ pc' = "drop" /\ cur' = cur
    BY <1>1, <1>3, <2>1, Asks, Zenon DEF CInv
  <2>3. q.cmd = "DROP" /\ q.id = cur /\ Msg("DROP", 0)' = q
    BY <2>2, Zenon DEF Msg
  <2> HIDE DEF q
  <2>4. InFlight'
    BY <1>3, <2>2, <2>3, Zenon DEF CInv, InFlight, Harmless
  <2>5. Drops' \/ Late'
    <3>1. ASSUME At("idle"), toWorker = <<>>, toApp' = <<>> PROVE Drops'
      BY <2>2, <2>3, <3>1, Zenon DEF Drops, Calm, At
    <3>2. ASSUME toApp' # <<>>, Head(toApp').kind \in Leftover PROVE Late'
      BY <2>2, <3>2, Zenon DEF Late
    <3> QED BY <1>3, <3>1, <3>2, Zenon
  <2>6. Conversation' /\ Silence'
    BY <2>2, <2>5, Goes, Zenon DEF Normal
  <2>7. Exact' /\ RestoredIsOriginal'
    BY <1>3, Zenon DEF CInv, Exact, RestoredIsOriginal
  <2> QED BY <2>4, <2>6, <2>7, Zenon DEF CInv
<1> QED BY <1>2, <1>3, Zenon

(***************************************************************************)
(* The registration is read: a streamed output is judged, another is read  *)
(* next.                                                                   *)
(***************************************************************************)
LEMMA RegistrationKeeps ==
  ASSUME CInv, Registration
  PROVE  CInv'
<1>1. /\ pc = "registration"
      /\ UNCHANGED <<mode, offset, equal, view, broken, open, window, wpc, job, store>>
  BY Zenon DEF Registration, worker
<1>2. Types'
  BY AppTyped, Zenon DEF CInv, Continue
<1>3. ~broken /\ open /\ (Registers \/ Late)
  BY <1>1, Waits, Zenon DEF Normal, Rests, Greets, Drops, Queries, Profiles, Restores
<1>4. PICK p \in Readable("registration") :
        /\ toApp' = p.rest
        /\ IF Streaming
             THEN Judge(equal, p.m.sliced)
             ELSE /\ pc' = "output"
                  /\ UNCHANGED <<cur, call, toWorker, state>>
  BY Zenon DEF Registration
<1>5. Streaming => \/ /\ equal /\ state' = [state EXCEPT ![cur] = "sealed"] /\ pc' = "idle"
                      /\ UNCHANGED toWorker
                   \/ Ask("DROP", cur, 0, "drop") /\ UNCHANGED state
  BY <1>4, Zenon DEF Judge
<1>6. Record.kind = "registration"
  BY Zenon DEF Record, Extra
<1>7. CASE Late
  <2>1. Streaming /\ ~equal /\ state[cur] = "resident"
    BY <1>1, <1>7, Zenon DEF Late
  <2>2. toApp' # <<>> /\ Head(toApp').kind \in Leftover
    BY <1>4, <1>7, ReadsLateRegistration, Zenon DEF Late
  <2> QED BY <1>1, <1>2, <1>3, <1>5, <2>1, <2>2, JudgeKeeps, Zenon
<1>8. CASE Registers /\ Seals
  <2>1. toApp = <<Record>> /\ At("idle") /\ toWorker = <<>> /\ (equal => store[cur].exact) /\ Streaming
    BY <1>1, <1>8, ReadsNothing, Zenon DEF Seals, Calm
  <2>2. toApp' = <<>>
    BY <1>4, <1>6, <2>1, TakesOne, Zenon
  <2>3. state[cur] = "resident"
    BY <1>8, Zenon DEF Registers
  <2> QED BY <1>1, <1>2, <1>3, <1>5, <2>1, <2>2, <2>3, JudgeKeeps, Zenon
<1>9. CASE Registers /\ Sends
  <2>1. ~Streaming /\ pc' = "output" /\ UNCHANGED <<cur, call, toWorker, state>>
    BY <1>4, <1>9, Zenon DEF Sends
  <2>2. Bytes' = Bytes /\ Streaming' = Streaming
    BY <1>1, <2>1, Zenon DEF Bytes, Streaming
  <2>3. CASE Calm("data", <<>>, <<Record>>) /\ Mine
    <3>1. toApp' = <<>>
      BY <1>4, <1>6, <2>3, TakesOne, Zenon DEF Calm
    <3>2. Calm("data", <<>>, <<>>)' /\ Mine'
      BY <1>1, <2>1, <2>3, <3>1, Zenon DEF Calm, At, Mine
    <3>3. Registers'
      BY <1>9, <2>1, <2>2, <3>2, Zenon DEF Registers, Sends
    <3>4. Conversation' /\ Silence'
      BY <1>1, <1>3, <2>1, <3>3, Goes, Zenon DEF Normal
    <3> QED BY <1>1, <1>2, <2>1, <3>4, Aside, Zenon DEF CInv
  <2>4. CASE Calm("idle", <<>>, <<Record, Bytes>>)
    <3>1. toApp' = <<Bytes>>
      BY <1>4, <1>6, <2>4, TakesTwo DEF Calm
    <3>2. Calm("idle", <<>>, <<Bytes>>)'
      BY <1>1, <2>1, <2>2, <2>4, <3>1, Zenon DEF Calm, At
    <3>3. Registers'
      BY <1>9, <2>1, <2>2, <3>2, Zenon DEF Registers, Sends
    <3>4. Conversation' /\ Silence'
      BY <1>1, <1>3, <2>1, <3>3, Goes, Zenon DEF Normal
    <3> QED BY <1>1, <1>2, <2>1, <3>4, Aside, Zenon DEF CInv
  <2> QED BY <1>1, <1>9, <2>3, <2>4, ReadsNothing, Zenon DEF Sends, Calm
<1> QED BY <1>1, <1>3, <1>7, <1>8, <1>9, Zenon DEF Registers, Submits, Streams

(* The output is read, compared in one piece and judged. *)
LEMMA OutputKeeps ==
  ASSUME CInv, Output
  PROVE  CInv'
<1>1. /\ pc = "output"
      /\ UNCHANGED <<mode, offset, view, broken, open, window, wpc, job, store>>
  BY Zenon DEF Output, worker
<1>2. Types'
  BY AppTyped, Zenon DEF CInv, Continue
<1>3. ~broken /\ open /\ Registers
  BY <1>1, Waits, Zenon DEF Normal, Rests, Greets, Drops, Queries, Profiles, Restores, Late
<1>4. PICK p \in Readable("data") :
        toApp' = p.rest /\ equal' = (equal /\ p.m.right) /\ Judge(equal', sliced[cur])
  BY Zenon DEF Output
<1>5. \/ /\ equal' /\ state' = [state EXCEPT ![cur] = "sealed"] /\ pc' = "idle"
         /\ UNCHANGED toWorker
      \/ Ask("DROP", cur, 0, "drop") /\ UNCHANGED state
  BY <1>4, Zenon DEF Judge
<1>6. Bytes.kind = "data" /\ Bytes.right = store[cur].exact
  BY Zenon DEF Bytes, Extra
<1>7. toApp = <<Bytes>> /\ At("idle") /\ toWorker = <<>> /\ state[cur] = "resident"
  BY <1>1, <1>3, ReadsNothing, Zenon DEF Registers, Submits, Streams, Seals, Sends, Calm
<1>8. p.m = Bytes /\ toApp' = <<>>
  BY <1>4, <1>6, <1>7, TakesOne, Zenon
<1>9. equal' => store[cur].exact
  <2>1. equal' => p.m.right
    BY <1>4, Zenon
  <2> QED BY <1>6, <1>8, <2>1, Zenon
<1> QED BY <1>1, <1>2, <1>3, <1>5, <1>7, <1>8, <1>9, JudgeKeeps, Zenon

(***************************************************************************)
(* The header of a restore: a leftover never announces the length that is  *)
(* asked for.                                                              *)
(***************************************************************************)
LEMMA RestoringKeeps ==
  ASSUME CInv, Restoring
  PROVE  CInv'
<1>1. /\ pc = "restore"
      /\ UNCHANGED <<mode, cur, offset, equal, state, sliced, view, broken, call, toWorker, window, wpc, job, store>>
  BY Zenon DEF Restoring, worker
<1>2. Types' /\ InFlight' /\ Exact' /\ RestoredIsOriginal'
  BY <1>1, AppTyped, Aside, Zenon DEF CInv, Continue
<1>3. ~broken /\ open /\ (Restores \/ Late)
  BY <1>1, Waits, Zenon DEF Normal, Rests, Greets, Drops, Queries, Profiles, Registers, Submits, Streams, Seals, Sends
<1>4. PICK p \in Readable("header") :
        /\ toApp' = p.rest
        /\ IF p.m.status # 0 \/ p.m.size # Length(cur)
             THEN Stop
             ELSE pc' = (IF sliced[cur] /\ Shared THEN "copy" ELSE "payload") /\ UNCHANGED open
  BY Zenon DEF Restoring
<1>5. ASSUME Conversation' /\ Silence' PROVE CInv'
  BY <1>2, <1>5, Zenon DEF CInv
<1>6. ASSUME Stop PROVE CInv'
  <2>1. Conversation' /\ Silence'
    BY <1>3, <1>1, <1>6, Zenon DEF Stop, Conversation, Silence, Talking
  <2> QED BY <1>5, <2>1, Zenon
<1>7. CASE Late
  <2>1. p.m.size = 0
    BY <1>7, ReadsLate, Zenon DEF CInv
  <2>2. Length(cur) # 0
    BY ConstantsAssumption DEF Length
  <2> QED BY <1>4, <1>6, <2>1, <2>2, Zenon
<1>8. CASE Restores
  <2>1. /\ \A s, z : Head0(s, z).kind = "header" /\ Head0(s, z).status = s /\ Head0(s, z).size = z
        /\ Bytes' = Bytes /\ InPlace' = InPlace
    BY <1>1, Zenon DEF Head0, Header, Bytes, InPlace, Shared
  <2>2. CASE toApp = <<Head0(1, 0)>>
    <3>1. p.m = Head0(1, 0)
      BY <2>1, <2>2, TakesOne
    <3> QED BY <1>4, <1>6, <2>1, <3>1
  <2>3. ASSUME p.m = Head0(0, Length(cur)), InPlace,
               Calm("idle", <<>>, <<>>)', Shown
        PROVE  CInv'
    <3>1. pc' = "copy" /\ UNCHANGED open
      BY <1>4, <2>1, <2>3 DEF InPlace
    <3>2. Restores'
      BY <1>1, <1>8, <2>3, <3>1, Zenon DEF Restores, Shown
    <3> QED BY <1>1, <1>3, <1>5, <3>1, <3>2, Goes, Zenon DEF Normal
  <2>4. ASSUME p.m = Head0(0, Length(cur)), ~InPlace,
               (Calm("data", <<>>, <<>>)' /\ Mine) \/ Calm("idle", <<>>, <<Bytes>>)'
        PROVE  CInv'
    <3>1. pc' = "payload" /\ UNCHANGED open
      BY <1>4, <2>1, <2>4, Zenon DEF InPlace
    <3>2. Restores'
      BY <1>1, <1>8, <2>4, <3>1, Zenon DEF Restores, Mine
    <3> QED BY <1>1, <1>3, <1>5, <3>1, <3>2, Goes, Zenon DEF Normal
  <2>5. CASE Calm("idle", <<>>, <<Head0(0, Length(cur))>>) /\ InPlace /\ Shown
    <3>1. p.m = Head0(0, Length(cur)) /\ toApp' = <<>>
      BY <1>4, <2>1, <2>5, TakesOne DEF Calm
    <3> QED BY <1>1, <2>3, <2>5, <3>1, Zenon DEF Calm, At
  <2>6. CASE Calm("data", <<>>, <<Head0(0, Length(cur))>>) /\ ~InPlace /\ Mine
    <3>1. p.m = Head0(0, Length(cur)) /\ toApp' = <<>>
      BY <1>4, <2>1, <2>6, TakesOne DEF Calm
    <3> QED BY <1>1, <2>4, <2>6, <3>1, Zenon DEF Calm, At
  <2>7. CASE Calm("idle", <<>>, <<Head0(0, Length(cur)), Bytes>>) /\ ~InPlace
    <3>1. p.m = Head0(0, Length(cur)) /\ toApp' = <<Bytes>>
      BY <1>4, <2>1, <2>7, TakesTwo DEF Calm
    <3> QED BY <1>1, <2>1, <2>4, <2>7, <3>1, Zenon DEF Calm, At
  <2> QED BY <1>1, <1>8, <2>2, <2>5, <2>6, <2>7, ReadsNothing, Zenon DEF Restores, Calm
<1> QED BY <1>3, <1>7, <1>8, Zenon

(***************************************************************************)
(* A restore ends: what was read are the bytes of the buffer.              *)
(***************************************************************************)
LEMMA RestoreEnds ==
  ASSUME CInv, Types', ~broken, open, At("idle"), toWorker = <<>>, toApp' = <<>>, pc' = "idle",
         NEW right, right = TRUE, view' = [view EXCEPT ![cur] = right],
         UNCHANGED <<state, broken, open, toWorker, wpc, job, store>>
  PROVE  CInv'
<1>1. Rests'
  BY Zenon DEF Rests, Calm, At
<1>2. Conversation' /\ Silence'
  BY <1>1, Goes, Zenon DEF Normal
<1>3. InFlight' /\ Exact'
  BY Zenon DEF CInv, InFlight, Harmless, Exact
<1>4. RestoredIsOriginal'
  BY Zenon DEF CInv, Types, AppTypes, RestoredIsOriginal
<1> QED BY <1>2, <1>3, <1>4, Zenon DEF CInv

(* The window holds the bytes of the buffer when restore_span copies it. *)
LEMMA CopyKeeps ==
  ASSUME CInv, Copy
  PROVE  CInv'
<1>1. /\ pc = "copy" /\ pc' = "idle"
      /\ UNCHANGED <<state, broken, open, toWorker, toApp, wpc, job, store>>
  BY Zenon DEF Copy, worker, channel
<1>2. Types'
  BY AppTyped, Zenon DEF CInv, Continue
<1>3. ~broken /\ open /\ Restores
  BY <1>1, Waits, Zenon DEF Normal, Rests, Greets, Drops, Queries, Profiles, Registers, Submits, Streams, Seals, Sends, Late
<1>4. Calm("idle", <<>>, <<>>) /\ Shown
  BY <1>1, <1>3, Zenon DEF Restores
<1>5. view' = [view EXCEPT ![cur] = view[cur] /\ window = [of |-> cur, right |-> TRUE]]
  BY Zenon DEF Copy
<1>6. (view[cur] /\ window = [of |-> cur, right |-> TRUE]) = TRUE
  <2>1. view[cur] = TRUE
    BY Zenon DEF CInv, RestoredIsOriginal, Types, AppTypes
  <2> QED BY <1>4, <2>1, Zenon DEF Shown
<1>7. view' = [view EXCEPT ![cur] = TRUE]
  BY <1>5, <1>6, Zenon
<1> QED BY <1>1, <1>2, <1>3, <1>4, <1>7, RestoreEnds, Zenon DEF Calm

(***************************************************************************)
(* The bytes that restore_span reads from the socket are those of the      *)
(* buffer.                                                                 *)
(***************************************************************************)
LEMMA PayloadKeeps ==
  ASSUME CInv, Payload
  PROVE  CInv'
<1>1. /\ pc = "payload" /\ pc' = "idle"
      /\ UNCHANGED <<state, broken, open, toWorker, wpc, job, store>>
  BY Zenon DEF Payload, worker
<1>2. Types'
  BY AppTyped, Zenon DEF CInv, Continue
<1>3. ~broken /\ open /\ Restores
  BY <1>1, Waits, Zenon DEF Normal, Rests, Greets, Drops, Queries, Profiles, Registers, Submits, Streams, Seals, Sends, Late
<1>4. PICK p \in Readable("data") :
        toApp' = p.rest /\ view' = [view EXCEPT ![cur] = view[cur] /\ p.m.right /\ p.m.n = call]
  BY Zenon DEF Payload
<1>5. Calm("idle", <<>>, <<Bytes>>) /\ state[cur] = "sealed"
  BY <1>1, <1>3, ReadsNothing, Zenon DEF Restores, Calm
<1>6. Bytes.kind = "data" /\ Bytes.right = store[cur].exact /\ Bytes.n = call
  BY Zenon DEF Bytes, Extra
<1>7. p.m = Bytes /\ toApp' = <<>>
  BY <1>4, <1>5, <1>6, TakesOne, Zenon DEF Calm
<1>8. view[cur] = TRUE /\ store[cur].exact = TRUE
  BY <1>5, Zenon DEF CInv, RestoredIsOriginal, Exact, Types, AppTypes, WorkerTypes
<1>9. (view[cur] /\ p.m.right /\ p.m.n = call) = TRUE
  BY <1>6, <1>7, <1>8, Zenon
<1>10. view' = [view EXCEPT ![cur] = TRUE]
  BY <1>4, <1>9, Zenon
<1> QED BY <1>1, <1>2, <1>3, <1>5, <1>7, <1>10, RestoreEnds, Zenon DEF Calm

(* A profile that comes in time is read, and the socket is empty again. *)
LEMMA ProfileReadKeeps ==
  ASSUME CInv, ProfileRead
  PROVE  CInv'
<1>1. /\ pc = "profile_data" /\ pc' = "idle"
      /\ UNCHANGED <<state, view, broken, open, toWorker, wpc, job, store>>
  BY Zenon DEF ProfileRead, worker
<1>2. Types' /\ InFlight' /\ Exact' /\ RestoredIsOriginal'
  BY <1>1, AppTyped, Aside, Zenon DEF CInv, Continue
<1>3. ~broken /\ open /\ Profiles
  BY <1>1, Waits, Zenon DEF Normal, Rests, Greets, Drops, Queries, Restores, Registers, Submits, Streams, Seals, Sends, Late
<1>4. PICK p \in Readable("profile") : toApp' = p.rest
  BY Zenon DEF ProfileRead
<1>5. Calm("idle", <<>>, <<Profile>>)
  BY <1>1, <1>3, ReadsNothing, Zenon DEF Profiles, Calm
<1>6. Profile.kind = "profile"
  BY Zenon DEF Profile, Extra
<1>7. toApp' = <<>>
  BY <1>4, <1>5, <1>6, TakesOne, Zenon DEF Calm
<1>8. Rests'
  BY <1>1, <1>5, <1>7, Zenon DEF Rests, Calm, At
<1>9. Conversation' /\ Silence'
  BY <1>1, <1>3, <1>8, Goes, Zenon DEF Normal
<1> QED BY <1>2, <1>9, Zenon DEF CInv

(***************************************************************************)
(* Every step of the application.                                          *)
(***************************************************************************)
LEMMA AppKeeps ==
  ASSUME CInv, Begin \/ Continue \/ AppEnds
  PROVE  CInv'
<1>1. CASE Begin
  BY <1>1, AfInitKeeps, AfShutdownKeeps, SubmitKeeps, DropKeeps, FreeKeeps, RestoreKeeps, QueryKeeps, Zenon DEF Begin
<1>2. CASE Continue
  BY <1>2, ValidateKeeps, CompareKeeps, RegistrationKeeps, OutputKeeps, RestoringKeeps, CopyKeeps, PayloadKeeps,
     AnsweredKeeps, ProfileReadKeeps, NoAnswerKeeps, WaitedKeeps, Zenon DEF Continue
<1>3. CASE AppEnds
  BY <1>3, AppEndsKeeps, Zenon
<1> QED BY <1>1, <1>2, <1>3, Zenon

-----------------------------------------------------------------------------
(***************************************************************************)
(* The worker's steps.  It writes as long as the socket is open.           *)
(***************************************************************************)
LEMMA Speaks ==
  ASSUME NEW m, NEW next, Say(m, next)
  PROVE  /\ open => toApp' = Append(toApp, m) /\ wpc' = next
         /\ ~open => toApp' = toApp /\ wpc' = "gone"
  BY Zenon DEF Say

(***************************************************************************)
(* A step of the worker changes the store and the queue of requests only.  *)
(***************************************************************************)
LEMMA WorkerAside ==
  ASSUME CInv, UNCHANGED <<app, store>>,
         \/ toWorker' = toWorker
         \/ toWorker # <<>> /\ toWorker' = Tail(toWorker)
         \/ toWorker' = SubSeq(toWorker, 3, Len(toWorker)),
         wpc' \in {"replay", "ack"} => state[job'.id] # "sealed"
  PROVE  InFlight' /\ Exact'
<1>1. state' = state /\ toWorker \in Seq(Requests)
  BY Zenon DEF app, CInv, Types, ChannelTypes
<1>2. \A k \in DOMAIN toWorker' : \E j \in DOMAIN toWorker : toWorker'[k] = toWorker[j]
  <2>1. CASE toWorker' = toWorker
    BY <2>1, Zenon
  <2>2. CASE toWorker # <<>> /\ toWorker' = Tail(toWorker)
    BY <1>1, <2>2
  <2>3. CASE toWorker' = SubSeq(toWorker, 3, Len(toWorker))
    BY <1>1, <2>3
  <2> QED BY <2>1, <2>2, <2>3, Zenon
<1> QED BY <1>1, <1>2, Zenon DEF CInv, InFlight, Harmless, Exact

(***************************************************************************)
(* A step of the worker that suits the conversation; behind a leftover,    *)
(* and when the channel is closed, every step does.                        *)
(***************************************************************************)
LEMMA WorkKeeps ==
  ASSUME CInv, Types', wpc # "gone", UNCHANGED <<app, mode, open>>, InFlight', Exact',
         \/ toApp' = toApp
         \/ \E m \in Answers : toApp' = Append(toApp, m) /\ (~open => m.n = call),
         open /\ Normal => Normal', wpc = "profile" /\ Late => Late'
  PROVE  CInv'
<1>1. UNCHANGED <<pc, cur, offset, equal, state, sliced, view, broken, call>> /\ toApp \in Seq(Answers)
  BY Zenon DEF app, CInv, Types, ChannelTypes
<1>2. RestoredIsOriginal' /\ Talking' = Talking
  BY <1>1, Zenon DEF CInv, RestoredIsOriginal, Talking
<1>3. ASSUME Late, wpc # "profile" PROVE Late'
  <2>1. toApp # <<>>
    BY <1>3, Zenon DEF Late, At
  <2>2. toApp' # <<>> /\ Head(toApp') = Head(toApp)
    BY <1>1, <2>1
  <2> QED BY <1>1, <1>3, <2>1, <2>2, Zenon DEF Late, Streaming
<1>4. Conversation'
  BY <1>2, <1>3, Zenon DEF CInv, Conversation
<1>5. Silence'
  <2>1. pc # "down"
    BY Zenon DEF CInv, Silence
  <2>2. ASSUME pc \in {"down", "wait"}, ~broken
        PROVE  \/ \E k \in DOMAIN toApp' : toApp'[k].kind \in Leftover
               \/ \A k \in DOMAIN toApp' : toApp'[k].n = call
    <3>1. CASE toApp' = toApp
      BY <2>2, <3>1, Zenon DEF CInv, Silence
    <3>2. ASSUME NEW m \in Answers, toApp' = Append(toApp, m), ~open => m.n = call
          PROVE  \/ \E k \in DOMAIN toApp' : toApp'[k].kind \in Leftover
                 \/ \A k \in DOMAIN toApp' : toApp'[k].n = call
      <4>1. m.n = call
        BY <2>2, <3>2, Zenon DEF CInv, Silence, Talking
      <4>2. /\ \A k \in DOMAIN toApp' : toApp'[k] = m \/ \E j \in DOMAIN toApp : toApp'[k] = toApp[j]
            /\ \A j \in DOMAIN toApp : j \in DOMAIN toApp' /\ toApp'[j] = toApp[j]
        BY <1>1, <3>2
      <4>3. CASE \E k \in DOMAIN toApp : toApp[k].kind \in Leftover
        BY <4>2, <4>3, Zenon
      <4>4. CASE \A k \in DOMAIN toApp : toApp[k].n = call
        BY <4>1, <4>2, <4>4, Zenon
      <4> QED BY <2>2, <4>3, <4>4, Zenon DEF CInv, Silence
    <3> QED BY <3>1, <3>2, Zenon
  <2> QED BY <1>1, <1>2, <2>1, <2>2, Zenon DEF CInv, Silence
<1> QED BY <1>2, <1>4, <1>5, Zenon DEF CInv

(***************************************************************************)
(* The request the worker reads is the one the application waits on.       *)
(***************************************************************************)
LEMMA Heard ==
  ASSUME CInv, Normal, wpc = "idle", toWorker # <<>>, NEW q, q = Head(toWorker)
  PROVE  /\ toApp = <<>> /\ q.id = cur /\ q.n = call
         /\ q.cmd \notin {"STREAM_ACK", "blob", "QUIT"}
         /\ q.cmd # "REGISTER" => Tail(toWorker) = <<>>
         /\ q.cmd = "PING" => pc = "hello"
         /\ q.cmd = "DROP" => pc = "drop"
         /\ q.cmd = "PEAK_RSS" => pc = "query"
         /\ q.cmd = "PROFILE" => pc = "profile"
         /\ q.cmd \in {"RESTORE", "RESTORE_RANGE", "RESTORE_SHARED"} =>
              pc = "restore" /\ state[cur] = "sealed" /\ q.cmd = RestoreCommand /\ q.size = Length(cur)
         /\ q.cmd = "REGISTER" =>
              /\ pc = "validate" /\ state[cur] = "resident" /\ offset = 0 /\ equal
              /\ SubSeq(toWorker, 3, Len(toWorker)) = <<>>
<1>1. ASSUME NEW cmd, NEW size, toWorker = <<Msg(cmd, size)>>
      PROVE  q.cmd = cmd /\ q.size = size /\ q.id = cur /\ q.n = call /\ Tail(toWorker) = <<>>
  <2>1. q = Msg(cmd, size) /\ Tail(toWorker) = <<>>
    BY <1>1
  <2> QED BY <2>1 DEF Msg
<1>2. CASE Greets
  BY <1>1, <1>2 DEF Greets, Calm
<1>3. CASE Drops
  BY <1>1, <1>3 DEF Drops, Calm
<1>4. CASE Queries
  BY <1>1, <1>4 DEF Queries, Calm
<1>5. CASE Profiles
  BY <1>1, <1>5 DEF Profiles, Calm, At
<1>6. CASE Restores
  <2>1. pc = "restore" /\ state[cur] = "sealed" /\ toWorker = <<Msg(RestoreCommand, Length(cur))>> /\ toApp = <<>>
    BY <1>6, Zenon DEF Restores, Calm, At
  <2>2. RestoreCommand \in {"RESTORE", "RESTORE_RANGE", "RESTORE_SHARED"}
    BY Zenon DEF RestoreCommand
  <2> QED BY <1>1, <2>1, <2>2, Zenon
<1>7. CASE Registers
  <2>1. /\ pc = "validate" /\ state[cur] = "resident" /\ offset = 0 /\ equal /\ toApp = <<>>
        /\ \E size \in Sizes : toWorker = <<Msg("REGISTER", size), Msg("blob", size)>>
    BY <1>7, Zenon DEF Registers, Submits, Streams, Seals, Sends, Calm, At
  <2>2. PICK size \in Sizes : toWorker = <<Msg("REGISTER", size), Msg("blob", size)>>
    BY <2>1, Zenon
  <2>3. q = Msg("REGISTER", size)
    BY <2>2
  <2>4. SubSeq(toWorker, 3, Len(toWorker)) = <<>>
    BY <2>2
  <2>5. q.cmd = "REGISTER" /\ q.id = cur /\ q.n = call
    BY <2>3 DEF Msg
  <2> QED BY <2>1, <2>4, <2>5, Zenon
<1> QED BY <1>2, <1>3, <1>4, <1>5, <1>6, <1>7, Zenon DEF Normal, Rests, Calm

(* A step in which the worker writes an answer. *)
LEMMA SayKeeps ==
  ASSUME CInv, Types', wpc \notin {"gone", "profile"}, UNCHANGED <<app, mode, open>>, InFlight', Exact',
         NEW m \in Answers, NEW next, Say(m, next),
         open /\ Normal /\ toApp' = Append(toApp, m) /\ wpc' = next => Normal'
  PROVE  CInv'
<1>1. /\ open => toApp' = Append(toApp, m) /\ wpc' = next
      /\ ~open => toApp' = toApp
  BY Speaks, Zenon
<1>2. \/ toApp' = toApp
      \/ \E a \in Answers : toApp' = Append(toApp, a) /\ (~open => a.n = call)
  BY <1>1, Zenon
<1>3. open /\ Normal => Normal'
  BY <1>1, Zenon
<1> QED BY <1>2, <1>3, WorkKeeps, Zenon

(* The worker starts, or reports that it cannot and ends. *)
LEMMA WStartKeeps ==
  ASSUME CInv, WStart
  PROVE  CInv'
<1>1. /\ wpc = "start" /\ UNCHANGED <<app, mode, open, toWorker, job, store>>
      /\ pc' = pc /\ call' = call /\ cur' = cur
      /\ \/ wpc' = "idle" /\ toApp' = toApp
         \/ wpc' = "gone" /\ toApp' = Append(toApp, Header(1, 0, call))
  BY Zenon DEF WStart, app
<1>2. Types'
  BY WorkerTyped, Zenon DEF CInv, Work
<1>3. InFlight' /\ Exact'
  BY <1>1, WorkerAside, Zenon
<1>4. Header(1, 0, call) \in Answers /\ Header(1, 0, call).n = call
  BY HeaderTyped, Zenon DEF Header, CInv, Types, AppTypes
<1>5. ASSUME Normal PROVE Normal'
  <2>1. pc = "hello" /\ toWorker = <<Msg("PING", 0)>> /\ toApp = <<>>
    BY <1>1, <1>5, Zenon DEF Normal, Rests, Greets, Drops, Queries, Profiles, Restores, Registers, Submits, Streams,
       Seals, Sends, Calm, At
  <2>2. Msg("PING", 0)' = Msg("PING", 0) /\ Head0(1, 0)' = Header(1, 0, call)
    BY <1>1, Zenon DEF Msg, Head0
  <2>3. toApp' = toApp \/ toApp' = <<Header(1, 0, call)>>
    BY <1>1, <2>1
  <2> QED BY <1>1, <2>1, <2>2, <2>3, Zenon DEF Normal, Greets
<1> QED BY <1>1, <1>2, <1>3, <1>4, <1>5, WorkKeeps, Zenon

(* PING and PEAK_RSS are answered. *)
LEMMA WQueryKeeps ==
  ASSUME CInv, WQuery
  PROVE  CInv'
<1>1. PICK q \in Requests : q = Head(toWorker)
  BY SeqFacts DEF WQuery, Takes, CInv, Types, ChannelTypes
<1>2. /\ wpc = "idle" /\ toWorker # <<>> /\ toWorker' = Tail(toWorker) /\ q.cmd \in {"PING", "PEAK_RSS"}
      /\ Say(Header(0, 0, q.n), "idle") /\ UNCHANGED <<app, mode, open, job, store>>
      /\ pc' = pc /\ call' = call
  BY <1>1, Zenon DEF WQuery, Takes, app
<1>3. Types'
  BY WorkerTyped, Zenon DEF CInv, Work
<1>4. wpc' \notin {"replay", "ack"}
  BY <1>2, Zenon DEF Say
<1>5. InFlight' /\ Exact'
  BY <1>2, <1>4, WorkerAside, Zenon
<1>6. q.n \in Nat
  BY Zenon DEF Requests
<1>7. Header(0, 0, q.n) \in Answers
  BY <1>6, HeaderTyped, Zenon
<1>8. ASSUME Normal, toApp' = Append(toApp, Header(0, 0, q.n)), wpc' = "idle" PROVE Normal'
  <2>1. toApp = <<>> /\ q.n = call /\ Tail(toWorker) = <<>> /\ pc \in {"hello", "query"}
    BY <1>1, <1>2, <1>8, Heard, Zenon
  <2>2. toApp' = <<Head0(0, 0)'>>
    BY <1>2, <1>8, <2>1 DEF Head0
  <2> QED BY <1>2, <1>8, <2>1, <2>2, Zenon DEF Normal, Greets, Queries, Calm, At
<1> QED BY <1>2, <1>3, <1>5, <1>7, <1>8, SayKeeps, Zenon

(***************************************************************************)
(* The request at the head of the queue does not concern a sealed buffer   *)
(* if it changes the store.                                                *)
(***************************************************************************)
LEMMA FirstHarmless ==
  ASSUME CInv, toWorker # <<>>, NEW q, q = Head(toWorker)
  PROVE  q \in Requests /\ Harmless(q)
<1>1. toWorker \in Seq(Requests)
  BY Zenon DEF CInv, Types, ChannelTypes
<1>2. 1 \in DOMAIN toWorker /\ q = toWorker[1] /\ q \in Requests
  BY <1>1
<1> QED BY <1>2, Zenon DEF CInv, InFlight

(* DROP erases a recipe that no sealed buffer has. *)
LEMMA WDropKeeps ==
  ASSUME CInv, WDrop
  PROVE  CInv'
<1>1. PICK q : q = Head(toWorker)
  BY Zenon
<1>2. /\ wpc = "idle" /\ toWorker # <<>> /\ toWorker' = Tail(toWorker) /\ q.cmd = "DROP"
      /\ store' = [store EXCEPT ![q.id] = NoRecipe]
      /\ Say(Header(0, 0, q.n), "idle") /\ UNCHANGED <<app, mode, open, job>>
      /\ pc' = pc /\ call' = call /\ state' = state
  BY <1>1, Zenon DEF WDrop, Takes, app
<1>3. Types'
  BY WorkerTyped, Zenon DEF CInv, Work
<1>4. wpc' \notin {"replay", "ack"}
  BY <1>2, Zenon DEF Say
<1>5. q \in Requests /\ Harmless(q)
  BY <1>1, <1>2, FirstHarmless, Zenon
<1>6. q.n \in Nat /\ q.id \in Ids /\ state[q.id] # "sealed"
  BY <1>2, <1>5, Zenon DEF Requests, Harmless
<1>7. Exact'
  BY <1>2, <1>6, Zenon DEF CInv, Exact, Types, WorkerTypes
<1>8. InFlight'
  <2>1. toWorker \in Seq(Requests)
    BY Zenon DEF CInv, Types, ChannelTypes
  <2>2. \A k \in DOMAIN toWorker' : \E j \in DOMAIN toWorker : toWorker'[k] = toWorker[j]
    BY <1>2, <2>1
  <2> QED BY <1>2, <1>4, <2>2, Zenon DEF CInv, InFlight, Harmless
<1>9. Header(0, 0, q.n) \in Answers
  BY <1>6, HeaderTyped, Zenon
<1>10. ASSUME Normal, toApp' = Append(toApp, Header(0, 0, q.n)), wpc' = "idle" PROVE Normal'
  <2>1. toApp = <<>> /\ q.n = call /\ Tail(toWorker) = <<>> /\ pc = "drop"
    BY <1>1, <1>2, <1>10, Heard, Zenon
  <2>2. toApp' = <<Head0(0, 0)'>>
    BY <1>2, <1>10, <2>1 DEF Head0
  <2> QED BY <1>2, <1>10, <2>1, <2>2, Zenon DEF Normal, Drops, Calm, At
<1> QED BY <1>2, <1>3, <1>7, <1>8, <1>9, <1>10, SayKeeps, Zenon

(* REGISTER is refused, or its replay begins. *)
LEMMA WRegisterKeeps ==
  ASSUME CInv, WRegister
  PROVE  CInv'
<1>1. PICK q : q = Head(toWorker)
  BY Zenon
<1>2. /\ wpc = "idle" /\ toWorker # <<>> /\ toWorker' = SubSeq(toWorker, 3, Len(toWorker)) /\ q.cmd = "REGISTER"
      /\ UNCHANGED <<app, mode, open, store>>
      /\ UNCHANGED <<pc, call, cur, state, offset, equal>>
      /\ \/ Say(Header(1, 0, q.n), "idle")
         \/ /\ wpc' = "replay" /\ job' = q /\ sent' = 0 /\ native' = TRUE /\ exact' = TRUE
            /\ UNCHANGED toApp
  BY <1>1, Zenon DEF WRegister, Refuse, app
<1>3. Types'
  BY WorkerTyped, Zenon DEF CInv, Work
<1>4. q \in Requests /\ Harmless(q)
  BY <1>1, <1>2, FirstHarmless, Zenon
<1>5. q.n \in Nat /\ q.id \in Ids /\ state[q.id] # "sealed"
  BY <1>2, <1>4, Zenon DEF Requests, Harmless
<1>6. wpc' \in {"replay", "ack"} => state[job'.id] # "sealed"
  BY <1>2, <1>5, Zenon DEF Say
<1>7. InFlight' /\ Exact'
  BY <1>2, <1>6, WorkerAside, Zenon
<1>8. Header(1, 0, q.n) \in Answers
  BY <1>5, HeaderTyped, Zenon
<1>9. ASSUME Normal
      PROVE  /\ toApp = <<>> /\ q.n = call /\ q.id = cur /\ toWorker' = <<>> /\ pc = "validate"
             /\ state[cur] = "resident" /\ offset = 0
  BY <1>1, <1>2, <1>9, Heard, Zenon
<1>10. CASE Say(Header(1, 0, q.n), "idle")
  <2>1. ASSUME Normal, toApp' = Append(toApp, Header(1, 0, q.n)), wpc' = "idle" PROVE Normal'
    <3>1. toApp' = <<Head0(1, 0)'>>
      BY <1>2, <1>9, <2>1 DEF Head0
    <3> QED BY <1>2, <1>9, <2>1, <3>1, Zenon DEF Normal, Registers, Submits, Calm, At
  <2> QED BY <1>2, <1>3, <1>7, <1>8, <1>10, <2>1, SayKeeps, Zenon
<1>11. CASE /\ wpc' = "replay" /\ job' = q /\ sent' = 0 /\ native' = TRUE /\ exact' = TRUE
            /\ UNCHANGED toApp
  <2>1. ASSUME Normal PROVE Normal'
    <3>1. Calm("replay", <<>>, <<>>)' /\ Mine' /\ sent' = offset' /\ pc' = "validate" /\ state'[cur'] = "resident"
      BY <1>2, <1>9, <1>11, <2>1, Zenon DEF Calm, At, Mine
    <3>2. (Streams \/ Sends)'
      BY <1>11, <3>1, Zenon DEF Streams, Sends, Pass
    <3> QED BY <3>1, <3>2, Zenon DEF Normal, Registers
  <2> QED BY <1>2, <1>3, <1>7, <1>11, <2>1, WorkKeeps, Zenon
<1> QED BY <1>2, <1>10, <1>11, Zenon

(* A restore is refused, put into the window, or announced. *)
LEMMA WRestoreKeeps ==
  ASSUME CInv, WRestore
  PROVE  CInv'
<1>1. PICK q : q = Head(toWorker)
  BY Zenon
<1>2. /\ wpc = "idle" /\ toWorker # <<>> /\ toWorker' = Tail(toWorker)
      /\ q.cmd \in {"RESTORE", "RESTORE_RANGE", "RESTORE_SHARED"}
      /\ UNCHANGED <<app, mode, open, store>>
      /\ UNCHANGED <<pc, call, cur, state, sliced>>
      /\ \/ Say(Header(1, 0, q.n), "idle")
         \/ /\ job' = q
            /\ IF q.cmd = "RESTORE_SHARED"
                 THEN /\ window' = [of |-> q.id, right |-> store[q.id].exact]
                      /\ Say(Header(0, q.size, q.n), "idle")
                 ELSE Say(Header(0, q.size, q.n), "data")
  BY <1>1, Zenon DEF WRestore, Takes, Refuse, app
<1>3. Types'
  BY WorkerTyped, Zenon DEF CInv, Work
<1>4. q \in Requests
  BY <1>1, <1>2, FirstHarmless, Zenon
<1>5. q.n \in Nat /\ q.size \in Nat
  BY <1>4, Zenon DEF Requests
<1>6. wpc' \notin {"replay", "ack"}
  BY <1>2, Zenon DEF Say
<1>7. InFlight' /\ Exact'
  BY <1>2, <1>6, WorkerAside, Zenon
<1>8. Header(1, 0, q.n) \in Answers /\ Header(0, q.size, q.n) \in Answers
  BY <1>5, HeaderTyped, Zenon
<1>9. ASSUME Normal
      PROVE  /\ toApp = <<>> /\ q.n = call /\ q.id = cur /\ toWorker' = <<>> /\ pc = "restore"
             /\ state[cur] = "sealed" /\ q.cmd = RestoreCommand /\ q.size = Length(cur)
  BY <1>1, <1>2, <1>9, Heard, Zenon
<1>10. Length(cur)' = Length(cur) /\ InPlace' = InPlace
  BY <1>2, Zenon DEF Length, InPlace, Shared
<1>11. CASE Say(Header(1, 0, q.n), "idle")
  <2>1. ASSUME Normal, toApp' = Append(toApp, Header(1, 0, q.n)), wpc' = "idle" PROVE Normal'
    <3>1. toApp' = <<Head0(1, 0)'>>
      BY <1>2, <1>9, <2>1 DEF Head0
    <3> QED BY <1>2, <1>9, <2>1, <3>1, Zenon DEF Normal, Restores, Calm, At
  <2> QED BY <1>2, <1>3, <1>7, <1>8, <1>11, <2>1, SayKeeps, Zenon
<1>12. ASSUME Normal, toApp' = Append(toApp, Header(0, q.size, q.n))
       PROVE  toApp' = <<Head0(0, Length(cur))'>>
  <2>1. toApp' = <<Header(0, Length(cur), call)>>
    BY <1>9, <1>12
  <2>2. Head0(0, Length(cur))' = Header(0, Length(cur), call)
    BY <1>2, <1>10, Zenon DEF Head0
  <2> QED BY <2>1, <2>2, Zenon
<1>13. CASE /\ job' = q /\ q.cmd = "RESTORE_SHARED"
            /\ window' = [of |-> q.id, right |-> store[q.id].exact]
            /\ Say(Header(0, q.size, q.n), "idle")
  <2>1. ASSUME Normal, toApp' = Append(toApp, Header(0, q.size, q.n)), wpc' = "idle" PROVE Normal'
    <3>1. InPlace
      BY <1>9, <1>13, <2>1, Zenon DEF RestoreCommand, InPlace
    <3>2. Shown'
      <4>1. store[cur].exact = TRUE
        BY <1>9, <2>1, Zenon DEF CInv, Exact, Types, AppTypes, WorkerTypes
      <4> QED BY <1>2, <1>9, <1>13, <2>1, <4>1, Zenon DEF Shown
    <3>3. Calm("idle", <<>>, <<Head0(0, Length(cur))>>)'
      BY <1>9, <1>12, <2>1, Zenon DEF Calm, At
    <3> QED BY <1>2, <1>9, <1>10, <2>1, <3>1, <3>2, <3>3, Zenon DEF Normal, Restores
  <2> QED BY <1>2, <1>3, <1>7, <1>8, <1>13, <2>1, SayKeeps, Zenon
<1>14. CASE /\ job' = q /\ q.cmd # "RESTORE_SHARED"
            /\ Say(Header(0, q.size, q.n), "data")
  <2>1. ASSUME Normal, toApp' = Append(toApp, Header(0, q.size, q.n)), wpc' = "data" PROVE Normal'
    <3>1. ~InPlace
      BY <1>9, <1>14, <2>1, Zenon DEF RestoreCommand, InPlace
    <3>2. Mine'
      BY <1>2, <1>9, <1>14, <2>1, Zenon DEF Mine
    <3>3. Calm("data", <<>>, <<Head0(0, Length(cur))>>)'
      BY <1>9, <1>12, <2>1, Zenon DEF Calm, At
    <3> QED BY <1>2, <1>9, <1>10, <2>1, <3>1, <3>2, <3>3, Zenon DEF Normal, Restores
  <2> QED BY <1>2, <1>3, <1>7, <1>8, <1>14, <2>1, SayKeeps, Zenon
<1> QED BY <1>2, <1>11, <1>13, <1>14, Zenon

(***************************************************************************)
(* During a replay nothing is queued but a restart.                        *)
(***************************************************************************)
LEMMA Replaying ==
  ASSUME Normal, wpc = "replay"
  PROVE  /\ state[cur] = "resident" /\ pc = "validate" /\ toWorker = <<>> /\ Mine
         /\ \/ Streaming /\ toApp = <<>> /\ sent = offset /\ (equal => exact)
            \/ Streaming /\ toApp = <<Head0(2, 0)>> /\ sent = 0 /\ exact /\ ~native
            \/ ~Streaming /\ toApp = <<>>
<1>1. Registers
  BY Zenon DEF Normal, Rests, Greets, Drops, Queries, Profiles, Restores, Calm, At
<1>2. Streams \/ Sends
  BY <1>1, Zenon DEF Registers, Submits, Seals, Calm, At
<1>3. CASE Streams
  BY <1>1, <1>3, Zenon DEF Registers, Streams, Calm, At, Pass
<1>4. CASE Sends
  BY <1>1, <1>4, Zenon DEF Registers, Sends, Calm, At
<1> QED BY <1>2, <1>3, <1>4, Zenon

(* A window is published: it is right exactly when the pass stays exact. *)
LEMMA WPublishKeeps ==
  ASSUME CInv, NEW right \in BOOLEAN, WPublish(right)
  PROVE  CInv'
<1>1. /\ wpc = "replay" /\ Streaming
      /\ window' = [of |-> job.id, right |-> right] /\ sent' = sent + 1 /\ exact' = (exact /\ right)
      /\ Say(Header(0, 1, job.n), "ack")
      /\ UNCHANGED <<app, mode, open, toWorker, job, store>>
      /\ UNCHANGED <<pc, call, cur, state, offset, equal>>
  BY Zenon DEF WPublish, app
<1>2. Types'
  BY WorkerTyped, Zenon DEF CInv, Work
<1>3. state[job.id] # "sealed" /\ job.n \in Nat
  BY <1>1, Zenon DEF CInv, InFlight, Types, WorkerTypes, Requests
<1>4. InFlight' /\ Exact'
  BY <1>1, <1>3, WorkerAside, Zenon
<1>5. Header(0, 1, job.n) \in Answers
  BY <1>3, HeaderTyped, Zenon
<1>6. window'.of = job.id /\ window'.right = right
  BY <1>1, Zenon
<1>7. exact /\ right => exact'
  BY <1>1, Zenon
<1>8. ASSUME Normal, toApp' = Append(toApp, Header(0, 1, job.n)), wpc' = "ack" PROVE Normal'
  <2>1. state'[cur'] = "resident" /\ pc' = "validate" /\ toWorker' = <<>> /\ Mine /\ Mine' /\ Streaming'
    BY <1>1, <1>8, Replaying, Zenon DEF Mine, Streaming
  <2>2. Head0(0, 1)' = Header(0, 1, job.n) /\ Head0(2, 0)' = Head0(2, 0)
    BY <1>1, <2>1, Zenon DEF Head0, Mine
  <2>3. CASE toApp = <<>> /\ sent = offset /\ (equal => exact)
    <3>1. Calm("ack", <<>>, <<Head0(0, 1)>>)'
      BY <1>8, <2>1, <2>2, <2>3 DEF Calm, At
    <3>2. Pass(offset + 1)'
      BY <1>1, <2>1, <2>3, Zenon DEF Pass
    <3>3. Published'
      BY <1>1, <1>6, <1>7, <2>1, <2>3, Zenon DEF Published, Mine
    <3> QED BY <2>1, <3>1, <3>2, <3>3, Zenon DEF Normal, Registers, Streams
  <2>4. CASE toApp = <<Head0(2, 0)>> /\ sent = 0 /\ exact
    <3>1. toApp' = <<Head0(2, 0), Header(0, 1, job.n)>>
      BY <1>8, <2>4, AppendTwo, Zenon
    <3>2. Calm("ack", <<>>, <<Head0(2, 0), Head0(0, 1)>>)'
      BY <1>8, <2>1, <2>2, <3>1, Zenon DEF Calm, At
    <3>3. Pass(1)' /\ window'.of = cur' /\ (window'.right => exact')
      BY <1>1, <1>6, <1>7, <2>1, <2>4 DEF Pass, Mine
    <3> QED BY <2>1, <3>2, <3>3, Zenon DEF Normal, Registers, Streams
  <2> QED BY <1>1, <1>8, <2>3, <2>4, Replaying, Zenon
<1> QED BY <1>1, <1>2, <1>4, <1>5, <1>8, SayKeeps, Zenon

(***************************************************************************)
(* The acknowledgement that arrives is the one of the window that was      *)
(* published.                                                              *)
(***************************************************************************)
LEMMA WAckKeeps ==
  ASSUME CInv, WAck
  PROVE  CInv'
<1>1. PICK q : q = Head(toWorker)
  BY Zenon
<1>2. /\ wpc = "ack" /\ toWorker # <<>> /\ toWorker' = Tail(toWorker)
      /\ UNCHANGED <<app, mode, open, job, store>>
      /\ UNCHANGED <<pc, call, cur, state, offset, equal, sent, exact>>
      /\ IF q.cmd = "STREAM_ACK" /\ q.id = job.id /\ q.size = sent
           THEN wpc' = "replay" /\ toApp' = toApp
           ELSE Say(Header(1, 0, job.n), "idle")
  BY <1>1, Zenon DEF WAck, Refuse, app
<1>3. Types'
  BY WorkerTyped, Zenon DEF CInv, Work
<1>4. state[job.id] # "sealed" /\ job.n \in Nat
  BY <1>2, Zenon DEF CInv, InFlight, Types, WorkerTypes, Requests
<1>5. InFlight' /\ Exact'
  BY <1>2, <1>4, WorkerAside, Zenon
<1>6. Header(1, 0, job.n) \in Answers
  BY <1>4, HeaderTyped, Zenon
<1>7. ASSUME Normal
      PROVE  /\ state[cur] = "resident" /\ pc = "validate" /\ Pass(offset) /\ (equal => exact)
             /\ toWorker = <<Msg("STREAM_ACK", offset)>> /\ toApp = <<>>
  <2>1. Registers
    BY <1>2, <1>7, Zenon DEF Normal, Rests, Greets, Drops, Queries, Profiles, Restores, Calm, At
  <2>2. Streams
    BY <1>2, <2>1, Zenon DEF Registers, Submits, Seals, Sends, Calm, At
  <2> QED BY <1>2, <2>1, <2>2, Zenon DEF Registers, Streams, Calm
<1>8. ASSUME Normal
      PROVE  q.cmd = "STREAM_ACK" /\ q.id = job.id /\ q.size = sent /\ Tail(toWorker) = <<>>
  <2>1. toWorker = <<Msg("STREAM_ACK", offset)>>
    BY <1>7, <1>8, Zenon
  <2>2. q = Msg("STREAM_ACK", offset) /\ Tail(toWorker) = <<>>
    BY <1>1, <2>1
  <2> QED BY <1>7, <1>8, <2>2, Zenon DEF Msg, Pass, Mine
<1>9. CASE q.cmd = "STREAM_ACK" /\ q.id = job.id /\ q.size = sent
  <2>1. wpc' = "replay" /\ toApp' = toApp
    BY <1>2, <1>9, Zenon
  <2>2. ASSUME Normal PROVE Normal'
    <3>1. Calm("replay", <<>>, <<>>)' /\ Pass(offset)' /\ (equal' => exact')
      BY <1>2, <1>7, <1>8, <2>1, <2>2, Zenon DEF Calm, At, Pass, Mine, Streaming
    <3> QED BY <1>2, <1>7, <2>2, <3>1, Zenon DEF Normal, Registers, Streams
  <2> QED BY <1>2, <1>3, <1>5, <2>1, <2>2, WorkKeeps, Zenon
<1>10. CASE ~(q.cmd = "STREAM_ACK" /\ q.id = job.id /\ q.size = sent)
  BY <1>2, <1>3, <1>5, <1>6, <1>8, <1>10, SayKeeps, Zenon
<1> QED BY <1>9, <1>10, Zenon

(***************************************************************************)
(* The native replay fails: the recipe is refused, or the emulator begins  *)
(* again.                                                                  *)
(***************************************************************************)
LEMMA WFallbackKeeps ==
  ASSUME CInv, WFallback
  PROVE  CInv'
<1>1. /\ wpc = "replay" /\ native
      /\ \/ Say(Header(1, 0, job.n), "idle")
         \/ /\ native' = FALSE /\ sent' = 0 /\ exact' = TRUE
            /\ IF Streaming THEN Say(Header(2, 0, job.n), "replay") ELSE UNCHANGED <<toApp, wpc>>
      /\ UNCHANGED <<app, mode, open, toWorker, job, store>>
      /\ UNCHANGED <<pc, call, cur, state, offset, equal>>
  BY Zenon DEF WFallback, Refuse, app
<1>2. Types'
  BY WorkerTyped, Zenon DEF CInv, Work
<1>3. state[job.id] # "sealed" /\ job.n \in Nat
  BY <1>1, Zenon DEF CInv, InFlight, Types, WorkerTypes, Requests
<1>4. InFlight' /\ Exact'
  BY <1>1, <1>3, WorkerAside, Zenon
<1>5. Header(1, 0, job.n) \in Answers /\ Header(2, 0, job.n) \in Answers
  BY <1>3, HeaderTyped, Zenon
<1>6. ASSUME Normal
      PROVE  /\ state'[cur'] = "resident" /\ pc' = "validate" /\ toWorker' = <<>> /\ Mine' /\ toApp = <<>>
             /\ Head0(1, 0)' = Header(1, 0, job.n) /\ Head0(2, 0)' = Header(2, 0, job.n)
             /\ Streaming' = Streaming
  BY <1>1, <1>6, Replaying, Zenon DEF Mine, Head0, Streaming
<1>7. CASE Say(Header(1, 0, job.n), "idle")
  <2>1. ASSUME Normal, toApp' = Append(toApp, Header(1, 0, job.n)), wpc' = "idle" PROVE Normal'
    <3>1. Calm("idle", <<>>, <<Head0(1, 0)>>)'
      BY <1>6, <2>1 DEF Calm, At
    <3> QED BY <1>6, <2>1, <3>1, Zenon DEF Normal, Registers, Submits
  <2> QED BY <1>1, <1>2, <1>4, <1>5, <1>7, <2>1, SayKeeps, Zenon
<1>8. CASE native' = FALSE /\ sent' = 0 /\ exact' = TRUE /\ Streaming /\ Say(Header(2, 0, job.n), "replay")
  <2>1. ASSUME Normal, toApp' = Append(toApp, Header(2, 0, job.n)), wpc' = "replay" PROVE Normal'
    <3>1. Calm("replay", <<>>, <<Head0(2, 0)>>)' /\ Pass(0)'
      BY <1>6, <1>8, <2>1 DEF Calm, At, Pass
    <3> QED BY <1>6, <1>8, <2>1, <3>1, Zenon DEF Normal, Registers, Streams
  <2> QED BY <1>1, <1>2, <1>4, <1>5, <1>8, <2>1, SayKeeps, Zenon
<1>9. CASE ~Streaming /\ UNCHANGED <<toApp, wpc>>
  <2>1. ASSUME Normal PROVE Normal'
    <3>1. Calm("replay", <<>>, <<>>)'
      BY <1>1, <1>6, <1>9, <2>1, Zenon DEF Calm, At
    <3> QED BY <1>6, <1>9, <2>1, <3>1, Zenon DEF Normal, Registers, Sends
  <2> QED BY <1>1, <1>2, <1>4, <1>9, <2>1, WorkKeeps, Zenon
<1> QED BY <1>1, <1>7, <1>8, <1>9, Zenon

(***************************************************************************)
(* The recipe is kept, and it is exact if every window that was compared   *)
(* was equal.                                                              *)
(***************************************************************************)
LEMMA WCommitKeeps ==
  ASSUME CInv, NEW size \in Sizes, NEW slices \in BOOLEAN, NEW right \in BOOLEAN, WCommit(size, slices, right)
  PROVE  CInv'
<1>1. /\ wpc = "replay" /\ (Streaming => sent = Windows)
      /\ UNCHANGED <<app, mode, open, toWorker, job>>
      /\ UNCHANGED <<pc, call, cur, state, offset, equal>>
      /\ \/ Say(Header(1, 0, job.n), "idle") /\ UNCHANGED store
         \/ /\ store' = [store EXCEPT ![job.id] =
                           [size |-> size, exact |-> IF Streaming THEN exact ELSE right,
                            sliced |-> native /\ slices]]
            /\ Say(Header(0, IF Streaming THEN 0 ELSE Windows, job.n), "registration")
  BY Zenon DEF WCommit, Refuse, app
<1>2. Types'
  BY WorkerTyped, Zenon DEF CInv, Work
<1>3. state[job.id] # "sealed" /\ job.n \in Nat /\ job.id \in Ids /\ store \in [Ids -> [size : Nat, exact : BOOLEAN, sliced : BOOLEAN]]
  BY <1>1, Zenon DEF CInv, InFlight, Types, WorkerTypes, Requests
<1>4. \A i \in Ids : i # job.id => store'[i] = store[i]
  BY <1>1, <1>3, Zenon
<1>5. InFlight' /\ Exact'
  BY <1>1, <1>3, <1>4, Zenon DEF CInv, InFlight, Harmless, Exact
<1>6. /\ Header(1, 0, job.n) \in Answers /\ Header(0, 0, job.n) \in Answers
      /\ Header(0, Windows, job.n) \in Answers
  BY <1>3, HeaderTyped, ConstantsAssumption, Zenon
<1>7. ASSUME Normal
      PROVE  /\ state'[cur'] = "resident" /\ pc' = "validate" /\ toWorker' = <<>> /\ Mine /\ Mine' /\ toApp = <<>>
             /\ Head0(1, 0)' = Header(1, 0, job.n) /\ Head0(0, 0)' = Header(0, 0, job.n)
             /\ Head0(0, Windows)' = Header(0, Windows, job.n)
             /\ Streaming' = Streaming /\ (Streaming => sent = offset /\ (equal => exact))
  <2>1. Windows # 0
    BY ConstantsAssumption, Zenon
  <2> QED BY <1>1, <1>7, <2>1, Replaying, Zenon DEF Mine, Head0, Streaming
<1>8. CASE Say(Header(1, 0, job.n), "idle")
  <2>1. ASSUME Normal, toApp' = Append(toApp, Header(1, 0, job.n)), wpc' = "idle" PROVE Normal'
    <3>1. Calm("idle", <<>>, <<Head0(1, 0)>>)'
      BY <1>7, <2>1 DEF Calm, At
    <3> QED BY <1>7, <2>1, <3>1, Zenon DEF Normal, Registers, Submits
  <2> QED BY <1>1, <1>2, <1>5, <1>6, <1>8, <2>1, SayKeeps, Zenon
<1>9. CASE /\ Streaming /\ Say(Header(0, 0, job.n), "registration")
           /\ store' = [store EXCEPT ![job.id] = [size |-> size, exact |-> exact, sliced |-> native /\ slices]]
  <2>1. store'[job.id].exact = exact
    BY <1>3, <1>9, Zenon
  <2>2. ASSUME Normal, toApp' = Append(toApp, Header(0, 0, job.n)), wpc' = "registration" PROVE Normal'
    <3>1. Calm("registration", <<>>, <<Head0(0, 0)>>)'
      BY <1>7, <2>2 DEF Calm, At
    <3>2. equal' => store'[cur'].exact
      <4>1. equal' => exact
        BY <1>1, <1>7, <1>9, <2>2, Zenon
      <4>2. cur' = job.id
        BY <1>1, <1>7, <2>2, Zenon DEF Mine
      <4> QED BY <2>1, <4>1, <4>2, Zenon
    <3> QED BY <1>7, <1>9, <2>2, <3>1, <3>2, Zenon DEF Normal, Registers, Seals
  <2> QED BY <1>1, <1>2, <1>5, <1>6, <1>9, <2>2, SayKeeps, Zenon
<1>10. CASE ~Streaming /\ Say(Header(0, Windows, job.n), "registration")
  <2>1. ASSUME Normal, toApp' = Append(toApp, Header(0, Windows, job.n)), wpc' = "registration" PROVE Normal'
    <3>1. Calm("registration", <<>>, <<Head0(0, Windows)>>)'
      BY <1>7, <2>1 DEF Calm, At
    <3> QED BY <1>7, <1>10, <2>1, <3>1, Zenon DEF Normal, Registers, Sends
  <2> QED BY <1>1, <1>2, <1>5, <1>6, <1>10, <2>1, SayKeeps, Zenon
<1> QED BY <1>1, <1>8, <1>9, <1>10, Zenon

(* The registration follows its header. *)
LEMMA WRegistrationKeeps ==
  ASSUME CInv, WRegistration
  PROVE  CInv'
<1> DEFINE m == Extra("registration", TRUE, store[job.id].sliced, job.n)
           next == IF Streaming THEN "idle" ELSE "data"
<1>1. /\ wpc = "registration" /\ Say(m, next)
      /\ UNCHANGED <<app, mode, open, toWorker, job, store>>
      /\ UNCHANGED <<pc, call, cur, state, offset, equal>>
  BY Zenon DEF WRegistration, app
<1>2. Types'
  BY WorkerTyped, Zenon DEF CInv, Work
<1>3. wpc' \notin {"replay", "ack"}
  BY <1>1, Zenon DEF Say
<1>4. InFlight' /\ Exact'
  BY <1>1, <1>3, WorkerAside, Zenon
<1>5. m \in Answers
  <2>1. job.n \in Nat /\ store[job.id].sliced \in BOOLEAN
    BY Zenon DEF CInv, Types, WorkerTypes, Requests
  <2> QED BY <2>1, ExtraTyped, Zenon
<1>6. ASSUME Mine
      PROVE  m = Record /\ Record' = Record /\ Mine' /\ Streaming' = Streaming /\ (\A s, z : Head0(s, z)' = Head0(s, z))
  BY <1>1, <1>6, Zenon DEF Mine, Record, Head0, Streaming
<1> HIDE DEF m
<1>7. ASSUME Normal, toApp' = Append(toApp, m), wpc' = next PROVE Normal'
  <2>1. Registers
    BY <1>1, <1>7, Zenon DEF Normal, Rests, Greets, Drops, Queries, Profiles, Restores, Calm, At
  <2>2. state'[cur'] = "resident"
    BY <1>1, <2>1, Zenon DEF Registers
  <2>3. CASE Seals
    <3>1. Mine /\ toWorker = <<>> /\ Streaming
      BY <1>1, <2>3, Zenon DEF Seals, Calm, At
    <3>2. CASE pc = "validate" /\ toApp = <<Head0(0, 0)>>
      <4>1. toApp' = <<Head0(0, 0), m>>
        BY <1>7, <3>2, AppendTwo, Zenon
      <4>2. Calm("idle", <<>>, <<Head0(0, 0), Record>>)'
        BY <1>1, <1>6, <1>7, <3>1, <4>1, Zenon DEF Calm, At
      <4>3. Seals'
        BY <1>1, <1>6, <2>3, <3>1, <3>2, <4>2, Zenon DEF Seals
      <4> QED BY <2>2, <4>3, Zenon DEF Normal, Registers
    <3>3. CASE pc = "registration" /\ toApp = <<>>
      <4>1. Calm("idle", <<>>, <<Record>>)'
        BY <1>1, <1>6, <1>7, <3>1, <3>3 DEF Calm, At
      <4>2. Seals'
        BY <1>1, <1>6, <2>3, <3>1, <3>3, <4>1, Zenon DEF Seals
      <4> QED BY <2>2, <4>2, Zenon DEF Normal, Registers
    <3> QED BY <1>1, <2>3, <3>2, <3>3, Zenon DEF Seals, Calm, At
  <2>4. CASE Sends
    <3>1. Mine /\ toWorker = <<>> /\ ~Streaming
      BY <1>1, <2>4, Zenon DEF Sends, Calm, At
    <3>2. CASE pc = "validate" /\ toApp = <<Head0(0, Windows)>>
      <4>1. toApp' = <<Head0(0, Windows), m>>
        BY <1>7, <3>2, AppendTwo, Zenon
      <4>2. Calm("data", <<>>, <<Head0(0, Windows), Record>>)'
        BY <1>1, <1>6, <1>7, <3>1, <4>1, Zenon DEF Calm, At
      <4>3. Sends'
        BY <1>1, <1>6, <3>1, <3>2, <4>2 DEF Sends
      <4> QED BY <2>2, <4>3, Zenon DEF Normal, Registers
    <3>3. CASE pc = "registration" /\ toApp = <<>>
      <4>1. Calm("data", <<>>, <<Record>>)'
        BY <1>1, <1>6, <1>7, <3>1, <3>3 DEF Calm, At
      <4>2. Sends'
        BY <1>1, <1>6, <3>1, <3>3, <4>1 DEF Sends
      <4> QED BY <2>2, <4>2, Zenon DEF Normal, Registers
    <3> QED BY <1>1, <2>4, <3>2, <3>3, Zenon DEF Sends, Calm, At
  <2> QED BY <1>1, <2>1, <2>3, <2>4, Zenon DEF Registers, Submits, Streams, Calm, At
<1> HIDE DEF next
<1> QED BY <1>1, <1>2, <1>4, <1>5, <1>7, SayKeeps, Zenon

(* The bytes follow their header, or the registration. *)
LEMMA WDataKeeps ==
  ASSUME CInv, WData
  PROVE  CInv'
<1> DEFINE m == Extra("data", store[job.id].exact, FALSE, job.n)
<1>1. /\ wpc = "data" /\ Say(m, "idle")
      /\ UNCHANGED <<app, mode, open, toWorker, job, store>>
      /\ UNCHANGED <<pc, call, cur, state, sliced>>
  BY Zenon DEF WData, app
<1>2. Types'
  BY WorkerTyped, Zenon DEF CInv, Work
<1>3. wpc' \notin {"replay", "ack"}
  BY <1>1, Zenon DEF Say
<1>4. InFlight' /\ Exact'
  BY <1>1, <1>3, WorkerAside, Zenon
<1>5. m \in Answers
  <2>1. job.n \in Nat /\ store[job.id].exact \in BOOLEAN
    BY Zenon DEF CInv, Types, WorkerTypes, Requests
  <2> QED BY <2>1, ExtraTyped, Zenon
<1>6. ASSUME Mine
      PROVE  /\ m = Bytes /\ Bytes' = Bytes /\ Record' = Record /\ Streaming' = Streaming /\ InPlace' = InPlace
             /\ Length(cur)' = Length(cur)
             /\ \A s, z : Head0(s, z)' = Head0(s, z)
  BY <1>1, <1>6, Zenon DEF Mine, Bytes, Record, Head0, Streaming, InPlace, Shared, Length
<1> HIDE DEF m
<1>7. ASSUME Normal, toApp' = Append(toApp, m), wpc' = "idle" PROVE Normal'
  <2>1. Restores \/ (Registers /\ Sends)
    BY <1>1, <1>7, Zenon DEF Normal, Rests, Greets, Drops, Queries, Profiles, Registers, Submits, Streams, Seals, Calm, At
  <2>2. Mine /\ toWorker = <<>>
    BY <1>1, <2>1, Zenon DEF Restores, Sends, Calm, At
  <2>3. CASE Restores
    <3>1. state'[cur'] = "sealed"
      BY <1>1, <2>3, Zenon DEF Restores
    <3>2. CASE pc = "restore" /\ toApp = <<Head0(0, Length(cur))>> /\ ~InPlace
      <4>1. toApp' = <<Head0(0, Length(cur)), m>>
        BY <1>7, <3>2, AppendTwo, Zenon
      <4>2. Head0(0, Length(cur))' = Head0(0, Length(cur))
        BY <1>1, <1>6, <2>2, Zenon DEF Head0
      <4>3. Calm("idle", <<>>, <<Head0(0, Length(cur)), Bytes>>)'
        BY <1>1, <1>6, <1>7, <2>2, <4>1, <4>2, Zenon DEF Calm, At
      <4> QED BY <1>1, <1>6, <2>2, <3>1, <3>2, <4>3, Zenon DEF Normal, Restores
    <3>3. CASE pc = "payload" /\ toApp = <<>>
      <4>1. Calm("idle", <<>>, <<Bytes>>)'
        BY <1>1, <1>6, <1>7, <2>2, <3>3 DEF Calm, At
      <4> QED BY <1>1, <3>1, <3>3, <4>1, Zenon DEF Normal, Restores
    <3> QED BY <1>1, <2>3, <3>2, <3>3, Zenon DEF Restores, Calm, At
  <2>4. CASE Registers /\ Sends
    <3>1. state'[cur'] = "resident" /\ ~Streaming /\ ~Streaming'
      BY <1>1, <1>6, <2>2, <2>4 DEF Registers, Sends
    <3>2. CASE pc = "validate" /\ toApp = <<Head0(0, Windows), Record>>
      <4>1. toApp' = <<Head0(0, Windows), Record, m>>
        BY <1>7, <3>2, AppendThree, Zenon
      <4>2. Calm("idle", <<>>, <<Head0(0, Windows), Record, Bytes>>)'
        BY <1>1, <1>6, <1>7, <2>2, <4>1, Zenon DEF Calm, At
      <4> QED BY <1>1, <3>1, <3>2, <4>2, Zenon DEF Normal, Registers, Sends
    <3>3. CASE pc = "registration" /\ toApp = <<Record>>
      <4>1. toApp' = <<Record, m>>
        BY <1>7, <3>3, AppendTwo, Zenon
      <4>2. Calm("idle", <<>>, <<Record, Bytes>>)'
        BY <1>1, <1>6, <1>7, <2>2, <4>1, Zenon DEF Calm, At
      <4> QED BY <1>1, <3>1, <3>3, <4>2, Zenon DEF Normal, Registers, Sends
    <3>4. CASE pc = "output" /\ toApp = <<>>
      <4>1. Calm("idle", <<>>, <<Bytes>>)'
        BY <1>1, <1>6, <1>7, <2>2, <3>4 DEF Calm, At
      <4> QED BY <1>1, <3>1, <3>4, <4>1, Zenon DEF Normal, Registers, Sends
    <3> QED BY <1>1, <2>4, <3>2, <3>3, <3>4, Zenon DEF Sends, Calm, At
  <2> QED BY <2>1, <2>3, <2>4, Zenon
<1> QED BY <1>1, <1>2, <1>4, <1>5, <1>7, SayKeeps, Zenon

(***************************************************************************)
(* PROFILE is answered with a header, then with the profile, in time or    *)
(* late.                                                                   *)
(***************************************************************************)
LEMMA WProfileKeeps ==
  ASSUME CInv, WProfile
  PROVE  CInv'
<1>1. Types'
  BY WorkerTyped, Zenon DEF CInv, Work
<1>2. UNCHANGED <<app, mode, open, store>> /\ UNCHANGED <<pc, call, cur, state, offset, equal>>
  BY Zenon DEF WProfile, app
<1>3. ASSUME Takes({"PROFILE"}), job' = Head(toWorker), Say(Header(0, 1, Head(toWorker).n), "profile")
      PROVE  CInv'
  <2>1. PICK q : q = Head(toWorker)
    BY Zenon
  <2>2. /\ wpc = "idle" /\ toWorker # <<>> /\ toWorker' = Tail(toWorker) /\ q.cmd = "PROFILE"
        /\ Say(Header(0, 1, q.n), "profile")
    BY <1>3, <2>1, Zenon DEF Takes
  <2>3. wpc' \notin {"replay", "ack"}
    BY <2>2, Zenon DEF Say
  <2>4. InFlight' /\ Exact'
    BY <1>2, <2>2, <2>3, WorkerAside, Zenon
  <2>5. q \in Requests
    BY <2>1, <2>2, FirstHarmless, Zenon
  <2>6. q.n \in Nat
    BY <2>5, Zenon DEF Requests
  <2>7. Header(0, 1, q.n) \in Answers
    BY <2>6, HeaderTyped, Zenon
  <2>8. ASSUME Normal, toApp' = Append(toApp, Header(0, 1, q.n)), wpc' = "profile" PROVE Normal'
    <3>1. toApp = <<>> /\ q.n = call /\ Tail(toWorker) = <<>> /\ pc = "profile"
      BY <2>1, <2>2, <2>8, Heard, Zenon
    <3>2. toApp' = <<Head0(0, 1)'>>
      BY <1>2, <2>8, <3>1 DEF Head0
    <3>3. Calm("profile", <<>>, <<Head0(0, 1)>>)'
      BY <2>2, <2>8, <3>1, <3>2, Zenon DEF Calm, At
    <3>4. job'.n = call'
      BY <1>2, <1>3, <2>1, <3>1, Zenon
    <3> QED BY <1>2, <3>1, <3>3, <3>4, Zenon DEF Normal, Profiles
  <2> QED BY <1>1, <1>2, <2>2, <2>4, <2>7, <2>8, SayKeeps, Zenon
<1>4. ASSUME wpc = "profile", Say(Extra("profile", TRUE, FALSE, job.n), "idle"), UNCHANGED <<toWorker, job>>
      PROVE  CInv'
  <2> DEFINE m == Extra("profile", TRUE, FALSE, job.n)
  <2>1. wpc' \notin {"replay", "ack"}
    BY <1>4, Zenon DEF Say
  <2>2. InFlight' /\ Exact'
    BY <1>2, <1>4, <2>1, WorkerAside, Zenon
  <2>3. m \in Answers /\ m.kind = "profile" /\ toApp \in Seq(Answers)
    <3>1. job.n \in Nat
      BY Zenon DEF CInv, Types, WorkerTypes, Requests
    <3> QED BY <3>1, ExtraTyped, Zenon DEF Extra, CInv, Types, ChannelTypes
  <2>4. /\ open => toApp' = Append(toApp, m) /\ wpc' = "idle"
        /\ ~open => toApp' = toApp /\ wpc' = "gone"
    BY <1>4, Speaks, Zenon
  <2> HIDE DEF m
  <2>5. ASSUME Late PROVE Late'
    <3>1. CASE open
      <4>1. toApp' # <<>>
        BY <2>3, <2>4, <3>1
      <4>2. Head(toApp') = IF toApp = <<>> THEN m ELSE Head(toApp)
        BY <2>3, <2>4, <3>1
      <4>3. Head(toApp').kind \in Leftover
        BY <2>3, <2>5, <4>2, Zenon DEF Late, Leftover
      <4> QED BY <1>2, <2>5, <4>1, <4>3, Zenon DEF Late, Streaming
    <3>2. CASE ~open
      BY <1>2, <1>4, <2>4, <2>5, <3>2, Zenon DEF Late, At, Streaming
    <3> QED BY <3>1, <3>2, Zenon
  <2>6. ASSUME open, Normal PROVE Normal'
    <3>1. Profiles
      BY <1>4, <2>6, Zenon DEF Normal, Rests, Greets, Drops, Queries, Restores, Registers, Submits, Streams, Seals, Sends,
         Calm, At
    <3>2. /\ toWorker = <<>> /\ job.n = call
          /\ (pc = "profile" /\ toApp = <<Head0(0, 1)>>) \/ (pc = "profile_data" /\ toApp = <<>>)
      BY <1>4, <3>1, Zenon DEF Profiles, Calm, At
    <3>3. Profile' = m /\ Head0(0, 1)' = Head0(0, 1)
      BY <1>2, <3>2, Zenon DEF Profile, Head0, m
    <3>4. CASE pc = "profile" /\ toApp = <<Head0(0, 1)>>
      <4>1. toApp' = <<Head0(0, 1), m>>
        BY <2>4, <2>6, <3>4, AppendTwo, Zenon
      <4>2. Calm("idle", <<>>, <<Head0(0, 1), Profile>>)'
        BY <1>4, <2>4, <2>6, <3>2, <3>3, <4>1, Zenon DEF Calm, At
      <4> QED BY <1>2, <3>4, <4>2, Zenon DEF Normal, Profiles
    <3>5. CASE pc = "profile_data" /\ toApp = <<>>
      <4>1. toApp' = <<m>>
        BY <2>4, <2>6, <3>5
      <4>2. Calm("idle", <<>>, <<Profile>>)'
        BY <1>4, <2>4, <2>6, <3>2, <3>3, <4>1, Zenon DEF Calm, At
      <4> QED BY <1>2, <3>5, <4>2, Zenon DEF Normal, Profiles
    <3> QED BY <3>2, <3>4, <3>5, Zenon
  <2> QED BY <1>1, <1>2, <1>4, <2>2, <2>3, <2>4, <2>5, <2>6, WorkKeeps, Zenon
<1> QED BY <1>3, <1>4, Zenon DEF WProfile

(***************************************************************************)
(* QUIT, and a request the worker does not know, never come while the      *)
(* application waits.                                                      *)
(***************************************************************************)
LEMMA WQuitKeeps ==
  ASSUME CInv, WQuit \/ WUnknown
  PROVE  CInv'
<1>1. PICK q : q = Head(toWorker)
  BY Zenon
<1>2. /\ wpc = "idle" /\ toWorker # <<>> /\ toWorker' = Tail(toWorker) /\ q.cmd \in {"QUIT", "STREAM_ACK", "blob"}
      /\ UNCHANGED <<app, mode, open, job, store>> /\ wpc' = "gone"
      /\ toApp' = toApp \/ (open /\ toApp' = Append(toApp, Header(1, 0, q.n)))
  BY <1>1, Zenon DEF WQuit, WUnknown, Takes, Say
<1>3. Types'
  BY WorkerTyped, Zenon DEF CInv, Work
<1>4. InFlight' /\ Exact'
  BY <1>2, WorkerAside, Zenon
<1>5. q \in Requests
  BY <1>1, <1>2, FirstHarmless, Zenon
<1>6. q.n \in Nat
  BY <1>5, Zenon DEF Requests
<1>7. Header(1, 0, q.n) \in Answers
  BY <1>6, HeaderTyped, Zenon
<1>8. ~Normal
  BY <1>1, <1>2, Heard, Zenon
<1> QED BY <1>2, <1>3, <1>4, <1>7, <1>8, WorkKeeps, Zenon

(***************************************************************************)
(* The worker may die at any point of a conversation.                      *)
(***************************************************************************)
LEMMA Still ==
  ASSUME Normal \/ Late, wpc' \in {wpc, "gone"},
         UNCHANGED <<pc, cur, offset, equal, state, sliced, call, mode, toWorker, toApp, window, job, sent, native,
                     exact, store>>
  PROVE  (Normal => Normal') /\ (Late => Late')
<1>1. /\ \A w : At(w) => At(w)'
      /\ \A c, z : Msg(c, z)' = Msg(c, z)
      /\ \A s, z : Head0(s, z)' = Head0(s, z)
      /\ Record' = Record /\ Bytes' = Bytes /\ Profile' = Profile /\ Mine' = Mine
      /\ Streaming' = Streaming /\ InPlace' = InPlace /\ Shown' = Shown /\ Length(cur)' = Length(cur)
      /\ RestoreCommand' = RestoreCommand /\ Published' = Published /\ \A n : Pass(n)' = Pass(n)
  BY Zenon DEF At, Msg, Head0, Record, Bytes, Profile, Mine, Streaming, InPlace, Shared, Shown, Length,
     RestoreCommand, Published, Pass
<1>2. ASSUME Late PROVE Late'
  BY <1>1, <1>2, Zenon DEF Late
<1>3. ASSUME Normal PROVE Normal'
  <2>1. ASSUME Rests PROVE Rests'
    BY <1>1, <2>1, Zenon DEF Rests, Calm
  <2>2. ASSUME Greets PROVE Greets'
    BY <1>1, <2>2, Zenon DEF Greets, Calm
  <2>3. ASSUME Drops PROVE Drops'
    BY <1>1, <2>3, Zenon DEF Drops, Calm
  <2>4. ASSUME Queries PROVE Queries'
    BY <1>1, <2>4, Zenon DEF Queries, Calm
  <2>5. ASSUME Profiles PROVE Profiles'
    BY <1>1, <2>5, Zenon DEF Profiles, Calm
  <2>6. ASSUME Restores PROVE Restores'
    BY <1>1, <2>6, Zenon DEF Restores, Calm
  <2>7. ASSUME Submits PROVE Submits'
    BY <1>1, <2>7, Zenon DEF Submits, Calm
  <2>8. ASSUME Streams PROVE Streams'
    BY <1>1, <2>8, Zenon DEF Streams, Calm
  <2>9. ASSUME Seals PROVE Seals'
    BY <1>1, <2>9, Zenon DEF Seals, Calm
  <2>10. ASSUME Sends PROVE Sends'
    BY <1>1, <2>10, Zenon DEF Sends, Calm
  <2> QED BY <1>3, <2>1, <2>2, <2>3, <2>4, <2>5, <2>6, <2>7, <2>8, <2>9, <2>10, Zenon DEF Normal, Registers
<1> QED BY <1>2, <1>3, Zenon

(* The worker reads the end of the stream, or is killed. *)
LEMMA WDiesKeeps ==
  ASSUME CInv, WEof \/ WDies
  PROVE  CInv'
<1>1. /\ wpc # "gone" /\ wpc' = "gone"
      /\ UNCHANGED <<app, mode, open, toWorker, toApp, window, job, sent, native, exact, store>>
      /\ UNCHANGED <<pc, cur, offset, equal, state, sliced, call>>
  BY Zenon DEF WEof, WDies, app, channel
<1>2. Types'
  BY WorkerTyped, Zenon DEF CInv, Work
<1>3. InFlight' /\ Exact'
  BY <1>1, WorkerAside, Zenon
<1>4. (Normal => Normal') /\ (Late => Late')
  BY <1>1, Still, Zenon
<1> QED BY <1>1, <1>2, <1>3, <1>4, WorkKeeps, Zenon

-----------------------------------------------------------------------------

(* Before af_init there is no conversation. *)
LEMMA Starting ==
  ASSUME Init
  PROVE  CInv
<1>1. Types
  <2>1. AppTypes
    BY Zenon DEF Init, AppTypes
  <2>2. toWorker \in Seq(Requests) /\ toApp \in Seq(Answers)
    BY DEF Init
  <2>3. job \in Requests /\ store \in [Ids -> [size : Nat, exact : BOOLEAN, sliced : BOOLEAN]]
    BY Zenon DEF Init, Requests, Commands, NoRecipe
  <2>4. WorkerTypes
    BY <2>3, Zenon DEF Init, WorkerTypes
  <2> QED BY <2>1, <2>2, <2>4, Zenon DEF Types, ChannelTypes
<1>2. Conversation /\ Silence
  BY DEF Init, Conversation, Silence, Talking
<1>3. InFlight /\ Exact /\ RestoredIsOriginal
  BY DEF Init, InFlight, Exact, RestoredIsOriginal
<1> QED BY <1>1, <1>2, <1>3, Zenon DEF CInv

(* A step that changes nothing. *)
LEMMA Stuttering ==
  ASSUME CInv, UNCHANGED vars
  PROVE  CInv'
<1>1. UNCHANGED <<pc, cur, offset, equal, state, sliced, view, broken, call, mode, open, toWorker, toApp, window,
                  wpc, job, sent, native, exact, store, bytes>>
  BY Zenon DEF vars, app, channel, worker
<1>2. Types' /\ Silence' /\ InFlight' /\ Exact' /\ RestoredIsOriginal'
  BY <1>1 DEF CInv, Types, AppTypes, ChannelTypes, WorkerTypes, Silence, Talking, InFlight, Harmless, Exact,
     RestoredIsOriginal
<1>3. (Normal => Normal') /\ (Late => Late')
  BY <1>1, Still, Zenon
<1>4. Conversation'
  BY <1>1, <1>3, Zenon DEF CInv, Conversation, Talking
<1> QED BY <1>2, <1>4, Zenon DEF CInv

(***************************************************************************)
(* Every reachable state has a conversation of one of the shapes above.    *)
(***************************************************************************)
THEOREM ConversationKept == Spec => []CInv
<1>1. Init => CInv
  BY Starting, Zenon
<1>2. CInv /\ [Next]_vars => CInv'
  <2> SUFFICES ASSUME CInv, [Next]_vars PROVE CInv'
    BY Zenon
  <2>1. CASE Begin \/ Continue \/ AppEnds
    BY <2>1, AppKeeps, Zenon
  <2>2. CASE Work
    BY <2>2, WStartKeeps, WRegisterKeeps, WAckKeeps, WFallbackKeeps, WPublishKeeps, WCommitKeeps,
       WRegistrationKeeps, WDataKeeps, WDropKeeps, WRestoreKeeps, WQueryKeeps, WProfileKeeps, WQuitKeeps,
       WDiesKeeps, Zenon DEF Work
  <2>3. CASE WDies
    BY <2>3, WDiesKeeps, Zenon
  <2>4. CASE Rest \/ UNCHANGED vars
    BY <2>4, Stuttering, Zenon DEF Rest
  <2> QED BY <2>1, <2>2, <2>3, <2>4, Zenon DEF Next
<1> QED BY <1>1, <1>2, PTL DEF Spec

(***************************************************************************)
(* submit seals a buffer only when the worker's recipe reproduces it, and  *)
(* the worker keeps that recipe: through restarts of the replay, refused   *)
(* recipes, calls that time out and a profile that is left unread.         *)
(***************************************************************************)
THEOREM SealedStaysExact == Spec => []SealedIsExact
<1>1. CInv => SealedIsExact
  BY Zenon DEF CInv, Exact, SealedIsExact
<1> QED BY <1>1, ConversationKept, PTL

(***************************************************************************)
(* A call of restore_span that returns gave back the evicted bytes; when a *)
(* worker died, was late, or left a profile in the socket it does not      *)
(* return.                                                                 *)
(***************************************************************************)
THEOREM RestoreIsFaithful == Spec => []RestoredIsOriginal
<1>1. CInv => RestoredIsOriginal
  BY Zenon DEF CInv
<1> QED BY <1>1, ConversationKept, PTL

(***************************************************************************)
(* The answers the application reads are those of its call in progress,    *)
(* and nothing is in the socket between calls, unless a profile was left   *)
(* unread by af_get_worker_profile.                                        *)
(***************************************************************************)
THEOREM CallsStayPaired == Spec => []InStep
<1>1. CInv => InStep
  <2> SUFFICES ASSUME CInv, ~broken, ~Skewed, pc # "stopped"
               PROVE  /\ \A k \in DOMAIN toApp : toApp[k].n = call
                      /\ pc = "idle" => toApp = <<>> /\ toWorker = <<>>
    BY Zenon DEF InStep
  <2>1. CASE pc \in {"down", "wait"}
    BY <2>1, Zenon DEF CInv, Silence, Skewed
  <2>2. CASE Late /\ pc \notin {"down", "wait"}
    <3>1. toApp = <<>>
      <4>1. ASSUME toApp # <<>> PROVE FALSE
        <5>1. toApp \in Seq(Answers)
          BY Zenon DEF CInv, Types, ChannelTypes
        <5>2. 1 \in DOMAIN toApp /\ toApp[1] = Head(toApp)
          BY <4>1, <5>1
        <5> QED BY <2>2, <4>1, <5>2, Zenon DEF Late, Skewed
      <4> QED BY <4>1, Zenon
    <3> QED BY <2>2, <3>1 DEF Late
  <2>3. CASE Normal /\ pc \notin {"down", "wait"}
    <3>1. /\ \A s, z : Head0(s, z).n = call
          /\ Record.n = call /\ Bytes.n = call /\ Profile.n = call
      BY Zenon DEF Head0, Header, Record, Bytes, Profile, Extra
    <3>2. pc = "idle" => toApp = <<>> /\ toWorker = <<>>
      BY <2>3, Zenon DEF Normal, Rests, Greets, Drops, Queries, Profiles, Restores, Registers, Submits, Streams, Seals,
         Sends, Calm
    <3>3. \/ toApp = <<>>
          \/ \E a : toApp = <<a>> /\ a.n = call
          \/ \E a, b : toApp = <<a, b>> /\ a.n = call /\ b.n = call
          \/ \E a, b, c : toApp = <<a, b, c>> /\ a.n = call /\ b.n = call /\ c.n = call
      <4>1. CASE Rests \/ Greets \/ Drops \/ Queries
        BY <3>1, <4>1, Zenon DEF Rests, Greets, Drops, Queries, Calm
      <4>2. CASE Profiles
        BY <3>1, <4>2, Zenon DEF Profiles, Calm
      <4>3. CASE Restores
        BY <3>1, <4>3, Zenon DEF Restores, Calm
      <4>4. CASE Submits
        BY <3>1, <4>4 DEF Submits, Calm
      <4>5. CASE Streams
        BY <3>1, <4>5 DEF Streams, Calm
      <4>6. CASE Seals
        BY <3>1, <4>6, Zenon DEF Seals, Calm
      <4>7. CASE Sends
        BY <3>1, <4>7, Zenon DEF Sends, Calm
      <4> QED BY <2>3, <4>1, <4>2, <4>3, <4>4, <4>5, <4>6, <4>7, Zenon DEF Normal, Registers
    <3>4. \A k \in DOMAIN toApp : toApp[k].n = call
      BY <3>3
    <3> QED BY <3>2, <3>4, Zenon
  <2> QED BY <2>1, <2>2, <2>3, Zenon DEF CInv, Conversation, Talking
<1> QED BY <1>1, ConversationKept, PTL

(***************************************************************************)
(* The application and a living worker never wait for each other: when a   *)
(* call waits for an answer and the socket to it is empty, the worker has  *)
(* a request or an ack to read, or is at work on one and will write.  A    *)
(* read of runtime.cpp times out because the worker is slow or dead, never *)
(* because each side expects the other to write.                           *)
(***************************************************************************)
NoStandoff ==
  wpc # "gone" /\ Expects # "nothing" /\ toApp = <<>> => toWorker # <<>> \/ wpc \notin {"idle", "ack"}

(***************************************************************************)
(* No order of answers, acks, restarts of a replay and late profiles lets  *)
(* request of runtime.cpp and the loop of worker.cpp both read from an     *)
(* empty socket in the middle of a call.                                   *)
(***************************************************************************)
THEOREM NeverBothWait == Spec => []NoStandoff
<1>1. CInv => NoStandoff
  <2> SUFFICES ASSUME CInv, wpc # "gone", Expects # "nothing", toApp = <<>>, toWorker = <<>>,
                      wpc \in {"idle", "ack"}
               PROVE  FALSE
    BY Zenon DEF NoStandoff
  <2>1. pc \notin {"idle", "down", "wait", "stopped", "compare", "copy"}
    BY DEF Expects
  <2>2. Normal \/ Late
    BY <2>1, Zenon DEF CInv, Silence, Conversation, Talking
  <2>3. \A a, b, c : <<a>> # <<>> /\ <<a, b>> # <<>> /\ <<a, b, c>> # <<>>
    OBVIOUS
  <2>4. ~Late
    BY Zenon DEF Late, At
  <2>5. ~Rests /\ ~Greets /\ ~Drops /\ ~Queries
    BY <2>1, <2>3, Zenon DEF Rests, Greets, Drops, Queries, Calm
  <2>6. ~Profiles
    BY <2>3, Zenon DEF Profiles, Calm, At
  <2>7. ~Restores
    BY <2>1, <2>3, Zenon DEF Restores, Calm, At
  <2>8. ~Submits
    BY <2>3, Zenon DEF Submits, Calm
  <2>9. ~Streams
    BY <2>1, <2>3, Zenon DEF Streams, Calm, At
  <2>10. ~Seals
    BY <2>3, Zenon DEF Seals, Calm, At
  <2>11. ~Sends
    BY <2>3, Zenon DEF Sends, Calm, At
  <2> QED BY <2>2, <2>4, <2>5, <2>6, <2>7, <2>8, <2>9, <2>10, <2>11, Zenon DEF Normal, Registers
<1> QED BY <1>1, ConversationKept, PTL

(***************************************************************************)
(* The worker does not write the shared window while the application       *)
(* compares or copies it.                                                  *)
(***************************************************************************)
THEOREM WindowIsHeld == Spec => WindowHeld
<1>1. CInv /\ [Next]_vars => [(pc \in {"compare", "copy"} => window' = window)]_vars
  <2> SUFFICES ASSUME CInv, Next, pc \in {"compare", "copy"}
               PROVE  window' = window
    BY Zenon
  <2>1. Normal
    BY Zenon DEF CInv, Silence, Conversation, Talking, Late
  <2>2. wpc # "replay" /\ (wpc = "idle" => toWorker = <<>>)
    BY <2>1, Zenon DEF Normal, Rests, Greets, Drops, Queries, Profiles, Restores, Registers, Submits, Streams, Seals,
       Sends, Calm, At
  <2>3. CASE Begin \/ Continue \/ AppEnds
    BY <2>3, Zenon DEF Begin, Continue, AppEnds, AfInit, AfShutdown, Submit, Drop, Free, Restore, Query, Starts, Validate,
       Compare, Registration, Output, Restoring, Copy, Payload, Answered, ProfileRead, NoAnswer, Waited, channel
  <2>4. CASE Work \/ WDies
    BY <2>2, <2>4, Zenon DEF Work, WStart, WRegister, WAck, WFallback, WPublish, WCommit, WRegistration, WData, WDrop,
       WRestore, WQuery, WProfile, WQuit, WUnknown, WEof, WDies, Takes, channel
  <2>5. CASE Rest
    BY <2>5, Zenon DEF Rest, vars, channel
  <2> QED BY <2>3, <2>4, <2>5, Zenon DEF Next
<1> QED BY <1>1, ConversationKept, PTL DEF Spec, WindowHeld
-----------------------------------------------------------------------------

INSTANCE FiniteSetTheorems

Recipes == [Ids -> [size : Nat, exact : BOOLEAN, sliced : BOOLEAN]]

CellsOf(r, S) == UNION {{i} \X (1 .. r[i].size) : i \in S}

(***************************************************************************)
(* What the recipes hold: a recipe holds its size, and replacing one       *)
(* changes the sum by the difference of the sizes.                         *)
(***************************************************************************)
LEMMA RowHolds ==
  ASSUME NEW i, NEW n \in Nat
  PROVE  IsFiniteSet({i} \X (1 .. n)) /\ Cardinality({i} \X (1 .. n)) = n
<1>1. IsFiniteSet(1 .. n) /\ Cardinality(1 .. n) = n
  <2>1. IsFiniteSet(1 .. n) /\ Cardinality(1 .. n) = IF 1 > n THEN 0 ELSE n - 1 + 1
    BY FS_Interval
  <2> QED BY <2>1
<1>2. IsFiniteSet({i}) /\ Cardinality({i}) = 1
  BY FS_Singleton, Zenon
<1>3. /\ IsFiniteSet({i} \X (1 .. n))
      /\ Cardinality({i} \X (1 .. n)) = Cardinality({i}) * Cardinality(1 .. n)
  BY <1>1, <1>2, FS_Product, Zenon
<1> QED BY <1>1, <1>2, <1>3

LEMMA CellsFinite ==
  ASSUME NEW r \in Recipes, NEW S \in SUBSET Ids
  PROVE  IsFiniteSet(CellsOf(r, S))
<1> DEFINE Rows == {{i} \X (1 .. r[i].size) : i \in S}
           f == [i \in S |-> {i} \X (1 .. r[i].size)]
<1>1. IsFiniteSet(S)
  BY ConstantsAssumption, FS_Subset, Zenon
<1>2. f \in Surjection(S, Rows)
  BY Zenon DEF Surjection
<1>3. IsFiniteSet(Rows)
  BY <1>1, <1>2, FS_Surjection, Zenon
<1>4. \A i \in S : r[i].size \in Nat
  BY DEF Recipes
<1>5. \A row \in Rows : IsFiniteSet(row)
  <2> SUFFICES ASSUME NEW i \in S PROVE IsFiniteSet({i} \X (1 .. r[i].size))
    BY Zenon
  <2> QED BY <1>4, RowHolds, Zenon
<1>6. IsFiniteSet(UNION Rows)
  BY <1>3, <1>5, FS_UNION, Zenon
<1> QED BY <1>6, Zenon DEF CellsOf

LEMMA HeldSplits ==
  ASSUME NEW r \in Recipes, NEW j \in Ids
  PROVE  /\ Cardinality(CellsOf(r, Ids \ {j})) \in Nat
         /\ Held(r) = Cardinality(CellsOf(r, Ids \ {j})) + r[j].size
<1> DEFINE Others == CellsOf(r, Ids \ {j})
           Row == {j} \X (1 .. r[j].size)
<1>1. Held(r) = Cardinality(Others \cup Row)
  <2>1. CellsOf(r, Ids) = Others \cup Row
    BY Zenon DEF CellsOf
  <2> QED BY <2>1, Zenon DEF Held, CellsOf
<1>2. Others \cap Row = {}
  <2>1. \A c \in Others : c[1] \in Ids \ {j}
    BY DEF CellsOf
  <2>2. \A c \in Row : c[1] = j
    OBVIOUS
  <2> QED BY <2>1, <2>2, Zenon
<1>3. r[j].size \in Nat
  BY DEF Recipes
<1>4. IsFiniteSet(Row) /\ Cardinality(Row) = r[j].size
  BY <1>3, RowHolds, Zenon
<1>5. IsFiniteSet(Others)
  BY CellsFinite, Zenon
<1>6. Cardinality(Others) \in Nat
  BY <1>5, FS_CardinalityType, Zenon
<1>7. Cardinality(Others \cup Row) = Cardinality(Others) + Cardinality(Row) - Cardinality(Others \cap Row)
  BY <1>4, <1>5, FS_Union, Zenon
<1>8. Cardinality(Others \cap Row) = 0
  BY <1>2, FS_EmptySet, Zenon
<1> HIDE DEF Others, Row
<1>9. Held(r) = Cardinality(Others) + r[j].size
  BY <1>1, <1>3, <1>4, <1>6, <1>7, <1>8, SMTT(20)
<1> QED BY <1>6, <1>9, Zenon DEF Others

LEMMA HeldReplaces ==
  ASSUME NEW r \in Recipes, NEW j \in Ids, NEW new \in [size : Nat, exact : BOOLEAN, sliced : BOOLEAN]
  PROVE  Held([r EXCEPT ![j] = new]) = Held(r) - r[j].size + new.size
<1> DEFINE q == [r EXCEPT ![j] = new]
<1>1. q \in Recipes /\ q[j] = new /\ \A i \in Ids \ {j} : q[i] = r[i]
  BY Zenon DEF Recipes
<1> HIDE DEF q
<1>2. CellsOf(q, Ids \ {j}) = CellsOf(r, Ids \ {j})
  BY <1>1, Zenon DEF CellsOf
<1>3. r[j].size \in Nat /\ new.size \in Nat
  BY DEF Recipes
<1>4. /\ Cardinality(CellsOf(r, Ids \ {j})) \in Nat
      /\ Held(r) = Cardinality(CellsOf(r, Ids \ {j})) + r[j].size
  BY HeldSplits, Zenon
<1>5. Held(q) = Cardinality(CellsOf(q, Ids \ {j})) + q[j].size
  BY <1>1, HeldSplits, Zenon
<1>6. Held(q) = Held(r) - r[j].size + new.size
  <2>1. Held(q) = Cardinality(CellsOf(r, Ids \ {j})) + new.size
    BY <1>1, <1>2, <1>5, Zenon
  <2> QED BY <1>3, <1>4, <2>1
<1> QED BY <1>6, Zenon DEF q

LEMMA HeldNothing == Held([i \in Ids |-> NoRecipe]) = 0
<1> DEFINE r == [i \in Ids |-> NoRecipe]
<1>1. \A i \in Ids : r[i].size = 0
  BY DEF NoRecipe
<1>2. 1 .. 0 = {}
  OBVIOUS
<1>3. UNION {{i} \X (1 .. r[i].size) : i \in Ids} = {}
  BY <1>1, <1>2, Zenon
<1> QED BY <1>3, FS_EmptySet, Zenon DEF Held

(***************************************************************************)
(* Only a commit, a drop and a new worker change what is retained.         *)
(***************************************************************************)
LEMMA BudgetStays ==
  ASSUME CInv, BudgetKept, [Next]_vars
  PROVE  BudgetKept'
<1>1. Budget \in Nat /\ \A size \in Sizes : size \in Nat
  BY ConstantsAssumption
<1>2. /\ store \in Recipes /\ job \in Requests /\ toWorker \in Seq(Requests)
      /\ exact \in BOOLEAN /\ native \in BOOLEAN
  BY Zenon DEF CInv, Types, ChannelTypes, WorkerTypes, Recipes
<1>3. \A i \in Ids : store[i].size \in Nat
  BY <1>2 DEF Recipes
<1>4. \A i \in Ids, new \in [size : Nat, exact : BOOLEAN, sliced : BOOLEAN] :
        Held([store EXCEPT ![i] = new]) = Held(store) - store[i].size + new.size
  BY <1>2, HeldReplaces, Zenon
<1>5. bytes = Held(store) /\ bytes <= Budget /\ bytes \in Nat
  <2>1. bytes = Held(store) /\ bytes <= Budget
    BY Zenon DEF BudgetKept
  <2>2. CellsOf(store, Ids) = UNION {{i} \X (1 .. store[i].size) : i \in Ids}
    BY Zenon DEF CellsOf
  <2>3. Held(store) \in Nat
    BY <1>2, <2>2, CellsFinite, FS_CardinalityType, Zenon DEF Held
  <2> QED BY <2>1, <2>3, Zenon
<1>6. CASE UNCHANGED <<store, bytes>>
  BY <1>6, Zenon DEF BudgetKept, Held
<1>7. CASE AfInit
  <2>1. store' = [i \in Ids |-> NoRecipe] /\ bytes' = 0
    BY <1>7, Zenon DEF AfInit
  <2>2. bytes' = Held(store')
    BY <2>1, HeldNothing, Zenon
  <2>3. bytes' <= Budget
    BY <1>1, <2>1
  <2> QED BY <2>2, <2>3, Zenon DEF BudgetKept, Held
<1>8. ASSUME NEW size \in Sizes, NEW slices \in BOOLEAN, NEW right \in BOOLEAN, WCommit(size, slices, right)
      PROVE  BudgetKept'
  <2>1. CASE UNCHANGED <<store, bytes>>
    BY <1>6, <2>1, Zenon
  <2>2. CASE ~(bytes - store[job.id].size + size > Budget)
    <3>1. PICK e \in BOOLEAN : e = IF Streaming THEN exact ELSE right
      BY <1>2, Zenon
    <3>2. PICK l \in BOOLEAN : l = (native /\ slices)
      BY Zenon
    <3> DEFINE new == [size |-> size, exact |-> e, sliced |-> l]
    <3>3. store' = [store EXCEPT ![job.id] = new] /\ bytes' = bytes - store[job.id].size + size
      BY <1>8, <2>2, <3>1, <3>2, Zenon DEF WCommit
    <3>4. new \in [size : Nat, exact : BOOLEAN, sliced : BOOLEAN] /\ new.size = size
      BY <1>1
    <3> HIDE DEF new
    <3>5. job.id \in Ids
      BY <1>2 DEF Requests
    <3>6. Held(store') = Held(store) - store[job.id].size + size
      BY <1>4, <3>3, <3>4, <3>5, Zenon
    <3>7. bytes' = Held(store')
      BY <1>5, <3>3, <3>6, Zenon
    <3>8. bytes' <= Budget
      BY <1>1, <1>3, <1>5, <2>2, <3>3, <3>5, SMTT(20)
    <3> QED BY <3>7, <3>8, Zenon DEF BudgetKept, Held
  <2> QED BY <1>8, <2>1, <2>2, Zenon DEF WCommit
<1>9. CASE WDrop
  <2> DEFINE q == Head(toWorker)
  <2>1. bytes' = bytes - store[q.id].size /\ store' = [store EXCEPT ![q.id] = NoRecipe]
    BY <1>9, Zenon DEF WDrop
  <2>2. q \in Requests
    <3>1. toWorker # <<>>
      BY <1>9, Zenon DEF WDrop, Takes
    <3> QED BY <1>2, <3>1
  <2>3. q.id \in Ids
    BY <2>2 DEF Requests
  <2> HIDE DEF q
  <2>4. NoRecipe \in [size : Nat, exact : BOOLEAN, sliced : BOOLEAN] /\ NoRecipe.size = 0
    BY DEF NoRecipe
  <2>5. Held(store') = Held(store) - store[q.id].size + 0
    BY <1>4, <2>1, <2>3, <2>4, Zenon
  <2>6. bytes' = Held(store') /\ bytes' <= Budget
    BY <1>1, <1>3, <1>5, <2>1, <2>3, <2>5, SMTT(20)
  <2> QED BY <2>6, Zenon DEF BudgetKept, Held
<1>10. CASE (Begin /\ ~AfInit) \/ Continue \/ AppEnds
  <2>1. UNCHANGED <<store, bytes>>
    BY <1>10, Zenon DEF Begin, Continue, AppEnds, AfShutdown, Submit, Drop, Free, Restore, Query, Validate,
       Compare, Registration, Output, Restoring, Copy, Payload, Answered, ProfileRead, NoAnswer, Waited, worker
  <2> QED BY <1>6, <2>1, Zenon
<1>11. ASSUME Work \/ WDies, ~WDrop,
              ~\E size \in Sizes, slices, right \in BOOLEAN : WCommit(size, slices, right)
       PROVE  BudgetKept'
  <2>1. UNCHANGED <<store, bytes>>
    BY <1>11, Zenon DEF Work, WStart, WRegister, WAck, WFallback, WPublish, WRegistration, WData, WRestore, WQuery,
       WProfile, WQuit, WUnknown, WEof, WDies, worker
  <2> QED BY <1>6, <2>1, Zenon
<1>12. CASE Rest \/ UNCHANGED vars
  BY <1>6, <1>12, Zenon DEF Rest, vars, worker
<1> QED BY <1>7, <1>8, <1>9, <1>10, <1>11, <1>12, Zenon DEF Next

(***************************************************************************)
(* The worker's retained_bytes is the sum over the recipes it stores, and  *)
(* never more than the budget: over any number of buffers, of any sizes.   *)
(***************************************************************************)
THEOREM BudgetIsKept == Spec => []BudgetKept
<1>1. Init => BudgetKept
  <2> SUFFICES ASSUME Init PROVE BudgetKept
    BY Zenon
  <2>1. bytes = 0 /\ bytes = Held(store)
    BY HeldNothing, Zenon DEF Init
  <2> QED BY <2>1, ConstantsAssumption DEF BudgetKept
<1>2. CInv /\ CInv' /\ BudgetKept /\ [Next]_vars => BudgetKept'
  BY BudgetStays, Zenon
<1> QED BY <1>1, <1>2, ConversationKept, PTL DEF Spec
=============================================================================
