----------------------------- MODULE WebServProofs -----------------------------
(* Proofs about the web server, for any clients, pool and buffer. *)
EXTENDS WebServ, WellFoundedInduction, TLAPS

\* The lowest free descriptor is a free descriptor.
LEMMA LowestFree == Free # {} => Min(Free) \in Free
<1> SUFFICES ASSUME Free # {} PROVE Min(Free) \in Free
  OBVIOUS
<1>1. Free \subseteq Nat
  BY WebAssumption DEF Free, Fds
<1>2. \E n \in Free : \A m \in Free : ~ (<<m, n>> \in OpToRel(<, Nat))
  BY <1>1, NatLessThanWellFounded, WFMin
<1>3. \E n \in Free : \A m \in Free : n <= m
  <2>1. ASSUME NEW n \in Free, NEW m \in Free, ~ (<<m, n>> \in OpToRel(<, Nat))
        PROVE  n <= m
    BY <1>1, <2>1 DEF OpToRel
  <2> QED
    BY <1>2, <2>1
<1> QED
  BY <1>3, Zenon DEF Min

\* close() keeps the types of what it changes.
LEMMA CloseTypes ==
    ASSUME TypeOK, NEW f \in 0..MaxFds, Close(f)
    PROVE  /\ owner' \in [Fds -> Clients \cup {NoClient}]
           /\ conn' \in [Clients -> {"new", "queued", "open", "gone", "closed"}]
<1>1. CASE Live(f)
  BY <1>1 DEF TypeOK, Close, Live
<1>2. CASE ~Live(f)
  BY <1>2 DEF TypeOK, Close
<1> QED
  BY <1>1, <1>2

\* So does a restart.
LEMMA RestartTypes == TypeOK /\ Restart => TypeOK'
<1> SUFFICES ASSUME TypeOK, Restart PROVE TypeOK'
  OBVIOUS
<1> USE WebAssumption DEF TypeOK
<1>1. raced' \in BOOLEAN
  BY Zenon DEF Restart
<1>2. /\ useFd' = 0 /\ clientFd' = 0
      /\ owner' = [f \in Fds |-> NoClient]
      /\ cache' = <<>>
      /\ accPc' = "accept" /\ recvPc' = "loop"
      /\ recvOn' = NoClient /\ page' = NoClient
      /\ conn' = [c \in Clients |-> IF conn[c] = "new" THEN "new" ELSE "closed"]
      /\ unread' = [c \in Clients |-> <<>>]
      /\ misled' = {} /\ sent' = sent
  BY DEF Restart
<1> QED
  BY <1>1, <1>2

\* The buffer a chunk is looked at in, and what recv() leaves of the stream.
LEMMA ChunkTypes ==
    ASSUME TypeOK, recvOn # NoClient, unread[recvOn] # <<>>
    PROVE  /\ recvOn \in Clients
           /\ Append(cache, <<recvOn, Head(unread[recvOn])>>) \in Seq(Clients \X Chunks)
           /\ [unread EXCEPT ![recvOn] = Tail(@)] \in [Clients -> Seq(Chunks)]
<1>1. recvOn \in Clients
  BY DEF TypeOK
<1>2. unread[recvOn] \in Seq(Chunks)
  BY <1>1 DEF TypeOK
<1>3. /\ Head(unread[recvOn]) \in Chunks
      /\ Tail(unread[recvOn]) \in Seq(Chunks)
  BY <1>2
<1> QED
  BY <1>1, <1>3 DEF TypeOK

\* Whoever sent a chunk of the buffer is a client; a whole request has a beginning.
LEMMA FromTypes ==
    ASSUME NEW buf \in Seq(Clients \X Chunks), NEW k
    PROVE  From(buf, k) \subseteq Clients
BY DEF From

LEMMA WholeRequest ==
    ASSUME NEW buf, Result(buf) = 0
    PROVE  From(buf, "begin") # {}
BY DEF Result

LEMMA RequestFits ==
    ASSUME NEW buf \in Seq(Clients \X Chunks), Result(buf) = 3
    PROVE  Len(buf) <= CacheSize
BY WebAssumption DEF Result

-----------------------------------------------------------------------------
\* Every variable keeps its type, for any clients, pool and buffer.
THEOREM TypeCorrect == Spec => []TypeOK
<1> USE WebAssumption
<1>1. Init => TypeOK
  <2>1. Init => raced \in BOOLEAN
    BY Zenon DEF Init
  <2>2. Init => useFd \in 0..MaxFds /\ clientFd \in 0..MaxFds
    BY DEF Init
  <2> QED
    BY <2>1, <2>2 DEF Init, TypeOK
<1>2. TypeOK /\ [Next]_vars => TypeOK'
  <2> SUFFICES ASSUME TypeOK, [Next]_vars PROVE TypeOK'
    OBVIOUS
  <2> USE DEF TypeOK
  <2>1. ASSUME AcceptFails PROVE TypeOK'
    BY <2>1, RestartTypes DEF AcceptFails
  <2>2. ASSUME NEW c \in Clients, Accept(c) PROVE TypeOK'
    <3>1. Min(Free) \in Fds
      BY <2>2, LowestFree DEF Accept, Free
    <3>2. Min(Free) \in 0..MaxFds
      BY <3>1 DEF Fds
    <3>3. raced' \in BOOLEAN
      BY <2>2, Zenon DEF Accept
    <3> QED
      BY <2>2, <3>1, <3>2, <3>3 DEF Accept
  <2>3. ASSUME CloseOld PROVE TypeOK'
    <3>1. /\ owner' \in [Fds -> Clients \cup {NoClient}]
          /\ conn' \in [Clients -> {"new", "queued", "open", "gone", "closed"}]
      <4>1. CASE useFd # 0
        BY <2>3, <4>1, CloseTypes DEF CloseOld
      <4>2. CASE useFd = 0
        BY <2>3, <4>2 DEF CloseOld
      <4> QED
        BY <4>1, <4>2
    <3> QED
      BY <2>3, <3>1 DEF CloseOld, history
  <2>4. ASSUME SetUse \/ ClearCache PROVE TypeOK'
    <3>1. raced' \in BOOLEAN
      BY <2>4, Zenon DEF SetUse, ClearCache, history
    <3>2. CASE SetUse
      BY <3>1, <3>2 DEF SetUse, peerVars, history
    <3>3. CASE ClearCache
      <4>1. cache' \in Seq(Clients \X Chunks) /\ Len(cache') <= CacheSize
        BY <3>3 DEF ClearCache
      <4> QED
        BY <3>1, <3>3, <4>1 DEF ClearCache, peerVars, history
    <3> QED
      BY <2>4, <3>2, <3>3
  <2>5. ASSUME RecvBegin PROVE TypeOK'
    BY <2>5 DEF RecvBegin, Fds, peerVars, history
  <2>6. ASSUME RecvEnds PROVE TypeOK'
    BY <2>6 DEF RecvEnds, peerVars, history
  <2>7. ASSUME RecvChunk PROVE TypeOK'
    <3> DEFINE buf == Append(cache, <<recvOn, Head(unread[recvOn])>>)
    <3>1. /\ buf \in Seq(Clients \X Chunks)
          /\ [unread EXCEPT ![recvOn] = Tail(@)] \in [Clients -> Seq(Chunks)]
      BY <2>7, ChunkTypes DEF RecvChunk
    <3>2. /\ cache' = IF Result(buf) = 3 THEN buf ELSE <<>>
          /\ recvPc' = CASE Result(buf) = 0 -> "reply" [] Result(buf) = 1 -> "drop" [] OTHER -> "loop"
          /\ page' = IF Result(buf) = 0 THEN CHOOSE c \in From(buf, "begin") : TRUE ELSE NoClient
          /\ unread' = [unread EXCEPT ![recvOn] = Tail(@)]
          /\ recvOn' = NoClient
          /\ UNCHANGED <<useFd, clientFd, owner, accPc, conn, sent, misled>>
      BY <2>7 DEF RecvChunk
    <3>3. raced' \in BOOLEAN
      BY <2>7, Zenon DEF RecvChunk
    <3>4. cache' \in Seq(Clients \X Chunks) /\ Len(cache') <= CacheSize
      <4>1. CASE Result(buf) = 3
        BY <3>1, <3>2, <4>1, RequestFits
      <4>2. CASE Result(buf) # 3
        BY <3>2, <4>2
      <4> QED
        BY <4>1, <4>2
    <3>5. page' \in Clients \cup {NoClient}
      <4>1. CASE Result(buf) = 0
        <5>1. From(buf, "begin") \subseteq Clients /\ From(buf, "begin") # {}
          BY <3>1, <4>1, FromTypes, WholeRequest
        <5> QED
          BY <3>2, <4>1, <5>1
      <4>2. CASE Result(buf) # 0
        BY <3>2, <4>2
      <4> QED
        BY <4>1, <4>2
    <3>6. recvPc' \in {"loop", "reply", "drop"}
      BY <3>2
    <3> HIDE DEF buf
    <3> QED
      BY <3>1, <3>2, <3>3, <3>4, <3>5, <3>6
  <2>8. ASSUME Reply PROVE TypeOK'
    BY <2>8 DEF Reply, Live, peerVars
  <2>9. ASSUME Drop PROVE TypeOK'
    <3>1. /\ owner' \in [Fds -> Clients \cup {NoClient}]
          /\ conn' \in [Clients -> {"new", "queued", "open", "gone", "closed"}]
      BY <2>9, CloseTypes DEF Drop
    <3> QED
      BY <2>9, <3>1 DEF Drop, history
  <2>10. ASSUME Done PROVE TypeOK'
    <3>1. CASE Restart
      BY <3>1, RestartTypes
    <3>2. CASE ~Restart
      BY <2>10, <3>2 DEF Done, peerVars, history
    <3> QED
      BY <3>1, <3>2
  <2>11. ASSUME NEW c \in Clients, Connects(c) \/ HangsUp(c) PROVE TypeOK'
    BY <2>11 DEF Connects, HangsUp, taskVars, history
  <2>12. ASSUME NEW c \in Clients, NEW k \in Chunks, Sends(c, k) PROVE TypeOK'
    <3>1. Append(unread[c], k) \in Seq(Chunks)
      OBVIOUS
    <3> QED
      BY <2>12, <3>1 DEF Sends, taskVars, history
  <2>13. ASSUME UNCHANGED vars PROVE TypeOK'
    BY <2>13 DEF vars, taskVars, peerVars, history
  <2> HIDE DEF TypeOK
  <2> QED
    BY <2>1, <2>2, <2>3, <2>4, <2>5, <2>6, <2>7, <2>8, <2>9, <2>10, <2>11, <2>12, <2>13
       DEF Next, AcceptTask, RecvTask
<1> QED
  BY <1>1, <1>2, PTL DEF Spec

-----------------------------------------------------------------------------
\* Who owns descriptors: open connections do, and each owns one.
InUse == \A f \in Fds : Live(f) => conn[owner[f]] \in {"open", "gone"}
OneEach == \A f, g \in Fds : Live(f) /\ owner[f] = owner[g] => f = g
OwnInv == InUse /\ OneEach

\* close() takes a descriptor and its connection away and leaves the others alone.
LEMMA CloseOwn ==
    ASSUME TypeOK, OwnInv, NEW f \in 0..MaxFds, Close(f)
    PROVE  /\ OwnInv'
           /\ \A g \in Fds : Live(g)' => /\ Live(g) /\ g # f
                                         /\ owner'[g] = owner[g] /\ conn'[owner[g]] = conn[owner[g]]
<1>1. CASE f \in Fds
  <2>1. owner' = [owner EXCEPT ![f] = NoClient]
    BY <1>1 DEF Close
  <2>2. \A g \in Fds : Live(g)' => Live(g) /\ g # f /\ owner'[g] = owner[g]
    BY <1>1, <2>1 DEF Live, TypeOK
  <2>3. \A g \in Fds : Live(g)' => conn'[owner[g]] = conn[owner[g]]
    <3> SUFFICES ASSUME NEW g \in Fds, Live(g)' PROVE conn'[owner[g]] = conn[owner[g]]
      OBVIOUS
    <3>1. CASE Live(f)
      <4>1. owner[g] # owner[f]
        BY <1>1, <2>2, <3>1 DEF OwnInv, OneEach
      <4> QED
        BY <3>1, <4>1, <2>2 DEF Close, TypeOK, Live
    <3>2. CASE ~Live(f)
      BY <3>2 DEF Close
    <3> QED
      BY <3>1, <3>2
  <2>4. OwnInv'
    BY <2>2, <2>3 DEF OwnInv, InUse, OneEach, Live
  <2> QED
    BY <2>2, <2>3, <2>4
<1>2. CASE f \notin Fds
  <2>1. owner' = owner /\ conn' = conn
    BY <1>2 DEF Close, Live
  <2> QED
    BY <1>2, <2>1 DEF OwnInv, InUse, OneEach, Live
<1> QED
  BY <1>1, <1>2

LEMMA OwnStep == TypeOK /\ OwnInv /\ [Next]_vars => OwnInv'
<1> SUFFICES ASSUME TypeOK, OwnInv, [Next]_vars PROVE OwnInv'
  OBVIOUS
<1> USE WebAssumption
<1>1. ASSUME Restart PROVE OwnInv'
  BY <1>1 DEF Restart, OwnInv, InUse, OneEach, Live
<1>2. ASSUME NEW c \in Clients, Accept(c) PROVE OwnInv'
  <2>1. /\ Min(Free) \in Fds /\ owner[Min(Free)] = NoClient
        /\ conn[c] = "queued" /\ c # NoClient
        /\ owner' = [owner EXCEPT ![Min(Free)] = c]
        /\ conn' = [conn EXCEPT ![c] = "open"]
    BY <1>2, LowestFree DEF Accept, Free
  <2>2. \A f \in Fds : owner[f] # c
    BY <2>1 DEF OwnInv, InUse, Live
  <2> QED
    BY <2>1, <2>2 DEF OwnInv, InUse, OneEach, Live, TypeOK
<1>3. ASSUME CloseOld PROVE OwnInv'
  <2>1. CASE useFd # 0
    BY <1>3, <2>1, CloseOwn DEF CloseOld, TypeOK
  <2>2. CASE useFd = 0
    BY <1>3, <2>2 DEF CloseOld, OwnInv, InUse, OneEach, Live
  <2> QED
    BY <2>1, <2>2
<1>4. ASSUME Drop PROVE OwnInv'
  BY <1>4, CloseOwn DEF Drop, TypeOK
<1>5. ASSUME NEW c \in Clients, Connects(c) \/ HangsUp(c) PROVE OwnInv'
  <2>1. owner' = owner
    BY <1>5 DEF Connects, HangsUp, taskVars
  <2>2. \/ conn' = [conn EXCEPT ![c] = "queued"] /\ conn[c] = "new"
        \/ conn' = [conn EXCEPT ![c] = "gone"]
    BY <1>5 DEF Connects, HangsUp
  <2> QED
    BY <2>1, <2>2 DEF OwnInv, InUse, OneEach, Live, TypeOK
<1>6. ASSUME UNCHANGED <<owner, conn>> PROVE OwnInv'
  BY <1>6 DEF OwnInv, InUse, OneEach, Live
<1>7. ASSUME SetUse \/ ClearCache \/ RecvBegin \/ RecvEnds \/ RecvChunk \/ Reply PROVE OwnInv'
  BY <1>6, <1>7 DEF SetUse, ClearCache, RecvBegin, RecvEnds, RecvChunk, Reply, peerVars
<1>8. ASSUME Done PROVE OwnInv'
  BY <1>1, <1>6, <1>8 DEF Done, peerVars
<1>9. ASSUME NEW c \in Clients, NEW k \in Chunks, Sends(c, k) PROVE OwnInv'
  BY <1>6, <1>9 DEF Sends, taskVars
<1>10. ASSUME UNCHANGED vars PROVE OwnInv'
  BY <1>6, <1>10 DEF vars, taskVars, peerVars
<1> QED
  BY <1>1, <1>2, <1>3, <1>4, <1>5, <1>7, <1>8, <1>9, <1>10 DEF Next, AcceptTask, RecvTask, AcceptFails

-----------------------------------------------------------------------------
\* What keeps NoLeak: without a race a client is accepted only when none is in
\* use, the receive task works for the one in use, and listens to nobody else.
OneAtATime == ~raced /\ accPc \in {"close", "set"} => useFd = 0
Working == ~raced /\ recvPc # "loop" => useFd # 0
Hearing == ~raced /\ recvPc = "recv" => recvOn = owner[useFd]
Kept ==
    ~raced => \A f \in Fds :
        Live(f) => \/ f = useFd \/ (accPc \in {"close", "set"} /\ f = clientFd)
                   \/ conn[owner[f]] = "gone"

LeakInv == OneAtATime /\ Working /\ Hearing /\ Kept

\* It holds when the server starts.
LEMMA LeakInit == Init => OwnInv /\ LeakInv
BY WebAssumption DEF Init, OwnInv, InUse, OneEach, LeakInv, OneAtATime, Working, Hearing, Kept, Live

\* Nothing but the receive task's place changes, if that.
LEMMA LeakQuiet ==
    ASSUME LeakInv, UNCHANGED <<useFd, clientFd, owner, accPc, raced>>,
           \A c \in Clients : conn[c] = "gone" => conn'[c] = "gone", TypeOK,
           \/ UNCHANGED <<recvPc, recvOn>>
           \/ recvPc # "loop" /\ recvPc' # "recv"
           \/ useFd # 0 /\ recvPc' = "recv" /\ recvOn' = owner[useFd]
           \/ recvPc' = "loop"
    PROVE  LeakInv'
<1>1. Kept'
  BY DEF LeakInv, Kept, Live, TypeOK
<1>2. OneAtATime' /\ Working' /\ Hearing'
  BY DEF LeakInv, OneAtATime, Working, Hearing
<1> QED
  BY <1>1, <1>2 DEF LeakInv

\* Every step of the two tasks, of the clients and of a restart keeps it.
LEMMA LeakStep == TypeOK /\ OwnInv /\ LeakInv /\ [Next]_vars => LeakInv'
<1> SUFFICES ASSUME TypeOK, OwnInv, LeakInv, [Next]_vars PROVE LeakInv'
  OBVIOUS
<1> USE WebAssumption
<1>1. ASSUME Restart PROVE LeakInv'
  BY <1>1 DEF Restart, LeakInv, OneAtATime, Working, Hearing, Kept, Live
<1>2. ASSUME NEW c \in Clients, Accept(c) PROVE LeakInv'
  <2>1. /\ Min(Free) \in Fds /\ owner[Min(Free)] = NoClient
        /\ accPc = "accept" /\ accPc' = "close" /\ conn[c] = "queued"
        /\ clientFd' = Min(Free)
        /\ owner' = [owner EXCEPT ![Min(Free)] = c]
        /\ conn' = [conn EXCEPT ![c] = "open"]
        /\ UNCHANGED <<useFd, recvPc, recvOn>>
        /\ raced' = (raced \/ useFd # 0)
    BY <1>2, LowestFree DEF Accept, Free
  <2>2. ~raced' => ~raced /\ useFd = 0
    BY <2>1
  <2>3. ~raced' => recvPc = "loop"
    BY <2>2 DEF LeakInv, Working
  <2>4. Kept'
    <3> SUFFICES ASSUME ~raced', NEW f \in Fds, Live(f)', f # clientFd'
                 PROVE  conn'[owner'[f]] = "gone"
      BY <2>1 DEF Kept
    <3>1. Live(f) /\ owner'[f] = owner[f]
      BY <2>1 DEF Live, TypeOK
    <3>2. f # 0
      BY DEF Fds
    <3>3. conn[owner[f]] = "gone"
      BY <2>1, <2>2, <3>1, <3>2 DEF LeakInv, Kept
    <3> QED
      BY <2>1, <3>1, <3>3 DEF TypeOK, Live
  <2> QED
    BY <2>1, <2>2, <2>3, <2>4 DEF LeakInv, OneAtATime, Working, Hearing
<1>3. ASSUME CloseOld PROVE LeakInv'
  <2>1. /\ accPc = "close" /\ accPc' = "set"
        /\ UNCHANGED <<useFd, clientFd, recvPc, recvOn, raced>>
    BY <1>3 DEF CloseOld, history
  <2>2. CASE raced
    BY <2>1, <2>2 DEF LeakInv, OneAtATime, Working, Hearing, Kept
  <2>3. CASE ~raced
    <3>1. useFd = 0
      BY <2>1, <2>3 DEF LeakInv, OneAtATime
    <3>2. UNCHANGED <<owner, conn>>
      BY <1>3, <3>1 DEF CloseOld
    <3> QED
      BY <2>1, <3>1, <3>2 DEF LeakInv, OneAtATime, Working, Hearing, Kept, Live
  <2> QED
    BY <2>2, <2>3
<1>4. ASSUME SetUse PROVE LeakInv'
  <2>1. /\ accPc = "set" /\ accPc' = "clear" /\ useFd' = clientFd
        /\ UNCHANGED <<clientFd, owner, conn, recvPc, recvOn, raced>>
    BY <1>4 DEF SetUse, history, peerVars
  <2>2. ~raced => useFd = 0
    BY <2>1 DEF LeakInv, OneAtATime
  <2>3. ~raced => recvPc = "loop"
    BY <2>2 DEF LeakInv, Working
  <2>4. Kept'
    BY <2>1, <2>2 DEF LeakInv, Kept, Live, Fds
  <2> QED
    BY <2>1, <2>3, <2>4 DEF LeakInv, OneAtATime, Working, Hearing
<1>5. ASSUME ClearCache PROVE LeakInv'
  <2>1. /\ accPc = "clear" /\ accPc' = "accept"
        /\ UNCHANGED <<useFd, clientFd, owner, conn, recvPc, recvOn, raced>>
    BY <1>5 DEF ClearCache, history, peerVars
  <2> QED
    BY <2>1 DEF LeakInv, OneAtATime, Working, Hearing, Kept, Live
<1>6. ASSUME RecvBegin \/ Reply \/ (Done /\ ~Restart) PROVE LeakInv'
  <2>1. UNCHANGED <<useFd, clientFd, owner, accPc, raced, conn>>
    BY <1>6 DEF RecvBegin, Reply, Done, history, peerVars
  <2>2. \/ recvPc # "loop" /\ recvPc' # "recv"
        \/ useFd # 0 /\ recvPc' = "recv" /\ recvOn' = owner[useFd]
    BY <1>6 DEF RecvBegin, Reply, Done, TypeOK
  <2> QED
    BY <2>1, <2>2, LeakQuiet
<1>7. ASSUME RecvEnds PROVE LeakInv'
  <2>1. /\ recvPc = "recv" /\ recvPc' = "loop" /\ useFd' = 0
        /\ UNCHANGED <<clientFd, owner, accPc, raced, conn>>
    BY <1>7 DEF RecvEnds, history, peerVars
  <2>2. Kept'
    <3> SUFFICES ASSUME ~raced, NEW f \in Fds, Live(f)
                 PROVE  (accPc \in {"close", "set"} /\ f = clientFd) \/ conn[owner[f]] = "gone"
      BY <2>1 DEF Kept, Live
    <3>1. CASE f # useFd
      BY <3>1 DEF LeakInv, Kept
    <3>2. CASE f = useFd
      <4>1. recvOn = owner[f] /\ recvOn # NoClient
        BY <2>1, <3>2 DEF LeakInv, Hearing, Live
      <4>2. conn[recvOn] # "open"
        BY <1>7, <4>1 DEF RecvEnds
      <4> QED
        BY <4>1, <4>2 DEF OwnInv, InUse
    <3> QED
      BY <3>1, <3>2
  <2> QED
    BY <2>1, <2>2 DEF LeakInv, OneAtATime, Working, Hearing
<1>8. ASSUME RecvChunk PROVE LeakInv'
  <2>1. /\ recvPc = "recv" /\ recvPc' \in {"loop", "reply", "drop"}
        /\ UNCHANGED <<useFd, clientFd, owner, accPc, conn>>
        /\ raced' = (raced \/ accPc = "clear")
    BY <1>8 DEF RecvChunk
  <2>2. ~raced' => ~raced
    BY <2>1
  <2>3. ~raced => useFd # 0
    BY <2>1 DEF LeakInv, Working
  <2> QED
    BY <2>1, <2>2, <2>3 DEF LeakInv, OneAtATime, Working, Hearing, Kept, Live
<1>9. ASSUME Drop PROVE LeakInv'
  <2>1. /\ recvPc = "drop" /\ recvPc' \in {"loop", "done"}
        /\ UNCHANGED <<useFd, clientFd, accPc, raced>>
    BY <1>9 DEF Drop, history
  <2>2. \A g \in Fds : Live(g)' => /\ Live(g) /\ owner'[g] = owner[g]
                                   /\ conn'[owner[g]] = conn[owner[g]]
    BY <1>9, CloseOwn DEF Drop, TypeOK
  <2>3. Kept'
    BY <2>1, <2>2 DEF LeakInv, Kept
  <2> QED
    BY <2>1, <2>3 DEF LeakInv, OneAtATime, Working, Hearing
<1>10. ASSUME NEW c \in Clients, Connects(c) \/ HangsUp(c) PROVE LeakInv'
  <2>1. UNCHANGED <<useFd, clientFd, owner, accPc, raced, recvPc, recvOn>>
    BY <1>10 DEF Connects, HangsUp, taskVars, history
  <2>2. \A d \in Clients : conn[d] = "gone" => conn'[d] = "gone"
    BY <1>10 DEF Connects, HangsUp, TypeOK
  <2> QED
    BY <2>1, <2>2, LeakQuiet
<1>11. ASSUME NEW c \in Clients, NEW k \in Chunks, Sends(c, k) PROVE LeakInv'
  BY <1>11, LeakQuiet DEF Sends, taskVars, history
<1>12. ASSUME UNCHANGED vars PROVE LeakInv'
  BY <1>12, LeakQuiet DEF vars, taskVars, peerVars, history
<1>13. ASSUME Done PROVE LeakInv'
  BY <1>1, <1>6, <1>13
<1> QED
  BY <1>1, <1>2, <1>3, <1>4, <1>5, <1>6, <1>7, <1>8, <1>9, <1>10, <1>11, <1>12, <1>13
     DEF Next, AcceptTask, RecvTask, AcceptFails

\* As long as the tasks do not meet on two clients, no descriptor is lost but
\* those of clients that hung up.
THEOREM NoLeakCorrect == Spec => []NoLeak
<1>1. TypeOK /\ LeakInv => NoLeak
  BY DEF LeakInv, Kept, NoLeak
<1> QED
  BY <1>1, LeakInit, LeakStep, OwnStep, TypeCorrect, PTL DEF Spec

-----------------------------------------------------------------------------
\* What keeps RepliesToAsker: without a race the buffer holds chunks of the client
\* in use only, a whole request leaves it empty, and its sender is the one in use.
OwnChunks ==
    ~raced /\ useFd # 0 /\ accPc # "clear" =>
        \A i \in DOMAIN cache : cache[i][1] = owner[useFd]
Emptied == ~raced /\ recvPc \in {"reply", "drop"} => cache = <<>>
Asked == ~raced /\ recvPc = "reply" => page = owner[useFd]

AskInv == OwnChunks /\ Emptied /\ Asked /\ RepliesToAsker

LEMMA AskInit == Init => AskInv
BY DEF Init, AskInv, OwnChunks, Emptied, Asked, RepliesToAsker

\* Neither the buffer nor the client in use changes, and no request gets whole.
LEMMA AskQuiet ==
    ASSUME AskInv, UNCHANGED <<useFd, owner, cache, page, misled, raced>>,
           accPc = "clear" => accPc' = "clear",
           recvPc' = recvPc \/ recvPc' \notin {"reply", "drop"}
           \/ (recvPc = "reply" /\ recvPc' = "drop")
    PROVE  AskInv'
BY DEF AskInv, OwnChunks, Emptied, Asked, RepliesToAsker

\* Every step of the two tasks, of the clients and of a restart keeps it.
LEMMA AskStep == TypeOK /\ LeakInv /\ AskInv /\ [Next]_vars => AskInv'
<1> SUFFICES ASSUME TypeOK, LeakInv, AskInv, [Next]_vars PROVE AskInv'
  OBVIOUS
<1> USE WebAssumption
<1>1. ASSUME Restart PROVE AskInv'
  BY <1>1 DEF Restart, AskInv, OwnChunks, Emptied, Asked, RepliesToAsker
<1>2. ASSUME NEW c \in Clients, Accept(c) PROVE AskInv'
  <2>1. /\ accPc' = "close" /\ UNCHANGED <<useFd, cache, recvPc, page, misled>>
        /\ raced' = (raced \/ useFd # 0)
    BY <1>2 DEF Accept
  <2>2. ~raced' => ~raced /\ useFd = 0
    BY <2>1
  <2>3. ~raced' => recvPc = "loop"
    BY <2>2 DEF LeakInv, Working
  <2> QED
    BY <2>1, <2>2, <2>3 DEF AskInv, OwnChunks, Emptied, Asked, RepliesToAsker
<1>3. ASSUME CloseOld PROVE AskInv'
  <2>1. /\ accPc = "close" /\ accPc' = "set"
        /\ UNCHANGED <<useFd, cache, recvPc, page, misled, raced>>
    BY <1>3 DEF CloseOld, history
  <2>2. ~raced => UNCHANGED owner
    BY <1>3, <2>1 DEF CloseOld, LeakInv, OneAtATime
  <2> QED
    BY <2>1, <2>2 DEF AskInv, OwnChunks, Emptied, Asked, RepliesToAsker
<1>4. ASSUME SetUse PROVE AskInv'
  <2>1. /\ accPc = "set" /\ accPc' = "clear"
        /\ UNCHANGED <<cache, recvPc, misled, raced>>
    BY <1>4 DEF SetUse, history
  <2>2. ~raced => recvPc = "loop"
    BY <2>1 DEF LeakInv, OneAtATime, Working
  <2> QED
    BY <2>1, <2>2 DEF AskInv, OwnChunks, Emptied, Asked, RepliesToAsker
<1>5. ASSUME ClearCache PROVE AskInv'
  BY <1>5 DEF ClearCache, history, AskInv, OwnChunks, Emptied, Asked, RepliesToAsker
<1>6. ASSUME RecvBegin PROVE AskInv'
  BY <1>6, AskQuiet DEF RecvBegin, history
<1>7. ASSUME RecvEnds PROVE AskInv'
  <2>1. /\ useFd' = 0 /\ recvPc' = "loop" /\ UNCHANGED <<misled, raced>>
    BY <1>7 DEF RecvEnds, history
  <2> QED
    BY <2>1 DEF AskInv, OwnChunks, Emptied, Asked, RepliesToAsker
<1>8. ASSUME RecvChunk PROVE AskInv'
  <2> DEFINE buf == Append(cache, <<recvOn, Head(unread[recvOn])>>)
  <2>1. /\ recvPc = "recv"
        /\ cache' = IF Result(buf) = 3 THEN buf ELSE <<>>
        /\ recvPc' = CASE Result(buf) = 0 -> "reply" [] Result(buf) = 1 -> "drop" [] OTHER -> "loop"
        /\ page' = IF Result(buf) = 0 THEN CHOOSE c \in From(buf, "begin") : TRUE ELSE NoClient
        /\ UNCHANGED <<useFd, owner, accPc, misled>>
        /\ raced' = (raced \/ accPc = "clear")
    BY <1>8 DEF RecvChunk
  <2>2. buf \in Seq(Clients \X Chunks)
    BY <1>8, ChunkTypes DEF RecvChunk
  <2>3. ASSUME ~raced' PROVE \A i \in DOMAIN buf : buf[i][1] = owner[useFd]
    <3>1. ~raced /\ accPc # "clear"
      BY <2>1, <2>3
    <3>2. recvOn = owner[useFd] /\ useFd # 0
      BY <2>1, <3>1 DEF LeakInv, Hearing, Working
    <3>3. \A i \in DOMAIN cache : cache[i][1] = owner[useFd]
      BY <3>1, <3>2 DEF AskInv, OwnChunks
    <3>4. \A i \in DOMAIN buf : (i \in DOMAIN cache /\ buf[i] = cache[i])
                                 \/ buf[i] = <<recvOn, Head(unread[recvOn])>>
      BY DEF TypeOK
    <3> QED
      BY <3>2, <3>3, <3>4
  <2>4. ASSUME ~raced', Result(buf) = 0 PROVE page' = owner[useFd]
    <3>1. From(buf, "begin") # {}
      BY <2>4, WholeRequest
    <3>2. \A c \in From(buf, "begin") : c = owner[useFd]
      BY <2>3, <2>4 DEF From
    <3> QED
      BY <2>1, <2>4, <3>1, <3>2
  <2>5. Result(buf) = 3 => recvPc' = "loop"
    BY <2>1
  <2>6. recvPc' = "reply" => Result(buf) = 0
    BY <2>1
  <2>7. ~raced' => ~raced
    BY <2>1
  <2> HIDE DEF buf
  <2> QED
    BY <2>1, <2>3, <2>4, <2>5, <2>6, <2>7 DEF AskInv, OwnChunks, Emptied, Asked, RepliesToAsker
<1>9. ASSUME Reply PROVE AskInv'
  <2>1. ~raced => misled' = misled
    BY <1>9 DEF Reply, AskInv, Asked
  <2>2. /\ recvPc = "reply" /\ recvPc' = "drop"
        /\ UNCHANGED <<useFd, owner, cache, accPc, page, raced>>
    BY <1>9 DEF Reply
  <2> QED
    BY <2>1, <2>2 DEF AskInv, OwnChunks, Emptied, Asked, RepliesToAsker
<1>10. ASSUME Drop PROVE AskInv'
  <2>1. /\ recvPc = "drop" /\ recvPc' \in {"loop", "done"}
        /\ UNCHANGED <<useFd, cache, accPc, misled, raced>>
    BY <1>10 DEF Drop, history
  <2>2. ~raced => cache' = <<>>
    BY <2>1 DEF AskInv, Emptied
  <2> QED
    BY <2>1, <2>2 DEF AskInv, OwnChunks, Emptied, Asked, RepliesToAsker
<1>11. ASSUME Done PROVE AskInv'
  <2>1. CASE Restart
    BY <1>1, <2>1
  <2>2. CASE ~Restart
    BY <1>11, <2>2 DEF Done, history, AskInv, OwnChunks, Emptied, Asked, RepliesToAsker
  <2> QED
    BY <2>1, <2>2
<1>12. ASSUME NEW c \in Clients, Connects(c) \/ HangsUp(c) PROVE AskInv'
  BY <1>12, AskQuiet DEF Connects, HangsUp, taskVars, history
<1>13. ASSUME NEW c \in Clients, NEW k \in Chunks, Sends(c, k) PROVE AskInv'
  BY <1>13, AskQuiet DEF Sends, taskVars, history
<1>14. ASSUME UNCHANGED vars PROVE AskInv'
  BY <1>14, AskQuiet DEF vars, taskVars, history
<1> QED
  BY <1>1, <1>2, <1>3, <1>4, <1>5, <1>6, <1>7, <1>8, <1>9, <1>10, <1>11, <1>12, <1>13, <1>14
     DEF Next, AcceptTask, RecvTask, AcceptFails

\* Nor does anybody get the reply to the request of another.
THEOREM RepliesCorrect == Spec => []RepliesToAsker
<1>1. AskInv => RepliesToAsker
  BY DEF AskInv
<1> QED
  BY <1>1, AskInit, AskStep, LeakInit, LeakStep, OwnStep, TypeCorrect, PTL DEF Spec

=============================================================================
