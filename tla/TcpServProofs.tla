----------------------------- MODULE TcpServProofs -----------------------------
(* Proofs about the TCP server, for any clients and any pool of descriptors. *)
EXTENDS TcpServ, WellFoundedInduction, TLAPS

\* The lowest free descriptor is a free descriptor.
LEMMA LowestFree == Free # {} => Min(Free) \in Free
<1> SUFFICES ASSUME Free # {} PROVE Min(Free) \in Free
  OBVIOUS
<1>1. Free \subseteq Nat
  BY TcpAssumption DEF Free, Fds
<1>2. \E n \in Free : \A m \in Free : ~ (<<m, n>> \in OpToRel(<, Nat))
  BY <1>1, NatLessThanWellFounded, WFMin
<1>3. \E n \in Free : \A m \in Free : n <= m
  <2>1. ASSUME NEW n \in Free, NEW m \in Free, ~ (<<m, n>> \in OpToRel(<, Nat))
        PROVE  n <= m
    BY <1>1, <2>1 DEF OpToRel
  <2> QED
    BY <1>2, <2>1
<1> QED
  BY <1>3, Zenon DEF Min

\* close() keeps the types of what it changes.
LEMMA CloseTypes ==
    ASSUME TypeOK, NEW f \in 0..MaxFds, Close(f)
    PROVE  /\ owner' \in [Fds -> Clients \cup {NoClient}]
           /\ conn' \in [Clients -> {"new", "queued", "open", "gone", "closed"}]
<1>1. CASE Live(f)
  BY <1>1 DEF TypeOK, Close, Live
<1>2. CASE ~Live(f)
  BY <1>2 DEF TypeOK, Close
<1> QED
  BY <1>1, <1>2

-----------------------------------------------------------------------------
\* Every variable keeps its type, for any clients and any pool.
THEOREM TypeCorrect == Spec => []TypeOK
<1> USE TcpAssumption
<1>1. Init => TypeOK
  <2>1. Init => raced \in BOOLEAN
    BY Zenon DEF Init
  <2>2. Init => clientFd \in 0..MaxFds /\ tmpFd \in 0..MaxFds
    BY DEF Init
  <2> QED
    BY <2>1, <2>2 DEF Init, TypeOK
<1>2. TypeOK /\ [Next]_vars => TypeOK'
  <2> SUFFICES ASSUME TypeOK, [Next]_vars PROVE TypeOK'
    OBVIOUS
  <2> USE DEF TypeOK
  <2>1. ASSUME AcceptFails PROVE TypeOK'
    <3>1. raced' \in BOOLEAN
      BY <2>1, Zenon DEF AcceptFails, Restart
    <3> QED
      BY <2>1, <3>1 DEF AcceptFails, Restart
  <2>2. ASSUME NEW c \in Clients, Accept(c) PROVE TypeOK'
    <3>1. Min(Free) \in Fds
      BY <2>2, LowestFree DEF Accept, Free
    <3>2. Min(Free) \in 0..MaxFds
      BY <3>1 DEF Fds
    <3>3. raced' \in BOOLEAN
      BY <2>2, Zenon DEF Accept, Races
    <3> QED
      BY <2>2, <3>1, <3>2, <3>3 DEF Accept
  <2>3. ASSUME CloseOld PROVE TypeOK'
    <3>1. /\ owner' \in [Fds -> Clients \cup {NoClient}]
          /\ conn' \in [Clients -> {"new", "queued", "open", "gone", "closed"}]
      <4>1. CASE clientFd > 0
        BY <2>3, <4>1, CloseTypes DEF CloseOld
      <4>2. CASE ~(clientFd > 0)
        BY <2>3, <4>2 DEF CloseOld
      <4> QED
        BY <4>1, <4>2
    <3>2. raced' \in BOOLEAN
      BY <2>3, Zenon DEF CloseOld, Races
    <3> QED
      BY <2>3, <3>1, <3>2 DEF CloseOld
  <2>4. ASSUME SetClient PROVE TypeOK'
    <3>1. raced' \in BOOLEAN
      BY <2>4, Zenon DEF SetClient, Races
    <3> QED
      BY <2>4, <3>1 DEF SetClient
  <2>5. ASSUME RecvBegin PROVE TypeOK'
    BY <2>5 DEF RecvBegin, Fds
  <2>6. ASSUME RecvChunk PROVE TypeOK'
    BY <2>6 DEF RecvChunk
  <2>7. ASSUME Callback \/ RecvEnds \/ RecvFails PROVE TypeOK'
    BY <2>7 DEF Callback, RecvEnds, RecvFails
  <2>8. ASSUME CloseClient PROVE TypeOK'
    <3>1. /\ owner' \in [Fds -> Clients \cup {NoClient}]
          /\ conn' \in [Clients -> {"new", "queued", "open", "gone", "closed"}]
      BY <2>8, CloseTypes DEF CloseClient
    <3> QED
      BY <2>8, <3>1 DEF CloseClient
  <2>9. ASSUME ZeroClient PROVE TypeOK'
    BY <2>9 DEF ZeroClient
  <2>10. ASSUME NEW c \in Clients, Connects(c) \/ HangsUp(c) PROVE TypeOK'
    BY <2>10 DEF Connects, HangsUp
  <2>11. ASSUME NEW c \in Clients, Sends(c) PROVE TypeOK'
    BY <2>11 DEF Sends
  <2>12. ASSUME UNCHANGED vars PROVE TypeOK'
    BY <2>12 DEF vars
  <2> HIDE DEF TypeOK
  <2> QED
    BY <2>1, <2>2, <2>3, <2>4, <2>5, <2>6, <2>7, <2>8, <2>9, <2>10, <2>11, <2>12
       DEF Next, AcceptTask, RecvTask
<1> QED
  BY <1>1, <1>2, PTL DEF Spec

-----------------------------------------------------------------------------
\* What keeps NoLeak: while the accept task works it holds a descriptor; the
\* receive task is in recv() or cleans up only for a client; once the old client
\* is closed only the new one is open; and between close() and the zeroing of the
\* number nothing is open under it.
Accepting == accPc # "accept" => tmpFd \in Fds
Receiving == recvPc \in {"recv", "close", "zero"} => clientFd # 0
OnlyNew == ~raced /\ accPc = "set" => \A f \in Fds : Live(f) => f = tmpFd
Closed == ~raced /\ recvPc = "zero" => ~Live(clientFd)

LeakInv == Accepting /\ Receiving /\ OnlyNew /\ Closed /\ NoLeak

\* It holds when the server starts.
LEMMA LeakInit == Init => LeakInv
BY TcpAssumption DEF Init, LeakInv, Accepting, Receiving, OnlyNew, Closed, NoLeak, Live

\* A step that opens no connection and touches neither the accept task nor the
\* client's descriptor keeps it, unless it is the receive task that moves on.
LEMMA LeakQuiet ==
    ASSUME LeakInv, UNCHANGED <<clientFd, tmpFd, owner, accPc, raced>>,
           recvPc' = recvPc \/ recvPc' \in {"loop", "callback"}
                \/ (recvPc' \in {"recv", "close"} /\ clientFd # 0)
    PROVE  LeakInv'
BY DEF LeakInv, Accepting, Receiving, OnlyNew, Closed, NoLeak, Live

\* Every step of the two tasks, of the clients and of a restart keeps it.
LEMMA LeakStep == TypeOK /\ LeakInv /\ [Next]_vars => LeakInv'
<1> SUFFICES ASSUME TypeOK, LeakInv, [Next]_vars PROVE LeakInv'
  OBVIOUS
<1> USE DEF LeakInv, Accepting, Receiving, OnlyNew, Closed, NoLeak
<1>1. ASSUME AcceptFails PROVE LeakInv'
  BY <1>1 DEF AcceptFails, Restart, Live
<1>2. ASSUME NEW c \in Clients, Accept(c) PROVE LeakInv'
  <2>1. /\ Min(Free) \in Fds
        /\ accPc = "accept" /\ accPc' = "close" /\ tmpFd' = Min(Free)
        /\ owner' = [owner EXCEPT ![Min(Free)] = c]
        /\ UNCHANGED <<clientFd, recvPc>>
        /\ raced' = (raced \/ Races)
    BY <1>2, LowestFree DEF Accept, Free
  <2>2. ~raced' => ~raced
    BY <2>1
  <2>3. \A f \in Fds : f # tmpFd' => (Live(f)' <=> Live(f))
    BY <2>1 DEF TypeOK, Live
  <2>4. NoLeak'
    BY <2>1, <2>2, <2>3
  <2>5. Closed'
    <3>1. recvPc = "zero" => Races
      BY DEF Races
    <3> QED
      BY <2>1, <3>1
  <2> QED
    BY <2>1, <2>4, <2>5
<1>3. ASSUME CloseOld PROVE LeakInv'
  <2>1. /\ accPc = "close" /\ accPc' = "set"
        /\ UNCHANGED <<clientFd, tmpFd, recvPc>>
        /\ ~raced' => ~raced
    BY <1>3 DEF CloseOld
  <2>2. \A f \in Fds : Live(f)' => Live(f) /\ f # clientFd
    <3>1. CASE clientFd > 0
      BY <1>3, <3>1 DEF CloseOld, Close, Live, TypeOK
    <3>2. CASE ~(clientFd > 0)
      <4>1. clientFd \notin Fds
        BY <3>2 DEF Fds, TypeOK
      <4> QED
        BY <1>3, <3>2, <4>1 DEF CloseOld, Live
    <3> QED
      BY <3>1, <3>2
  <2>3. Live(clientFd)' => Live(clientFd)
    BY <2>1, <2>2 DEF Live
  <2> QED
    BY <2>1, <2>2, <2>3
<1>4. ASSUME SetClient PROVE LeakInv'
  <2>1. /\ accPc = "set" /\ accPc' = "accept" /\ clientFd' = tmpFd
        /\ tmpFd \in Fds
        /\ UNCHANGED <<tmpFd, owner, recvPc>>
        /\ raced' = (raced \/ Races)
    BY <1>4 DEF SetClient
  <2>2. tmpFd # 0
    BY <2>1 DEF Fds
  <2>3. recvPc = "zero" => raced'
    BY <2>1 DEF Races
  <2>4. ~raced' => ~raced
    BY <2>1
  <2> QED
    BY <2>1, <2>2, <2>3, <2>4 DEF Live
<1>5. ASSUME RecvBegin \/ RecvChunk \/ Callback \/ RecvEnds \/ RecvFails PROVE LeakInv'
  <2>1. UNCHANGED <<clientFd, tmpFd, owner, accPc, raced>>
    BY <1>5 DEF RecvBegin, RecvChunk, Callback, RecvEnds, RecvFails
  <2>2. \/ recvPc' \in {"loop", "callback"}
        \/ recvPc' \in {"recv", "close"} /\ clientFd # 0
    BY <1>5 DEF RecvBegin, RecvChunk, Callback, RecvEnds, RecvFails, TypeOK
  <2> QED
    BY <2>1, <2>2, LeakQuiet
<1>6. ASSUME CloseClient PROVE LeakInv'
  <2>1. /\ recvPc = "close" /\ recvPc' = "zero"
        /\ UNCHANGED <<clientFd, tmpFd, accPc, raced>>
    BY <1>6 DEF CloseClient
  <2>2. \A f \in Fds : Live(f)' => Live(f) /\ f # clientFd
    BY <1>6 DEF CloseClient, Close, Live, TypeOK
  <2>3. ~Live(clientFd)'
    BY <2>1, <2>2 DEF Live
  <2> QED
    BY <2>1, <2>2, <2>3
<1>7. ASSUME ZeroClient PROVE LeakInv'
  <2>1. /\ recvPc = "zero" /\ recvPc' = "loop" /\ clientFd' = 0
        /\ UNCHANGED <<tmpFd, owner, accPc, raced>>
    BY <1>7 DEF ZeroClient
  <2>2. NoLeak'
    <3> SUFFICES ASSUME ~raced, NEW f \in Fds, Live(f)
                 PROVE  accPc # "accept" /\ f = tmpFd
      BY <2>1 DEF Live
    <3>1. CASE accPc = "accept"
      BY <2>1, <3>1
    <3>2. CASE accPc = "set"
      BY <3>2
    <3>3. CASE accPc = "close"
      BY <2>1, <3>3
    <3> QED
      BY <3>1, <3>2, <3>3 DEF TypeOK
  <2> QED
    BY <2>1, <2>2 DEF Live
<1>8. ASSUME NEW c \in Clients, Connects(c) \/ Sends(c) \/ HangsUp(c) PROVE LeakInv'
  BY <1>8, LeakQuiet DEF Connects, Sends, HangsUp
<1>9. ASSUME UNCHANGED vars PROVE LeakInv'
  BY <1>9, LeakQuiet DEF vars
<1> QED
  BY <1>1, <1>2, <1>3, <1>4, <1>5, <1>6, <1>7, <1>8, <1>9 DEF Next, AcceptTask, RecvTask

\* Without a takeover during recv(), no descriptor is lost.
THEOREM NoLeakCorrect == Spec => []NoLeak
<1>1. LeakInv => NoLeak
  BY DEF LeakInv
<1> QED
  BY <1>1, LeakInit, LeakStep, TypeCorrect, PTL DEF Spec

-----------------------------------------------------------------------------
\* What keeps NewestStays: an open connection has one descriptor and nobody else
\* has; the client in use is open; the newest client has a descriptor of its own;
\* and the receive task closes only a client that has hung up.
InUse == \A f \in Fds : Live(f) => conn[owner[f]] \in {"open", "gone"}
OneEach == \A f, g \in Fds : Live(f) /\ owner[f] = owner[g] => f = g
Held == ~raced /\ clientFd # 0 /\ recvPc # "zero" /\ accPc # "set" => Live(clientFd)
NewHeld == ~raced /\ accPc # "accept" => Live(tmpFd) /\ tmpFd # clientFd
Heard == ~raced /\ recvPc = "recv" /\ Live(clientFd) => recvOn = owner[clientFd]
Ended == ~raced /\ recvPc = "close" /\ Live(clientFd) => conn[owner[clientFd]] = "gone"

NewestInv == InUse /\ OneEach /\ Held /\ NewHeld /\ Heard /\ Ended

LEMMA NewestInit == Init => NewestInv
BY TcpAssumption DEF Init, NewestInv, InUse, OneEach, Held, NewHeld, Heard, Ended, Live

\* close() takes a descriptor and its connection away and leaves the others alone.
LEMMA CloseOwn ==
    ASSUME TypeOK, InUse, OneEach, NEW f \in 0..MaxFds, Close(f)
    PROVE  /\ InUse' /\ OneEach'
           /\ \A g \in Fds : g # f => owner'[g] = owner[g] /\ (Live(g)' <=> Live(g))
           /\ \A g \in Fds : Live(g)' => g # f /\ conn'[owner[g]] = conn[owner[g]]
<1>1. CASE Live(f)
  <2>1. /\ owner' = [owner EXCEPT ![f] = NoClient] /\ conn' = [conn EXCEPT ![owner[f]] = "closed"]
        /\ f \in Fds /\ owner \in [Fds -> Clients \cup {NoClient}]
        /\ conn \in [Clients -> {"new", "queued", "open", "gone", "closed"}]
    BY <1>1 DEF Close, Live, TypeOK
  <2>2. \A g \in Fds : g # f => owner'[g] = owner[g] /\ (Live(g)' <=> Live(g))
    BY <2>1 DEF Live
  <2>3. ~Live(f)'
    BY <2>1 DEF Live
  <2>4. ASSUME NEW g \in Fds, Live(g)' PROVE g # f /\ conn'[owner[g]] = conn[owner[g]]
    <3>1. g # f /\ Live(g)
      BY <2>2, <2>3, <2>4
    <3>2. owner[g] \in Clients /\ owner[g] # owner[f]
      BY <1>1, <2>1, <3>1 DEF Live, OneEach
    <3> QED
      BY <2>1, <3>1, <3>2
  <2>5. InUse'
    BY <2>2, <2>4 DEF InUse
  <2>6. OneEach'
    <3> SUFFICES ASSUME NEW g \in Fds, NEW h \in Fds, Live(g)', owner'[g] = owner'[h] PROVE g = h
      BY DEF OneEach, Fds
    <3>1. Live(h)'
      BY DEF Live
    <3> QED
      BY <2>2, <2>4, <3>1 DEF OneEach
  <2> QED
    BY <2>2, <2>4, <2>5, <2>6
<1>2. CASE ~Live(f)
  <2>1. conn' = conn /\ \A g \in Fds : owner'[g] = owner[g] /\ (g = f => owner[g] = NoClient)
    BY <1>2 DEF Close, Live, TypeOK
  <2> QED
    BY <1>2, <2>1 DEF InUse, OneEach, Live
<1> QED
  BY <1>1, <1>2

\* Every step of the two tasks, of the clients and of a restart keeps it.
LEMMA NewestStep == TypeOK /\ LeakInv /\ NewestInv /\ [Next]_vars => NewestInv'
<1> SUFFICES ASSUME TypeOK, LeakInv, NewestInv, [Next]_vars PROVE NewestInv'
  OBVIOUS
<1>0. /\ clientFd \in 0..MaxFds /\ tmpFd \in 0..MaxFds /\ owner \in [Fds -> Clients \cup {NoClient}]
      /\ conn \in [Clients -> {"new", "queued", "open", "gone", "closed"}]
      /\ \A f \in 0..MaxFds : f \in Fds <=> f # 0
      /\ NoClient \notin Clients
  BY TcpAssumption DEF TypeOK, Fds
<1>1. ASSUME AcceptFails PROVE NewestInv'
  BY <1>1 DEF AcceptFails, Restart, NewestInv, InUse, OneEach, Held, NewHeld, Heard, Ended, Live
<1>2. ASSUME NEW c \in Clients, Accept(c) PROVE NewestInv'
  <2>1. PICK n \in Fds : n = Min(Free) /\ owner[n] = NoClient
    BY <1>2, LowestFree DEF Accept, Free
  <2>2. /\ accPc = "accept" /\ accPc' = "close" /\ tmpFd' = n
        /\ owner' = [owner EXCEPT ![n] = c] /\ conn' = [conn EXCEPT ![c] = "open"]
        /\ conn[c] = "queued" /\ UNCHANGED <<clientFd, recvPc, recvOn>>
        /\ ~raced' => ~raced /\ ~Races
    BY <1>2, <2>1 DEF Accept
  <2>3. \A f \in Fds : /\ f # n => owner'[f] = owner[f] /\ (Live(f)' <=> Live(f))
                       /\ Live(f) => f # n /\ owner[f] # c /\ owner[f] \in Clients
    BY <1>0, <2>1, <2>2 DEF NewestInv, InUse, Live
  <2>4. owner'[n] = c /\ Live(n)' /\ conn'[c] = "open" /\ \A d \in Clients : d # c => conn'[d] = conn[d]
    BY <1>0, <2>1, <2>2 DEF Live
  <2>5. InUse'
    BY <2>3, <2>4 DEF NewestInv, InUse
  <2>6. OneEach'
    <3> SUFFICES ASSUME NEW f \in Fds, NEW g \in Fds, Live(f)', owner'[f] = owner'[g] PROVE f = g
      BY DEF OneEach, Fds
    <3>1. Live(g)'
      BY DEF Live
    <3> QED
      BY <2>3, <2>4, <3>1 DEF NewestInv, OneEach
  <2>7. ~raced' => recvPc \notin {"recv", "close", "zero"}
    BY <2>2 DEF Races, LeakInv, Receiving
  <2>8. ~raced' /\ clientFd # 0 => Live(clientFd) /\ clientFd # n
    BY <1>0, <2>2, <2>3, <2>7 DEF NewestInv, Held
  <2>9. Held'
    BY <1>0, <2>2, <2>3, <2>8 DEF Held
  <2>10. NewHeld'
    BY <1>0, <2>1, <2>2, <2>4, <2>8 DEF NewHeld
  <2>11. Heard' /\ Ended'
    BY <2>2, <2>7 DEF Heard, Ended
  <2> QED
    BY <2>5, <2>6, <2>9, <2>10, <2>11 DEF NewestInv
<1>3. ASSUME CloseOld PROVE NewestInv'
  <2>1. /\ accPc = "close" /\ accPc' = "set" /\ UNCHANGED <<clientFd, tmpFd, recvPc, recvOn>>
        /\ ~raced' => ~raced /\ ~Races
    BY <1>3 DEF CloseOld
  <2>2. /\ InUse' /\ OneEach'
        /\ \A g \in Fds : g # clientFd => (Live(g)' <=> Live(g))
    <3>1. CASE clientFd > 0
      BY <1>3, <3>1, CloseOwn, <1>0 DEF CloseOld, NewestInv
    <3>2. CASE ~(clientFd > 0)
      BY <1>3, <3>2 DEF CloseOld, NewestInv, InUse, OneEach, Live
    <3> QED
      BY <3>1, <3>2
  <2>3. ~raced' => recvPc \notin {"recv", "close", "zero"}
    BY <2>1 DEF Races, LeakInv, Receiving
  <2>4. NewHeld'
    BY <2>1, <2>2 DEF NewestInv, NewHeld, Live
  <2>5. Held' /\ Heard' /\ Ended'
    BY <2>1, <2>3 DEF Held, Heard, Ended
  <2> QED
    BY <2>2, <2>4, <2>5 DEF NewestInv
<1>4. ASSUME SetClient PROVE NewestInv'
  <2>1. /\ accPc = "set" /\ accPc' = "accept" /\ clientFd' = tmpFd
        /\ UNCHANGED <<owner, conn, recvPc, recvOn>>
        /\ ~raced' => ~raced /\ ~Races
    BY <1>4 DEF SetClient
  <2>2. ~raced' => recvPc \notin {"recv", "close", "zero"}
    BY <2>1 DEF Races, LeakInv, Receiving
  <2>3. Held' /\ NewHeld' /\ Heard' /\ Ended'
    BY <2>1, <2>2 DEF Held, NewHeld, Heard, Ended, NewestInv, Live
  <2> QED
    BY <2>1, <2>3 DEF NewestInv, InUse, OneEach, Live
<1>5. ASSUME RecvBegin PROVE NewestInv'
  BY <1>5 DEF RecvBegin, NewestInv, InUse, OneEach, Held, NewHeld, Heard, Ended, Live
<1>6. ASSUME RecvChunk \/ Callback \/ RecvEnds PROVE NewestInv'
  <2>1. /\ UNCHANGED <<clientFd, tmpFd, owner, accPc, conn, raced>>
        /\ recvPc # "zero" /\ recvPc' \in {"callback", "loop"}
    BY <1>6 DEF RecvChunk, Callback, RecvEnds
  <2> QED
    BY <2>1 DEF NewestInv, InUse, OneEach, Held, NewHeld, Heard, Ended, Live
<1>7. ASSUME RecvFails PROVE NewestInv'
  <2>1. /\ UNCHANGED <<clientFd, tmpFd, owner, accPc, conn, raced>>
        /\ recvPc = "recv" /\ recvPc' = "close"
        /\ recvOn \in Clients /\ Open(recvOn) => conn[recvOn] = "gone"
    BY <1>7 DEF RecvFails
  <2>2. Ended'
    BY <1>0, <2>1 DEF NewestInv, Heard, Ended, Live, Open
  <2> QED
    BY <2>1, <2>2 DEF NewestInv, InUse, OneEach, Held, NewHeld, Heard, Live
<1>8. ASSUME CloseClient PROVE NewestInv'
  <2>1. /\ recvPc' = "zero" /\ UNCHANGED <<clientFd, tmpFd, accPc, raced>> /\ Close(clientFd)
    BY <1>8 DEF CloseClient
  <2>2. /\ InUse' /\ OneEach' /\ \A g \in Fds : g # clientFd => (Live(g)' <=> Live(g))
    BY <1>0, <2>1, CloseOwn DEF NewestInv
  <2>3. Held' /\ NewHeld' /\ Heard' /\ Ended'
    BY <2>1, <2>2 DEF Held, NewHeld, Heard, Ended, NewestInv, Live
  <2> QED
    BY <2>2, <2>3 DEF NewestInv
<1>9. ASSUME ZeroClient PROVE NewestInv'
  <2>1. /\ recvPc' = "loop" /\ clientFd' = 0 /\ UNCHANGED <<tmpFd, owner, accPc, conn, raced>>
    BY <1>9 DEF ZeroClient
  <2>2. NewHeld'
    BY <1>0, <2>1 DEF NewHeld, NewestInv, Live
  <2> QED
    BY <2>1, <2>2 DEF NewestInv, InUse, OneEach, Held, Heard, Ended, Live
<1>10. ASSUME NEW c \in Clients, Connects(c) \/ HangsUp(c) PROVE NewestInv'
  <2>1. /\ UNCHANGED <<clientFd, tmpFd, owner, accPc, recvPc, recvOn, raced>>
        /\ \/ conn[c] = "new" /\ conn' = [conn EXCEPT ![c] = "queued"]
           \/ conn' = [conn EXCEPT ![c] = "gone"]
    BY <1>10 DEF Connects, HangsUp
  <2>2. \A f \in Fds : Live(f) => /\ owner[f] \in Clients
                                  /\ conn'[owner[f]] = conn[owner[f]] \/ conn'[owner[f]] = "gone"
    BY <1>0, <2>1 DEF NewestInv, InUse, Live
  <2>3. InUse' /\ Ended'
    BY <2>1, <2>2 DEF NewestInv, InUse, Ended, Live
  <2> QED
    BY <2>1, <2>3 DEF NewestInv, OneEach, Held, NewHeld, Heard, Live
<1>11. ASSUME NEW c \in Clients, Sends(c) PROVE NewestInv'
  BY <1>11 DEF Sends, NewestInv, InUse, OneEach, Held, NewHeld, Heard, Ended, Live
<1>12. ASSUME UNCHANGED vars PROVE NewestInv'
  BY <1>12 DEF vars, NewestInv, InUse, OneEach, Held, NewHeld, Heard, Ended, Live
<1> QED
  BY <1>1, <1>2, <1>3, <1>4, <1>5, <1>6, <1>7, <1>8, <1>9, <1>10, <1>11, <1>12
     DEF Next, AcceptTask, RecvTask

\* Only two steps close anything, and neither closes the newest client.
LEMMA NewestKept ==
    ASSUME TypeOK, NewestInv, Next, ~raced'
    PROVE  ClosedForNewer \/ AcceptFails
<1>0. /\ clientFd \in 0..MaxFds /\ owner \in [Fds -> Clients \cup {NoClient}]
      /\ conn \in [Clients -> {"new", "queued", "open", "gone", "closed"}]
  BY DEF TypeOK
<1> SUFFICES ASSUME NEW c \in Clients, conn[c] = "open", conn'[c] = "closed", ~AcceptFails
             PROVE  owner[tmpFd] # c
  BY DEF ClosedForNewer
<1>1. ASSUME CloseOld PROVE owner[tmpFd] # c
  <2>1. accPc = "close" /\ ~raced
    BY <1>1 DEF CloseOld
  <2>2. Live(clientFd) /\ c = owner[clientFd]
    BY <1>0, <1>1 DEF CloseOld, Close, Live
  <2> QED
    BY <2>1, <2>2 DEF NewestInv, NewHeld, OneEach, Live
<1>2. ASSUME CloseClient PROVE FALSE
  <2>1. recvPc = "close" /\ ~raced
    BY <1>2 DEF CloseClient
  <2>2. Live(clientFd) /\ c = owner[clientFd]
    BY <1>0, <1>2 DEF CloseClient, Close, Live
  <2> QED
    BY <2>1, <2>2 DEF NewestInv, Ended
<1>3. ASSUME NEW d \in Clients, Accept(d) \/ Connects(d) \/ Sends(d) \/ HangsUp(d) PROVE FALSE
  BY <1>0, <1>3 DEF Accept, Connects, Sends, HangsUp
<1>4. ASSUME SetClient \/ RecvBegin \/ RecvChunk \/ Callback \/ RecvEnds \/ RecvFails \/ ZeroClient
      PROVE  FALSE
  BY <1>4 DEF SetClient, RecvBegin, RecvChunk, Callback, RecvEnds, RecvFails, ZeroClient
<1> QED
  BY <1>1, <1>2, <1>3, <1>4 DEF Next, AcceptTask, RecvTask

\* THEOREM.  Without a takeover during recv(), the newest client keeps its
\* connection: as long as accept() does not fail, an open connection is closed
\* only for a newer one.
THEOREM NewestCorrect == Spec => NewestStays
<1>1. TypeOK /\ NewestInv /\ [Next]_vars => [~raced' => ClosedForNewer \/ AcceptFails]_vars
  BY NewestKept
<1> QED
  BY <1>1, LeakInit, LeakStep, NewestInit, NewestStep, TypeCorrect, PTL DEF Spec, NewestStays

=============================================================================
