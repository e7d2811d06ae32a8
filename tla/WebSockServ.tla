----------------------------- MODULE WebSockServ -----------------------------
(***************************************************************************)
(* The WebSocket server, components/websocket/websocket_serv.c: a task     *)
(* that accepts and one that receives share g_wsk_client_fd and wsclient,  *)
(* the connection with its handshake and its cache.  The newest client     *)
(* takes over.                                                             *)
(*                                                                         *)
(* A chunk is received and stored in one step, and looked at in another.   *)
(* A request is a few tokens, the line with the key and the empty line     *)
(* among them, which in the old protocol eight bytes of key follow.        *)
(***************************************************************************)
EXTENDS WebSockFrames, UrlCode, WsPad, FiniteSets

CONSTANTS
    Clients,    \* connections that are made, each once
    OldClients, \* those that use the old protocol
    NoClient,   \* no connection
    MaxFds,     \* descriptors of the lwIP pool it may get
    CacheSize,  \* bytes of recvCache
    ChunkSize,  \* bytes of recv_buf
    StrSize,    \* bytes of str, to which a message is unpacked
    Garbage,    \* what recvLen may be after bytes were written over it
    Messages,   \* what clients send
    Mask,       \* the bytes they mask it with
    MaxMsgs     \* bound on their messages

ASSUME ServAssumption ==
    /\ NoClient \notin Clients /\ OldClients \subseteq Clients
    /\ MaxFds \in Nat \ {0}
    /\ CacheSize \in Nat /\ ChunkSize \in Nat \ {0} /\ StrSize \in Nat
    /\ Garbage \subseteq Int
    /\ Messages \subseteq {m \in Seq(Byte \ {Begin1, End1}) : Len(m) < Base * Base}
    /\ Mask \in [1..MaskLen -> Byte]
    /\ MaxMsgs \in Nat

VARIABLES
    fd,         \* g_wsk_client_fd
    espconn,    \* wsclient.pespconn
    method,     \* wsclient.hs.method, 0 before the handshake
    cache,      \* wsclient.recvCache
    len,        \* wsclient.recvLen
    owner,      \* the open connection behind each descriptor
    accPc,      \* where the accept task is
    recvPc,     \* where the receive task is
    recvOn,     \* the connection recv() was called on
    conn,       \* the connections as the clients see them
    wire,       \* of each client's bytes, those recv() has not returned
    told,       \* the answer each client has got: "none", "right", "wrong"
    sent,       \* the texts each client has sent, until spoilt
    got,        \* history: those given on for each client, until spoilt
    spoilt      \* history: did a takeover meet the receive task at work, did that store
                \* bytes before their connection was set up, or read or write memory
                \* behind the last byte received, the cache or str?

sockVars == <<fd, espconn, owner>>
cacheVars == <<method, cache, len>>
clientVars == <<conn, wire, told, sent>>
history == <<got, spoilt>>
vars == <<sockVars, cacheVars, accPc, recvPc, recvOn, clientVars, history>>

Fds == 1..MaxFds
Free == {f \in Fds : owner[f] = NoClient}
Live(f) == f \in Fds /\ owner[f] # NoClient
Open(c) == \E f \in Fds : owner[f] = c
Method(c) == IF c \in OldClients THEN 1 ELSE 2

\* The tokens of a request.
KeyLine(m) == Base + m
EmptyLine == Base + 3
Line == Base + 4
Key3 == 1
Request(c) == IF c \in OldClients THEN <<Line, Line, KeyLine(1), EmptyLine, Key3>>
              ELSE <<KeyLine(2), EmptyLine>>

\* close(f): the connection ends; an unused descriptor is an error nobody reads.
Close(f) ==
    /\ owner' = IF f \in Fds THEN [owner EXCEPT ![f] = NoClient] ELSE owner
    /\ conn' = IF Live(f) THEN [conn EXCEPT ![owner[f]] = "closed"] ELSE conn

\* A takeover that goes on while the receive task has a client in hand.
Races == espconn # 0 /\ recvPc # "loop"

-----------------------------------------------------------------------------
Init ==
    /\ fd = 0 /\ espconn = 0 /\ method = 0
    /\ cache = [i \in 1..CacheSize |-> 0] /\ len = 0
    /\ owner = [f \in Fds |-> NoClient]
    /\ accPc = "accept" /\ recvPc = "loop" /\ recvOn = NoClient
    /\ conn = [c \in Clients |-> "new"]
    /\ wire = [c \in Clients |-> <<>>]
    /\ told = [c \in Clients |-> "none"]
    /\ sent = [c \in Clients |-> <<>>] /\ got = sent
    /\ spoilt = FALSE

\* The device starts anew; every connection is lost, those in the backlog too.
Restart ==
    /\ fd' = 0 /\ espconn' = 0 /\ method' = 0
    /\ cache' = [i \in 1..CacheSize |-> 0] /\ len' = 0
    /\ owner' = [f \in Fds |-> NoClient]
    /\ accPc' = "accept" /\ recvPc' = "loop" /\ recvOn' = NoClient
    /\ conn' = [c \in Clients |-> IF conn[c] = "new" THEN "new" ELSE "closed"]
    /\ wire' = [c \in Clients |-> <<>>]
    /\ spoilt' = FALSE
    /\ UNCHANGED <<told, sent, got>>

-----------------------------------------------------------------------------
(* app_websocket_task_accept *)

\* accept() fails when the rest of the firmware holds the last descriptors, or
\* this server does: esp_restart.
AcceptFails ==
    /\ accPc = "accept"
    /\ \E c \in Clients : conn[c] = "queued"
    /\ Restart

\* The new descriptor is where the receive task looks before anything else of
\* the old connection has been put away.
Accept(c) ==
    /\ accPc = "accept" /\ Free # {}
    /\ conn[c] = "queued"
    /\ fd' = Min(Free)
    /\ owner' = [owner EXCEPT ![Min(Free)] = c]
    /\ conn' = [conn EXCEPT ![c] = "open"]
    /\ accPc' = "close"
    /\ spoilt' = (spoilt \/ Races)
    /\ UNCHANGED <<espconn, cacheVars, recvPc, recvOn, wire, told, sent, got>>

CloseOld ==
    /\ accPc = "close"
    /\ IF espconn # 0 THEN Close(espconn) ELSE UNCHANGED <<owner, conn>>
    /\ accPc' = "set"
    /\ spoilt' = (spoilt \/ Races)
    /\ UNCHANGED <<fd, espconn, cacheVars, recvPc, recvOn, wire, told, sent, got>>

SetConn ==
    /\ accPc = "set"
    /\ espconn' = fd
    /\ accPc' = "init"
    /\ spoilt' = (spoilt \/ Races)
    /\ UNCHANGED <<fd, owner, cacheVars, recvPc, recvOn, clientVars, got>>

\* fault: the handshake of the old connection is kept
InitConn_KeepsMethod ==
    /\ accPc = "init"
    /\ len' = 0
    /\ accPc' = "accept"
    /\ UNCHANGED <<sockVars, method, cache, recvPc, recvOn, clientVars, got, spoilt>>

\* zhWebSockInit, and the cache is emptied.
InitConn ==
    /\ accPc = "init"
    /\ method' = 0 /\ len' = 0
    /\ accPc' = "accept"
    /\ UNCHANGED <<sockVars, cache, recvPc, recvOn, clientVars, got, spoilt>>

-----------------------------------------------------------------------------
(* app_websocket_task_recv and websock_recv_cb *)

RecvBegin ==
    /\ recvPc = "loop" /\ fd > 0
    /\ recvPc' = "recv"
    /\ recvOn' = owner[fd]
    /\ UNCHANGED <<sockVars, cacheVars, accPc, clientVars, history>>

\* Bytes recv() may return.
Chunks ==
    IF recvPc = "recv" /\ recvOn # NoClient /\ Open(recvOn)
    THEN {SubSeq(wire[recvOn], 1, n) : n \in 1..Min({ChunkSize, Len(wire[recvOn])})}
    ELSE {}

\* The chunk is taken off the wire and put behind the cached bytes, as far as the
\* cache reaches.
Store(chunk) ==
    /\ wire' = [wire EXCEPT ![recvOn] = SubSeq(@, Len(chunk) + 1, Len(@))]
    /\ cache' = [i \in 1..CacheSize |->
                   IF i \in (len + 1)..(len + Len(chunk)) THEN chunk[i - len] ELSE cache[i]]
    /\ recvOn' = NoClient
    /\ recvPc' = "parse"

\* fault: one byte more than the cache has is let in
RecvChunk_OffByOne(chunk) ==
    /\ len >= 0 /\ len + Len(chunk) <= CacheSize + 1
    /\ Store(chunk)
    /\ len' = len + Len(chunk)
    /\ spoilt' = (spoilt \/ accPc # "accept")
    /\ UNCHANGED <<sockVars, method, accPc, conn, told, sent, got>>

\* What fits into the cache.
RecvChunk(chunk) ==
    /\ len >= 0 /\ len + Len(chunk) <= CacheSize
    /\ Store(chunk)
    /\ len' = len + Len(chunk)
    /\ spoilt' = (spoilt \/ accPc # "accept")
    /\ UNCHANGED <<sockVars, method, accPc, conn, told, sent, got>>

\* What does not fit: the client is disconnected, but its bytes are stored all the
\* same, over what lies behind the cache, recvLen first.  The device panics, or
\* goes on with whatever recvLen is then.
RecvOverflow(chunk) ==
    /\ len < 0 \/ len + Len(chunk) > CacheSize
    /\ \/ Restart
       \/ /\ IF len + Len(chunk) \in 0..CacheSize THEN UNCHANGED <<owner, conn>> ELSE Close(espconn)
          /\ Store(chunk)
          /\ len' \in Garbage
          /\ spoilt' = TRUE
          /\ UNCHANGED <<fd, espconn, method, accPc, told, sent, got>>

\* recv() returns 0 or -1: the client has hung up or the descriptor was closed.
RecvEnds ==
    /\ recvPc = "recv"
    /\ recvOn # NoClient /\ Open(recvOn) => conn[recvOn] = "gone" /\ wire[recvOn] = <<>>
    /\ recvPc' = "close"
    /\ recvOn' = NoClient
    /\ UNCHANGED <<sockVars, cacheVars, accPc, clientVars, history>>

\* The cache is read as a string, up to the first 0, which may lie behind the
\* last byte received: requests of earlier clients stay there.
Lines == SubSeq(cache, 1, Min({i \in 1..CacheSize : cache[i] = 0} \cup {CacheSize + 1}) - 1)
InLines(token) == \E i \in DOMAIN Lines : Lines[i] = token
HeadEnd == SelectInSeq(Lines, LAMBDA token : token = EmptyLine)

\* zhWebSockIdentify, and the test for the end of the request; 0 without both.
Identify ==
    IF ~InLines(EmptyLine) THEN 0
    ELSE IF InLines(KeyLine(1)) THEN 1
    ELSE IF InLines(KeyLine(2)) THEN 2
    ELSE 0

HeadHas(token) == \E i \in 1..(HeadEnd - 1) : Lines[i] = token

\* zhWebSockHandshake_1 and _2: is the answer the one the client expects?  The
\* old protocol's needs the key behind the empty line, which is not waited for,
\* and a digest without a 0 byte: it is sent as a string.
Answer_1 == HeadHas(KeyLine(1)) /\ HeadEnd < len
Answer_2 == HeadHas(KeyLine(2))

\* zhWebSockHandshake: the request is answered, its end is overwritten and the
\* cache emptied.
Handshake ==
    /\ recvPc = "parse" /\ method = 0
    /\ Identify = 2 \/ (Identify = 1 /\ HeadHas(KeyLine(1)))
    /\ method' = Identify
    /\ \E whole \in BOOLEAN :
        LET right == IF Identify = 1 THEN Answer_1 /\ whole ELSE Answer_2
        IN  told' = IF Live(fd)
                    THEN [told EXCEPT ![owner[fd]] = IF right THEN "right" ELSE "wrong"]
                    ELSE told
    /\ len' = 0 /\ cache' = [cache EXCEPT ![HeadEnd] = 0]
    /\ recvPc' = "loop"
    /\ UNCHANGED <<sockVars, accPc, recvOn, conn, wire, sent, history>>

\* An earlier client's line makes a request look like one of the old protocol,
\* whose key is not found: strlen of a null pointer, the device panics.
HandshakeWithoutKey ==
    /\ recvPc = "parse" /\ method = 0
    /\ Identify = 1 /\ ~HeadHas(KeyLine(1))
    /\ Restart

\* The request is not complete.
NoHandshake ==
    /\ recvPc = "parse" /\ method = 0 /\ Identify = 0
    /\ recvPc' = "loop"
    /\ UNCHANGED <<sockVars, cacheVars, accPc, recvOn, clientVars, history>>

\* Is str long enough for what the search leaves there and for the 0 behind the
\* decoded text?  Nothing in the code asks.
Fits(p) == PacketUse(method, cache, len, p) <= StrSize /\ Len(UrlDecode(p.msg)) < StrSize

\* One frame, or what stood in front of an incomplete one, is taken out of the
\* cache; in the latter case too a message is given on, an empty one.  A message
\* too long for str spoils the stack, which may not matter.
CutFrame ==
    /\ recvPc = "parse" /\ method # 0 /\ len \in 0..CacheSize
    /\ LET p == RecvPack(method, cache, len)
           n == p.begin + p.len
       IN  /\ n <= len
           /\ spoilt' = (spoilt \/ ~Fits(p))
           /\ got' = IF n > 0 /\ Live(fd) /\ ~spoilt /\ Fits(p)
                     THEN [got EXCEPT ![owner[fd]] = Append(@, UrlDecode(p.msg))] ELSE got
           /\ len' = len - n
           /\ cache' = [i \in 1..CacheSize |-> cache[IF i <= len - n THEN n + i ELSE i]]
    /\ recvPc' = "loop"
    /\ UNCHANGED <<sockVars, method, accPc, recvOn, clientVars>>

\* Or it does matter.
CutOverStr ==
    /\ recvPc = "parse" /\ method # 0 /\ len \in 0..CacheSize
    /\ ~Fits(RecvPack(method, cache, len))
    /\ Restart

\* A frame was found that ends behind the last byte received: recvLen becomes
\* negative, and memcpy is called with it.
CutTooMuch ==
    /\ recvPc = "parse" /\ method # 0 /\ len \in 0..CacheSize
    /\ LET p == RecvPack(method, cache, len)
       IN  /\ p.begin + p.len > len
           /\ len' = len - (p.begin + p.len)
    /\ recvPc' = "memcpy"
    /\ spoilt' = TRUE
    /\ UNCHANGED <<sockVars, method, cache, accPc, recvOn, clientVars, got>>

\* That copies all of the memory, up to where there is none.
Panic == recvPc = "memcpy" /\ Restart

\* With a recvLen that is none of the cache's, memory that is not the cache's is
\* searched for a frame: the device panics, or nothing is found.
CutOutside ==
    /\ recvPc = "parse" /\ method # 0 /\ len \notin 0..CacheSize
    /\ \/ Restart
       \/ recvPc' = "loop" /\ UNCHANGED <<sockVars, cacheVars, accPc, recvOn, clientVars, history>>

CloseClient ==
    /\ recvPc = "close"
    /\ Close(espconn)
    /\ recvPc' = "zero"
    /\ UNCHANGED <<fd, espconn, cacheVars, accPc, recvOn, wire, told, sent, history>>

\* zhWebSockFree leaves the method as it is.
ZeroClient ==
    /\ recvPc = "zero"
    /\ fd' = 0 /\ espconn' = 0 /\ len' = 0
    /\ recvPc' = "loop"
    /\ UNCHANGED <<owner, method, cache, accPc, recvOn, clientVars, history>>

-----------------------------------------------------------------------------
(* The clients *)

NoClientStep == UNCHANGED <<sockVars, cacheVars, accPc, recvPc, recvOn, history>>

\* The backlog of listen() is 1.  The request is sent at once.
Connects(c) ==
    /\ conn[c] = "new"
    /\ \A d \in Clients : conn[d] # "queued"
    /\ conn' = [conn EXCEPT ![c] = "queued"]
    /\ wire' = [wire EXCEPT ![c] = Request(c)]
    /\ NoClientStep /\ UNCHANGED <<told, sent>>

\* A client with the answer it expected sends messages, texts in the URL code; none
\* after something was spoilt, of which no property says more.
Sends(c, m) ==
    /\ conn[c] = "open" /\ told[c] = "right" /\ ~spoilt
    /\ FoldFunction(LAMBDA s, n : n + Len(s), 0, sent) < MaxMsgs
    /\ wire' = [wire EXCEPT ![c] = @ \o ClientFrame(Method(c), m, Mask)]
    /\ sent' = [sent EXCEPT ![c] = Append(@, UrlDecode(m))]
    /\ NoClientStep /\ UNCHANGED <<conn, told>>

HangsUp(c) ==
    /\ conn[c] = "open"
    /\ conn' = [conn EXCEPT ![c] = "gone"]
    /\ NoClientStep /\ UNCHANGED <<wire, told, sent>>

-----------------------------------------------------------------------------
AcceptTask == AcceptFails \/ (\E c \in Clients : Accept(c)) \/ CloseOld \/ SetConn \/ InitConn

RecvTask ==
    \/ RecvBegin \/ RecvEnds \/ Handshake \/ HandshakeWithoutKey \/ NoHandshake
    \/ CutFrame \/ CutOverStr \/ CutTooMuch \/ Panic \/ CutOutside \/ CloseClient \/ ZeroClient
    \/ \E chunk \in Chunks : RecvChunk(chunk) \/ RecvOverflow(chunk)

Next ==
    \/ AcceptTask
    \/ RecvTask
    \/ \E c \in Clients : Connects(c) \/ HangsUp(c) \/ (\E m \in Messages : Sends(c, m))

Spec == Init /\ [][Next]_vars

\* Both tasks run when they can; clients owe nothing.
FairSpec == Spec /\ WF_vars(AcceptTask) /\ WF_vars(RecvTask)

-----------------------------------------------------------------------------
(* Properties *)

\* Every variable keeps its type.  recvLen is negative or beyond the cache
\* (websocket_serv.c:35, :64) only after a race, a read behind the last byte
\* received or a write behind the cache or str.
TypeOK ==
    /\ fd \in 0..MaxFds /\ espconn \in 0..MaxFds
    /\ method \in 0..2 /\ len \in Int /\ (spoilt \/ len \in 0..CacheSize)
    /\ cache \in [1..CacheSize -> 0..(Base + 4)]
    /\ owner \in [Fds -> Clients \cup {NoClient}]
    /\ accPc \in {"accept", "close", "set", "init"}
    /\ recvPc \in {"loop", "recv", "parse", "memcpy", "close", "zero"}
    /\ recvOn \in Clients \cup {NoClient}
    /\ conn \in [Clients -> {"new", "queued", "open", "gone", "closed"}]
    /\ told \in [Clients -> {"none", "right", "wrong"}]
    /\ spoilt \in BOOLEAN

\* However the stream is cut, each client's texts are given on whole and in order,
\* up to a race, a chunk too long for the cache, a text too long for str
\* (websocket_serv.c:49) or a frame that seems to end in an earlier one's bytes.
InOrder == \A c \in Clients : IsPrefix(got[c], sent[c])

\* A client that has sent its request is answered, or its connection ends, or
\* something was spoilt: the receive task met by a takeover, memory overwritten.
\* (A client connects once, so it is enough that again and again none is waiting.)
Greeted ==
    []<>(\A c \in Clients : conn[c] = "open" => told[c] # "none" \/ spoilt)

\* Every single byte, and two bytes of those that mean something in the URL code.
Texts == {<<b>> : b \in 1..255} \cup ({Space, Percent, Plus, 50, 70, 102} \X {Percent, Plus, 50, 70, 102})

\* Encoded, framed, found and decoded by a client, a text is what it was.
RestoredFor(text, m) ==
    UrlDecode(ClientReads(m, SendData(m, UrlEncode(text)))) = text

Restored == \A text \in Texts, m \in {1, 2} : RestoredFor(text, m)

\* A client that was greeted understands the server: what is sent is read as it was
\* (websocket_serv.c:196), and the message its answer is the digest of was padded
\* to the blocks the standards say, however long it is (websocket.c:161, :222).
Understood == (\E c \in Clients : told[c] = "right") => Restored /\ Padded

=============================================================================
