------------------------------ MODULE CloudLink ------------------------------
(***************************************************************************)
(* The link to the cloud, components/hxkong_yun: the task hxtcp_conn asks  *)
(* the dispatch server for the address of a transfer server, logs in there *)
(* and gives what it receives to dtrs_recv_data_callback, which cuts it    *)
(* into frames.  yun_app_start starts one more such task whenever the      *)
(* device gets an address, and all of them share the socket               *)
(* (connect_socket) and the cache (g_YunCache).                            *)
(*                                                                         *)
(* A chunk is received and copied into the cache in one step, and so is    *)
(* one pass of the loop _nnc.                                              *)
(***************************************************************************)
EXTENDS CloudFrames, FiniteSets

CONSTANTS
    Tasks,      \* the tasks yun_app_start may start
    MaxFds,     \* descriptors left in the lwIP pool
    CacheSize,  \* bytes of g_YunCache
    AddrLen,    \* bytes of the dispatch server's answer
    DataRet,    \* ezhDNProl_Data_Ret
    Frames,     \* parameters the transfer server sends
    MaxEvents,  \* bound on the frames it sends and the tasks added to the first
    Outgoing    \* what the application may send

ASSUME LinkAssumption ==
    /\ MaxFds \in Nat \ {0}
    /\ CacheSize \in Nat /\ CacheSize > 4
    /\ AddrLen \in Nat \ {0}
    /\ DataRet \in Byte
    /\ Frames \subseteq Seq(Byte) \ {<<>>}
    /\ \A p \in Frames : Len(p) < Base * Base
    /\ MaxEvents \in Nat
    /\ Outgoing \subseteq Seq(Byte)

VARIABLES
    pc,         \* where each task is
    at,         \* the server each task is about: "dispatch" or "transfer"
    on,         \* the descriptor each task waits on, 0 if it was closed
    rvlen,      \* bytes of the dispatch answer each task has
    addr,       \* does the task know a transfer server (transServIP)?
    login,      \* isloginDTRS of each task
    sock,       \* connect_socket
    link,       \* what is behind each descriptor
    cache,      \* g_YunCache, the bytes of earlier chunks included
    len,        \* g_YunLen
    events,     \* how many frames were sent and tasks added, for the bound
    sent,       \* history: the data the present link's server has sent
    got,        \* history: what that link has given to g_dtrs_yun_recv
    clean       \* history: is one task alone, and does the cache hold what
                \* that link received, from the beginning of a frame on?

taskVars == <<pc, at, on, rvlen, addr, login>>
history == <<sent, got, clean>>
vars == <<taskVars, sock, link, cache, len, events, history>>

Fds == 1..MaxFds
Nothing == [srv |-> "none", state |-> "free", phase |-> "new", wire |-> <<>>]
Free == {f \in Fds : link[f] = Nothing}
Open(f) == f \in Fds /\ link[f] # Nothing

Granted == Open(sock) /\ link[sock].state = "up" /\ link[sock].phase = "granted"

\* Only one address was ever given to the device.
Running == {t \in Tasks : pc[t] # "off"}
Alone == Cardinality(Running) <= 1

-----------------------------------------------------------------------------
Init ==
    /\ pc = [t \in Tasks |-> "off"]
    /\ at = [t \in Tasks |-> "dispatch"]
    /\ on = [t \in Tasks |-> 0]
    /\ rvlen = [t \in Tasks |-> 0]
    /\ addr = [t \in Tasks |-> FALSE]
    /\ login = [t \in Tasks |-> FALSE]
    /\ sock = 0
    /\ link = [f \in Fds |-> Nothing]
    /\ cache = [i \in 1..CacheSize |-> 0]
    /\ len = 0
    /\ events = 0
    /\ sent = <<>> /\ got = <<>> /\ clean = TRUE

\* The history of a link is kept as long as something can be said of it.
History(c, s, g) ==
    /\ clean' = c
    /\ sent' = IF c THEN s ELSE <<>>
    /\ got' = IF c THEN g ELSE <<>>

\* yun_app_start, at each new address.
Start(t) ==
    /\ pc[t] = "off"
    /\ pc' = [pc EXCEPT ![t] = "create"]
    /\ events' = IF Running = {} THEN events ELSE events + 1
    /\ events' <= MaxEvents
    /\ History(clean /\ Alone', sent, got)
    /\ UNCHANGED <<at, on, rvlen, addr, login, sock, link, cache, len>>

\* After the dispatch server the transfer server, after that, a second later,
\* the dispatch server again.
Onward(t) ==
    /\ pc' = [pc EXCEPT ![t] = "create"]
    /\ at' = [at EXCEPT ![t] = IF @ = "dispatch" THEN "transfer" ELSE "dispatch"]

-----------------------------------------------------------------------------
(* create_tcp_client *)

\* gethostbyname finds nothing and its NULL is used: the device panics and
\* starts anew.
LookupFails(t) ==
    /\ pc[t] = "create" /\ at[t] = "dispatch"
    /\ pc' = [s \in Tasks |-> "off"]
    /\ at' = [s \in Tasks |-> "dispatch"]
    /\ on' = [s \in Tasks |-> 0]
    /\ rvlen' = [s \in Tasks |-> 0]
    /\ addr' = [s \in Tasks |-> FALSE]
    /\ login' = [s \in Tasks |-> FALSE]
    /\ sock' = 0
    /\ link' = [f \in Fds |-> Nothing]
    /\ cache' = [i \in 1..CacheSize |-> 0]
    /\ len' = 0
    /\ events' = 0
    /\ History(TRUE, <<>>, <<>>)

\* No transfer server is known.
NoAddress(t) ==
    /\ pc[t] = "create" /\ at[t] = "transfer" /\ ~addr[t]
    /\ Onward(t)
    /\ UNCHANGED <<on, rvlen, addr, login, sock, link, cache, len, events, history>>

NoSocket(t) ==
    /\ pc[t] = "create" /\ (at[t] = "transfer" => addr[t])
    /\ Free = {}
    /\ sock' = -1
    /\ Onward(t)
    /\ UNCHANGED <<on, rvlen, addr, login, link, cache, len, events, history>>

Connect(t) ==
    /\ pc[t] = "create" /\ (at[t] = "transfer" => addr[t])
    /\ Free # {}
    /\ LET f == Min(Free)
       IN  /\ sock' = f
           /\ link' = [link EXCEPT ![f] = [Nothing EXCEPT !.srv = at[t], !.state = "opening"]]
           /\ on' = [on EXCEPT ![t] = f]
    /\ pc' = [pc EXCEPT ![t] = "connect"]
    /\ UNCHANGED <<at, rvlen, addr, login, cache, len, events, history>>

\* The socket stays open: nobody closes it any more.
ConnectFails(t) ==
    /\ pc[t] = "connect"
    /\ link' = IF on[t] = 0 THEN link ELSE [link EXCEPT ![on[t]].state = "failed"]
    /\ on' = [on EXCEPT ![t] = 0]
    /\ Onward(t)
    /\ UNCHANGED <<rvlen, addr, login, sock, cache, len, events, history>>

Connected(t) ==
    /\ pc[t] = "connect" /\ on[t] # 0
    /\ link' = [link EXCEPT ![on[t]].state = "up"]
    /\ pc' = [pc EXCEPT ![t] = "loop"]
    /\ IF at[t] = "transfer" THEN History(Alone /\ len = 0, <<>>, <<>>) ELSE UNCHANGED history
    /\ UNCHANGED <<at, on, rvlen, addr, login, sock, cache, len, events>>

-----------------------------------------------------------------------------
(* hxtcp_conn: the two loops around recv *)

\* recv() is called on the shared socket, whoever opened it.
Recv(t) ==
    /\ pc[t] = "loop"
    /\ on' = [on EXCEPT ![t] = IF Open(sock) THEN sock ELSE 0]
    /\ pc' = [pc EXCEPT ![t] = "recv"]
    /\ UNCHANGED <<at, rvlen, addr, login, sock, link, cache, len, events, history>>

\* The first n bytes that have arrived at t's descriptor, and their removal.
Chunk(t, n) == SubSeq(link[on[t]].wire, 1, n)
Take(t, n) == link' = [link EXCEPT ![on[t]].wire = SubSeq(@, n + 1, Len(@))]
HasBytes(t, n) == pc[t] = "recv" /\ on[t] # 0 /\ n \in 1..Len(link[on[t]].wire)

RecvAddress(t, n) ==
    /\ HasBytes(t, n) /\ at[t] = "dispatch"
    /\ Take(t, n)
    /\ rvlen' = [rvlen EXCEPT ![t] = Min({@ + n, AddrLen})]
    /\ addr' = [addr EXCEPT ![t] = @ \/ rvlen'[t] = AddrLen]
    /\ pc' = [pc EXCEPT ![t] = IF rvlen'[t] = AddrLen THEN "close" ELSE "loop"]
    /\ UNCHANGED <<at, on, login, sock, cache, len, events, history>>

\* hxtcp_send("iot-dev"): the login that was asked for; a failure is ignored.
HxtcpSend(phase) == IF phase = "asked" THEN "answered" ELSE phase

\* The login is asked for with a first byte of 0 ...
RecvAsked(t, n) ==
    /\ HasBytes(t, n) /\ at[t] = "transfer" /\ ~login[t]
    /\ Chunk(t, n)[1] # 1
    /\ link' = [f \in Fds |-> [link[f] EXCEPT
                  !.wire = IF f = on[t] THEN SubSeq(@, n + 1, Len(@)) ELSE @,
                  !.phase = IF f = sock /\ Chunk(t, n)[1] = 0 THEN HxtcpSend(@) ELSE @]]
    /\ pc' = [pc EXCEPT ![t] = "loop"]
    /\ UNCHANGED <<at, on, rvlen, addr, login, sock, cache, len, events, history>>

\* The cache, of which the first n bytes are in use.  Of the bytes behind them
\* only the fourth is ever read before it is written; the others are left out.
Cache(bytes, n) ==
    /\ len' = n
    /\ cache' = [i \in 1..CacheSize |-> IF i <= Max({n, 4}) THEN bytes[i] ELSE 0]

\* The cache with a chunk behind its first n bytes.
Added(chunk, n) ==
    [i \in 1..CacheSize |-> IF i \in (n + 1)..(n + Len(chunk)) THEN chunk[i - n] ELSE cache[i]]

Fits(chunk) == len + Len(chunk) <= CacheSize - 1

\* fault: the last byte of the cache is used too
Store_OffByOne(chunk) ==
    LET n == IF len + Len(chunk) <= CacheSize THEN len ELSE 0
    IN  /\ Cache(Added(chunk, n), n + Len(chunk))
        /\ History(clean /\ (len = 0 \/ Fits(chunk)), sent, got)

\* dtrs_recv_data_callback up to the loop: a chunk that does not fit behind the
\* bytes of the cache takes their place.
Store(chunk) ==
    LET n == IF Fits(chunk) THEN len ELSE 0
    IN  /\ Cache(Added(chunk, n), n + Len(chunk))
        /\ History(clean /\ (len = 0 \/ Fits(chunk)), sent, got)

\* ... and granted with a first byte of 1; the bytes behind it are data already.
RecvGranted(t, n) ==
    /\ HasBytes(t, n) /\ at[t] = "transfer" /\ ~login[t]
    /\ Chunk(t, n)[1] = 1
    /\ n <= CacheSize
    /\ Take(t, n)
    /\ login' = [login EXCEPT ![t] = TRUE]
    /\ Store(Tail(Chunk(t, n)))
    /\ pc' = [pc EXCEPT ![t] = "frames"]
    /\ UNCHANGED <<at, on, rvlen, addr, sock, events>>

RecvData(t, n) ==
    /\ HasBytes(t, n) /\ at[t] = "transfer" /\ login[t]
    /\ n < CacheSize
    /\ Take(t, n)
    /\ Store(Chunk(t, n))
    /\ pc' = [pc EXCEPT ![t] = "frames"]
    /\ UNCHANGED <<at, on, rvlen, addr, login, sock, events>>

\* actionTransServDataFunc: the data in a parameter, which its command precedes;
\* other commands bring none.
DataOf(parm) == IF parm[1] = DataRet THEN <<Tail(parm)>> ELSE <<>>

\* fault: only the first frame of a chunk is looked at
CutFrame_Once(t) ==
    LET g == MiniDataGet(cache, len)
    IN  /\ pc[t] = "frames"
        /\ Cache([i \in 1..CacheSize |-> cache[IF i <= len - g.skip THEN g.skip + i ELSE i]],
                 len - g.skip)
        /\ History(clean /\ ~ReadsStale(cache, len), sent,
                   IF g.ok THEN got \o DataOf(g.parm) ELSE got)
        /\ pc' = [pc EXCEPT ![t] = "loop"]
        /\ UNCHANGED <<at, on, rvlen, addr, login, sock, link, events>>

\* One pass of _nnc: a frame is cut out and acted on, or bytes are dropped; it
\* ends when nothing is taken out of the cache.
CutFrame(t) ==
    LET g == MiniDataGet(cache, len)
    IN  /\ pc[t] = "frames"
        /\ Cache([i \in 1..CacheSize |-> cache[IF i <= len - g.skip THEN g.skip + i ELSE i]],
                 len - g.skip)
        /\ History(clean /\ ~ReadsStale(cache, len), sent,
                   IF g.ok THEN got \o DataOf(g.parm) ELSE got)
        /\ pc' = [pc EXCEPT ![t] = IF g.skip > 0 THEN "frames" ELSE "loop"]
        /\ UNCHANGED <<at, on, rvlen, addr, login, sock, link, events>>

\* recv() returns 0 or -1: the peer has gone, or the descriptor was closed.
RecvEnds(t) ==
    /\ pc[t] = "recv"
    /\ on[t] # 0 => link[on[t]].state # "up" /\ link[on[t]].wire = <<>>
    /\ pc' = [pc EXCEPT ![t] = "close"]
    /\ UNCHANGED <<at, on, rvlen, addr, login, sock, link, cache, len, events, history>>

\* fault: a lost connection is not closed
CloseSocket_Not(t) ==
    /\ pc[t] = "close"
    /\ on' = [on EXCEPT ![t] = 0]
    /\ rvlen' = [rvlen EXCEPT ![t] = 0]
    /\ login' = [login EXCEPT ![t] = FALSE]
    /\ Onward(t)
    /\ UNCHANGED <<addr, sock, link, cache, len, events, history>>

\* fault: the login of one link is taken for that of the next
CloseSocket_StaysLoggedIn(t) ==
    /\ pc[t] = "close"
    /\ link' = IF Open(sock) THEN [link EXCEPT ![sock] = Nothing] ELSE link
    /\ on' = [s \in Tasks |-> IF s = t \/ on[s] = sock THEN 0 ELSE on[s]]
    /\ rvlen' = [rvlen EXCEPT ![t] = 0]
    /\ Onward(t)
    /\ UNCHANGED <<addr, login, sock, cache, len, events, history>>

\* hxtcp_close_socket closes whatever is in connect_socket by now, and ends the
\* calls other tasks wait in.
CloseSocket(t) ==
    /\ pc[t] = "close"
    /\ link' = IF Open(sock) THEN [link EXCEPT ![sock] = Nothing] ELSE link
    /\ on' = [s \in Tasks |-> IF s = t \/ on[s] = sock THEN 0 ELSE on[s]]
    /\ rvlen' = [rvlen EXCEPT ![t] = 0]
    /\ login' = [login EXCEPT ![t] = FALSE]
    /\ Onward(t)
    /\ UNCHANGED <<addr, sock, cache, len, events, history>>

-----------------------------------------------------------------------------
(* The servers *)

ServerUnchanged == UNCHANGED <<taskVars, sock, cache, len, events, history>>

SendsAddress(f) ==
    /\ link[f].srv = "dispatch" /\ link[f].state = "up" /\ link[f].phase = "new"
    /\ link' = [link EXCEPT ![f].phase = "done", ![f].wire = [i \in 1..AddrLen |-> 0]]
    /\ ServerUnchanged

AsksLogin(f) ==
    /\ link[f].srv = "transfer" /\ link[f].state = "up" /\ link[f].phase = "new"
    /\ link' = [link EXCEPT ![f].phase = "asked", ![f].wire = Append(@, 0)]
    /\ ServerUnchanged

GrantsLogin(f) ==
    /\ link[f].srv = "transfer" /\ link[f].state = "up" /\ link[f].phase \in {"new", "answered"}
    /\ link' = [link EXCEPT ![f].phase = "granted", ![f].wire = Append(@, 1)]
    /\ ServerUnchanged

SendsFrame(f, p) ==
    /\ link[f].state = "up" /\ link[f].phase = "granted"
    /\ events < MaxEvents
    /\ events' = events + 1
    /\ History(clean, sent \o DataOf(p), got)
    /\ link' = [link EXCEPT ![f].wire = @ \o Framed(p)]
    /\ UNCHANGED <<taskVars, sock, cache, len>>

\* The peer closes; what it sent can still be read, unless it is a reset.
HangsUp(f, reset) ==
    /\ link[f].state = "up"
    /\ link' = [link EXCEPT ![f].state = "gone", ![f].wire = IF reset THEN <<>> ELSE @]
    /\ ServerUnchanged

-----------------------------------------------------------------------------
Task(t) ==
    \/ NoAddress(t) \/ NoSocket(t) \/ Connect(t) \/ ConnectFails(t) \/ Connected(t)
    \/ Recv(t) \/ RecvEnds(t) \/ CutFrame(t) \/ CloseSocket(t)
    \/ \E n \in 1..CacheSize :
         RecvAddress(t, n) \/ RecvAsked(t, n) \/ RecvGranted(t, n) \/ RecvData(t, n)

Server(f) ==
    \/ SendsAddress(f) \/ AsksLogin(f) \/ GrantsLogin(f)
    \/ \E p \in Frames : SendsFrame(f, p)
    \/ \E reset \in BOOLEAN : HangsUp(f, reset)

Next ==
    \/ \E t \in Tasks : Start(t) \/ LookupFails(t) \/ Task(t)
    \/ \E f \in Fds : Server(f)

Spec == Init /\ [][Next]_vars

\* The tasks run when they can; addresses, name servers and servers owe nothing.
FairSpec == Spec /\ \A t \in Tasks : WF_vars(Task(t))

-----------------------------------------------------------------------------
(* Properties *)

\* Every variable keeps its type; g_YunLen stays below the size of the cache.
TypeOK ==
    /\ pc \in [Tasks -> {"off", "create", "connect", "loop", "recv", "frames", "close"}]
    /\ at \in [Tasks -> {"dispatch", "transfer"}]
    /\ on \in [Tasks -> 0..MaxFds]
    /\ rvlen \in [Tasks -> 0..AddrLen]
    /\ addr \in [Tasks -> BOOLEAN] /\ login \in [Tasks -> BOOLEAN]
    /\ sock \in -1..MaxFds
    /\ cache \in [1..CacheSize -> Byte]
    /\ len \in 0..(CacheSize - 1)
    /\ events \in 0..MaxEvents /\ clean \in BOOLEAN

\* However the stream is cut into chunks, the frames come out whole and in the
\* order they were sent, as long as one task runs, no chunk overran the cache,
\* the cache was empty when the link began and no length was read too early.
InOrder == clean => IsPrefix(got, sent)

\* A frame counts only on a link whose server has granted the login.
OnlyGranted ==
    \A t \in Tasks :
        Alone /\ pc[t] = "frames" => Open(sock) /\ link[sock].phase = "granted"

\* With one task and no failing connect, the socket in use is the only one open.
NoLeak ==
    Alone /\ (\A f \in Fds : link[f].state # "failed") => Fds \ Free \subseteq {sock}

\* A frame that has been received is given on, unless the link ends first (with
\* one task, and the cache neither overrun nor read too early).
Arrives ==
    \A n \in 1..MaxEvents :
        (clean /\ Granted /\ Len(sent) >= n) ~> (~clean \/ ~Granted \/ Len(got) >= n)

\* Whatever the application sends is a frame that miniDataGet reads back, as
\* long as a byte holds its length with the command.
ReadBack ==
    \A buf \in Outgoing :
        LET out == Request(DataRet, buf)
        IN  Len(buf) + 1 < Base =>
              MiniDataGet(out \o <<0, 0, 0, 0>>, Len(out)) = Frame(Len(out), <<DataRet>> \o buf)

=============================================================================
