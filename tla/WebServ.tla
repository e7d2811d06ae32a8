-------------------------------- MODULE WebServ --------------------------------
(***************************************************************************)
(* The web server: app_webserver_task_accept and app_webserver_task_recv   *)
(* (components/http/webserver.c) share the descriptor of the one client,   *)
(* g_web_use_client_fd, and the request buffer, without a lock; requests   *)
(* are put together by httpServReslovURL (components/http/http_serv.c).    *)
(* Descriptors come from the lwIP pool, which hands out the lowest free    *)
(* one, so a number that was closed soon names another connection.         *)
(***************************************************************************)
EXTENDS Integers, Sequences, FiniteSets, FiniteSetsExt

CONSTANTS
    Clients,    \* connections that are made, each once
    NoClient,   \* no connection
    MaxFds,     \* descriptors left in the lwIP pool
    MaxChunks,  \* bound on the chunks the clients send
    CacheSize   \* chunks that fit into cacheBuf

ASSUME WebAssumption ==
    /\ NoClient \notin Clients
    /\ MaxFds \in Nat \ {0}
    /\ MaxChunks \in Nat
    /\ CacheSize \in Nat

VARIABLES
    useFd,      \* g_web_use_client_fd
    clientFd,   \* g_web_client_fd
    owner,      \* the open connection behind each descriptor
    cache,      \* the bytes in cacheBuf, as chunks
    accPc,      \* where the accept task is
    recvPc,     \* where the receive task is
    recvOn,     \* the connection recv() was called on
    page,       \* the request being served: who asked
    conn,       \* the connections as the clients see them
    sent,       \* how many chunks the clients have sent
    unread,     \* of each client's, the chunks recv() has not returned
    misled,     \* history: clients that got the reply to another one's request
    raced       \* history: did the tasks work on two clients at once?

taskVars == <<useFd, clientFd, owner, cache, accPc, recvPc, recvOn, page>>
peerVars == <<conn, sent, unread>>
history == <<misled, raced>>
vars == <<taskVars, peerVars, history>>

Fds == 1..MaxFds

\* A chunk with "GET ", one with the empty line that ends the header, one with
\* neither.  cacheBuf is taken to end at cacheLen.
Chunks == {"begin", "end", "other"}

Free == {f \in Fds : owner[f] = NoClient}
Live(f) == f \in Fds /\ owner[f] # NoClient

\* close(f): the connection ends; an unused descriptor is an error nobody reads.
Close(f) ==
    /\ owner' = IF f \in Fds THEN [owner EXCEPT ![f] = NoClient] ELSE owner
    /\ conn' = IF Live(f) THEN [conn EXCEPT ![owner[f]] = "closed"] ELSE conn

-----------------------------------------------------------------------------
Init ==
    /\ useFd = 0 /\ clientFd = 0
    /\ owner = [f \in Fds |-> NoClient]
    /\ cache = <<>>
    /\ accPc = "accept" /\ recvPc = "loop"
    /\ recvOn = NoClient /\ page = NoClient
    /\ conn = [c \in Clients |-> "new"]
    /\ sent = 0
    /\ unread = [c \in Clients |-> <<>>]
    /\ misled = {} /\ raced = FALSE

\* esp_restart: every connection is lost, those in the backlog too.
Restart ==
    /\ useFd' = 0 /\ clientFd' = 0
    /\ owner' = [f \in Fds |-> NoClient]
    /\ cache' = <<>>
    /\ accPc' = "accept" /\ recvPc' = "loop"
    /\ recvOn' = NoClient /\ page' = NoClient
    /\ conn' = [c \in Clients |-> IF conn[c] = "new" THEN "new" ELSE "closed"]
    /\ unread' = [c \in Clients |-> <<>>]
    /\ misled' = {} /\ raced' = FALSE
    /\ UNCHANGED sent

-----------------------------------------------------------------------------
(* app_webserver_task_accept *)

\* fault: a failing accept is tried again
AcceptFails_Retry ==
    /\ accPc = "accept" /\ Free = {}
    /\ UNCHANGED vars

\* accept() fails, for want of a descriptor: the device restarts.
AcceptFails ==
    /\ accPc = "accept" /\ Free = {}
    /\ \E c \in Clients : conn[c] = "queued"
    /\ Restart

Accept(c) ==
    /\ accPc = "accept" /\ Free # {}
    /\ conn[c] = "queued"
    /\ clientFd' = Min(Free)
    /\ owner' = [owner EXCEPT ![Min(Free)] = c]
    /\ conn' = [conn EXCEPT ![c] = "open"]
    /\ accPc' = "close"
    /\ raced' = (raced \/ useFd # 0)
    /\ UNCHANGED <<useFd, cache, recvPc, recvOn, page, sent, unread, misled>>

\* The connection in use is closed, whatever the descriptor names by now.
CloseOld ==
    /\ accPc = "close"
    /\ IF useFd # 0 THEN Close(useFd) ELSE UNCHANGED <<owner, conn>>
    /\ accPc' = "set"
    /\ UNCHANGED <<useFd, clientFd, cache, recvPc, recvOn, page, sent, unread, history>>

SetUse ==
    /\ accPc = "set"
    /\ useFd' = clientFd
    /\ accPc' = "clear"
    /\ UNCHANGED <<clientFd, owner, cache, recvPc, recvOn, page, peerVars, history>>

\* fault: the request buffer is not cleared for a new client
ClearCache_No ==
    /\ accPc = "clear"
    /\ accPc' = "accept"
    /\ UNCHANGED <<useFd, clientFd, owner, cache, recvPc, recvOn, page, peerVars, history>>

ClearCache ==
    /\ accPc = "clear"
    /\ cache' = <<>>
    /\ accPc' = "accept"
    /\ UNCHANGED <<useFd, clientFd, owner, recvPc, recvOn, page, peerVars, history>>

-----------------------------------------------------------------------------
(* app_webserver_task_recv *)

\* recv() is entered if there is a client.
RecvBegin ==
    /\ recvPc = "loop" /\ useFd > 0
    /\ recvPc' = "recv"
    /\ recvOn' = owner[useFd]
    /\ UNCHANGED <<useFd, clientFd, owner, cache, accPc, page, peerVars, history>>

\* recv() returns 0 (the client is gone) or -1 (the descriptor was closed).
RecvEnds ==
    /\ recvPc = "recv"
    /\ \/ recvOn = NoClient
       \/ recvOn # NoClient /\ conn[recvOn] # "open" /\ unread[recvOn] = <<>>
       \/ recvOn # NoClient /\ \A f \in Fds : owner[f] # recvOn
    /\ useFd' = 0
    /\ recvPc' = "loop"
    /\ recvOn' = NoClient
    /\ UNCHANGED <<clientFd, owner, cache, accPc, page, peerVars, history>>

\* The clients whose chunks in the buffer are of kind k.
From(buf, k) == {buf[i][1] : i \in {j \in DOMAIN buf : buf[j][2] = k}}

\* fault: the room in the buffer is not checked
Result_NoLimit(buf) ==
    IF From(buf, "begin") = {} THEN 2
    ELSE IF From(buf, "end") = {} THEN 3
    ELSE 0

\* httpServReslovURL: the result for a buffer with the new chunk.
Result(buf) ==
    IF Len(buf) > CacheSize THEN 1
    ELSE IF From(buf, "begin") = {} THEN 2
    ELSE IF From(buf, "end") = {} THEN 3
    ELSE 0

\* recv() returns a chunk: it is appended to the buffer; a whole request is
\* served, a full buffer ends the connection.
RecvChunk ==
    /\ recvPc = "recv" /\ recvOn # NoClient
    /\ \E f \in Fds : owner[f] = recvOn
    /\ unread[recvOn] # <<>>
    /\ LET buf == Append(cache, <<recvOn, Head(unread[recvOn])>>)
           ret == Result(buf)
       IN  /\ cache' = IF ret = 3 THEN buf ELSE <<>>
           /\ recvPc' = CASE ret = 0 -> "reply" [] ret = 1 -> "drop" [] OTHER -> "loop"
           /\ page' = IF ret = 0 THEN CHOOSE c \in From(buf, "begin") : TRUE ELSE NoClient
    /\ unread' = [unread EXCEPT ![recvOn] = Tail(@)]
    /\ recvOn' = NoClient
    /\ raced' = (raced \/ accPc = "clear")
    /\ UNCHANGED <<useFd, clientFd, owner, accPc, conn, sent, misled>>

\* pfWebServ_Callback: the reply, several writes to the descriptor as it is at
\* each of them, goes to whoever is behind it now.
Reply ==
    /\ recvPc = "reply"
    /\ misled' = IF Live(useFd) /\ owner[useFd] # page THEN misled \cup {owner[useFd]}
                 ELSE misled
    /\ recvPc' = "drop"
    /\ UNCHANGED <<useFd, clientFd, owner, cache, accPc, recvOn, page, peerVars, raced>>

\* fault: the descriptor is forgotten instead of closed
Drop_Forgets ==
    /\ recvPc = "drop"
    /\ useFd' = 0
    /\ recvPc' = IF page = NoClient THEN "loop" ELSE "done"
    /\ UNCHANGED <<clientFd, owner, cache, accPc, recvOn, page, peerVars, history>>

\* close(); for a request, pfWebServ_Done then runs the command.
Drop ==
    /\ recvPc = "drop"
    /\ Close(useFd)
    /\ recvPc' = IF page = NoClient THEN "loop" ELSE "done"
    /\ UNCHANGED <<useFd, clientFd, cache, accPc, recvOn, page, sent, unread, history>>

\* pfWebServ_Done returns, or the command restarts the device.
Done ==
    /\ recvPc = "done"
    /\ \/ Restart
       \/ /\ recvPc' = "loop"
          /\ page' = NoClient
          /\ UNCHANGED <<useFd, clientFd, owner, cache, accPc, recvOn, peerVars, history>>

-----------------------------------------------------------------------------
(* The clients *)

\* The backlog of listen() is 1.
Connects(c) ==
    /\ conn[c] = "new"
    /\ \A d \in Clients : conn[d] # "queued"
    /\ conn' = [conn EXCEPT ![c] = "queued"]
    /\ UNCHANGED <<taskVars, sent, unread, history>>

Sends(c, k) ==
    /\ conn[c] \in {"queued", "open"}
    /\ sent < MaxChunks
    /\ sent' = sent + 1
    /\ unread' = [unread EXCEPT ![c] = Append(@, k)]
    /\ UNCHANGED <<taskVars, conn, history>>

HangsUp(c) ==
    /\ conn[c] = "open"
    /\ conn' = [conn EXCEPT ![c] = "gone"]
    /\ UNCHANGED <<taskVars, sent, unread, history>>

-----------------------------------------------------------------------------
AcceptTask == AcceptFails \/ (\E c \in Clients : Accept(c)) \/ CloseOld \/ SetUse \/ ClearCache
RecvTask == RecvBegin \/ RecvEnds \/ RecvChunk \/ Reply \/ Drop \/ Done

Next ==
    \/ AcceptTask
    \/ RecvTask
    \/ \E c \in Clients : Connects(c) \/ HangsUp(c)
    \/ \E c \in Clients, k \in Chunks : Sends(c, k)

Spec == Init /\ [][Next]_vars

\* Both tasks run when they can; clients owe nothing.
FairSpec == Spec /\ WF_vars(AcceptTask) /\ WF_vars(RecvTask)

-----------------------------------------------------------------------------
(* Properties *)

\* Every variable keeps its type.
TypeOK ==
    /\ useFd \in 0..MaxFds /\ clientFd \in 0..MaxFds
    /\ owner \in [Fds -> Clients \cup {NoClient}]
    /\ cache \in Seq(Clients \X Chunks) /\ Len(cache) <= CacheSize
    /\ accPc \in {"accept", "close", "set", "clear"}
    /\ recvPc \in {"loop", "recv", "reply", "drop", "done"}
    /\ recvOn \in Clients \cup {NoClient} /\ page \in Clients \cup {NoClient}
    /\ conn \in [Clients -> {"new", "queued", "open", "gone", "closed"}]
    /\ sent \in 0..MaxChunks
    /\ unread \in [Clients -> Seq(Chunks)]
    /\ misled \subseteq Clients
    /\ raced \in BOOLEAN

\* As long as no client is accepted while another is in use, and none is heard
\* before the accept task has cleared the buffer (webserver.c:121 comes before
\* :124), nobody gets the reply to another one's request (webserver.c:231
\* writes to the shared descriptor as it is at that moment).
RepliesToAsker == ~raced => misled = {}

\* The same condition keeps descriptors and connections together: an open
\* connection is the one in use or on its way to be, or its client hung up and
\* the descriptor is lost (webserver.c:193 forgets it without close).
NoLeak ==
    ~raced =>
        \A f \in Fds :
            Live(f) => \/ f = useFd \/ (accPc # "accept" /\ f = clientFd)
                       \/ conn[owner[f]] = "gone"

\* Lost descriptors do not stop the server: whoever waits in the backlog is
\* accepted, or the device restarts and with it the pool.
Accepts == \A c \in Clients : (conn[c] = "queued") ~> (conn[c] # "queued")

\* webserver.c:117 "disconnect the original connection": what the accept task
\* closes for a new client is the old connection, never the new one.
ClosesOldOnly ==
    [][accPc = "close" /\ accPc' = "set" => owner'[clientFd] = owner[clientFd]]_vars

=============================================================================
