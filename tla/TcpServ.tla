-------------------------------- MODULE TcpServ --------------------------------
(***************************************************************************)
(* The TCP server, components/tcpserv/tcpserv.c (tcpserv2.c is the same    *)
(* with other names): app_tcpserv_task_accept and app_tcpserv_task_recv    *)
(* share g_tcps_clientFD without a lock.  The newest client takes over.    *)
(***************************************************************************)
EXTENDS Integers, FiniteSets, FiniteSetsExt

CONSTANTS
    Clients,    \* connections that are made, each once
    NoClient,   \* no connection
    MaxFds,     \* descriptors left in the lwIP pool
    MaxChunks   \* bound on the chunks the clients send

ASSUME TcpAssumption ==
    /\ NoClient \notin Clients
    /\ MaxFds \in Nat \ {0}
    /\ MaxChunks \in Nat

VARIABLES
    clientFd,   \* g_tcps_clientFD
    tmpFd,      \* g_tcps_tmp_fd
    owner,      \* the open connection behind each descriptor
    accPc,      \* where the accept task is
    recvPc,     \* where the receive task is
    recvOn,     \* the connection recv() was called on
    conn,       \* the connections as the clients see them
    sent,       \* how many chunks the clients have sent
    unread,     \* of each client's, how many recv() has not returned
    raced       \* history: was there a takeover while recv() was under way?

vars == <<clientFd, tmpFd, owner, accPc, recvPc, recvOn, conn, sent, unread, raced>>

Fds == 1..MaxFds
Free == {f \in Fds : owner[f] = NoClient}
Live(f) == f \in Fds /\ owner[f] # NoClient

\* close(f): the connection ends; an unused descriptor is an error nobody reads.
Close(f) ==
    /\ owner' = IF f \in Fds THEN [owner EXCEPT ![f] = NoClient] ELSE owner
    /\ conn' = IF Live(f) THEN [conn EXCEPT ![owner[f]] = "closed"] ELSE conn

\* A takeover that goes on while the receive task is in recv() or cleans up.
Races == clientFd # 0 /\ recvPc \in {"recv", "close", "zero"}

-----------------------------------------------------------------------------
Init ==
    /\ clientFd = 0 /\ tmpFd = 0
    /\ owner = [f \in Fds |-> NoClient]
    /\ accPc = "accept" /\ recvPc = "loop"
    /\ recvOn = NoClient
    /\ conn = [c \in Clients |-> "new"]
    /\ sent = 0
    /\ unread = [c \in Clients |-> 0]
    /\ raced = FALSE

\* esp_restart: every connection is lost, those in the backlog too.
Restart ==
    /\ clientFd' = 0 /\ tmpFd' = 0
    /\ owner' = [f \in Fds |-> NoClient]
    /\ accPc' = "accept" /\ recvPc' = "loop"
    /\ recvOn' = NoClient
    /\ conn' = [c \in Clients |-> IF conn[c] = "new" THEN "new" ELSE "closed"]
    /\ unread' = [c \in Clients |-> 0]
    /\ raced' = FALSE
    /\ UNCHANGED sent

-----------------------------------------------------------------------------
(* app_tcpserv_task_accept *)

\* fault: a failing accept is tried again
AcceptFails_Retry ==
    /\ accPc = "accept" /\ Free = {}
    /\ UNCHANGED vars

\* fault: the error is not noticed, the -1 is taken for a client
AcceptFails_Unchecked ==
    /\ accPc = "accept" /\ Free = {}
    /\ \E c \in Clients : conn[c] = "queued"
    /\ tmpFd' = -1
    /\ accPc' = "close"
    /\ UNCHANGED <<clientFd, owner, recvPc, recvOn, conn, sent, unread, raced>>

\* accept() fails, for want of a descriptor: the device restarts.
AcceptFails ==
    /\ accPc = "accept" /\ Free = {}
    /\ \E c \in Clients : conn[c] = "queued"
    /\ Restart

Accept(c) ==
    /\ accPc = "accept" /\ Free # {}
    /\ conn[c] = "queued"
    /\ tmpFd' = Min(Free)
    /\ owner' = [owner EXCEPT ![Min(Free)] = c]
    /\ conn' = [conn EXCEPT ![c] = "open"]
    /\ accPc' = "close"
    /\ raced' = (raced \/ Races)
    /\ UNCHANGED <<clientFd, recvPc, recvOn, sent, unread>>

\* fault: the client in use is replaced without being closed
CloseOld_Not ==
    /\ accPc = "close"
    /\ accPc' = "set"
    /\ raced' = (raced \/ Races)
    /\ UNCHANGED <<clientFd, tmpFd, owner, recvPc, recvOn, conn, sent, unread>>

\* fault: the new descriptor is stored first, and closed as the old one
CloseOld_Swapped ==
    /\ accPc = "close"
    /\ Close(tmpFd)
    /\ accPc' = "set"
    /\ raced' = (raced \/ Races)
    /\ UNCHANGED <<clientFd, tmpFd, recvPc, recvOn, sent, unread>>

CloseOld ==
    /\ accPc = "close"
    /\ IF clientFd > 0 THEN Close(clientFd) ELSE UNCHANGED <<owner, conn>>
    /\ accPc' = "set"
    /\ raced' = (raced \/ Races)
    /\ UNCHANGED <<clientFd, tmpFd, recvPc, recvOn, sent, unread>>

SetClient ==
    /\ accPc = "set"
    /\ clientFd' = tmpFd
    /\ accPc' = "accept"
    /\ raced' = (raced \/ Races)
    /\ UNCHANGED <<tmpFd, owner, recvPc, recvOn, conn, sent, unread>>

-----------------------------------------------------------------------------
(* app_tcpserv_task_recv *)

\* recv() is entered if there is a client.
RecvBegin ==
    /\ recvPc = "loop" /\ clientFd > 0
    /\ recvPc' = "recv"
    /\ recvOn' = owner[clientFd]
    /\ UNCHANGED <<clientFd, tmpFd, owner, accPc, conn, sent, unread, raced>>

Open(c) == \E f \in Fds : owner[f] = c

\* recv() returns a chunk, which goes to the callback.
RecvChunk ==
    /\ recvPc = "recv" /\ recvOn # NoClient
    /\ Open(recvOn) /\ unread[recvOn] > 0
    /\ unread' = [unread EXCEPT ![recvOn] = @ - 1]
    /\ recvOn' = NoClient
    /\ recvPc' = "callback"
    /\ UNCHANGED <<clientFd, tmpFd, owner, accPc, conn, sent, raced>>

Callback ==
    /\ recvPc = "callback"
    /\ recvPc' = "loop"
    /\ UNCHANGED <<clientFd, tmpFd, owner, accPc, recvOn, conn, sent, unread, raced>>

\* recv() returns 0, the client has hung up: nothing is done about it.
RecvEnds ==
    /\ recvPc = "recv" /\ recvOn # NoClient
    /\ Open(recvOn) /\ conn[recvOn] = "gone" /\ unread[recvOn] = 0
    /\ recvPc' = "loop"
    /\ recvOn' = NoClient
    /\ UNCHANGED <<clientFd, tmpFd, owner, accPc, conn, sent, unread, raced>>

\* recv() returns -1: the descriptor was closed, or the connection reset.
RecvFails ==
    /\ recvPc = "recv"
    /\ recvOn \in Clients /\ Open(recvOn) => conn[recvOn] = "gone"
    /\ recvPc' = "close"
    /\ recvOn' = NoClient
    /\ UNCHANGED <<clientFd, tmpFd, owner, accPc, conn, sent, unread, raced>>

CloseClient ==
    /\ recvPc = "close"
    /\ Close(clientFd)
    /\ recvPc' = "zero"
    /\ UNCHANGED <<clientFd, tmpFd, accPc, recvOn, sent, unread, raced>>

ZeroClient ==
    /\ recvPc = "zero"
    /\ clientFd' = 0
    /\ recvPc' = "loop"
    /\ UNCHANGED <<tmpFd, owner, accPc, recvOn, conn, sent, unread, raced>>

-----------------------------------------------------------------------------
(* The clients *)

\* The backlog of listen() is 1.
Connects(c) ==
    /\ conn[c] = "new"
    /\ \A d \in Clients : conn[d] # "queued"
    /\ conn' = [conn EXCEPT ![c] = "queued"]
    /\ UNCHANGED <<clientFd, tmpFd, owner, accPc, recvPc, recvOn, sent, unread, raced>>

Sends(c) ==
    /\ conn[c] \in {"queued", "open"}
    /\ sent < MaxChunks
    /\ sent' = sent + 1
    /\ unread' = [unread EXCEPT ![c] = @ + 1]
    /\ UNCHANGED <<clientFd, tmpFd, owner, accPc, recvPc, recvOn, conn, raced>>

HangsUp(c) ==
    /\ conn[c] = "open"
    /\ conn' = [conn EXCEPT ![c] = "gone"]
    /\ UNCHANGED <<clientFd, tmpFd, owner, accPc, recvPc, recvOn, sent, unread, raced>>

-----------------------------------------------------------------------------
AcceptTask == AcceptFails \/ (\E c \in Clients : Accept(c)) \/ CloseOld \/ SetClient
RecvTask == RecvBegin \/ RecvChunk \/ Callback \/ RecvEnds \/ RecvFails \/ CloseClient \/ ZeroClient

Next ==
    \/ AcceptTask
    \/ RecvTask
    \/ \E c \in Clients : Connects(c) \/ Sends(c) \/ HangsUp(c)

Spec == Init /\ [][Next]_vars

\* Both tasks run when they can; clients owe nothing.
FairSpec == Spec /\ WF_vars(AcceptTask) /\ WF_vars(RecvTask)

-----------------------------------------------------------------------------
(* Properties *)

\* Every variable keeps its type.
TypeOK ==
    /\ clientFd \in 0..MaxFds /\ tmpFd \in 0..MaxFds
    /\ owner \in [Fds -> Clients \cup {NoClient}]
    /\ accPc \in {"accept", "close", "set"}
    /\ recvPc \in {"loop", "recv", "callback", "close", "zero"}
    /\ recvOn \in Clients \cup {NoClient}
    /\ conn \in [Clients -> {"new", "queued", "open", "gone", "closed"}]
    /\ sent \in 0..MaxChunks
    /\ unread \in [Clients -> Nat]
    /\ raced \in BOOLEAN

\* Without a takeover during recv(), no descriptor is lost: an open connection
\* is the client's, or is about to be.  Whoever hung up keeps the descriptor
\* until the next client comes (tcpserv.c:87 ignores a length of 0).
NoLeak ==
    ~raced => \A f \in Fds : Live(f) => f = clientFd \/ (accPc # "accept" /\ f = tmpFd)

\* The server closes an open connection only for a newer one.
ClosedForNewer ==
    \A c \in Clients : conn[c] = "open" /\ conn'[c] = "closed" => owner[tmpFd] # c

\* Without a takeover during recv(), the newest client keeps its connection.
NewestStays == [][~raced' => ClosedForNewer \/ AcceptFails]_vars

\* Lost descriptors do not stop the server: whoever waits in the backlog is
\* accepted, or the device restarts and with it the pool.
Accepts == \A c \in Clients : (conn[c] = "queued") ~> (conn[c] # "queued")

\* tcpserv.c:60 "if connected, disconnect first": a takeover ends the connection
\* that was there, never the one that takes over.
TakesOver == [][ClosedForNewer \/ AcceptFails]_vars

=============================================================================
