------------------------------ MODULE HttpClient ------------------------------
(***************************************************************************)
(* The HTTP client, components/http/zhHttp.c on zhsock.c.  Every request   *)
(* starts a task of its own, and all tasks use one static descriptor,      *)
(* hf_conn_sock.                                                           *)
(*                                                                         *)
(* A connection is named after the request that opened it.  A response is  *)
(* a header, whose last token is HeaderEnd and one of whose tokens may be  *)
(* the length, and a body of numbered tokens.  In the code the body of a   *)
(* POST goes out in pieces of 1024 bytes, here in pieces of one number.    *)
(***************************************************************************)
EXTENDS Integers, Sequences, SequencesExt, FiniteSets, FiniteSetsExt

CONSTANTS
    Requests,   \* calls of zhHttpGet, zhHttpPost, zhHttpSize
    Methods,    \* the ones that are used, of "get", "post", "head"
    OverlapMethods, \* bound: the ones used while another request is under way
    Other,      \* another part of the firmware with connections of its own
    Nobody,     \* no connection
    MaxFds,     \* descriptors of the lwIP pool it may get
    CacheSize,  \* cache_buf
    ChunkSize,  \* recv_buf
    Headers,    \* numbers of header lines in front of the last token
    BodyLen,    \* tokens of a response's body
    PostLen     \* pieces of a request's body

ASSUME ClientAssumption ==
    /\ OverlapMethods \subseteq Methods /\ Methods \subseteq {"get", "post", "head"}
    /\ Other \notin Requests /\ Nobody \notin Requests \cup {Other}
    /\ MaxFds \in Nat \ {0}
    /\ ChunkSize \in Nat \ {0} /\ CacheSize \in Nat /\ CacheSize > ChunkSize
    /\ Headers \subseteq Nat /\ BodyLen \in Nat \ {0} /\ PostLen \in Nat \ {0}

VARIABLES
    sock,       \* hf_conn_sock
    owner,      \* the connection behind each descriptor
    conn,       \* the state of each connection
    wire,       \* what recv() has not yet returned of it
    method,     \* p->method
    pc,         \* where the task of each request is
    recvOn,     \* the connection recv() was called on
    cacheBuf,   \* cache_buf, as long as cache_len
    docLen,     \* doc_total_len
    total,      \* recv_total_len
    sendPos,    \* send_pos
    got,        \* what the callback was given of the content
    result,     \* the operation the last callback was made for
    served,     \* history: is the response "whole", with its length; or less?
    strayed,    \* history: requests that closed a connection they did not open
    overlapped  \* history: was a request begun while another was under way?

sockVars == <<sock, owner, conn, wire>>
taskVars == <<method, recvOn, cacheBuf, docLen, total, sendPos>>
outVars == <<got, result>>
history == <<served, strayed, overlapped>>
vars == <<sockVars, pc, taskVars, outVars, history>>

Fds == 1..MaxFds
Free == {f \in Fds : owner[f] = Nobody}
Conns == Requests \cup {Other}
Current == IF sock \in Fds THEN owner[sock] ELSE Nobody
Active == {r \in Requests : pc[r] \notin {"idle", "done", "lost"}}

Header == 0
LengthLine == -1
HeaderEnd == -2
Body == [i \in 1..BodyLen |-> i]
Response(n, withLength, m) ==
    (IF withLength THEN <<LengthLine>> ELSE <<>>) \o [i \in 1..n |-> Header] \o <<HeaderEnd>>
    \o (IF m = "head" THEN <<>> ELSE Body)

-----------------------------------------------------------------------------
Init ==
    /\ sock = 0
    /\ owner = [f \in Fds |-> Nobody]
    /\ conn = [c \in Conns |-> "none"]
    /\ wire = [c \in Conns |-> <<>>]
    /\ method = [r \in Requests |-> "none"]
    /\ pc = [r \in Requests |-> "idle"]
    /\ recvOn = [r \in Requests |-> Nobody]
    /\ cacheBuf = [r \in Requests |-> <<>>]
    /\ docLen = [r \in Requests |-> 0]
    /\ total = docLen /\ sendPos = docLen
    /\ got = cacheBuf
    /\ result = method /\ served = method
    /\ strayed = {} /\ overlapped = FALSE

Close(f) ==
    /\ owner' = [owner EXCEPT ![f] = Nobody]
    /\ conn' = [conn EXCEPT ![owner[f]] = "closed"]
    /\ wire' = [wire EXCEPT ![owner[f]] = <<>>]

Goto(r, place) == pc' = [pc EXCEPT ![r] = place]
Kept(map, r, new) == IF overlapped THEN map ELSE [map EXCEPT ![r] = new]
Report(r, what) == result' = [result EXCEPT ![r] = what]

\* zhHttpGet, zhHttpPost, zhHttpSize: a task is created, whatever else runs.  From
\* then on the histories, which are about requests alone, are not kept.
Start(r, m) ==
    /\ pc[r] = "idle"
    /\ Goto(r, "connect")
    /\ method' = [method EXCEPT ![r] = m]
    /\ overlapped' = (overlapped \/ Active # {})
    /\ overlapped' => m \in OverlapMethods
    /\ IF overlapped'
       THEN /\ got' = [q \in Requests |-> <<>>]
            /\ served' = [q \in Requests |-> "none"] /\ strayed' = {}
       ELSE UNCHANGED <<got, served, strayed>>
    /\ UNCHANGED <<sockVars, recvOn, cacheBuf, docLen, total, sendPos, result>>

-----------------------------------------------------------------------------
(* zhSockConnect *)

\* The URL is not one, or names port 0: nothing is opened.
BadUrl(r) ==
    /\ pc[r] = "connect"
    /\ Goto(r, "close")
    /\ Report(r, "ConnectFail")
    /\ UNCHANGED <<sockVars, taskVars, got, history>>

\* gethostbyname() returns a null pointer, which is dereferenced: the device
\* panics and starts anew.
LookupFails(r) ==
    /\ pc[r] = "connect"
    /\ sock' = 0
    /\ owner' = [f \in Fds |-> Nobody]
    /\ conn' = [c \in Conns |-> IF conn[c] = "none" THEN "none" ELSE "closed"]
    /\ pc' = [q \in Requests |-> IF q \in Active THEN "lost" ELSE pc[q]]
    /\ recvOn' = [q \in Requests |-> Nobody]
    /\ wire' = [c \in Conns |-> <<>>]
    /\ UNCHANGED <<method, cacheBuf, docLen, total, sendPos, outVars, history>>

NoSocket(r) ==
    /\ pc[r] = "connect" /\ Free = {}
    /\ sock' = -1
    /\ Goto(r, "close")
    /\ Report(r, "ConnectFail")
    /\ UNCHANGED <<owner, conn, wire, taskVars, got, history>>

Socket(r) ==
    /\ pc[r] = "connect" /\ Free # {}
    /\ sock' = Min(Free)
    /\ owner' = [owner EXCEPT ![Min(Free)] = r]
    /\ conn' = [conn EXCEPT ![r] = "opened"]
    /\ Goto(r, "reach")
    /\ UNCHANGED <<wire, taskVars, outVars, history>>

\* connect() on the descriptor as it is by now.
Connects(r) ==
    /\ pc[r] = "reach"
    /\ Current # Nobody /\ conn[Current] = "opened"
    /\ conn' = [conn EXCEPT ![Current] = "up"]
    /\ Report(r, "Connected")
    /\ Goto(r, "request")
    /\ UNCHANGED <<sock, owner, wire, taskVars, got, history>>

ConnectFails(r) ==
    /\ pc[r] = "reach"
    /\ Report(r, "ConnectFail")
    /\ Goto(r, "close")
    /\ UNCHANGED <<sockVars, taskVars, got, history>>

-----------------------------------------------------------------------------
(* The request *)

\* The server answers the request that reaches it: with a header of any length,
\* with or without the length of the body, and with all or a part of it.  (Bound:
\* when requests overlap, with the shortest answer that is whole.)
Answers(r) ==
    \E n \in Headers, withLength \in BOOLEAN, cut \in {0, 1} :
        /\ overlapped => n = Min(Headers) /\ withLength /\ cut = 0
        /\ LET response == Response(n, withLength, method[r])
           IN  wire' = [wire EXCEPT ![Current] = @ \o SubSeq(response, 1, Len(response) - cut)]
        /\ served' = Kept(served, r, IF withLength /\ cut = 0 THEN "whole" ELSE "less")

\* zhSockSend of the header; a failure is not noticed.
SendHeader(r) ==
    /\ pc[r] = "request"
    /\ Goto(r, IF method[r] = "post" THEN "post" ELSE "head")
    /\ IF method[r] # "post" /\ Current # Nobody /\ conn[Current] = "up"
       THEN Answers(r) ELSE UNCHANGED <<wire, served>>
    /\ UNCHANGED <<sock, owner, conn, taskVars, outVars, strayed, overlapped>>

\* A piece of a body that is longer; -1 ends the request.
SendPiece(r) ==
    /\ pc[r] = "post" /\ PostLen - sendPos[r] > 1
    /\ IF Current # Nobody /\ conn[Current] = "up"
       THEN /\ sendPos' = [sendPos EXCEPT ![r] = @ + 1]
            /\ UNCHANGED <<pc, result>>
       ELSE /\ Report(r, "PostFail")
            /\ Goto(r, "close")
            /\ UNCHANGED sendPos
    /\ UNCHANGED <<sockVars, method, recvOn, cacheBuf, docLen, total, got, history>>

\* The last piece, taken from the beginning of the body and not from send_pos; a
\* failure is not noticed.  With it the server has what it waits for.
SendLast(r) ==
    /\ pc[r] = "post" /\ PostLen - sendPos[r] = 1
    /\ Goto(r, "head")
    /\ IF Current # Nobody /\ conn[Current] = "up"
       THEN Answers(r) ELSE UNCHANGED <<wire, served>>
    /\ UNCHANGED <<sock, owner, conn, taskVars, got, result, strayed, overlapped>>

-----------------------------------------------------------------------------
(* The response *)

Waits(r) == pc[r] \in {"head", "body"}

RecvBegin(r) ==
    /\ Waits(r) /\ recvOn[r] = Nobody
    /\ Current # Nobody /\ conn[Current] # "opened"
    /\ recvOn' = [recvOn EXCEPT ![r] = Current]
    /\ UNCHANGED <<sockVars, pc, method, cacheBuf, docLen, total, sendPos, outVars, history>>

\* recv() returns bytes of the connection it was called on.
Bytes(r) ==
    LET c == recvOn[r]
    IN  IF c # Nobody /\ conn[c] \in {"up", "gone"}
        THEN {SubSeq(wire[c], 1, n) : n \in 1..Min({ChunkSize, Len(wire[c])})} ELSE {}

Take(r, chunk) ==
    /\ wire' = [wire EXCEPT ![recvOn[r]] = SubSeq(@, Len(chunk) + 1, Len(@))]
    /\ recvOn' = [recvOn EXCEPT ![r] = Nobody]

\* fault: the cache may be filled to its last byte
Fits_OffByOne(r, chunk) == Len(cacheBuf[r]) + Len(chunk) <= CacheSize

Fits(r, chunk) == Len(cacheBuf[r]) + Len(chunk) < CacheSize

\* Part of the header does not fit any more.
RecvTooMuch(r, chunk) ==
    /\ pc[r] = "head" /\ ~Fits(r, chunk)
    /\ Take(r, chunk)
    /\ Report(r, "RecviceFail")
    /\ Goto(r, "close")
    /\ UNCHANGED <<sock, owner, conn, method, cacheBuf, docLen, total, sendPos, got, history>>

\* The end of the header in the cache and the length it names, 0 if none.
SearchLen(bytes) == SelectInSeq(bytes, LAMBDA b : b = HeaderEnd)
ContentLength(bytes) == IF \E i \in DOMAIN bytes : bytes[i] = LengthLine THEN BodyLen ELSE 0

\* fault: the end of the header is given on with the content
Content_OffByOne(bytes) == SubSeq(bytes, SearchLen(bytes), Len(bytes))

\* What the cache holds behind the header.
Content(bytes) == SubSeq(bytes, SearchLen(bytes) + 1, Len(bytes))

\* The header is still not complete.
RecvHeader(r, chunk) ==
    /\ pc[r] = "head" /\ Fits(r, chunk)
    /\ SearchLen(cacheBuf[r] \o chunk) = 0
    /\ Take(r, chunk)
    /\ cacheBuf' = [cacheBuf EXCEPT ![r] = @ \o chunk]
    /\ UNCHANGED <<sock, owner, conn, pc, method, docLen, total, sendPos, outVars, history>>

\* The header is complete: HEAD reports the length and ends, the others give on
\* what follows it.  That this may be all is not looked at.
RecvHeaderEnd(r, chunk) ==
    LET bytes == cacheBuf[r] \o chunk
    IN  /\ pc[r] = "head" /\ Fits(r, chunk)
        /\ SearchLen(bytes) # 0
        /\ Take(r, chunk)
        /\ cacheBuf' = [cacheBuf EXCEPT ![r] = bytes]
        /\ docLen' = [docLen EXCEPT ![r] = ContentLength(bytes)]
        /\ IF method[r] = "head"
           THEN /\ Report(r, "Finish") /\ Goto(r, "close")
                /\ UNCHANGED <<got, total>>
           ELSE /\ got' = Kept(got, r, got[r] \o Content(bytes))
                /\ total' = [total EXCEPT ![r] = Len(Content(bytes))]
                /\ Goto(r, "body") /\ UNCHANGED result
        /\ UNCHANGED <<sock, owner, conn, method, sendPos, history>>

\* After each recv(): is the content complete?
Complete(r, n) == docLen[r] > 0 /\ n >= docLen[r]

RecvBody(r, chunk) ==
    /\ pc[r] = "body"
    /\ Take(r, chunk)
    /\ got' = Kept(got, r, got[r] \o chunk)
    /\ total' = [total EXCEPT ![r] = @ + Len(chunk)]
    /\ IF Complete(r, total'[r]) THEN Report(r, "Finish") /\ Goto(r, "close")
       ELSE UNCHANGED <<pc, result>>
    /\ UNCHANGED <<sock, owner, conn, method, cacheBuf, docLen, sendPos, history>>

\* fault: the end of the connection does not end a complete response
RecvZero_StillWaits(r) ==
    /\ Waits(r) /\ recvOn[r] # Nobody
    /\ conn[recvOn[r]] = "gone" /\ wire[recvOn[r]] = <<>>
    /\ recvOn' = [recvOn EXCEPT ![r] = Nobody]
    /\ IF method[r] = "head"
       THEN Report(r, "Finish") /\ Goto(r, "close")
       ELSE UNCHANGED <<pc, result>>
    /\ UNCHANGED <<sockVars, method, cacheBuf, docLen, total, sendPos, got, history>>

\* recv() returns 0, the server has hung up: HEAD ends, the others sleep and
\* call it again unless the content is complete.
RecvZero(r) ==
    /\ Waits(r) /\ recvOn[r] # Nobody
    /\ conn[recvOn[r]] = "gone" /\ wire[recvOn[r]] = <<>>
    /\ recvOn' = [recvOn EXCEPT ![r] = Nobody]
    /\ IF method[r] = "head" \/ (pc[r] = "body" /\ Complete(r, total[r]))
       THEN Report(r, "Finish") /\ Goto(r, "close")
       ELSE UNCHANGED <<pc, result>>
    /\ UNCHANGED <<sockVars, method, cacheBuf, docLen, total, sendPos, got, history>>

\* recv() returns -1: the connection was reset or closed, or there is none; and
\* lwIP need not say 0 again when it has said it once.
RecvFails(r) ==
    /\ Waits(r)
    /\ IF recvOn[r] # Nobody
       THEN \/ conn[recvOn[r]] \in {"reset", "closed"}
            \/ conn[recvOn[r]] = "gone" /\ wire[recvOn[r]] = <<>>
       ELSE Current \notin {c \in Conns : conn[c] # "opened"}
    /\ recvOn' = [recvOn EXCEPT ![r] = Nobody]
    /\ Report(r, "Finish")
    /\ Goto(r, "close")
    /\ UNCHANGED <<sockVars, method, cacheBuf, docLen, total, sendPos, got, history>>

-----------------------------------------------------------------------------
(* The end *)

\* The task ends: its stack and *p are gone.
Ended(r) ==
    /\ Goto(r, "done")
    /\ method' = [method EXCEPT ![r] = "none"]
    /\ cacheBuf' = [cacheBuf EXCEPT ![r] = <<>>]
    /\ docLen' = [docLen EXCEPT ![r] = 0]
    /\ total' = [total EXCEPT ![r] = 0]
    /\ sendPos' = [sendPos EXCEPT ![r] = 0]
    /\ got' = [got EXCEPT ![r] = <<>>]
    /\ result' = [result EXCEPT ![r] = "none"]
    /\ served' = [served EXCEPT ![r] = "none"]

\* fault: a request that failed to connect leaves its socket open
CloseSock_OnlyConnected(r) ==
    /\ pc[r] = "close"
    /\ IF Current # Nobody /\ result[r] # "ConnectFail"
       THEN Close(sock) ELSE UNCHANGED <<owner, conn, wire>>
    /\ Ended(r)
    /\ UNCHANGED <<sock, recvOn, strayed, overlapped>>

\* zhSockClose() closes the descriptor as it is by now, and keeps its number.
CloseSock(r) ==
    /\ pc[r] = "close"
    /\ IF Current # Nobody THEN Close(sock) ELSE UNCHANGED <<owner, conn, wire>>
    /\ strayed' = IF Current \in Conns \ {r} /\ ~overlapped THEN strayed \cup {r} ELSE strayed
    /\ Ended(r)
    /\ UNCHANGED <<sock, recvOn, overlapped>>

-----------------------------------------------------------------------------
(* The servers, and the rest of the firmware *)

ServerEnds(c, how) ==
    /\ conn[c] = "up"
    /\ conn' = [conn EXCEPT ![c] = how]
    /\ wire' = IF how = "reset" THEN [wire EXCEPT ![c] = <<>>] ELSE wire
    /\ UNCHANGED <<sock, owner, pc, taskVars, outVars, history>>

OtherOpens ==
    /\ conn[Other] = "none" /\ Free # {}
    /\ owner' = [owner EXCEPT ![Min(Free)] = Other]
    /\ conn' = [conn EXCEPT ![Other] = "up"]
    /\ UNCHANGED <<sock, wire, pc, taskVars, outVars, history>>

-----------------------------------------------------------------------------
Receives(r) ==
    \/ RecvBegin(r) \/ RecvZero(r) \/ RecvFails(r)
    \/ \E chunk \in Bytes(r) :
        RecvTooMuch(r, chunk) \/ RecvHeader(r, chunk) \/ RecvHeaderEnd(r, chunk) \/ RecvBody(r, chunk)

\* _zhHttpThread_Data and _zhHttpThread_Head
Task(r) ==
    \/ BadUrl(r) \/ LookupFails(r) \/ NoSocket(r) \/ Socket(r) \/ Connects(r) \/ ConnectFails(r)
    \/ SendHeader(r) \/ SendPiece(r) \/ SendLast(r) \/ Receives(r) \/ CloseSock(r)

Next ==
    \/ \E r \in Requests : Task(r) \/ (\E m \in Methods : Start(r, m))
    \/ \E c \in Requests, how \in {"gone", "reset"} : ServerEnds(c, how)
    \/ OtherOpens

Spec == Init /\ [][Next]_vars

\* The tasks run when they can; servers owe nothing.
FairSpec == Spec /\ \A r \in Requests : WF_vars(Task(r))

-----------------------------------------------------------------------------
(* Properties *)

\* Every variable keeps its type, and there is always room for the 0 behind the
\* cached bytes (zhHttp.c:454).
TypeOK ==
    /\ sock \in -1..MaxFds
    /\ owner \in [Fds -> Conns \cup {Nobody}]
    /\ conn \in [Conns -> {"none", "opened", "up", "gone", "reset", "closed"}]
    /\ method \in [Requests -> Methods \cup {"none"}]
    /\ pc \in [Requests -> {"idle", "connect", "reach", "request", "post", "head", "body", "close", "done", "lost"}]
    /\ recvOn \in [Requests -> Conns \cup {Nobody}]
    /\ \A r \in Requests :
        /\ Len(cacheBuf[r]) < CacheSize
        /\ docLen[r] \in {0, BodyLen} /\ total[r] >= 0 /\ sendPos[r] \in 0..PostLen

\* However the response is cut, a request that was alone is given the beginning of
\* the content; all of it, if it came with its length and was not broken off.
GotContent ==
    ~overlapped => \A r \in Requests :
        /\ IsPrefix(got[r], Body)
        /\ pc[r] = "close" /\ result[r] = "Finish" /\ method[r] # "head"
           /\ served[r] = "whole" /\ conn[r] \in {"up", "gone"} => got[r] = Body

\* A request that was alone closes what it opened, also after a failure; only one
\* that never got a socket can close another's (zhsock.c:116).
ClosesOwn ==
    ~overlapped => \A r \in Requests :
        pc[r] = "done" /\ conn[r] # "none" => conn[r] = "closed" /\ r \notin strayed

\* A request that was alone and was answered in whole, by a server that has hung
\* up, ends; and so does one whose connection was reset.
Answered(r) == conn[r] = "reset" \/ (conn[r] = "gone" /\ served[r] = "whole")
Ends == []<>(\A r \in Requests : Answered(r) /\ ~overlapped => pc[r] \in {"done", "lost"})

=============================================================================
