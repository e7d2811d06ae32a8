---------------------------- MODULE MC_WebSockServ ----------------------------
(* Small instances of WebSockServ for TLC, with the digests it answers with. *)
EXTENDS WebSockServ, WsDigest

\* A message with a short header and one with a length of two bytes.
MCMessages == {<<1>>, <<4, 1>>}
MCMask == <<4, 3>>

\* Below, within and beyond the cache.
MCGarbage == {-1, 2, CacheSize + 1}

\* The examples of the standards come out of the digests (websocket.c:161, :222):
\* TLC evaluates them before it begins.
ASSUME DigestAssumption == Answers

=============================================================================
