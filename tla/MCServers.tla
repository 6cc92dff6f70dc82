----------------------------- MODULE MCServers -----------------------------
(***************************************************************************)
(* Two components that do not interact, in one run: the TCP server and the *)
(* KCP server.  `part' picks one of them at the start; it moves, the other *)
(* stays where it began.  A KCP server without sessions may rest; a TCP    *)
(* server never does.                                                      *)
(***************************************************************************)
EXTENDS TcpServer

CONSTANTS Key, KcpLoop, MaxSessions, MaxSnd, MaxDatagrams, MaxCalls

VARIABLES part, loopOf, idleTimeout, sessions, session, functors, closes, datagrams, calls

kcp == <<loopOf, idleTimeout, sessions, session, functors, closes, datagrams, calls>>

K == INSTANCE KcpServer WITH Base <- Main, IoLoop <- KcpLoop, queue <- functors

MCInit ==
    /\ part \in {"tcp", "kcp"} /\ Init /\ K!Init
    /\ part = "tcp" => idleTimeout /\ loopOf = [k \in Key |-> Main]

MCNext ==
    /\ UNCHANGED part
    /\ \/ part = "tcp" /\ Next /\ UNCHANGED kcp
       \/ part = "kcp" /\ K!Next /\ UNCHANGED vars
       \/ part = "kcp" /\ UNCHANGED <<vars, kcp>>

\* The fairness of TcpServer and of KcpServer.
MCSpec ==
    /\ MCInit /\ [][MCNext]_<<part, vars, kcp>>
    /\ SF_vars(part = "tcp" /\ CheckIdleConnections)
    /\ \A l \in Loops : WF_vars(part = "tcp" /\ DoPendingFunctor(l))
    /\ WF_kcp(part = "kcp" /\ \E l \in {Main} \cup KcpLoop : K!RunFunctor(l))
    /\ WF_kcp(part = "kcp" /\ \E i \in DOMAIN session : K!FireTimer(i))
    /\ WF_kcp(part = "kcp" /\ \E i \in DOMAIN session : K!IdlePasses(i))

-----------------------------------------------------------------------------
\* KcpServer: m_sessions and the sessions agree, and a live session has one update
\* timer.
SessionsTracked == K!SessionsTracked

\* KcpServer: closed sessions, and silent ones under an idle timeout, leave the map.
SilentSessionsEnd == K!SilentSessionsEnd
=============================================================================
