---------------------------- MODULE PeerTracker -----------------------------
(***************************************************************************)
(* P2PTracker: the HTTP server at which desktop servers (hosts) announce   *)
(* themselves and viewers look for them.  A viewer asks it to have a host  *)
(* open a hole for the viewer, and the host's answer comes back the same   *)
(* way.  All callbacks run on one libevent thread, one at a time.          *)
(*                                                                         *)
(* A reverse proxy in front of the tracker writes the peer's address into  *)
(* every request (X_FORWARDED_FOR, X_FORWARDED_FOR_PORT), so an address    *)
(* becomes known with the first request.  Requests and responses are whole *)
(* HTTP messages here; a message is what its path, headers and body say.   *)
(***************************************************************************)
EXTENDS Naturals, Sequences, FiniteSets

CONSTANTS
    Host, Viewer,    \* the connections of desktop servers and of viewers
    Address,         \* the [ip, tcp_port] of the peer at each connection
    TimerDelivered   \* the thread that owns the registry's window gets WM_TIMER

Conn == Host \cup Viewer
Ip   == {Address[c].ip : c \in Conn}

\* m_strIp and m_uPort before the first request.
NoAddress == [ip |-> 0, tcp_port |-> 0]

ASSUME PeerTrackerAssumption ==
    /\ Host \cap Viewer = {} /\ IsFiniteSet(Conn)
    /\ Address \in [Conn -> [ip : Nat \ {0}, tcp_port : Nat]]
    /\ TimerDelivered \in BOOLEAN

\* offline_times may reach this before a peer is dropped.
MAX_OFFLINE_TIMES == 5

VARIABLES
    link,         \* TCP: "none", "dialing", "up", "closing" (by the peer), "dead",
                  \* or "left": closed by the peer before the tracker has accepted it
    up, down,     \* requests and responses on their way
    m_mapClient,  \* CTrackerHttpServer: connections in the map
    m_addr,       \* CHttpClientConnection: m_strIp and m_uPort
    m_dwRef,      \* CHttpRequestCommandPeerTracker: its reference count
    m_mapPeer,    \* and its map from ip to the peer's port and offline_times
    leaked,       \* history: refused connections, which are never destroyed
    crashed       \* the tracker was killed by an invalid memory access

tracker == <<m_mapClient, m_addr, m_dwRef, m_mapPeer, leaked, crashed>>
wires   == <<link, up, down>>

NoPeers == [ip \in {} |-> {}]

TrackerInit ==
    /\ link = [c \in Conn |-> "none"]
    /\ up = [c \in Conn |-> <<>>] /\ down = [c \in Conn |-> <<>>]
    /\ m_mapClient = {} /\ m_addr = [c \in Conn |-> NoAddress]
    /\ m_dwRef = 0 /\ m_mapPeer = NoPeers /\ leaked = 0 /\ crashed = FALSE

Ok(peers)           == [kind |-> "ok", peers |-> peers]
NotFound            == [kind |-> "404"]
ConnectPeer(from)   == [kind |-> "connect", peer |-> from]
PeerResult(ok, from) == [kind |-> "result", ok |-> ok, peer |-> from]

\* What bufferevent_write does to what d will receive.
Written(d, response) ==
    down' = IF link[d] = "up" THEN [down EXCEPT ![d] = Append(@, response)] ELSE down

-----------------------------------------------------------------------------
(* CTrackerHttpServer: connections.                                        *)

\* What becomes of a connection that waits to be accepted when it is.
Accepted(c) == IF link[c] = "left" THEN "closing" ELSE "up"

\* A faulty listener_cb: GetInstance counts only the connection it is created for.
listener_cb_without_addref(c) ==
    /\ ~crashed /\ link[c] \in {"dialing", "left"}
    /\ ~ \E d \in m_mapClient : m_addr[d] = m_addr[c]
    /\ m_dwRef' = 1
    /\ link' = [link EXCEPT ![c] = Accepted(c)]
    /\ m_mapClient' = m_mapClient \cup {c}
    /\ UNCHANGED <<up, down, m_addr, m_mapPeer, leaked, crashed>>

\* listener_cb.  The new connection takes a reference to the registry, which is
\* created for the first one.  It is refused if its address, which is not known
\* yet, equals that of a connection in the map: if one has not sent a request.
listener_cb(c) ==
    /\ ~crashed /\ link[c] \in {"dialing", "left"}
    /\ m_dwRef' = m_dwRef + 1
    /\ IF \E d \in m_mapClient : m_addr[d] = m_addr[c]
       THEN /\ link' = [link EXCEPT ![c] = "dead"]
            /\ leaked' = leaked + 1
            /\ UNCHANGED m_mapClient
       ELSE /\ link' = [link EXCEPT ![c] = Accepted(c)]
            /\ m_mapClient' = m_mapClient \cup {c}
            /\ UNCHANGED leaked
    /\ UNCHANGED <<up, down, m_addr, m_mapPeer, crashed>>

\* A faulty conn_eventcb: the connection leaves the map without Stop.
conn_eventcb_without_stop(c) ==
    /\ ~crashed /\ link[c] = "closing" /\ c \in m_mapClient
    /\ link' = [link EXCEPT ![c] = "dead"]
    /\ m_mapClient' = m_mapClient \ {c}
    /\ UNCHANGED <<up, down, m_addr, m_dwRef, m_mapPeer, leaked, crashed>>

\* conn_eventcb and CHttpClientConnection::Stop: the last connection to go takes
\* the registry with it.  Nothing is removed from m_mapPeer.
conn_eventcb(c) ==
    /\ ~crashed /\ link[c] = "closing" /\ c \in m_mapClient
    /\ link' = [link EXCEPT ![c] = "dead"]
    /\ m_mapClient' = m_mapClient \ {c}
    /\ m_dwRef' = m_dwRef - 1
    /\ m_mapPeer' = IF m_dwRef = 1 THEN NoPeers ELSE m_mapPeer
    /\ UNCHANGED <<up, down, m_addr, leaked, crashed>>

\* A faulty OnRead: only digging looks at who has sent the request.
ReadsWithoutAddress(c, op) ==
    /\ ~crashed /\ c \in m_mapClient /\ up[c] # <<>> /\ Head(up[c]).op = op
    /\ up' = [up EXCEPT ![c] = Tail(@)]
    /\ m_addr' = IF op \in {"connect", "result"} THEN [m_addr EXCEPT ![c] = Address[c]]
                 ELSE m_addr
    /\ UNCHANGED <<link, m_mapClient, m_dwRef, leaked>>

\* A faulty OnRead: the address is noted without X_FORWARDED_FOR_PORT.
ReadsWithoutPort(c, op) ==
    /\ ~crashed /\ c \in m_mapClient /\ up[c] # <<>> /\ Head(up[c]).op = op
    /\ up' = [up EXCEPT ![c] = Tail(@)]
    /\ m_addr' = [m_addr EXCEPT ![c] = [ip |-> Address[c].ip, tcp_port |-> 0]]
    /\ UNCHANGED <<link, m_mapClient, m_dwRef, leaked>>

\* OnRead, down to Execute: the next request of c is op, and the address of c is
\* known from now on.
Reads(c, op) ==
    /\ ~crashed /\ c \in m_mapClient /\ up[c] # <<>> /\ Head(up[c]).op = op
    /\ up' = [up EXCEPT ![c] = Tail(@)]
    /\ m_addr' = [m_addr EXCEPT ![c] = Address[c]]
    /\ UNCHANGED <<link, m_mapClient, m_dwRef, leaked>>

-----------------------------------------------------------------------------
(* CHttpRequestCommandPeerTracker: the registry.  PeerInfo compares by ip  *)
(* alone, so a second peer behind an ip finds the entry of the first.  An  *)
(* entry's state is RDPS_ONLINE as long as it is in the map.               *)

OnPeerOnline(c) ==
    /\ Reads(c, "s")
    /\ LET ip    == Address[c].ip
           entry == [tcp_port |-> IF ip \in DOMAIN m_mapPeer THEN m_mapPeer[ip].tcp_port
                                  ELSE Address[c].tcp_port,
                     offline_times |-> 0]
       IN  m_mapPeer' = [i \in DOMAIN m_mapPeer \cup {ip} |->
                            IF i = ip THEN entry ELSE m_mapPeer[i]]
    /\ Written(c, Ok({}))
    /\ UNCHANGED crashed

OnPeerPing(c) ==
    /\ Reads(c, "p")
    /\ LET ip == Address[c].ip
       IN  IF ip \in DOMAIN m_mapPeer
           THEN /\ m_mapPeer' = [m_mapPeer EXCEPT ![ip].offline_times = 0]
                /\ Written(c, Ok({}))
           ELSE /\ Written(c, NotFound)
                /\ UNCHANGED m_mapPeer
    /\ UNCHANGED crashed

Without(peers, ips) == [ip \in DOMAIN peers \ ips |-> peers[ip]]

OnPeerOffline(c) ==
    /\ Reads(c, "e")
    /\ LET ip == Address[c].ip
       IN  /\ m_mapPeer' = Without(m_mapPeer, {ip})
           /\ Written(c, IF ip \in DOMAIN m_mapPeer THEN Ok({}) ELSE NotFound)
    /\ UNCHANGED crashed

GetLivePeer == {[ip |-> ip, tcp_port |-> m_mapPeer[ip].tcp_port] : ip \in DOMAIN m_mapPeer}

OnPeerGetLive(c) ==
    /\ Reads(c, "g")
    /\ Written(c, Ok(GetLivePeer))
    /\ UNCHANGED <<m_mapPeer, crashed>>

\* A faulty OnTimer: the count goes on, and nobody is dropped.
OnTimerWithoutDrop ==
    /\ ~crashed /\ TimerDelivered /\ m_dwRef > 0 /\ m_mapPeer # NoPeers
    /\ m_mapPeer' = [ip \in DOMAIN m_mapPeer |->
                        [m_mapPeer[ip] EXCEPT !.offline_times =
                            IF @ = MAX_OFFLINE_TIMES THEN @ ELSE @ + 1]]
    /\ UNCHANGED <<wires, m_mapClient, m_addr, m_dwRef, leaked, crashed>>

\* A faulty OnTimer: the count is compared before it is incremented.
OnTimerComparesFirst ==
    /\ ~crashed /\ TimerDelivered /\ m_dwRef > 0 /\ m_mapPeer # NoPeers
    /\ LET kept == Without(m_mapPeer, {ip \in DOMAIN m_mapPeer :
                                          m_mapPeer[ip].offline_times > MAX_OFFLINE_TIMES})
       IN  m_mapPeer' = [ip \in DOMAIN kept |-> [kept[ip] EXCEPT !.offline_times = @ + 1]]
    /\ UNCHANGED <<wires, m_mapClient, m_addr, m_dwRef, leaked, crashed>>

\* OnTimer, if it ever runs.  The window belongs to the thread that created it,
\* the libevent thread, which waits for sockets and retrieves no messages.
OnTimer ==
    /\ ~crashed /\ TimerDelivered /\ m_dwRef > 0 /\ m_mapPeer # NoPeers
    /\ LET silent == {ip \in DOMAIN m_mapPeer :
                        m_mapPeer[ip].offline_times + 1 > MAX_OFFLINE_TIMES}
           kept   == Without(m_mapPeer, silent)
       IN  m_mapPeer' = [ip \in DOMAIN kept |-> [kept[ip] EXCEPT !.offline_times = @ + 1]]
    /\ UNCHANGED <<wires, m_mapClient, m_addr, m_dwRef, leaked, crashed>>

-----------------------------------------------------------------------------
(* CHttpRequestCommandDig: messages from peer to peer.                     *)

\* A faulty GetHttpClientConnection: any port of the ip will do.
GetHttpClientConnectionByIp(peer) == {d \in m_mapClient : m_addr[d].ip = peer.ip}

\* The connections of the peer at an address; the code takes the first it finds.
GetHttpClientConnection(peer) == {d \in m_mapClient : m_addr[d] = peer}

\* OnRequestConnectPeer and PeerConnectPeer: the host is told of the viewer.  If
\* it has no connection, Send is called on NULL.
OnRequestConnectPeer(c) ==
    /\ Reads(c, "connect")
    /\ LET dest == GetHttpClientConnection(Head(up[c]).peer)
       IN  IF dest = {} THEN crashed' = TRUE /\ UNCHANGED down
           ELSE /\ \E d \in dest : Written(d, ConnectPeer(Address[c]))
                /\ UNCHANGED crashed
    /\ UNCHANGED m_mapPeer

\* The host's answer goes to the viewer, and no response to the host; if the
\* viewer has left, the host gets 404.
OnRequestPeerConnectPeerResult(c) ==
    /\ Reads(c, "result")
    /\ LET request == Head(up[c])
           dest    == GetHttpClientConnection(request.peer)
       IN  IF dest = {} THEN Written(c, NotFound)
           ELSE \E d \in dest : Written(d, PeerResult(request.ok, Address[c]))
    /\ UNCHANGED <<m_mapPeer, crashed>>

Execute(c) ==
    \/ OnPeerOnline(c) \/ OnPeerPing(c) \/ OnPeerOffline(c) \/ OnPeerGetLive(c)
    \/ OnRequestConnectPeer(c) \/ OnRequestPeerConnectPeerResult(c)

TrackerThread(c) == listener_cb(c) \/ conn_eventcb(c) \/ Execute(c)
=============================================================================
