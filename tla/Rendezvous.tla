----------------------------- MODULE Rendezvous -----------------------------
(***************************************************************************)
(* The tracker with its clients: CP2PTrackerClient of RemoteDesktopServer  *)
(* (a host) and of RemoteDesktopClient (a viewer).  A host announces       *)
(* itself, pings, and opens a hole for a viewer when the tracker says so.  *)
(* It does not match responses with requests: what a response means is     *)
(* decided by m_nTrackerState, the kind of the last announcement sent.     *)
(* A connection is used once; a program that is started again is another   *)
(* host or viewer.                                                         *)
(***************************************************************************)
EXTENDS PeerTracker

CONSTANTS
    MaxQueued,   \* bound: pings a host has under way
    None

ASSUME RendezvousAssumption == MaxQueued \in Nat \ {0} /\ None \notin [ip : Nat, tcp_port : Nat]

VARIABLES
    m_nTrackerState,     \* of each host
    m_pBufferEvent,      \* is not NULL, of hosts and viewers
    m_nPingFailedTimes,
    listening,           \* the host has opened its port and set its ping timer
    loopexit,            \* the host has left its libevent loop
    asked,               \* the peer the viewer has asked to be connected to
    result,              \* the peer of OnConnectPeerResult
    refused              \* history: the viewers told that the peer could not

hostVars   == <<m_nTrackerState, m_nPingFailedTimes, listening, loopexit>>
viewerVars == <<asked, result, refused>>
vars == <<wires, tracker, hostVars, viewerVars, m_pBufferEvent>>

Init ==
    /\ TrackerInit
    /\ m_nTrackerState = [h \in Host |-> "P2PTS_INVALID"]
    /\ m_pBufferEvent = [c \in Conn |-> FALSE]
    /\ m_nPingFailedTimes = [h \in Host |-> 0]
    /\ listening = [h \in Host |-> FALSE] /\ loopexit = [h \in Host |-> FALSE]
    /\ asked = [v \in Viewer |-> None] /\ result = [v \in Viewer |-> None]
    /\ refused = {}

Request(op)                   == [op |-> op]
ConnectRequest(peer)          == [op |-> "connect", peer |-> peer]
ResultRequest(ok, peer)       == [op |-> "result", ok |-> ok, peer |-> peer]

\* The request is queued and written: it arrives unless the connection is gone.
Sends(c, request) ==
    IF link[c] \in {"dialing", "up"} THEN [up EXCEPT ![c] = Append(@, request)] ELSE up

\* The socket of c is closed at this end.  The tracker may still accept a
\* connection that was on its way, and read what it has brought.
HangsUp(c) ==
    \/ link[c] = "up" /\ link' = [link EXCEPT ![c] = "closing"]
    \/ link[c] = "dialing" /\ \E end \in {"left", "dead"} : link' = [link EXCEPT ![c] = end]
    \/ link[c] \notin {"up", "dialing"} /\ UNCHANGED link

CloseClient(c) ==
    /\ HangsUp(c)
    /\ m_pBufferEvent' = [m_pBufferEvent EXCEPT ![c] = FALSE]

-----------------------------------------------------------------------------
(* A host.                                                                 *)

\* CRemoteServer::DoStart: Init, Connect and SendOnline.
HostStart(h) ==
    /\ link[h] = "none"
    /\ link' = [link EXCEPT ![h] = "dialing"]
    /\ m_pBufferEvent' = [m_pBufferEvent EXCEPT ![h] = TRUE]
    /\ m_nTrackerState' = [m_nTrackerState EXCEPT ![h] = "P2PTS_ONLINE"]
    /\ up' = [up EXCEPT ![h] = <<Request("s")>>]
    /\ UNCHANGED <<down, tracker, viewerVars, m_nPingFailedTimes, listening, loopexit>>

\* CRemoteServer::OnTimer on the UI thread.
SendPing(h) ==
    /\ listening[h] /\ m_pBufferEvent[h] /\ m_nTrackerState[h] # "P2PTS_INVALID"
    /\ Len(up[h]) < MaxQueued /\ Len(down[h]) < MaxQueued
    /\ m_nTrackerState' = [m_nTrackerState EXCEPT ![h] = "P2PTS_PING"]
    /\ up' = Sends(h, Request("p"))
    /\ UNCHANGED <<link, down, tracker, viewerVars, m_pBufferEvent, m_nPingFailedTimes,
                   listening, loopexit>>

\* CRemoteServer::Stop: SendOffline and, at once, Uninit.  The libevent thread
\* may get to write the request before the connection is freed under it.
HostStop(h) ==
    /\ m_pBufferEvent[h]
    /\ m_nTrackerState' = [m_nTrackerState EXCEPT ![h] = "P2PTS_OFFLINE"]
    /\ up' \in {up, Sends(h, Request("e"))}
    /\ CloseClient(h)
    /\ loopexit' = [loopexit EXCEPT ![h] = TRUE]
    /\ UNCHANGED <<down, tracker, viewerVars, m_nPingFailedTimes, listening>>

\* The host decodes the next response.  CloseClient does not Clear: what follows
\* in the chunk is decoded after it, too.
HostReads(h) ==
    /\ down[h] # <<>>
    /\ down' = [down EXCEPT ![h] = Tail(@)]
    /\ UNCHANGED <<tracker, viewerVars>>

\* A faulty OnPeerConnecting: the state is looked at before the header.
OnPeerConnectingIfOnline(h) ==
    /\ HostReads(h) /\ Head(down[h]).kind = "connect" /\ m_pBufferEvent[h]
    /\ IF m_nTrackerState[h] = "P2PTS_ONLINE"
       THEN \E ok \in BOOLEAN : up' = Sends(h, ResultRequest(ok, Head(down[h]).peer))
       ELSE UNCHANGED up
    /\ UNCHANGED <<link, m_pBufferEvent, hostVars>>

\* A Connect-Peer header: a hole is opened for the viewer, which may fail.
OnPeerConnecting(h) ==
    /\ HostReads(h) /\ Head(down[h]).kind = "connect" /\ m_pBufferEvent[h]
    /\ \E ok \in BOOLEAN : up' = Sends(h, ResultRequest(ok, Head(down[h]).peer))
    /\ UNCHANGED <<link, m_pBufferEvent, hostVars>>

\* After CloseClient the result cannot be sent: event_active is called on NULL,
\* and the program ends with all it has received.
OnPeerConnectingClosed(h) ==
    /\ down[h] # <<>> /\ Head(down[h]).kind = "connect" /\ ~m_pBufferEvent[h]
    /\ down' = [down EXCEPT ![h] = <<>>]
    /\ loopexit' = [loopexit EXCEPT ![h] = TRUE]
    /\ UNCHANGED <<link, up, tracker, viewerVars, m_pBufferEvent, m_nTrackerState,
                   m_nPingFailedTimes, listening>>

\* "result=0": in P2PTS_ONLINE the port the tracker has seen is opened, if it can
\* be, and the ping timer set; in P2PTS_PING and P2PTS_INVALID nothing happens.
OnServerSuccess(h) ==
    /\ HostReads(h) /\ Head(down[h]).kind = "ok" /\ m_nTrackerState[h] # "P2PTS_OFFLINE"
    /\ \/ /\ m_nTrackerState[h] = "P2PTS_ONLINE"
          /\ listening' = [listening EXCEPT ![h] = TRUE]
       \/ UNCHANGED listening
    /\ UNCHANGED <<link, up, m_pBufferEvent, m_nTrackerState, m_nPingFailedTimes, loopexit>>

\* Anything else, in P2PTS_ONLINE: the host gives up and leaves its loop.
OnServerConnectFailed(h) ==
    /\ HostReads(h) /\ Head(down[h]).kind = "404" /\ m_nTrackerState[h] = "P2PTS_ONLINE"
    /\ CloseClient(h)
    /\ m_nTrackerState' = [m_nTrackerState EXCEPT ![h] = "P2PTS_INVALID"]
    /\ loopexit' = [loopexit EXCEPT ![h] = TRUE]
    /\ UNCHANGED <<up, m_nPingFailedTimes, listening>>

\* In P2PTS_PING: the fourth failure closes the connection.  No success resets
\* the count; nobody calls OnServerPingSuccess.
OnServerPingFailed(h) ==
    /\ HostReads(h) /\ Head(down[h]).kind = "404" /\ m_nTrackerState[h] = "P2PTS_PING"
    /\ m_nPingFailedTimes' = [m_nPingFailedTimes EXCEPT ![h] = @ + 1]
    /\ IF m_nPingFailedTimes[h] + 1 > 3
       THEN /\ CloseClient(h)
            /\ m_nTrackerState' = [m_nTrackerState EXCEPT ![h] = "P2PTS_INVALID"]
       ELSE UNCHANGED <<link, m_pBufferEvent, m_nTrackerState>>
    /\ UNCHANGED <<up, listening, loopexit>>

\* In P2PTS_INVALID a failure is only logged.
OnFailureLogged(h) ==
    /\ HostReads(h) /\ Head(down[h]).kind = "404" /\ m_nTrackerState[h] = "P2PTS_INVALID"
    /\ UNCHANGED <<link, up, m_pBufferEvent, hostVars>>

\* In P2PTS_OFFLINE, which HostStop sets with the connection already closed.
OnServerOfflineFinish(h) ==
    /\ HostReads(h) /\ Head(down[h]).kind \in {"ok", "404"}
    /\ m_nTrackerState[h] = "P2PTS_OFFLINE"
    /\ CloseClient(h)
    /\ m_nTrackerState' = [m_nTrackerState EXCEPT ![h] = "P2PTS_INVALID"]
    /\ UNCHANGED <<up, m_nPingFailedTimes, listening, loopexit>>

OnHttpResponse(h) ==
    \/ OnPeerConnecting(h) \/ OnPeerConnectingClosed(h) \/ OnServerSuccess(h)
    \/ OnServerConnectFailed(h) \/ OnServerPingFailed(h) \/ OnFailureLogged(h)
    \/ OnServerOfflineFinish(h)

-----------------------------------------------------------------------------
(* A viewer.                                                               *)

\* CRemoteClient::DoConnect: Init, Connect and GetLivePeerList.
ViewerStart(v) ==
    /\ link[v] = "none"
    /\ link' = [link EXCEPT ![v] = "dialing"]
    /\ m_pBufferEvent' = [m_pBufferEvent EXCEPT ![v] = TRUE]
    /\ up' = [up EXCEPT ![v] = <<Request("g")>>]
    /\ UNCHANGED <<down, tracker, hostVars, viewerVars>>

ViewerReads(v) ==
    /\ m_pBufferEvent[v] /\ down[v] # <<>>
    /\ down' = [down EXCEPT ![v] = Tail(@)]
    /\ UNCHANGED <<tracker, hostVars>>

\* The list is in the order of the tracker's map: by ip.
FirstPeer(peers) == CHOOSE p \in peers : \A q \in peers : p.ip <= q.ip

\* OnGetLivePeerList: the viewer asks for the first peer of the list.
OnGetLivePeerList(v) ==
    /\ ViewerReads(v) /\ Head(down[v]).kind = "ok"
    /\ LET peers == Head(down[v]).peers
       IN  IF peers = {} THEN UNCHANGED <<up, asked>>
           ELSE /\ up' = Sends(v, ConnectRequest(FirstPeer(peers)))
                /\ asked' = [asked EXCEPT ![v] = FirstPeer(peers)]
    /\ UNCHANGED <<link, m_pBufferEvent, result, refused>>

\* OnConnectPeerResult: a failure is ignored; otherwise the viewer leaves the
\* tracker and turns to the peer.
OnConnectPeerResult(v) ==
    /\ ViewerReads(v) /\ Head(down[v]).kind = "result"
    /\ IF Head(down[v]).ok
       THEN /\ CloseClient(v)
            /\ result' = [result EXCEPT ![v] = Head(down[v]).peer]
            /\ UNCHANGED refused
       ELSE /\ refused' = refused \cup {v}
            /\ UNCHANGED <<link, m_pBufferEvent, result>>
    /\ UNCHANGED <<up, asked>>

-----------------------------------------------------------------------------
\* A program ends, or its network fails, which CP2PTrackerClient::conn_eventcb
\* only logs; the tracker gets an end of file or an error, sooner or later.
Breaks(c) ==
    /\ link[c] \in {"dialing", "up"}
    /\ HangsUp(c)
    /\ \/ /\ m_pBufferEvent' = [m_pBufferEvent EXCEPT ![c] = FALSE]
          /\ down' = [down EXCEPT ![c] = <<>>]
       \/ UNCHANGED <<m_pBufferEvent, down>>
    /\ UNCHANGED <<up, tracker, hostVars, viewerVars>>

Next ==
    \/ OnTimer /\ UNCHANGED <<hostVars, viewerVars, m_pBufferEvent>>
    \/ \E c \in Conn :
         \/ TrackerThread(c) /\ UNCHANGED <<hostVars, viewerVars, m_pBufferEvent>>
         \/ Breaks(c)
    \/ \E h \in Host : HostStart(h) \/ SendPing(h) \/ HostStop(h) \/ OnHttpResponse(h)
    \/ \E v \in Viewer : ViewerStart(v) \/ OnGetLivePeerList(v) \/ OnConnectPeerResult(v)

Spec == Init /\ [][Next]_vars

\* The tracker's thread serves what arrives, its timer fires, and hosts and
\* viewers read what they are sent for as long as they keep the connection.
\* Nobody is assumed to ping or to stay.
Fairness ==
    /\ WF_vars(OnTimer /\ UNCHANGED <<hostVars, viewerVars, m_pBufferEvent>>)
    /\ \A c \in Conn :
         WF_vars(TrackerThread(c) /\ UNCHANGED <<hostVars, viewerVars, m_pBufferEvent>>)
    /\ \A h \in Host : WF_vars(m_pBufferEvent[h] /\ OnHttpResponse(h))
    /\ \A v \in Viewer : WF_vars(OnGetLivePeerList(v) \/ OnConnectPeerResult(v))

FairSpec == Spec /\ Fairness

-----------------------------------------------------------------------------
(* Correctness.                                                            *)

Addresses == {Address[c] : c \in Conn}

Requests  == [op : {"s", "p", "e", "g"}] \cup [op : {"connect"}, peer : Addresses]
             \cup [op : {"result"}, ok : BOOLEAN, peer : Addresses]
Responses == [kind : {"ok"}, peers : SUBSET Addresses] \cup [kind : {"404"}]
             \cup [kind : {"connect"}, peer : Addresses]
             \cup [kind : {"result"}, ok : BOOLEAN, peer : Addresses]

\* Every variable keeps its type; no peer is listed with more missed timers than
\* OnTimer allows or under another's address, and no host counts more than four
\* failures.
TypeOK ==
    /\ link \in [Conn -> {"none", "dialing", "up", "closing", "dead", "left"}]
    /\ up \in [Conn -> Seq(Requests)] /\ down \in [Conn -> Seq(Responses)]
    /\ m_mapClient \subseteq Conn
    /\ m_addr \in [Conn -> Addresses \cup {NoAddress}]
    /\ m_dwRef \in Nat /\ leaked \in Nat /\ crashed \in BOOLEAN
    /\ m_mapPeer \in [DOMAIN m_mapPeer -> [tcp_port : Nat, offline_times : 0..MAX_OFFLINE_TIMES]]
    /\ DOMAIN m_mapPeer \subseteq Ip /\ GetLivePeer \subseteq Addresses
    /\ m_nTrackerState \in [Host -> {"P2PTS_INVALID", "P2PTS_ONLINE", "P2PTS_PING",
                                     "P2PTS_OFFLINE"}]
    /\ m_pBufferEvent \in [Conn -> BOOLEAN]
    /\ m_nPingFailedTimes \in [Host -> 0..4]
    /\ listening \in [Host -> BOOLEAN] /\ loopexit \in [Host -> BOOLEAN]
    /\ asked \in [Viewer -> Addresses \cup {None}]
    /\ result \in [Viewer -> Addresses \cup {None}]
    /\ refused \subseteq Viewer

\* The registry lives exactly as long as someone can use it: every connection in
\* the map holds one reference, a refused one holds one for ever, and with the
\* last reference the registered peers are gone.
RegistryOutlivesConnections ==
    /\ m_dwRef = Cardinality(m_mapClient) + leaked
    /\ m_dwRef = 0 => m_mapPeer = NoPeers

\* The answer a viewer acts on is that of the host it asked for, although hosts
\* and viewers share one tracker and the answer is routed by address alone.
ResultIsOfAskedPeer == \A v \in Viewer : result[v] # None => result[v] = asked[v]

\* A host that listens can be found: viewers get its ip from the tracker for as
\* long as its connection is up, whoever else comes and goes.  (Without the timer,
\* and until a host behind the same ip leaves: its OnPeerOffline removes both.)
ListeningIsListed ==
    \A h \in Host :
        /\ listening[h] /\ link[h] = "up"
        /\ \A g \in Host : Address[g].ip = Address[h].ip => link[g] \notin {"closing", "dead"}
        => Address[h].ip \in DOMAIN m_mapPeer

\* Connections the tracker has heard are told apart: one is refused (listener_cb)
\* only while the first request of another has not been read.
RefusalNeedsUnreadRequest ==
    [][leaked' # leaked =>
         \E d \in m_mapClient : up[d] # <<>> /\ Head(up[d]).op \in {"s", "g"}]_vars

\* A viewer that asks for a host in the list brings the tracker down (Send on
\* NULL) only if the connection of that host has gone: one that is open is found.
CrashNeedsGoneHost ==
    crashed => \E v \in Viewer, h \in Host : asked[v] = Address[h] /\ link[h] = "dead"

\* A viewer's request for a host is answered, by way of the tracker and the host
\* and back, unless one of the two leaves or the tracker is gone.
DigIsAnswered ==
    \A v \in Viewer, h \in Host :
        asked[v] = Address[h]
        ~> (\/ result[v] # None \/ v \in refused
            \/ link[v] # "up" \/ link[h] # "up" \/ crashed)

Heard(ip) == \E h \in Host : Address[h].ip = ip /\ (OnPeerOnline(h) \/ OnPeerPing(h))

\* A peer the tracker no longer hears of is dropped from the list in the end.
SilentPeersGo ==
    \A ip \in Ip : <>[][~Heard(ip)]_vars => <>[](ip \notin DOMAIN m_mapPeer \/ crashed)
=============================================================================
