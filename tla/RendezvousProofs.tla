-------------------------- MODULE RendezvousProofs --------------------------
(***************************************************************************)
(* Proofs about Rendezvous for any number of hosts and viewers, any        *)
(* addresses and any bound on pings under way.                             *)
(***************************************************************************)
EXTENDS Rendezvous, FiniteSetTheorems, WellFoundedInduction, TLAPS

Links == {"none", "dialing", "up", "closing", "dead", "left"}

\* What RegistryOutlivesConnections needs to be inductive: which connections the
\* map may hold, so that one is counted when it enters and when it leaves.
RefInv ==
    /\ m_mapClient \subseteq Conn
    /\ link \in [Conn -> Links]
    /\ m_dwRef \in Nat /\ leaked \in Nat
    /\ \A c \in Conn : c \in m_mapClient <=> link[c] \in {"up", "closing"}
    /\ RegistryOutlivesConnections

\* Closing this end of a connection, as HangsUp does, leaves it in the map.
LEMMA HangsUpKeepsMap ==
    ASSUME NEW c \in Conn, link \in [Conn -> Links], HangsUp(c)
    PROVE  /\ link' \in [Conn -> Links]
           /\ \A d \in Conn : link'[d] \in {"up", "closing"} <=> link[d] \in {"up", "closing"}
BY DEF HangsUp, Links

\* The connections in the map are finitely many, and one of them is counted.
LEMMA MapIsCounted ==
    ASSUME m_mapClient \subseteq Conn
    PROVE  /\ IsFiniteSet(m_mapClient) /\ Cardinality(m_mapClient) \in Nat
           /\ \A c \in m_mapClient : Cardinality(m_mapClient) > 0
<1>1. IsFiniteSet(m_mapClient)
  BY FS_Subset, PeerTrackerAssumption
<1> QED
  BY <1>1, FS_CardinalityType, FS_EmptySet

LEMMA RefInvInit == Init => RefInv
BY FS_EmptySet DEF Init, TrackerInit, RefInv, RegistryOutlivesConnections, Links

LEMMA RefInvNext == RefInv /\ [Next]_vars => RefInv'
<1> SUFFICES ASSUME RefInv, [Next]_vars PROVE RefInv'
  OBVIOUS
<1>f. IsFiniteSet(m_mapClient) /\ Cardinality(m_mapClient) \in Nat
      /\ \A c \in m_mapClient : Cardinality(m_mapClient) > 0
  BY MapIsCounted DEF RefInv
<1> USE DEF RefInv, RegistryOutlivesConnections
<1>1. ASSUME OnTimer PROVE RefInv'
  BY <1>1 DEF OnTimer, wires
<1>2. ASSUME NEW c \in Conn, listener_cb(c) PROVE RefInv'
  <2>1. c \notin m_mapClient
    BY <1>2 DEF listener_cb
  <2>2. Cardinality(m_mapClient \cup {c}) = Cardinality(m_mapClient) + 1
    BY <1>f, <2>1, FS_AddElement
  <2>3. /\ m_mapClient' \subseteq Conn /\ link' \in [Conn -> Links]
        /\ \A d \in Conn : d \in m_mapClient' <=> link'[d] \in {"up", "closing"}
    BY <1>2, <2>1 DEF listener_cb, Accepted, Links
  <2>a. \/ m_mapClient' = m_mapClient /\ leaked' = leaked + 1
        \/ m_mapClient' = m_mapClient \cup {c} /\ leaked' = leaked
    BY <1>2 DEF listener_cb
  <2>b. \/ Cardinality(m_mapClient') = Cardinality(m_mapClient) /\ leaked' = leaked + 1
        \/ Cardinality(m_mapClient') = Cardinality(m_mapClient) + 1 /\ leaked' = leaked
    BY <2>2, <2>a
  <2>4. m_dwRef' \in Nat \ {0} /\ leaked' \in Nat
        /\ m_dwRef' = Cardinality(m_mapClient') + leaked'
    BY <1>f, <1>2, <2>b DEF listener_cb
  <2> QED
    BY <2>3, <2>4
<1>3. ASSUME NEW c \in Conn, conn_eventcb(c) PROVE RefInv'
  <2>1. Cardinality(m_mapClient \ {c}) = Cardinality(m_mapClient) - 1
    BY <1>f, <1>3, FS_RemoveElement DEF conn_eventcb
  <2>2. /\ m_mapClient' \subseteq Conn /\ link' \in [Conn -> Links]
        /\ \A d \in Conn : d \in m_mapClient' <=> link'[d] \in {"up", "closing"}
    BY <1>3 DEF conn_eventcb, Links
  <2>a. Cardinality(m_mapClient') = Cardinality(m_mapClient) - 1
        /\ Cardinality(m_mapClient) > 0
    BY <1>f, <1>3, <2>1 DEF conn_eventcb
  <2>3. m_dwRef' \in Nat /\ leaked' \in Nat
        /\ m_dwRef' = Cardinality(m_mapClient') + leaked'
    BY <1>f, <1>3, <2>a DEF conn_eventcb
  <2>4. m_dwRef' = 0 => m_mapPeer' = NoPeers
    BY <1>3 DEF conn_eventcb
  <2> QED
    BY <2>2, <2>3, <2>4
<1>4. ASSUME NEW c \in Conn, Execute(c) PROVE RefInv'
  <2>1. PICK op : Reads(c, op)
    BY <1>4 DEF Execute, OnPeerOnline, OnPeerPing, OnPeerOffline, OnPeerGetLive,
                OnRequestConnectPeer, OnRequestPeerConnectPeerResult
  <2> QED
    BY <1>f, <2>1 DEF Reads
<1>5. ASSUME UNCHANGED tracker,
             \/ UNCHANGED link
             \/ \E c \in Conn : \/ HangsUp(c)
                                \/ link[c] = "none" /\ link' = [link EXCEPT ![c] = "dialing"]
      PROVE  RefInv'
  BY <1>5, HangsUpKeepsMap DEF tracker, Links
<1>6. ASSUME NEW c \in Conn, Breaks(c) PROVE RefInv'
  BY <1>5, <1>6 DEF Breaks
<1>7. ASSUME NEW h \in Host, HostStart(h) \/ SendPing(h) \/ HostStop(h) PROVE RefInv'
  BY <1>5, <1>7 DEF HostStart, SendPing, HostStop, CloseClient, Conn
<1>8. ASSUME NEW h \in Host, OnHttpResponse(h) PROVE RefInv'
  BY <1>5, <1>8 DEF OnHttpResponse, OnPeerConnecting, OnPeerConnectingClosed, OnServerSuccess,
                    OnServerConnectFailed, OnServerPingFailed, OnFailureLogged,
                    OnServerOfflineFinish, HostReads, CloseClient, Conn
<1>9. ASSUME NEW v \in Viewer, ViewerStart(v) \/ OnGetLivePeerList(v) \/ OnConnectPeerResult(v)
      PROVE  RefInv'
  BY <1>5, <1>9 DEF ViewerStart, OnGetLivePeerList, OnConnectPeerResult, ViewerReads,
                    CloseClient, Conn
<1>10. CASE UNCHANGED vars
  BY <1>10 DEF vars, wires, tracker
<1> QED
  BY <1>1, <1>2, <1>3, <1>4, <1>6, <1>7, <1>8, <1>9, <1>10 DEF Next, TrackerThread

\* However connections of hosts and viewers come, go and are refused, the registry
\* of CHttpRequestCommandPeerTracker is destroyed with the last reference and not
\* before: its reference count is the number of connections that can use it.
THEOREM RegistryIsCounted == Spec => []RegistryOutlivesConnections
<1>1. RefInv => RegistryOutlivesConnections
  BY DEF RefInv
<1> QED
  BY <1>1, RefInvInit, RefInvNext, PTL DEF Spec

-----------------------------------------------------------------------------
(* Types.                                                                  *)

\* What TypeOK needs to be inductive: a connection that was never opened has
\* nothing, and a host that has counted its fourth failure counts no more.
TypeInv ==
    /\ TypeOK
    /\ \A c \in Conn : link[c] = "none" => ~m_pBufferEvent[c]
    /\ \A h \in Host : link[h] = "none" =>
                         m_nPingFailedTimes[h] = 0 /\ m_nTrackerState[h] = "P2PTS_INVALID"
    /\ \A h \in Host : m_nPingFailedTimes[h] = 4 =>
                         ~m_pBufferEvent[h] /\ m_nTrackerState[h] = "P2PTS_INVALID"

\* A non-empty list of peers has a first one, with the least ip.
LEMMA FirstPeerListed ==
    ASSUME NEW peers, peers \subseteq Addresses, peers # {}
    PROVE  FirstPeer(peers) \in peers
<1> DEFINE ips == {q.ip : q \in peers}
<1>1. \A q \in peers : q.ip \in Nat
  BY PeerTrackerAssumption DEF Addresses
<1>2. ips \subseteq Nat /\ ips # {}
  BY <1>1
<1>3. PICK least \in ips : \A i \in ips : ~ (<<i, least>> \in OpToRel(<, Nat))
  BY <1>2, WFMin, NatLessThanWellFounded
<1>4. ASSUME NEW i \in ips PROVE least <= i
  <2>1. ~ (<<i, least>> \in {ss \in Nat \X Nat : ss[1] < ss[2]})
    BY <1>3, Zenon DEF OpToRel
  <2>2. i \in Nat /\ least \in Nat
    BY <1>2
  <2> QED
    BY <2>1, <2>2
<1>5. \E p \in peers : \A q \in peers : p.ip <= q.ip
  BY <1>4
<1> QED
  BY <1>5 DEF FirstPeer

\* A request that is sent or read keeps the queue's type.
LEMMA SendsType ==
    ASSUME TypeOK, NEW c \in Conn, NEW request \in Requests
    PROVE  Sends(c, request) \in [Conn -> Seq(Requests)]
BY DEF TypeOK, Sends

LEMMA WrittenType ==
    ASSUME TypeOK, NEW d \in Conn, NEW response \in Responses, Written(d, response)
    PROVE  down' \in [Conn -> Seq(Responses)]
BY DEF TypeOK, Written

LEMMA AddressType == \A c \in Conn : /\ Address[c] \in Addresses
                                     /\ Address[c].ip \in Ip
                                     /\ Address[c] = [ip |-> Address[c].ip,
                                                      tcp_port |-> Address[c].tcp_port]
                                     /\ Address[c].tcp_port \in Nat
BY PeerTrackerAssumption DEF Addresses, Ip

LEMMA TypeInvInit == Init => TypeInv
<1> SUFFICES ASSUME Init PROVE TypeInv
  OBVIOUS
<1> USE DEF Init, TrackerInit
<1>1. /\ m_mapPeer \in [DOMAIN m_mapPeer -> [tcp_port : Nat, offline_times : 0..MAX_OFFLINE_TIMES]]
      /\ DOMAIN m_mapPeer = {} /\ GetLivePeer = {}
  BY DEF NoPeers, GetLivePeer
<1>2. up \in [Conn -> Seq(Requests)] /\ down \in [Conn -> Seq(Responses)]
  <2>1. \A S : <<>> \in Seq(S)
    OBVIOUS
  <2> QED
    BY <2>1
<1>3. /\ link \in [Conn -> {"none", "dialing", "up", "closing", "dead", "left"}]
      /\ m_addr \in [Conn -> Addresses \cup {NoAddress}]
      /\ m_pBufferEvent \in [Conn -> BOOLEAN]
  OBVIOUS
<1>4. /\ m_nTrackerState \in [Host -> {"P2PTS_INVALID", "P2PTS_ONLINE", "P2PTS_PING",
                                       "P2PTS_OFFLINE"}]
      /\ m_nPingFailedTimes \in [Host -> 0..4]
      /\ listening \in [Host -> BOOLEAN] /\ loopexit \in [Host -> BOOLEAN]
  OBVIOUS
<1>5. /\ asked \in [Viewer -> Addresses \cup {None}]
      /\ result \in [Viewer -> Addresses \cup {None}]
  OBVIOUS
<1>6. TypeOK
  BY <1>1, <1>2, <1>3, <1>4, <1>5 DEF TypeOK
<1> QED
  BY <1>6 DEF TypeInv, Conn

\* Reading a request, before Execute does anything with it.
LEMMA ReadsType ==
    ASSUME TypeInv, NEW c \in Conn, NEW op, Reads(c, op)
    PROVE  /\ Head(up[c]) \in Requests
           /\ up' \in [Conn -> Seq(Requests)]
           /\ m_addr' \in [Conn -> Addresses \cup {NoAddress}]
           /\ UNCHANGED <<link, m_mapClient, m_dwRef, leaked>>
<1>1. up[c] \in Seq(Requests) /\ up[c] # <<>>
  BY DEF Reads, TypeInv, TypeOK
<1>2. Head(up[c]) \in Requests /\ Tail(up[c]) \in Seq(Requests)
  BY <1>1
<1>3. up' \in [Conn -> Seq(Requests)]
  BY <1>2 DEF Reads, TypeInv, TypeOK
<1>4. m_addr' \in [Conn -> Addresses \cup {NoAddress}]
  BY AddressType DEF Reads, TypeInv, TypeOK
<1> QED
  BY <1>2, <1>3, <1>4 DEF Reads

\* The registry's part of TypeOK.
PeersOK ==
    /\ m_mapPeer \in [DOMAIN m_mapPeer -> [tcp_port : Nat, offline_times : 0..MAX_OFFLINE_TIMES]]
    /\ DOMAIN m_mapPeer \subseteq Ip /\ GetLivePeer \subseteq Addresses

\* A step of the tracker thread that serves a request keeps TypeInv if it does so
\* for the responses and the registry.
LEMMA ExecuteType ==
    ASSUME TypeInv, NEW c \in Conn, NEW op, Reads(c, op),
           UNCHANGED <<hostVars, viewerVars, m_pBufferEvent>>,
           down' \in [Conn -> Seq(Responses)], PeersOK', crashed' \in BOOLEAN
    PROVE  TypeInv'
BY ReadsType DEF TypeInv, TypeOK, PeersOK, hostVars, viewerVars

LEMMA TypeInvExecute ==
    ASSUME TypeInv, NEW c \in Conn, Execute(c),
           UNCHANGED <<hostVars, viewerVars, m_pBufferEvent>>
    PROVE  TypeInv'
<1>0. TypeOK
  BY DEF TypeInv
<1>p. PeersOK
  BY <1>0 DEF TypeOK, PeersOK
<1>a. Address[c] \in Addresses /\ Address[c].ip \in Ip /\ Address[c].tcp_port \in Nat
      /\ Address[c] = [ip |-> Address[c].ip, tcp_port |-> Address[c].tcp_port]
  BY AddressType
<1>r. Ok({}) \in Responses /\ NotFound \in Responses
  BY DEF Ok, NotFound, Responses
<1>1. CASE OnPeerOnline(c)
  <2>1. down' \in [Conn -> Seq(Responses)] /\ crashed' \in BOOLEAN
    BY <1>1, <1>0, <1>r, WrittenType DEF OnPeerOnline, TypeOK
  <2>2. PeersOK'
    <3> DEFINE ip == Address[c].ip
    <3>1. DOMAIN m_mapPeer' = DOMAIN m_mapPeer \cup {ip}
          /\ \A i \in DOMAIN m_mapPeer' : i # ip => m_mapPeer'[i] = m_mapPeer[i]
      BY <1>1 DEF OnPeerOnline
    <3>2. m_mapPeer' = [i \in DOMAIN m_mapPeer' |-> m_mapPeer'[i]]
      BY <1>1 DEF OnPeerOnline
    <3>3. m_mapPeer'[ip] = [tcp_port |-> IF ip \in DOMAIN m_mapPeer THEN m_mapPeer[ip].tcp_port
                                         ELSE Address[c].tcp_port,
                            offline_times |-> 0]
      BY <1>1 DEF OnPeerOnline
    <3>4. \A i \in DOMAIN m_mapPeer :
              /\ m_mapPeer[i] \in [tcp_port : Nat, offline_times : 0..5]
              /\ [ip |-> i, tcp_port |-> m_mapPeer[i].tcp_port] \in Addresses
      BY <1>p DEF PeersOK, GetLivePeer, MAX_OFFLINE_TIMES
    <3>5. /\ m_mapPeer'[ip] \in [tcp_port : Nat, offline_times : 0..5]
          /\ [ip |-> ip, tcp_port |-> m_mapPeer'[ip].tcp_port] \in Addresses
      <4>1. CASE ip \in DOMAIN m_mapPeer
        BY <3>3, <3>4, <4>1
      <4>2. CASE ip \notin DOMAIN m_mapPeer
        BY <1>a, <3>3, <4>2
      <4> QED
        BY <4>1, <4>2
    <3>6. \A i \in DOMAIN m_mapPeer' :
              /\ m_mapPeer'[i] \in [tcp_port : Nat, offline_times : 0..5]
              /\ [ip |-> i, tcp_port |-> m_mapPeer'[i].tcp_port] \in Addresses
      BY <3>1, <3>4, <3>5
    <3>7. m_mapPeer' \in [DOMAIN m_mapPeer' -> [tcp_port : Nat, offline_times : 0..5]]
      BY <3>2, <3>6
    <3>8. DOMAIN m_mapPeer' \subseteq Ip /\ GetLivePeer' \subseteq Addresses
      BY <1>a, <1>p, <3>1, <3>6 DEF PeersOK, GetLivePeer
    <3> QED
      BY <3>7, <3>8 DEF PeersOK, MAX_OFFLINE_TIMES
  <2> QED
    BY <1>1, <2>1, <2>2, ExecuteType DEF OnPeerOnline
<1>2. CASE OnPeerPing(c)
  <2>1. down' \in [Conn -> Seq(Responses)] /\ crashed' \in BOOLEAN
    BY <1>2, <1>0, <1>r, WrittenType DEF OnPeerPing, TypeOK
  <2>2. PeersOK'
    BY <1>2, <1>a, <1>p DEF OnPeerPing, PeersOK, GetLivePeer, MAX_OFFLINE_TIMES
  <2> QED
    BY <1>2, <2>1, <2>2, ExecuteType DEF OnPeerPing
<1>3. CASE OnPeerOffline(c)
  <2>1. down' \in [Conn -> Seq(Responses)] /\ crashed' \in BOOLEAN
    BY <1>3, <1>0, <1>r, WrittenType DEF OnPeerOffline, TypeOK
  <2>2. PeersOK'
    BY <1>3, <1>p DEF OnPeerOffline, PeersOK, GetLivePeer, Without
  <2> QED
    BY <1>3, <2>1, <2>2, ExecuteType DEF OnPeerOffline
<1>4. CASE OnPeerGetLive(c)
  <2>1. Ok(GetLivePeer) \in Responses
    BY <1>0 DEF TypeOK, Ok, Responses
  <2>2. down' \in [Conn -> Seq(Responses)] /\ crashed' \in BOOLEAN /\ PeersOK'
    BY <1>4, <1>0, <1>p, <2>1, WrittenType DEF OnPeerGetLive, TypeOK, PeersOK, GetLivePeer
  <2> QED
    BY <1>4, <2>2, ExecuteType DEF OnPeerGetLive
<1>5. CASE OnRequestConnectPeer(c)
  <2>1. ConnectPeer(Address[c]) \in Responses
    BY <1>a DEF ConnectPeer, Responses
  <2>2. down' \in [Conn -> Seq(Responses)] /\ crashed' \in BOOLEAN
    BY <1>0, <1>5, <2>1, WrittenType DEF OnRequestConnectPeer, GetHttpClientConnection, TypeOK
  <2>3. PeersOK'
    BY <1>5, <1>p DEF OnRequestConnectPeer, PeersOK, GetLivePeer
  <2> QED
    BY <1>5, <2>2, <2>3, ExecuteType DEF OnRequestConnectPeer
<1>6. CASE OnRequestPeerConnectPeerResult(c)
  <2>1. Head(up[c]) \in Requests /\ Head(up[c]).op = "result"
    BY <1>6, ReadsType DEF OnRequestPeerConnectPeerResult, Reads
  <2>2. PeerResult(Head(up[c]).ok, Address[c]) \in Responses
    BY <1>a, <2>1 DEF PeerResult, Requests, Responses
  <2>3. down' \in [Conn -> Seq(Responses)] /\ crashed' \in BOOLEAN
    BY <1>6, <1>0, <1>r, <2>2, WrittenType
       DEF OnRequestPeerConnectPeerResult, GetHttpClientConnection, TypeOK
  <2>4. PeersOK'
    BY <1>6, <1>p DEF OnRequestPeerConnectPeerResult, PeersOK, GetLivePeer
  <2> QED
    BY <1>6, <2>3, <2>4, ExecuteType DEF OnRequestPeerConnectPeerResult
<1> QED
  BY <1>1, <1>2, <1>3, <1>4, <1>5, <1>6 DEF Execute

HostStates == {"P2PTS_INVALID", "P2PTS_ONLINE", "P2PTS_PING", "P2PTS_OFFLINE"}

\* What a host or a viewer does keeps TypeInv if it does so for what it changes.
LEMMA PeerType ==
    ASSUME TypeInv, UNCHANGED tracker,
           up' \in [Conn -> Seq(Requests)], down' \in [Conn -> Seq(Responses)],
           link' \in [Conn -> Links], m_pBufferEvent' \in [Conn -> BOOLEAN],
           \A c \in Conn : link'[c] = "none" => link[c] = "none" /\ ~m_pBufferEvent'[c],
           \A c \in Conn : m_pBufferEvent'[c] => m_pBufferEvent[c] \/ link[c] = "none",
           \A h \in Host : \/ m_nTrackerState'[h] \in {m_nTrackerState[h], "P2PTS_INVALID"}
                           \/ m_pBufferEvent[h]
                           \/ link[h] = "none" /\ link'[h] # "none"
    PROVE  /\ UNCHANGED <<hostVars, viewerVars>> => TypeInv'
           /\ /\ UNCHANGED <<m_nPingFailedTimes, viewerVars>>
              /\ m_nTrackerState' \in [Host -> {"P2PTS_INVALID", "P2PTS_ONLINE",
                                                "P2PTS_PING", "P2PTS_OFFLINE"}]
              /\ listening' \in [Host -> BOOLEAN] /\ loopexit' \in [Host -> BOOLEAN]
              => TypeInv'
           /\ /\ UNCHANGED hostVars
              /\ asked' \in [Viewer -> Addresses \cup {None}]
              /\ result' \in [Viewer -> Addresses \cup {None}]
              /\ refused' \subseteq Viewer
              => TypeInv'
<1>1. PeersOK' /\ PeersOK
  BY DEF tracker, PeersOK, TypeInv, TypeOK, GetLivePeer
<1>2. m_nPingFailedTimes' \in [Host -> 0..4] /\ m_nTrackerState' \in [Host -> HostStates]
      /\ listening' \in [Host -> BOOLEAN] /\ loopexit' \in [Host -> BOOLEAN]
      /\ asked' \in [Viewer -> Addresses \cup {None}]
      /\ result' \in [Viewer -> Addresses \cup {None}] /\ refused' \subseteq Viewer
      => TypeOK'
  BY <1>1 DEF TypeInv, TypeOK, PeersOK, tracker, Links, HostStates
<1>3. ASSUME m_nPingFailedTimes' = m_nPingFailedTimes
      PROVE  /\ \A c \in Conn : link'[c] = "none" => ~m_pBufferEvent'[c]
             /\ \A h \in Host : link'[h] = "none" =>
                    m_nPingFailedTimes'[h] = 0 /\ m_nTrackerState'[h] = "P2PTS_INVALID"
             /\ \A h \in Host : m_nPingFailedTimes'[h] = 4 =>
                    ~m_pBufferEvent'[h] /\ m_nTrackerState'[h] = "P2PTS_INVALID"
  <2>1. \A h \in Host : h \in Conn
    BY DEF Conn
  <2>2. m_pBufferEvent \in [Conn -> BOOLEAN] /\ 0 # 4
    BY DEF TypeInv, TypeOK
  <2>3. ASSUME NEW h \in Host, m_nPingFailedTimes'[h] = 4
        PROVE  ~m_pBufferEvent'[h] /\ m_nTrackerState'[h] = "P2PTS_INVALID"
    <3>1. ~m_pBufferEvent[h] /\ m_nTrackerState[h] = "P2PTS_INVALID" /\ link[h] # "none"
      BY <1>3, <2>2, <2>3 DEF TypeInv
    <3> QED
      BY <2>1, <3>1
  <2>4. ASSUME NEW h \in Host, link'[h] = "none"
        PROVE  m_nPingFailedTimes'[h] = 0 /\ m_nTrackerState'[h] = "P2PTS_INVALID"
    <3>1. link[h] = "none" /\ ~m_pBufferEvent[h]
      BY <2>1, <2>4 DEF TypeInv
    <3> QED
      BY <1>3, <2>1, <2>4, <3>1 DEF TypeInv
  <2> QED
    BY <2>1, <2>3, <2>4, Zenon
<1>4. m_nPingFailedTimes' = m_nPingFailedTimes /\ TypeOK' => TypeInv'
  BY <1>3 DEF TypeInv
<1>5. /\ m_nPingFailedTimes \in [Host -> 0..4] /\ m_nTrackerState \in [Host -> HostStates]
      /\ listening \in [Host -> BOOLEAN] /\ loopexit \in [Host -> BOOLEAN]
      /\ asked \in [Viewer -> Addresses \cup {None}]
      /\ result \in [Viewer -> Addresses \cup {None}] /\ refused \subseteq Viewer
  BY DEF TypeInv, TypeOK, HostStates
<1>6. CASE UNCHANGED <<hostVars, viewerVars>>
  BY <1>2, <1>4, <1>5, <1>6 DEF hostVars, viewerVars
<1>7. CASE /\ UNCHANGED <<m_nPingFailedTimes, viewerVars>>
           /\ m_nTrackerState' \in [Host -> HostStates]
           /\ listening' \in [Host -> BOOLEAN] /\ loopexit' \in [Host -> BOOLEAN]
  BY <1>2, <1>4, <1>5, <1>7 DEF viewerVars
<1>8. CASE /\ UNCHANGED hostVars
           /\ asked' \in [Viewer -> Addresses \cup {None}]
           /\ result' \in [Viewer -> Addresses \cup {None}]
           /\ refused' \subseteq Viewer
  BY <1>2, <1>4, <1>5, <1>8 DEF hostVars
<1> QED
  BY <1>6, <1>7, <1>8, Zenon DEF HostStates

LEMMA HangsUpType ==
    ASSUME TypeInv, NEW c \in Conn, CloseClient(c)
    PROVE  /\ link' \in [Conn -> Links] /\ m_pBufferEvent' \in [Conn -> BOOLEAN]
           /\ \A d \in Conn : link'[d] = "none" => link[d] = "none" /\ ~m_pBufferEvent'[d]
           /\ \A d \in Conn : m_pBufferEvent'[d] => m_pBufferEvent[d]
           /\ ~m_pBufferEvent'[c]
BY DEF TypeInv, TypeOK, CloseClient, HangsUp, Links

LEMMA TypeInvNext == TypeInv /\ RefInv' /\ [Next]_vars => TypeInv'
<1> SUFFICES ASSUME TypeInv, RefInv', [Next]_vars PROVE TypeInv'
  OBVIOUS
<1>0. TypeOK
  BY DEF TypeInv
<1>h. Host \subseteq Conn /\ Viewer \subseteq Conn
  BY DEF Conn
<1>r. \A op \in {"s", "p", "e", "g"} : Request(op) \in Requests
  BY DEF Request, Requests
<1>d. ASSUME NEW c \in Conn, down[c] # <<>>
      PROVE  Head(down[c]) \in Responses
             /\ [down EXCEPT ![c] = Tail(@)] \in [Conn -> Seq(Responses)]
  <2>1. down[c] \in Seq(Responses)
    BY <1>0 DEF TypeOK
  <2>2. Head(down[c]) \in Responses /\ Tail(down[c]) \in Seq(Responses)
    BY <1>d, <2>1
  <2> QED
    BY <1>0, <2>2 DEF TypeOK
<1>e. <<>> \in Seq(Responses)
  OBVIOUS
<1>1. CASE OnTimer /\ UNCHANGED <<hostVars, viewerVars, m_pBufferEvent>>
  <2>1. PeersOK'
    <3> DEFINE silent == {ip \in DOMAIN m_mapPeer :
                              m_mapPeer[ip].offline_times + 1 > MAX_OFFLINE_TIMES}
               left   == DOMAIN m_mapPeer \ silent
    <3>1. m_mapPeer' = [ip \in left |-> [m_mapPeer[ip] EXCEPT !.offline_times = @ + 1]]
      BY <1>1 DEF OnTimer, Without
    <3>2. \A ip \in left : /\ m_mapPeer[ip] \in [tcp_port : Nat, offline_times : 0..5]
                           /\ ~(m_mapPeer[ip].offline_times + 1 > 5)
      BY <1>0 DEF TypeOK, MAX_OFFLINE_TIMES
    <3>3. \A ip \in left : /\ m_mapPeer'[ip] \in [tcp_port : Nat, offline_times : 0..5]
                           /\ m_mapPeer'[ip].tcp_port = m_mapPeer[ip].tcp_port
      BY <3>1, <3>2
    <3>4. m_mapPeer' \in [left -> [tcp_port : Nat, offline_times : 0..5]]
      BY <3>1, <3>3
    <3>5. DOMAIN m_mapPeer' = left /\ left \subseteq Ip
      BY <1>0, <3>1 DEF TypeOK
    <3>6. GetLivePeer' \subseteq GetLivePeer
      BY <3>3, <3>5 DEF GetLivePeer
    <3> QED
      BY <1>0, <3>4, <3>5, <3>6 DEF PeersOK, TypeOK, MAX_OFFLINE_TIMES
  <2> QED
    BY <1>1, <2>1 DEF OnTimer, PeersOK, TypeInv, TypeOK, wires, hostVars, viewerVars
<1>2. ASSUME NEW c \in Conn, listener_cb(c) \/ conn_eventcb(c),
             UNCHANGED <<hostVars, viewerVars, m_pBufferEvent>>
      PROVE  TypeInv'
  <2>1. m_mapPeer' \in {m_mapPeer, NoPeers} /\ UNCHANGED <<up, down, m_addr, crashed>>
    BY <1>2 DEF listener_cb, conn_eventcb
  <2>2. PeersOK'
    <3>1. CASE m_mapPeer' = m_mapPeer
      BY <1>0, <3>1 DEF TypeOK, PeersOK, GetLivePeer
    <3>2. CASE m_mapPeer' = NoPeers
      <4>1. DOMAIN m_mapPeer' = {} /\ m_mapPeer' = [ip \in {} |-> {}]
        BY <3>2 DEF NoPeers
      <4>2. GetLivePeer' = {}
        BY <4>1 DEF GetLivePeer
      <4> QED
        BY <4>1, <4>2 DEF PeersOK
    <3> QED
      BY <2>1, <3>1, <3>2
  <2>3. \A d \in Conn : link'[d] = "none" => link[d] = "none"
    BY <1>0, <1>2 DEF listener_cb, conn_eventcb, Accepted, TypeOK
  <2>4. TypeOK'
    BY <1>0, <1>2, <2>1, <2>2 DEF TypeOK, PeersOK, RefInv, Links, hostVars, viewerVars
  <2> QED
    BY <1>2, <1>h, <2>3, <2>4 DEF TypeInv, hostVars
<1>3. ASSUME NEW c \in Conn, Execute(c), UNCHANGED <<hostVars, viewerVars, m_pBufferEvent>>
      PROVE  TypeInv'
  BY <1>3, TypeInvExecute
<1>4. ASSUME NEW c \in Conn, Breaks(c) PROVE TypeInv'
  <2>1. /\ link' \in [Conn -> Links] /\ m_pBufferEvent' \in [Conn -> BOOLEAN]
        /\ \A d \in Conn : link'[d] = "none" => link[d] = "none"
        /\ \A d \in Conn : m_pBufferEvent'[d] => m_pBufferEvent[d]
    BY <1>0, <1>4 DEF Breaks, HangsUp, TypeOK, Links
  <2>2. down' \in [Conn -> Seq(Responses)]
    BY <1>0, <1>4, <1>e DEF Breaks, TypeOK
  <2>3. up' \in [Conn -> Seq(Requests)] /\ UNCHANGED <<tracker, hostVars, viewerVars>>
    BY <1>0, <1>4 DEF Breaks, TypeOK
  <2> QED
    BY <2>1, <2>2, <2>3, PeerType DEF TypeInv, hostVars
<1>5. ASSUME NEW h \in Host, HostStart(h) PROVE TypeInv'
  <2>1. up' \in [Conn -> Seq(Requests)]
    BY <1>0, <1>5, <1>h, <1>r DEF HostStart, TypeOK
  <2> QED
    BY <1>0, <1>5, <1>h, <2>1, PeerType DEF HostStart, TypeInv, TypeOK, Links
<1>6. ASSUME NEW h \in Host, SendPing(h) PROVE TypeInv'
  <2>1. up' \in [Conn -> Seq(Requests)]
    BY <1>0, <1>6, <1>h, <1>r, SendsType DEF SendPing
  <2> QED
    BY <1>0, <1>6, <1>h, <2>1, PeerType DEF SendPing, TypeInv, TypeOK, Links
<1>7. ASSUME NEW h \in Host, HostStop(h) PROVE TypeInv'
  <2>1. up' \in [Conn -> Seq(Requests)]
    BY <1>0, <1>7, <1>h, <1>r, SendsType DEF HostStop, TypeOK
  <2> QED
    BY <1>0, <1>7, <1>h, <2>1, PeerType, HangsUpType DEF HostStop, TypeOK
<1>8. ASSUME NEW h \in Host, OnHttpResponse(h) PROVE TypeInv'
  <2>1. Head(down[h]) \in Responses /\ down' \in [Conn -> Seq(Responses)]
    <3>1. /\ down[h] # <<>>
          /\ \/ down' = [down EXCEPT ![h] = Tail(@)]
             \/ down' = [down EXCEPT ![h] = <<>>]
      BY <1>8 DEF OnHttpResponse, OnPeerConnecting, OnPeerConnectingClosed, OnServerSuccess,
                  OnServerConnectFailed, OnServerPingFailed, OnFailureLogged,
                  OnServerOfflineFinish, HostReads
    <3>2. [down EXCEPT ![h] = <<>>] \in [Conn -> Seq(Responses)]
      BY <1>0, <1>e DEF TypeOK
    <3>3. h \in Conn
      BY <1>h
    <3>4. Head(down[h]) \in Responses /\ [down EXCEPT ![h] = Tail(@)] \in [Conn -> Seq(Responses)]
      BY <1>d, <3>1, <3>3
    <3> QED
      BY <3>1, <3>2, <3>4
  <2>2. CASE OnPeerConnecting(h)
    <3>1. \A ok \in BOOLEAN : ResultRequest(ok, Head(down[h]).peer) \in Requests
      BY <2>1, <2>2 DEF OnPeerConnecting, ResultRequest, Requests, Responses
    <3>2. up' \in [Conn -> Seq(Requests)]
      BY <1>0, <1>h, <2>2, <3>1, SendsType DEF OnPeerConnecting
    <3> QED
      BY <1>0, <2>1, <2>2, <3>2, PeerType
         DEF OnPeerConnecting, HostReads, hostVars, TypeInv, TypeOK, Links
  <2>3. CASE OnServerSuccess(h)
    BY <1>0, <2>1, <2>3, PeerType DEF OnServerSuccess, HostReads, TypeInv, TypeOK, Links
  <2>6. CASE OnPeerConnectingClosed(h)
    BY <1>0, <2>1, <2>6, PeerType DEF OnPeerConnectingClosed, TypeInv, TypeOK, Links
  <2>7. CASE OnFailureLogged(h)
    BY <1>0, <2>1, <2>7, PeerType DEF OnFailureLogged, HostReads, hostVars, TypeInv, TypeOK, Links
  <2>8. CASE OnServerOfflineFinish(h)
    BY <1>0, <1>h, <2>1, <2>8, PeerType, HangsUpType
       DEF OnServerOfflineFinish, HostReads, TypeOK
  <2>4. CASE OnServerConnectFailed(h)
    BY <1>0, <1>h, <2>1, <2>4, PeerType, HangsUpType
       DEF OnServerConnectFailed, HostReads, TypeOK
  <2>5. CASE OnServerPingFailed(h)
    <3>1. m_nPingFailedTimes[h] \in 0..3
      BY <1>0, <1>h, <2>5 DEF OnServerPingFailed, HostReads, TypeInv, TypeOK
    <3>2. /\ m_nPingFailedTimes' \in [Host -> 0..4]
          /\ m_nTrackerState' \in [Host -> {"P2PTS_INVALID", "P2PTS_ONLINE",
                                            "P2PTS_PING", "P2PTS_OFFLINE"}]
          /\ \A g \in Host : g # h => m_nPingFailedTimes'[g] = m_nPingFailedTimes[g]
      <4>1. m_nPingFailedTimes' = [m_nPingFailedTimes EXCEPT ![h] = @ + 1]
            /\ (m_nTrackerState' = [m_nTrackerState EXCEPT ![h] = "P2PTS_INVALID"]
                \/ UNCHANGED m_nTrackerState)
        BY <2>5 DEF OnServerPingFailed
      <4>2. m_nPingFailedTimes \in [Host -> 0..4] /\ m_nPingFailedTimes[h] + 1 \in 0..4
        BY <1>0, <3>1 DEF TypeOK
      <4>3. m_nPingFailedTimes' \in [Host -> 0..4]
            /\ \A g \in Host : g # h => m_nPingFailedTimes'[g] = m_nPingFailedTimes[g]
        BY <4>1, <4>2
      <4> QED
        BY <1>0, <4>1, <4>3 DEF TypeOK
    <3>3. /\ link' \in [Conn -> Links] /\ m_pBufferEvent' \in [Conn -> BOOLEAN]
          /\ \A d \in Conn : link'[d] = "none" => link[d] = "none" /\ ~m_pBufferEvent'[d]
          /\ \A d \in Conn : m_pBufferEvent'[d] => m_pBufferEvent[d]
          /\ m_nPingFailedTimes'[h] = 4 => ~m_pBufferEvent'[h]
          /\ m_nPingFailedTimes'[h] = 4 => m_nTrackerState'[h] = "P2PTS_INVALID"
          /\ \A g \in Host : g # h => m_nTrackerState'[g] = m_nTrackerState[g]
      <4>1. CASE m_nPingFailedTimes[h] + 1 > 3
        BY <1>0, <1>h, <2>5, <4>1, HangsUpType DEF OnServerPingFailed, TypeOK
      <4>2. CASE ~(m_nPingFailedTimes[h] + 1 > 3)
        BY <1>0, <2>5, <3>1, <4>2 DEF OnServerPingFailed, TypeInv, TypeOK, Links
      <4> QED
        BY <4>1, <4>2
    <3>4. link[h] # "none"
      BY <2>5 DEF OnServerPingFailed, TypeInv
    <3>5. PeersOK'
      BY <1>0, <2>5 DEF OnServerPingFailed, HostReads, tracker, PeersOK, TypeOK, GetLivePeer
    <3>6. TypeOK'
      BY <1>0, <2>1, <2>5, <3>2, <3>3, <3>5
         DEF OnServerPingFailed, HostReads, TypeOK, PeersOK, Links, tracker, viewerVars
    <3> QED
      BY <1>h, <3>2, <3>3, <3>4, <3>6 DEF TypeInv
  <2> QED
    BY <1>8, <2>2, <2>3, <2>4, <2>5, <2>6, <2>7, <2>8 DEF OnHttpResponse
<1>9. ASSUME NEW v \in Viewer, ViewerStart(v) PROVE TypeInv'
  <2>1. up' \in [Conn -> Seq(Requests)]
    BY <1>0, <1>9, <1>h, <1>r DEF ViewerStart, TypeOK
  <2> QED
    BY <1>0, <1>9, <1>h, <2>1, PeerType DEF ViewerStart, hostVars, TypeInv, TypeOK, Links
<1>10. ASSUME NEW v \in Viewer, OnGetLivePeerList(v) PROVE TypeInv'
  <2>1. Head(down[v]) \in Responses /\ down' \in [Conn -> Seq(Responses)]
    BY <1>10, <1>d, <1>h DEF OnGetLivePeerList, ViewerReads
  <2> DEFINE peers == Head(down[v]).peers
  <2>2. peers \subseteq Addresses
    BY <1>10, <2>1 DEF OnGetLivePeerList, Responses
  <2>3. peers # {} => FirstPeer(peers) \in Addresses
    BY <2>2, FirstPeerListed
  <2>4. peers # {} => ConnectRequest(FirstPeer(peers)) \in Requests
    BY <2>3 DEF ConnectRequest, Requests
  <2>5. up' \in [Conn -> Seq(Requests)] /\ asked' \in [Viewer -> Addresses \cup {None}]
    <3>1. CASE peers = {}
      BY <1>0, <1>10, <3>1 DEF OnGetLivePeerList, TypeOK
    <3>2. CASE peers # {}
      <4>1. up' = Sends(v, ConnectRequest(FirstPeer(peers)))
            /\ asked' = [asked EXCEPT ![v] = FirstPeer(peers)]
        BY <1>10, <3>2 DEF OnGetLivePeerList
      <4>2. up' \in [Conn -> Seq(Requests)]
        BY <1>0, <1>h, <2>4, <3>2, <4>1, SendsType
      <4> QED
        BY <1>0, <2>3, <3>2, <4>1, <4>2 DEF TypeOK
    <3> QED
      BY <3>1, <3>2
  <2> QED
    BY <1>0, <1>10, <2>1, <2>5, PeerType
       DEF OnGetLivePeerList, ViewerReads, hostVars, TypeInv, TypeOK, Links
<1>11. ASSUME NEW v \in Viewer, OnConnectPeerResult(v) PROVE TypeInv'
  <2>1. Head(down[v]) \in Responses /\ down' \in [Conn -> Seq(Responses)]
    BY <1>11, <1>d, <1>h DEF OnConnectPeerResult, ViewerReads
  <2>2. Head(down[v]).peer \in Addresses
    BY <1>11, <2>1 DEF OnConnectPeerResult, Responses
  <2>3. CASE Head(down[v]).ok
    BY <1>0, <1>11, <1>h, <2>1, <2>2, <2>3, PeerType, HangsUpType
       DEF OnConnectPeerResult, ViewerReads, hostVars, TypeOK
  <2>4. CASE ~Head(down[v]).ok
    BY <1>0, <1>11, <2>1, <2>4, PeerType
       DEF OnConnectPeerResult, ViewerReads, hostVars, TypeInv, TypeOK, Links
  <2> QED
    BY <2>3, <2>4
<1>12. CASE UNCHANGED vars
  BY <1>12 DEF vars, wires, tracker, hostVars, viewerVars, TypeInv, TypeOK, GetLivePeer
<1> QED
  BY <1>1, <1>2, <1>3, <1>4, <1>5, <1>6, <1>7, <1>8, <1>9, <1>10, <1>11, <1>12
     DEF Next, TrackerThread

\* Every variable of the tracker, its hosts and its viewers keeps its type: no
\* response is misread, no peer is listed under an address that is not its own.
THEOREM TypeCorrect == Spec => []TypeOK
<1>1. TypeInv => TypeOK
  BY DEF TypeInv
<1> QED
  BY <1>1, TypeInvInit, TypeInvNext, RefInvInit, RefInvNext, PTL DEF Spec

-----------------------------------------------------------------------------
(* A host that listens is in the list the tracker gives to viewers.        *)

Elems(s) == {s[i] : i \in 1..Len(s)}

LEMMA ElemsAppend ==
    ASSUME NEW S, NEW s \in Seq(S), NEW e \in S
    PROVE  Elems(Append(s, e)) = Elems(s) \cup {e}
<1>1. Len(Append(s, e)) = Len(s) + 1 /\ Len(s) \in Nat
  OBVIOUS
<1>2. \A i \in 1..Len(s) : Append(s, e)[i] = s[i]
  OBVIOUS
<1>3. Append(s, e)[Len(s) + 1] = e
  OBVIOUS
<1> QED
  BY <1>1, <1>2, <1>3 DEF Elems

LEMMA ElemsTail ==
    ASSUME NEW S, NEW s \in Seq(S), s # <<>>
    PROVE  Head(s) \in Elems(s) /\ Elems(Tail(s)) \subseteq Elems(s)
<1>1. Len(s) \in Nat \ {0} /\ Len(Tail(s)) = Len(s) - 1
  OBVIOUS
<1>2. \A i \in 1..Len(Tail(s)) : Tail(s)[i] = s[i + 1] /\ i + 1 \in 1..Len(s)
  BY <1>1
<1>3. Head(s) = s[1] /\ 1 \in 1..Len(s)
  BY <1>1
<1> QED
  BY <1>2, <1>3 DEF Elems

LEMMA ElemsFew == Elems(<<>>) = {} /\ \A e : Elems(<<e>>) = {e}
BY DEF Elems

\* Only hosts announce, ping and go offline, the last of it when they close, and
\* only viewers ask for the list.
RequestsInv ==
    /\ \A v \in Viewer : \A r \in Elems(up[v]) : r.op \in {"g", "connect"}
    /\ \A h \in Host : \A r \in Elems(up[h]) :
         r.op \in {"s", "p", "result"} \/ (r.op = "e" /\ link[h] \in {"left", "closing", "dead"})

\* Before the tracker has accepted its connection a host has heard nothing.
SilenceInv ==
    \A h \in Host : link[h] \in {"none", "dialing"} => down[h] = <<>> /\ ~listening[h]

\* No host behind the ip of this one has left.
Lone(h) == \A g \in Host : Address[g].ip = Address[h].ip => link[g] \notin {"closing", "dead"}

\* An accepted announcement is in the registry from before its response is
\* written: ListeningIsListed for a host whose response is still under way, too.
AnnouncedInv ==
    \A h \in Host :
        /\ Lone(h) /\ link[h] = "up"
        /\ listening[h] \/ \E r \in Elems(down[h]) : r.kind = "ok"
        => Address[h].ip \in DOMAIN m_mapPeer

ListInv == RequestsInv /\ SilenceInv /\ AnnouncedInv

LEMMA ListInvInit == Init => ListInv
BY ElemsFew DEF Init, TrackerInit, ListInv, RequestsInv, SilenceInv, AnnouncedInv, Conn

\* What Sends and Written add to the queues.
LEMMA SendsElems ==
    ASSUME TypeOK, NEW c \in Conn, NEW request \in Requests
    PROVE  /\ \A d \in Conn : d # c => Sends(c, request)[d] = up[d]
           /\ \A r \in Elems(Sends(c, request)[c]) :
                r \in Elems(up[c]) \/ (r = request /\ link[c] \in {"dialing", "up"})
<1>1. up \in [Conn -> Seq(Requests)] /\ up[c] \in Seq(Requests)
  BY DEF TypeOK
<1>2. Elems(Append(up[c], request)) = Elems(up[c]) \cup {request}
  BY <1>1, ElemsAppend
<1>3. CASE link[c] \in {"dialing", "up"}
  <2>1. Sends(c, request)[c] = Append(up[c], request)
    BY <1>1, <1>3 DEF Sends
  <2> QED
    BY <1>1, <1>2, <1>3, <2>1 DEF Sends
<1>4. CASE link[c] \notin {"dialing", "up"}
  <2>1. Sends(c, request) = up
    BY <1>4 DEF Sends
  <2> QED
    BY <2>1
<1> QED
  BY <1>3, <1>4

LEMMA WrittenElems ==
    ASSUME TypeOK, NEW d \in Conn, NEW response \in Responses, Written(d, response)
    PROVE  /\ \A c \in Conn : c # d => down'[c] = down[c]
           /\ \A r \in Elems(down'[d]) : r \in Elems(down[d]) \/ (r = response /\ link[d] = "up")
           /\ link[d] # "up" => down' = down
<1>1. down \in [Conn -> Seq(Responses)] /\ down[d] \in Seq(Responses)
  BY DEF TypeOK
<1>2. Elems(Append(down[d], response)) = Elems(down[d]) \cup {response}
  BY <1>1, ElemsAppend
<1>3. CASE link[d] = "up"
  <2>1. down'[d] = Append(down[d], response)
    BY <1>1, <1>3 DEF Written
  <2> QED
    BY <1>1, <1>2, <1>3, <2>1 DEF Written
<1>4. CASE link[d] # "up"
  <2>1. down' = down
    BY <1>4 DEF Written
  <2> QED
    BY <2>1
<1> QED
  BY <1>3, <1>4

\* Reading a request or a response only takes it away.
LEMMA ReadsElems ==
    ASSUME TypeOK, NEW c \in Conn, NEW op, Reads(c, op)
    PROVE  /\ \E r \in Elems(up[c]) : r.op = op
           /\ \A d \in Conn : Elems(up'[d]) \subseteq Elems(up[d])
<1>1. up \in [Conn -> Seq(Requests)] /\ up[c] \in Seq(Requests) /\ up[c] # <<>>
  BY DEF TypeOK, Reads
<1>2. Head(up[c]) \in Elems(up[c]) /\ Elems(Tail(up[c])) \subseteq Elems(up[c])
  BY <1>1, ElemsTail
<1> QED
  BY <1>1, <1>2 DEF Reads

LEMMA TakesElems ==
    ASSUME TypeOK, NEW c \in Conn, down[c] # <<>>, down' = [down EXCEPT ![c] = Tail(@)]
    PROVE  /\ Head(down[c]) \in Elems(down[c])
           /\ \A d \in Conn : Elems(down'[d]) \subseteq Elems(down[d])
<1>1. down \in [Conn -> Seq(Responses)] /\ down[c] \in Seq(Responses)
  BY DEF TypeOK
<1>2. Head(down[c]) \in Elems(down[c]) /\ Elems(Tail(down[c])) \subseteq Elems(down[c])
  BY <1>1, ElemsTail
<1> QED
  BY <1>1, <1>2

\* The three parts of ListInv, each for the steps that do not disturb it.
LEMMA RequestsKept ==
    ASSUME RequestsInv, link \in [Conn -> Links], link' \in [Conn -> Links],
           \A c \in Conn : Elems(up'[c]) \subseteq Elems(up[c]),
           \A c \in Conn : link[c] \in {"left", "closing", "dead"} =>
                             link'[c] \in {"left", "closing", "dead"}
    PROVE  RequestsInv'
BY DEF RequestsInv, Conn

LEMMA SilenceKept ==
    ASSUME SilenceInv,
           \A h \in Host : link'[h] \in {"none", "dialing"} => link[h] \in {"none", "dialing"},
           \A h \in Host : link[h] \in {"none", "dialing"} =>
                             down'[h] = down[h] /\ listening'[h] = listening[h]
    PROVE  SilenceInv'
BY DEF SilenceInv

LEMMA AnnouncedKept ==
    ASSUME AnnouncedInv, DOMAIN m_mapPeer \subseteq DOMAIN m_mapPeer',
           \A h \in Host : link[h] \in {"closing", "dead"} => link'[h] \in {"closing", "dead"},
           \A h \in Host : link'[h] = "up" => link[h] = "up",
           \A h \in Host : listening'[h] =>
                             listening[h] \/ \E r \in Elems(down[h]) : r.kind = "ok",
           \A h \in Host : \A r \in Elems(down'[h]) : r.kind = "ok" => r \in Elems(down[h])
    PROVE  AnnouncedInv'
BY DEF AnnouncedInv, Lone

\* Leaving the map takes the registry along only if no one else is in the map.
LEMMA OthersKeepRegistry ==
    ASSUME RefInv, NEW c \in Conn, conn_eventcb(c), NEW d \in Conn, d # c, link[d] = "up"
    PROVE  m_mapPeer' = m_mapPeer
<1>1. IsFiniteSet(m_mapClient) /\ Cardinality(m_mapClient) \in Nat
  BY MapIsCounted DEF RefInv
<1>2. c \in m_mapClient /\ d \in m_mapClient \ {c}
  BY DEF RefInv, conn_eventcb
<1>3. IsFiniteSet(m_mapClient \ {c})
      /\ Cardinality(m_mapClient \ {c}) = Cardinality(m_mapClient) - 1
  BY <1>1, <1>2, FS_RemoveElement
<1>4. Cardinality(m_mapClient \ {c}) # 0
  BY <1>2, <1>3, FS_EmptySet
<1>5. Cardinality(m_mapClient) # 1
  BY <1>1, <1>3, <1>4
<1>6. m_dwRef = Cardinality(m_mapClient) + leaked /\ leaked \in Nat /\ Cardinality(m_mapClient) > 0
  BY <1>2, MapIsCounted DEF RefInv, RegistryOutlivesConnections
<1>7. m_dwRef # 1
  BY <1>1, <1>5, <1>6
<1> QED
  BY <1>7 DEF conn_eventcb

LEMMA ListInvConnections ==
    ASSUME TypeInv, RefInv, RefInv', ListInv, UNCHANGED <<hostVars, viewerVars, m_pBufferEvent>>,
           NEW c \in Conn, listener_cb(c) \/ conn_eventcb(c)
    PROVE  ListInv'
<1> USE DEF ListInv
<1>h. Host \subseteq Conn
  BY DEF Conn
<1>l. link \in [Conn -> Links] /\ link' \in [Conn -> Links]
  BY DEF RefInv
<1>1. up' = up /\ down' = down /\ listening' = listening
  BY DEF listener_cb, conn_eventcb, hostVars
<1>2. /\ \A d \in Conn : d # c => link'[d] = link[d]
      /\ link[c] \in {"dialing", "left", "closing"} /\ link'[c] \in {"up", "closing", "dead"}
      /\ link[c] # "dialing" => link'[c] \in {"closing", "dead"}
  BY <1>l DEF listener_cb, conn_eventcb, Accepted
<1>3. RequestsInv'
  BY <1>l, <1>1, <1>2, RequestsKept
<1>4. SilenceInv'
  BY <1>h, <1>1, <1>2, SilenceKept
<1>5. CASE listener_cb(c)
  <2>1. m_mapPeer' = m_mapPeer
    BY <1>5 DEF listener_cb
  <2>2. c \in Host /\ link'[c] = "up" => Elems(down[c]) = {} /\ ~listening[c]
    BY <1>2, <1>5, ElemsFew DEF SilenceInv, listener_cb
  <2>3. AnnouncedInv'
    BY <1>h, <1>1, <1>2, <2>1, <2>2 DEF AnnouncedInv, Lone
  <2> QED
    BY <1>3, <1>4, <2>3
<1>6. CASE conn_eventcb(c)
  <2>1. \A h \in Host : link'[h] = "up" => link[h] = "up" /\ m_mapPeer' = m_mapPeer
    BY <1>h, <1>2, <1>6, OthersKeepRegistry DEF conn_eventcb
  <2>2. AnnouncedInv'
    BY <1>h, <1>1, <1>2, <2>1 DEF AnnouncedInv, Lone
  <2> QED
    BY <1>3, <1>4, <2>2
<1> QED
  BY <1>5, <1>6

\* Serving a request keeps the first two parts; the third is up to the handler.
LEMMA ListInvReads ==
    ASSUME TypeInv, RefInv, ListInv, UNCHANGED <<hostVars, viewerVars, m_pBufferEvent>>,
           NEW c \in Conn, NEW op, Reads(c, op),
           NEW d \in Conn, NEW response \in Responses, Written(d, response) \/ down' = down
    PROVE  /\ RequestsInv' /\ SilenceInv'
           /\ /\ DOMAIN m_mapPeer \subseteq DOMAIN m_mapPeer'
              /\ d \in Host /\ response.kind = "ok" => Address[d].ip \in DOMAIN m_mapPeer'
              => AnnouncedInv'
<1> USE DEF ListInv
<1>h. Host \subseteq Conn
  BY DEF Conn
<1>0. TypeOK /\ link \in [Conn -> Links] /\ link' = link /\ listening' = listening
  BY DEF TypeInv, RefInv, Reads, hostVars
<1>1. RequestsInv'
  BY <1>0, ReadsElems, RequestsKept
<1>2. /\ \A h \in Conn : h # d => down'[h] = down[h]
      /\ \A r \in Elems(down'[d]) : r \in Elems(down[d]) \/ (r = response /\ link[d] = "up")
      /\ link[d] # "up" => down' = down
  BY <1>0, WrittenElems
<1>3. SilenceInv'
  BY <1>h, <1>0, <1>2, SilenceKept
<1>4. ASSUME DOMAIN m_mapPeer \subseteq DOMAIN m_mapPeer',
             d \in Host /\ response.kind = "ok" => Address[d].ip \in DOMAIN m_mapPeer'
      PROVE  AnnouncedInv'
  BY <1>h, <1>0, <1>2, <1>4 DEF AnnouncedInv, Lone
<1> QED
  BY <1>1, <1>3, <1>4

LEMMA ListInvExecute ==
    ASSUME TypeInv, RefInv, ListInv, UNCHANGED <<hostVars, viewerVars, m_pBufferEvent>>,
           NEW c \in Conn, Execute(c)
    PROVE  ListInv'
<1> USE DEF ListInv
<1>h. Host \subseteq Conn /\ Conn = Host \cup Viewer /\ Host \cap Viewer = {}
  BY PeerTrackerAssumption DEF Conn
<1>0. TypeOK
  BY DEF TypeInv
<1>a. Address[c] \in Addresses
  BY AddressType
<1>r. /\ Ok({}) \in Responses /\ NotFound \in Responses /\ NotFound.kind # "ok"
  BY DEF Ok, NotFound, Responses
<1>1. CASE OnPeerOnline(c)
  <2>1. DOMAIN m_mapPeer' = DOMAIN m_mapPeer \cup {Address[c].ip}
    BY <1>1 DEF OnPeerOnline
  <2> QED
    BY <1>1, <1>r, <2>1, ListInvReads DEF OnPeerOnline
<1>2. CASE OnPeerPing(c)
  <2>1. DOMAIN m_mapPeer' = DOMAIN m_mapPeer
    BY <1>2 DEF OnPeerPing
  <2>2. CASE Address[c].ip \in DOMAIN m_mapPeer
    BY <1>2, <1>r, <2>1, <2>2, ListInvReads DEF OnPeerPing
  <2>3. CASE Address[c].ip \notin DOMAIN m_mapPeer
    BY <1>2, <1>r, <2>1, <2>3, ListInvReads DEF OnPeerPing
  <2> QED
    BY <2>2, <2>3
<1>3. CASE OnPeerOffline(c)
  <2>1. \E r \in Elems(up[c]) : r.op = "e"
    BY <1>0, <1>3, ReadsElems DEF OnPeerOffline
  <2>2. c \in Host /\ link[c] = "closing"
    <3>1. c \in Host /\ link[c] \in {"left", "closing", "dead"}
      BY <1>h, <2>1 DEF RequestsInv
    <3>2. link[c] \in {"up", "closing"}
      BY <1>3 DEF OnPeerOffline, Reads, RefInv
    <3> QED
      BY <3>1, <3>2
  <2>3. PICK response \in Responses : Written(c, response)
    BY <1>3, <1>r DEF OnPeerOffline
  <2>4. down' = down
    BY <2>2, <2>3 DEF Written
  <2>5. RequestsInv' /\ SilenceInv'
    BY <1>3, <2>3, ListInvReads DEF OnPeerOffline
  <2>6. link' = link /\ listening' = listening
    BY <1>3 DEF OnPeerOffline, Reads, hostVars
  <2>7. DOMAIN m_mapPeer' = DOMAIN m_mapPeer \ {Address[c].ip}
    BY <1>3 DEF OnPeerOffline, Without
  <2>8. \A h \in Host : Lone(h) /\ link[h] = "up" => Address[h].ip # Address[c].ip
    BY <2>2 DEF Lone
  <2>9. AnnouncedInv'
    BY <2>4, <2>6, <2>7, <2>8 DEF AnnouncedInv, Lone
  <2> QED
    BY <2>5, <2>9
<1>4. CASE OnPeerGetLive(c)
  <2>1. \E r \in Elems(up[c]) : r.op = "g"
    BY <1>0, <1>4, ReadsElems DEF OnPeerGetLive
  <2>2. c \notin Host
    BY <2>1 DEF RequestsInv
  <2>3. Ok(GetLivePeer) \in Responses
    BY <1>0 DEF TypeOK, Ok, Responses
  <2> QED
    BY <1>4, <2>2, <2>3, ListInvReads DEF OnPeerGetLive
<1>5. CASE OnRequestConnectPeer(c)
  <2>1. ConnectPeer(Address[c]) \in Responses /\ ConnectPeer(Address[c]).kind # "ok"
    BY <1>a DEF ConnectPeer, Responses
  <2>2. \E d \in Conn : Written(d, ConnectPeer(Address[c])) \/ down' = down
    BY <1>0, <1>5 DEF OnRequestConnectPeer, GetHttpClientConnection, TypeOK
  <2> QED
    BY <1>5, <2>1, <2>2, ListInvReads DEF OnRequestConnectPeer
<1>6. CASE OnRequestPeerConnectPeerResult(c)
  <2> DEFINE answer == PeerResult(Head(up[c]).ok, Address[c])
  <2>1. Head(up[c]) \in Requests /\ Head(up[c]).op = "result"
    BY <1>6, ReadsType DEF OnRequestPeerConnectPeerResult, Reads
  <2>2. answer \in Responses /\ answer.kind # "ok"
    BY <1>a, <2>1 DEF PeerResult, Requests, Responses
  <2>3. \E d \in Conn : Written(d, NotFound) \/ Written(d, answer)
    BY <1>0, <1>6 DEF OnRequestPeerConnectPeerResult, GetHttpClientConnection, TypeOK
  <2> QED
    BY <1>6, <1>r, <2>2, <2>3, ListInvReads DEF OnRequestPeerConnectPeerResult
<1> QED
  BY <1>1, <1>2, <1>3, <1>4, <1>5, <1>6 DEF Execute

\* What a host or a viewer does: requests may be added, responses are only read.
LEMMA ListInvPeer ==
    ASSUME TypeInv, ListInv, UNCHANGED tracker, link' \in [Conn -> Links],
           \A d \in Conn : Elems(down'[d]) \subseteq Elems(down[d]),
           \A h \in Host : link[h] \in {"none", "dialing"} =>
                             down'[h] = down[h] /\ listening'[h] = listening[h],
           \A h \in Host : listening'[h] =>
                             listening[h] \/ \E r \in Elems(down[h]) : r.kind = "ok",
           \A d \in Conn : \/ link'[d] = link[d]
                           \/ link[d] = "none" /\ link'[d] = "dialing"
                           \/ link[d] = "dialing" /\ link'[d] \in {"left", "dead"}
                           \/ link[d] = "up" /\ link'[d] = "closing",
           \A v \in Viewer : \A r \in Elems(up'[v]) :
               r \in Elems(up[v]) \/ r.op \in {"g", "connect"},
           \A h \in Host : \A r \in Elems(up'[h]) :
               \/ r \in Elems(up[h]) \/ r.op \in {"s", "p", "result"}
               \/ r.op = "e" /\ link'[h] \in {"left", "closing", "dead"}
    PROVE  ListInv'
<1> USE DEF ListInv
<1>h. Host \subseteq Conn
  BY DEF Conn
<1>1. RequestsInv'
  BY <1>h DEF RequestsInv
<1>2. SilenceInv'
  BY <1>h, SilenceKept
<1>3. AnnouncedInv'
  BY <1>h, AnnouncedKept DEF tracker
<1> QED
  BY <1>1, <1>2, <1>3

\* A request is sent by c and nothing else happens to the queues of requests.
LEMMA SentElems ==
    ASSUME TypeOK, NEW c \in Conn, NEW request \in Requests, up' \in {up, Sends(c, request)}
    PROVE  \A d \in Conn : \A r \in Elems(up'[d]) :
               r \in Elems(up[d]) \/ (d = c /\ r = request)
BY SendsElems

LEMMA ListInvNext ==
    ~TimerDelivered /\ TypeInv /\ RefInv /\ RefInv' /\ ListInv /\ [Next]_vars => ListInv'
<1> SUFFICES ASSUME ~TimerDelivered, TypeInv, RefInv, RefInv', ListInv, [Next]_vars
             PROVE  ListInv'
  OBVIOUS
<1>h. Host \subseteq Conn /\ Viewer \subseteq Conn /\ Host \cap Viewer = {}
  BY PeerTrackerAssumption DEF Conn
<1>0. TypeOK /\ link \in [Conn -> Links] /\ link' \in [Conn -> Links]
  BY DEF TypeInv, RefInv
<1>r. \A op \in {"s", "p", "e", "g"} : Request(op) \in Requests /\ Request(op).op = op
  BY DEF Request, Requests
<1>u. ASSUME NEW c \in Conn, HangsUp(c)
      PROVE  \A d \in Conn : \/ link'[d] = link[d]
                             \/ link[d] = "dialing" /\ link'[d] \in {"left", "dead"}
                             \/ link[d] = "up" /\ link'[d] = "closing"
  BY <1>0, <1>u DEF HangsUp
<1>c. ASSUME NEW c \in Conn, HangsUp(c), link[c] \in {"dialing", "up"}
      PROVE  link'[c] \in {"left", "closing", "dead"}
  BY <1>0, <1>c DEF HangsUp
<1>1. CASE OnTimer
  BY <1>1 DEF OnTimer
<1>2. ASSUME NEW c \in Conn, TrackerThread(c), UNCHANGED <<hostVars, viewerVars, m_pBufferEvent>>
      PROVE  ListInv'
  BY <1>2, ListInvConnections, ListInvExecute DEF TrackerThread
<1>3. ASSUME NEW c \in Conn, Breaks(c) PROVE ListInv'
  <2>1. \A d \in Conn : down'[d] \in {down[d], <<>>}
    BY <1>0, <1>3 DEF Breaks, TypeOK
  <2>2. \A d \in Conn : Elems(down'[d]) \subseteq Elems(down[d])
    BY <2>1, ElemsFew
  <2>3. \A h \in Host : link[h] \in {"none", "dialing"} => down'[h] = down[h]
    BY <1>h, <2>1 DEF ListInv, SilenceInv
  <2> QED
    BY <1>0, <1>3, <1>u, <2>2, <2>3, ListInvPeer DEF Breaks, hostVars
<1>4. ASSUME NEW h \in Host, HostStart(h) PROVE ListInv'
  <2>1. \A d \in Conn : \A r \in Elems(up'[d]) :
            r \in Elems(up[d]) \/ (d = h /\ r = Request("s"))
    BY <1>0, <1>4, <1>h, ElemsFew DEF HostStart, TypeOK
  <2>2. \A d \in Conn : link'[d] = link[d] \/ (link[d] = "none" /\ link'[d] = "dialing")
    BY <1>0, <1>4, <1>h DEF HostStart
  <2> QED
    BY <1>0, <1>4, <1>h, <1>r, <2>1, <2>2, ListInvPeer DEF HostStart
<1>5. ASSUME NEW h \in Host, SendPing(h) PROVE ListInv'
  <2>1. \A d \in Conn : \A r \in Elems(up'[d]) :
            r \in Elems(up[d]) \/ (d = h /\ r = Request("p"))
    BY <1>0, <1>5, <1>h, <1>r, SentElems DEF SendPing
  <2> QED
    BY <1>0, <1>5, <1>h, <1>r, <2>1, ListInvPeer DEF SendPing
<1>6. ASSUME NEW h \in Host, HostStop(h) PROVE ListInv'
  <2>1. /\ \A d \in Conn : \A r \in Elems(up'[d]) :
             \/ r \in Elems(up[d])
             \/ d = h /\ r = Request("e") /\ link[h] \in {"dialing", "up"}
    <3>1. CASE up' = up
      BY <3>1
    <3>2. CASE up' = Sends(h, Request("e"))
      BY <1>0, <1>h, <1>r, <3>2, SendsElems
    <3> QED
      BY <1>6, <3>1, <3>2 DEF HostStop
  <2>2. HangsUp(h)
    BY <1>6 DEF HostStop, CloseClient
  <2> QED
    BY <1>0, <1>6, <1>h, <1>r, <1>u, <1>c, <2>1, <2>2, ListInvPeer DEF HostStop
<1>7. ASSUME NEW h \in Host, OnHttpResponse(h) PROVE ListInv'
  <2>8. CASE OnPeerConnectingClosed(h)
    <3>1. \A d \in Conn : down'[d] \in {down[d], <<>>}
      BY <1>0, <2>8 DEF OnPeerConnectingClosed, TypeOK
    <3>2. \A d \in Conn : Elems(down'[d]) \subseteq Elems(down[d])
      BY <3>1, ElemsFew
    <3>3. \A g \in Host : link[g] \in {"none", "dialing"} => down'[g] = down[g]
      BY <1>h, <3>1 DEF ListInv, SilenceInv
    <3> QED
      BY <1>0, <2>8, <3>2, <3>3, ListInvPeer DEF OnPeerConnectingClosed
  <2>9. ~OnPeerConnectingClosed(h) => HostReads(h)
    BY <1>7 DEF OnHttpResponse, OnPeerConnecting, OnServerSuccess, OnServerConnectFailed,
                OnServerPingFailed, OnFailureLogged, OnServerOfflineFinish
  <2> SUFFICES ASSUME HostReads(h) PROVE ListInv'
    BY <2>8, <2>9
  <2>1. HostReads(h)
    OBVIOUS
  <2>2. /\ Head(down[h]) \in Elems(down[h])
        /\ \A d \in Conn : Elems(down'[d]) \subseteq Elems(down[d])
        /\ \A g \in Host : g # h => down'[g] = down[g]
        /\ link[h] \notin {"none", "dialing"}
        /\ Head(down[h]) \in Responses
    <3>1. down[h] \in Seq(Responses) /\ down[h] # <<>>
      BY <1>0, <1>h, <2>1 DEF HostReads, TypeOK
    <3>2. Head(down[h]) \in Responses
      BY <3>1
    <3>3. \A g \in Host : g # h => down'[g] = down[g]
      BY <1>0, <1>h, <2>1 DEF HostReads, TypeOK
    <3>4. link[h] \notin {"none", "dialing"}
      BY <3>1 DEF ListInv, SilenceInv
    <3> QED
      BY <1>0, <1>h, <2>1, <3>2, <3>3, <3>4, TakesElems DEF HostReads
  <2>3. UNCHANGED tracker
    BY <2>1 DEF HostReads
  <2>4. CASE OnPeerConnecting(h)
    <3>1. \A ok \in BOOLEAN : LET request == ResultRequest(ok, Head(down[h]).peer)
                              IN  request \in Requests /\ request.op = "result"
      BY <2>2, <2>4 DEF OnPeerConnecting, ResultRequest, Requests, Responses
    <3>2. \A d \in Conn : \A r \in Elems(up'[d]) :
              r \in Elems(up[d]) \/ (d = h /\ r.op = "result")
      BY <1>0, <1>h, <2>4, <3>1, SentElems DEF OnPeerConnecting
    <3> QED
      BY <1>0, <1>h, <2>2, <2>3, <2>4, <3>2, ListInvPeer DEF OnPeerConnecting, hostVars
  <2>5. CASE OnServerSuccess(h)
    <3>1. \A g \in Host : listening'[g] =>
              listening[g] \/ \E r \in Elems(down[g]) : r.kind = "ok"
      BY <1>0, <2>2, <2>5 DEF OnServerSuccess, TypeOK
    <3>2. \A g \in Host : g # h => listening'[g] = listening[g]
      BY <1>0, <2>5 DEF OnServerSuccess, TypeOK
    <3> QED
      BY <1>0, <1>h, <2>2, <2>3, <2>5, <3>1, <3>2, ListInvPeer DEF OnServerSuccess
  <2>6. CASE OnServerConnectFailed(h)
    BY <1>0, <1>h, <1>u, <2>2, <2>3, <2>6, ListInvPeer DEF OnServerConnectFailed, CloseClient
  <2>7. CASE OnServerPingFailed(h)
    BY <1>0, <1>h, <1>u, <2>2, <2>3, <2>7, ListInvPeer DEF OnServerPingFailed, CloseClient
  <2>10. CASE OnFailureLogged(h)
    BY <1>0, <1>h, <2>2, <2>3, <2>10, ListInvPeer DEF OnFailureLogged, hostVars
  <2>11. CASE OnServerOfflineFinish(h)
    BY <1>0, <1>h, <1>u, <2>2, <2>3, <2>11, ListInvPeer DEF OnServerOfflineFinish, CloseClient
  <2> QED
    BY <1>7, <2>4, <2>5, <2>6, <2>7, <2>8, <2>10, <2>11 DEF OnHttpResponse
<1>8. ASSUME NEW v \in Viewer, ViewerStart(v) PROVE ListInv'
  <2>1. \A d \in Conn : \A r \in Elems(up'[d]) :
            r \in Elems(up[d]) \/ (d = v /\ r = Request("g"))
    BY <1>0, <1>8, <1>h, ElemsFew DEF ViewerStart, TypeOK
  <2>2. \A d \in Conn : link'[d] = link[d] \/ (link[d] = "none" /\ link'[d] = "dialing")
    BY <1>0, <1>8, <1>h DEF ViewerStart
  <2> QED
    BY <1>0, <1>8, <1>h, <1>r, <2>1, <2>2, ListInvPeer DEF ViewerStart, hostVars
<1>9. ASSUME NEW v \in Viewer, OnGetLivePeerList(v) \/ OnConnectPeerResult(v) PROVE ListInv'
  <2>1. ViewerReads(v)
    BY <1>9 DEF OnGetLivePeerList, OnConnectPeerResult
  <2>2. /\ \A d \in Conn : Elems(down'[d]) \subseteq Elems(down[d])
        /\ \A h \in Host : down'[h] = down[h]
        /\ Head(down[v]) \in Responses
    <3>1. down[v] \in Seq(Responses) /\ down[v] # <<>>
      BY <1>0, <1>h, <2>1 DEF ViewerReads, TypeOK
    <3>2. Head(down[v]) \in Responses
      BY <3>1
    <3>3. \A h \in Host : down'[h] = down[h]
      BY <1>0, <1>h, <2>1 DEF ViewerReads, TypeOK
    <3> QED
      BY <1>0, <1>h, <2>1, <3>2, <3>3, TakesElems DEF ViewerReads
  <2>3. UNCHANGED tracker /\ listening' = listening
    BY <2>1 DEF ViewerReads, hostVars
  <2>4. CASE OnGetLivePeerList(v)
    <3> DEFINE peers == Head(down[v]).peers
               request == ConnectRequest(FirstPeer(peers))
    <3>1. peers \subseteq Addresses
      BY <2>2, <2>4 DEF OnGetLivePeerList, Responses
    <3>2. peers # {} => request \in Requests /\ request.op = "connect"
      BY <3>1, FirstPeerListed DEF ConnectRequest, Requests
    <3>3. up' = up \/ (peers # {} /\ up' = Sends(v, request))
      BY <2>4 DEF OnGetLivePeerList
    <3>4. \A d \in Conn : \A r \in Elems(up'[d]) :
              r \in Elems(up[d]) \/ (d = v /\ r.op = "connect")
      BY <1>0, <1>h, <3>2, <3>3, SentElems
    <3>5. link' = link
      BY <2>4 DEF OnGetLivePeerList
    <3> QED
      BY <1>0, <1>h, <2>2, <2>3, <3>4, <3>5, ListInvPeer
  <2>5. CASE OnConnectPeerResult(v)
    BY <1>0, <1>h, <1>u, <2>2, <2>3, <2>5, ListInvPeer DEF OnConnectPeerResult, CloseClient
  <2> QED
    BY <1>9, <2>4, <2>5
<1>10. CASE UNCHANGED vars
  BY <1>0, <1>10, ListInvPeer DEF vars, wires, hostVars
<1> QED
  BY <1>1, <1>2, <1>3, <1>4, <1>5, <1>6, <1>7, <1>8, <1>9, <1>10 DEF Next

\* As long as the registry's timer is not delivered, a host that has opened its
\* port (OnServerConnectSuccess) can be found by viewers until its connection
\* ends or a host behind its ip leaves, for any number of other hosts and
\* viewers: the registry outlives them, and no one else's request removes it.
THEOREM ListeningHostIsListed ==
    ASSUME ~TimerDelivered
    PROVE  Spec => []ListeningIsListed
<1>1. ListInv => ListeningIsListed
  BY DEF ListInv, AnnouncedInv, ListeningIsListed, Lone
<1>2. TypeInv /\ RefInv /\ RefInv' /\ ListInv /\ [Next]_vars => ListInv'
  BY ListInvNext
<1> QED
  BY <1>1, <1>2, TypeInvInit, TypeInvNext, RefInvInit, RefInvNext, ListInvInit, PTL DEF Spec
-----------------------------------------------------------------------------
(* The answer a viewer gets is that of the host it asked for.              *)

\* No two connections come from one ip and port, which is all the tracker tells
\* them apart by.  Two that are open at a time never do; that a port is used again
\* while an answer to its former owner is under way is left out by this.
DistinctAddresses == \A c, d \in Conn : Address[c] = Address[d] => c = d

AsksList(v) == \E r \in Elems(up[v]) : r.op = "g"
HasOk(s)    == \E r \in Elems(s) : r.kind = "ok"
OkOnce(s)   == \A i, j \in 1..Len(s) : s[i].kind = "ok" /\ s[j].kind = "ok" => i = j

\* p is the address of a viewer that has asked for the peer at c.
Linked(p, c) == \E v \in Viewer : p = Address[v] /\ asked[v] = Address[c]

\* A request and a response are from and for those they ought to be.
RequestOK(c, r) ==
    /\ r.op = "result" => Linked(r.peer, c)
    /\ r.op = "connect" => c \in Viewer /\ r.peer = asked[c]
    /\ c \in Viewer => r.op \in {"g", "connect"}
ResponseOK(c, r) ==
    /\ r.kind = "connect" => Linked(r.peer, c)
    /\ c \in Viewer /\ r.kind = "result" => r.peer = asked[c]

QueuesInv ==
    \A c \in Conn : /\ \A r \in Elems(up[c]) : RequestOK(c, r)
                    /\ \A r \in Elems(down[c]) : ResponseOK(c, r)

\* A viewer asks for the list once, gets it once, and asks for a peer only then.
AsksOnce(v) ==
    /\ link[v] = "none" => up[v] = <<>> /\ down[v] = <<>> /\ asked[v] = None
    /\ AsksList(v) => Len(up[v]) = 1 /\ ~HasOk(down[v]) /\ asked[v] = None
    /\ HasOk(down[v]) => asked[v] = None
    /\ OkOnce(down[v])

\* What ResultIsOfAskedPeer needs to be inductive: both ways of a dig, through
\* the queues of viewer and host, and that a viewer never asks a second time.
RouteInv ==
    /\ \A d \in Conn : m_addr[d] \in {Address[d], NoAddress}
    /\ QueuesInv
    /\ \A v \in Viewer : AsksOnce(v)
    /\ ResultIsOfAskedPeer

LEMMA NoneIsNoAddress == None \notin Addresses /\ NoAddress \notin Addresses
BY RendezvousAssumption, PeerTrackerAssumption DEF Addresses, NoAddress

LEMMA OkOnceAppend ==
    ASSUME NEW s \in Seq(Responses), NEW e \in Responses, OkOnce(s),
           e.kind # "ok" \/ ~HasOk(s)
    PROVE  OkOnce(Append(s, e))
<1>1. Len(Append(s, e)) = Len(s) + 1 /\ Len(s) \in Nat
  OBVIOUS
<1>2. \A i \in 1..Len(s) : Append(s, e)[i] = s[i]
  OBVIOUS
<1>3. Append(s, e)[Len(s) + 1] = e
  OBVIOUS
<1>4. \A i \in 1..Len(s) + 1 : i \in 1..Len(s) \/ i = Len(s) + 1
  BY <1>1
<1>5. e.kind = "ok" => \A i \in 1..Len(s) : s[i].kind # "ok"
  BY DEF HasOk, Elems
<1> QED
  BY <1>1, <1>2, <1>3, <1>4, <1>5 DEF OkOnce

LEMMA OkOnceTail ==
    ASSUME NEW s \in Seq(Responses), s # <<>>, OkOnce(s)
    PROVE  OkOnce(Tail(s)) /\ (Head(s).kind = "ok" => ~HasOk(Tail(s)))
<1>1. Len(s) \in Nat \ {0} /\ Len(Tail(s)) = Len(s) - 1
  OBVIOUS
<1>2. \A i \in 1..Len(Tail(s)) : Tail(s)[i] = s[i + 1] /\ i + 1 \in 1..Len(s) /\ i + 1 # 1
  BY <1>1
<1>3. Head(s) = s[1] /\ 1 \in 1..Len(s)
  BY <1>1
<1>4. ASSUME NEW i \in 1..Len(Tail(s)), NEW j \in 1..Len(Tail(s)),
             Tail(s)[i].kind = "ok", Tail(s)[j].kind = "ok"
      PROVE  i = j
  <2>1. i + 1 = j + 1
    BY <1>2, <1>4 DEF OkOnce
  <2> QED
    BY <1>1, <2>1
<1>5. Head(s).kind = "ok" => \A i \in 1..Len(Tail(s)) : Tail(s)[i].kind # "ok"
  BY <1>2, <1>3 DEF OkOnce
<1>6. OkOnce(Tail(s))
  BY <1>4 DEF OkOnce
<1> QED
  BY <1>5, <1>6 DEF HasOk, Elems

LEMMA RouteInvInit == Init => RouteInv
<1> SUFFICES ASSUME Init PROVE RouteInv
  OBVIOUS
<1>h. Viewer \subseteq Conn
  BY DEF Conn
<1>1. \A c \in Conn : up[c] = <<>> /\ down[c] = <<>> /\ Elems(up[c]) = {} /\ Elems(down[c]) = {}
  BY ElemsFew DEF Init, TrackerInit
<1>2. OkOnce(<<>>)
  BY DEF OkOnce
<1>3. \A v \in Viewer : asked[v] = None /\ result[v] = None
  BY DEF Init
<1>4. \A d \in Conn : m_addr[d] = NoAddress
  BY DEF Init, TrackerInit
<1>5. QueuesInv
  BY <1>1 DEF QueuesInv
<1>6. \A v \in Viewer : AsksOnce(v)
  BY <1>h, <1>1, <1>2, <1>3 DEF AsksOnce, AsksList, HasOk
<1> QED
  BY <1>3, <1>4, <1>5, <1>6 DEF RouteInv, ResultIsOfAskedPeer

\* The queues stay right if nobody asks and what is added to them is right.
LEMMA QueuesKept ==
    ASSUME QueuesInv, asked' = asked,
           \A c \in Conn : \A r \in Elems(up'[c]) : r \in Elems(up[c]) \/ RequestOK(c, r),
           \A c \in Conn : \A r \in Elems(down'[c]) : r \in Elems(down[c]) \/ ResponseOK(c, r)
    PROVE  QueuesInv'
<1>1. ASSUME NEW c, NEW r, RequestOK(c, r) PROVE RequestOK(c, r)'
  BY <1>1 DEF RequestOK, Linked
<1>2. ASSUME NEW c, NEW r, ResponseOK(c, r) PROVE ResponseOK(c, r)'
  BY <1>2 DEF ResponseOK, Linked
<1> QED
  BY <1>1, <1>2 DEF QueuesInv

\* A viewer to which nothing is added, and the same if its first response is read.
LEMMA AsksOnceKept ==
    ASSUME TypeOK, NEW v \in Viewer, AsksOnce(v), asked'[v] = asked[v],
           link[v] # "none" => link'[v] # "none",
           up'[v] = up[v],
           down'[v] = down[v] \/ (down[v] # <<>> /\ down'[v] = Tail(down[v]))
    PROVE  AsksOnce(v)'
<1>1. down[v] \in Seq(Responses)
  BY DEF TypeOK, Conn
<1>2. OkOnce(down'[v]) /\ (HasOk(down'[v]) => HasOk(down[v]))
      /\ (down[v] = <<>> => down'[v] = <<>>)
  <2>1. CASE down'[v] = down[v]
    BY <2>1 DEF AsksOnce
  <2>2. CASE down[v] # <<>> /\ down'[v] = Tail(down[v])
    BY <1>1, <2>2, OkOnceTail, ElemsTail DEF AsksOnce, HasOk
  <2> QED
    BY <2>1, <2>2
<1> QED
  BY <1>2 DEF AsksOnce, AsksList

\* Steps that leave every viewer's queues alone, and what hosts may add to theirs.
LEMMA RouteInvHosts ==
    ASSUME TypeOK, RouteInv, UNCHANGED <<m_addr, viewerVars>>,
           \A v \in Viewer : up'[v] = up[v] /\ down'[v] = down[v],
           \A v \in Viewer : link[v] # "none" => link'[v] # "none",
           \A h \in Host : \A r \in Elems(up'[h]) : r \in Elems(up[h]) \/ RequestOK(h, r),
           \A h \in Host : Elems(down'[h]) \subseteq Elems(down[h])
    PROVE  RouteInv'
<1>1. asked' = asked /\ result' = result /\ m_addr' = m_addr
  BY DEF viewerVars
<1>2. QueuesInv'
  BY <1>1, QueuesKept DEF RouteInv, Conn
<1>3. \A v \in Viewer : AsksOnce(v)'
  BY <1>1, AsksOnceKept DEF RouteInv
<1> QED
  BY <1>1, <1>2, <1>3 DEF RouteInv, ResultIsOfAskedPeer

\* The tracker reads a request of c and writes a response to d, or none.
LEMMA RouteInvReads ==
    ASSUME TypeInv, RouteInv, UNCHANGED viewerVars,
           NEW c \in Conn, NEW op, Reads(c, op),
           NEW d \in Conn, NEW response \in Responses, Written(d, response) \/ down' = down,
           ResponseOK(d, response),
           d \in Viewer /\ response.kind = "ok" => d = c /\ op = "g"
    PROVE  RouteInv'
<1>0. TypeOK /\ asked' = asked /\ result' = result /\ link' = link
  BY DEF TypeInv, viewerVars, Reads
<1>h. Viewer \subseteq Conn
  BY DEF Conn
<1>1. /\ \A e \in Conn : e # d => down'[e] = down[e]
      /\ \A r \in Elems(down'[d]) : r \in Elems(down[d]) \/ (r = response /\ link[d] = "up")
      /\ link[d] # "up" => down' = down
  BY <1>0, WrittenElems
<1>2. \A e \in Conn : Elems(up'[e]) \subseteq Elems(up[e])
  BY <1>0, ReadsElems
<1>3. QueuesInv'
  BY <1>0, <1>1, <1>2, QueuesKept DEF RouteInv
<1>4. \A e \in Conn : m_addr'[e] \in {Address[e], NoAddress}
  BY <1>0 DEF RouteInv, Reads, TypeOK
<1>5. ASSUME NEW v \in Viewer PROVE AsksOnce(v)'
  <2>0. AsksOnce(v) /\ v \in Conn /\ down[v] \in Seq(Responses) /\ up[v] \in Seq(Requests)
    BY <1>0, <1>h DEF RouteInv, TypeOK
  <2>1. up'[v] = IF v = c THEN Tail(up[v]) ELSE up[v]
    BY <1>0, <2>0 DEF Reads, TypeOK
  <2>2. v = c => Head(up[v]).op = op /\ up[v] # <<>> /\ Head(up[v]) \in Elems(up[v])
    BY <2>0, ElemsTail DEF Reads
  <2>3. AsksList(v) /\ v = c => op = "g" /\ Elems(up'[v]) = {}
    <3> SUFFICES ASSUME AsksList(v), v = c PROVE op = "g" /\ Elems(up'[v]) = {}
      OBVIOUS
    <3>1. Len(up[v]) = 1
      BY <2>0 DEF AsksOnce
    <3>2. up[v][1].op = "g"
      BY <3>1 DEF AsksList, Elems
    <3>3. op = "g"
      BY <2>0, <2>2, <3>1, <3>2
    <3>4. Len(Tail(up[v])) = 0
      BY <2>0, <2>2, <3>1
    <3>5. Elems(Tail(up[v])) = {}
      BY <3>4 DEF Elems
    <3> QED
      BY <2>1, <3>3, <3>5
  <2>4. AsksList(v)' => AsksList(v) /\ v # c
    <3>1. AsksList(v)' => AsksList(v)
      BY <1>2, <2>0 DEF AsksList
    <3>2. Elems(up'[v]) = {} => ~AsksList(v)'
      BY DEF AsksList
    <3> QED
      BY <2>3, <3>1, <3>2
  <2>5. v = c /\ op = "g" => AsksList(v)
    BY <2>2 DEF AsksList
  <2>6. d = v /\ response.kind = "ok" => AsksList(v) /\ v = c
    BY <2>5
  <2>7. OkOnce(down'[v])
    <3>1. CASE down'[v] = down[v]
      BY <2>0, <3>1 DEF AsksOnce
    <3>2. CASE down'[v] # down[v]
      <4>1. d = v /\ down'[v] = Append(down[v], response)
        BY <1>0, <1>1, <2>0, <3>2 DEF Written, TypeOK
      <4> QED
        BY <2>0, <2>6, <4>1, OkOnceAppend DEF AsksOnce
    <3> QED
      BY <3>1, <3>2
  <2>8. HasOk(down'[v]) => HasOk(down[v]) \/ (d = v /\ response.kind = "ok")
    BY <1>1, <2>0 DEF HasOk
  <2>9. link[v] = "none" => up'[v] = <<>> /\ down'[v] = <<>> /\ asked[v] = None
    <3> SUFFICES ASSUME link[v] = "none" PROVE up'[v] = <<>> /\ down'[v] = <<>> /\ asked[v] = None
      OBVIOUS
    <3>1. up[v] = <<>> /\ down[v] = <<>> /\ asked[v] = None
      BY <2>0 DEF AsksOnce
    <3>2. v # c
      BY <2>2, <3>1
    <3>3. down'[v] = down[v]
      BY <1>1, <2>0
    <3> QED
      BY <2>1, <3>1, <3>2, <3>3
  <2>10. AsksList(v)' => Len(up'[v]) = 1 /\ ~HasOk(down'[v]) /\ asked[v] = None
    BY <2>0, <2>1, <2>4, <2>6, <2>8 DEF AsksOnce
  <2>11. HasOk(down'[v]) => asked[v] = None
    BY <2>0, <2>6, <2>8 DEF AsksOnce
  <2> QED
    BY <1>0, <2>7, <2>9, <2>10, <2>11 DEF AsksOnce
<1> QED
  BY <1>0, <1>3, <1>4, <1>5 DEF RouteInv, ResultIsOfAskedPeer

LEMMA RouteInvExecute ==
    ASSUME DistinctAddresses, TypeInv, RouteInv, UNCHANGED viewerVars, NEW c \in Conn, Execute(c)
    PROVE  RouteInv'
<1>h. Viewer \subseteq Conn
  BY DEF Conn
<1>0. TypeOK /\ m_mapClient \subseteq Conn
  BY DEF TypeInv, TypeOK
<1>a. Address[c] \in Addresses
  BY AddressType
<1>q. ASSUME NEW op, Reads(c, op)
      PROVE  /\ Head(up[c]) \in Requests /\ Head(up[c]).op = op /\ RequestOK(c, Head(up[c]))
             /\ c \in Viewer => op \in {"g", "connect"}
  <2>1. Head(up[c]) \in Elems(up[c])
    BY <1>0, <1>q, ElemsTail DEF Reads, TypeOK
  <2>2. RequestOK(c, Head(up[c]))
    BY <2>1 DEF RouteInv, QueuesInv
  <2> QED
    BY <1>q, <2>2, ReadsType DEF Reads, RequestOK
<1>r. /\ Ok({}) \in Responses /\ NotFound \in Responses
      /\ \A d : ResponseOK(d, NotFound) /\ \A peers : ResponseOK(d, Ok(peers))
      /\ NotFound.kind # "ok"
  BY DEF Ok, NotFound, Responses, ResponseOK
<1>k. \A d \in m_mapClient, p \in Addresses : m_addr[d] = p => p = Address[d]
  BY <1>0, NoneIsNoAddress DEF RouteInv
<1>1. CASE OnPeerOnline(c)
  <2>1. Reads(c, "s") /\ Written(c, Ok({})) /\ c \notin Viewer
    BY <1>1, <1>q DEF OnPeerOnline
  <2> QED
    BY <1>r, <2>1, RouteInvReads
<1>2. CASE OnPeerPing(c)
  <2>1. Reads(c, "p") /\ (Written(c, Ok({})) \/ Written(c, NotFound)) /\ c \notin Viewer
    BY <1>2, <1>q DEF OnPeerPing
  <2> QED
    BY <1>r, <2>1, RouteInvReads
<1>3. CASE OnPeerOffline(c)
  <2>1. Reads(c, "e") /\ (Written(c, Ok({})) \/ Written(c, NotFound)) /\ c \notin Viewer
    BY <1>3, <1>q DEF OnPeerOffline
  <2> QED
    BY <1>r, <2>1, RouteInvReads
<1>4. CASE OnPeerGetLive(c)
  <2>1. Ok(GetLivePeer) \in Responses
    BY <1>0 DEF TypeOK, Ok, Responses
  <2> QED
    BY <1>4, <1>r, <2>1, RouteInvReads DEF OnPeerGetLive
<1>5. CASE OnRequestConnectPeer(c)
  <2> DEFINE told == ConnectPeer(Address[c])
  <2>1. told \in Responses /\ told.kind = "connect" /\ told.peer = Address[c]
    BY <1>a DEF ConnectPeer, Responses
  <2>2. Reads(c, "connect") /\ Head(up[c]).peer \in Addresses
        /\ c \in Viewer /\ Head(up[c]).peer = asked[c]
    <3>1. Reads(c, "connect")
      BY <1>5 DEF OnRequestConnectPeer
    <3> QED
      BY <1>q, <3>1 DEF RequestOK, Requests
  <2>3. ASSUME NEW d \in GetHttpClientConnection(Head(up[c]).peer), Written(d, told)
        PROVE  RouteInv'
    <3>1. d \in Conn /\ asked[c] = Address[d]
      BY <1>0, <1>k, <2>2 DEF GetHttpClientConnection
    <3>2. ResponseOK(d, told)
      BY <2>1, <2>2, <3>1 DEF ResponseOK, Linked
    <3> QED
      BY <2>1, <2>2, <2>3, <3>1, <3>2, RouteInvReads
  <2>4. CASE down' = down
    BY <1>r, <2>2, <2>4, RouteInvReads
  <2> QED
    BY <1>5, <2>3, <2>4 DEF OnRequestConnectPeer
<1>6. CASE OnRequestPeerConnectPeerResult(c)
  <2> DEFINE answer == PeerResult(Head(up[c]).ok, Address[c])
  <2>1. Reads(c, "result") /\ Head(up[c]) \in Requests /\ Head(up[c]).op = "result"
        /\ Linked(Head(up[c]).peer, c) /\ c \notin Viewer
    <3>1. Reads(c, "result")
      BY <1>6 DEF OnRequestPeerConnectPeerResult
    <3> QED
      BY <1>q, <3>1 DEF RequestOK
  <2>2. answer \in Responses /\ answer.kind = "result" /\ answer.peer = Address[c]
    BY <1>a, <2>1 DEF PeerResult, Requests, Responses
  <2>3. PICK v \in Viewer : Head(up[c]).peer = Address[v] /\ asked[v] = Address[c]
    BY <2>1 DEF Linked
  <2>4. ASSUME NEW d \in GetHttpClientConnection(Head(up[c]).peer), Written(d, answer)
        PROVE  RouteInv'
    <3>1. d \in Conn /\ Address[v] = Address[d]
      BY <1>0, <1>h, <1>k, <2>3, AddressType DEF GetHttpClientConnection
    <3>2. d = v
      BY <1>h, <3>1 DEF DistinctAddresses
    <3>3. ResponseOK(d, answer)
      BY <2>2, <2>3, <3>2 DEF ResponseOK
    <3> QED
      BY <2>1, <2>2, <2>4, <3>1, <3>3, RouteInvReads
  <2>5. CASE Written(c, NotFound)
    BY <1>r, <2>1, <2>5, RouteInvReads
  <2> QED
    BY <1>6, <2>4, <2>5 DEF OnRequestPeerConnectPeerResult
<1> QED
  BY <1>1, <1>2, <1>3, <1>4, <1>5, <1>6 DEF Execute

\* A viewer starts: what it asks first is for the list.
LEMMA RouteInvViewerStart ==
    ASSUME TypeInv, RouteInv, NEW v \in Viewer, ViewerStart(v)
    PROVE  RouteInv'
<1>h. Viewer \subseteq Conn
  BY DEF Conn
<1>0. TypeOK /\ asked' = asked /\ result' = result /\ m_addr' = m_addr /\ down' = down
  BY DEF TypeInv, ViewerStart, viewerVars, tracker
<1>1. /\ up'[v] = <<Request("g")>> /\ \A d \in Conn : d # v => up'[d] = up[d] /\ link'[d] = link[d]
      /\ link[v] = "none" /\ link'[v] = "dialing"
  BY <1>0, <1>h DEF ViewerStart, TypeOK
<1>2. Elems(up'[v]) = {Request("g")} /\ Len(up'[v]) = 1
  BY <1>1, ElemsFew
<1>3. Request("g").op = "g"
  BY DEF Request
<1>4. RequestOK(v, Request("g"))
  BY <1>3 DEF RequestOK
<1>5. QueuesInv'
  BY <1>0, <1>1, <1>2, <1>4, QueuesKept DEF RouteInv
<1>6. ASSUME NEW w \in Viewer, w # v PROVE AsksOnce(w)'
  BY <1>0, <1>1, <1>6, <1>h, AsksOnceKept DEF RouteInv
<1>7. AsksOnce(v)'
  <2>1. AsksOnce(v) /\ down[v] = <<>> /\ asked[v] = None
    BY <1>1 DEF RouteInv, AsksOnce
  <2>2. ~HasOk(down[v])
    BY <2>1, ElemsFew DEF HasOk
  <2> QED
    BY <1>0, <1>1, <1>2, <2>1, <2>2 DEF AsksOnce
<1> QED
  BY <1>0, <1>5, <1>6, <1>7 DEF RouteInv, ResultIsOfAskedPeer

\* What a viewer reads has been checked when it was written.
LEMMA ViewerReadsResponse ==
    ASSUME TypeInv, RouteInv, NEW v \in Viewer, ViewerReads(v)
    PROVE  /\ down[v] \in Seq(Responses) /\ down[v] # <<>> /\ down'[v] = Tail(down[v])
           /\ Head(down[v]) \in Responses /\ Head(down[v]) \in Elems(down[v])
           /\ ResponseOK(v, Head(down[v]))
           /\ \A d \in Conn : d # v => down'[d] = down[d]
           /\ \A d \in Conn : Elems(down'[d]) \subseteq Elems(down[d])
<1>h. Viewer \subseteq Conn
  BY DEF Conn
<1>0. TypeOK
  BY DEF TypeInv
<1>1. /\ down[v] \in Seq(Responses) /\ down[v] # <<>> /\ down'[v] = Tail(down[v])
      /\ \A d \in Conn : d # v => down'[d] = down[d]
  BY <1>0, <1>h DEF ViewerReads, TypeOK
<1>2. /\ Head(down[v]) \in Elems(down[v])
      /\ \A d \in Conn : Elems(down'[d]) \subseteq Elems(down[d])
  BY <1>0, <1>h, <1>1, TakesElems DEF ViewerReads
<1>3. Head(down[v]) \in Responses
  BY <1>1
<1> QED
  BY <1>h, <1>1, <1>2, <1>3 DEF RouteInv, QueuesInv

\* The list arrives, and only once: nothing under way is of an earlier question.
LEMMA RouteInvGetLivePeerList ==
    ASSUME TypeInv, RouteInv, NEW v \in Viewer, OnGetLivePeerList(v)
    PROVE  RouteInv'
<1>h. Viewer \subseteq Conn
  BY DEF Conn
<1>0. TypeOK /\ asked \in [Viewer -> Addresses \cup {None}]
  BY DEF TypeInv, TypeOK
<1>v. /\ ViewerReads(v) /\ Head(down[v]).kind = "ok" /\ link' = link /\ result' = result
      /\ m_addr' = m_addr
  BY DEF OnGetLivePeerList, ViewerReads, tracker
<1>1. /\ down[v] \in Seq(Responses) /\ down[v] # <<>> /\ down'[v] = Tail(down[v])
      /\ Head(down[v]) \in Responses /\ Head(down[v]) \in Elems(down[v])
      /\ \A d \in Conn : d # v => down'[d] = down[d]
      /\ \A d \in Conn : Elems(down'[d]) \subseteq Elems(down[d])
  BY <1>v, ViewerReadsResponse
<1> DEFINE peers   == Head(down[v]).peers
           request == ConnectRequest(FirstPeer(peers))
<1>2. AsksOnce(v) /\ HasOk(down[v]) /\ asked[v] = None /\ ~AsksList(v)
  BY <1>v, <1>1 DEF RouteInv, AsksOnce, HasOk
<1>3. CASE peers = {}
  <2>1. up' = up /\ asked' = asked
    BY <1>3 DEF OnGetLivePeerList
  <2>2. QueuesInv'
    BY <1>1, <2>1, QueuesKept DEF RouteInv
  <2>3. \A w \in Viewer : AsksOnce(w)'
    BY <1>0, <1>h, <1>v, <1>1, <2>1, AsksOnceKept DEF RouteInv
  <2> QED
    BY <1>v, <2>1, <2>2, <2>3 DEF RouteInv, ResultIsOfAskedPeer
<1>4. CASE peers # {}
  <2>0. peers \subseteq Addresses
    BY <1>v, <1>1 DEF Responses
  <2>1. FirstPeer(peers) \in Addresses
    BY <1>4, <2>0, FirstPeerListed
  <2>2. request \in Requests /\ request.op = "connect" /\ request.peer = FirstPeer(peers)
    BY <2>1 DEF ConnectRequest, Requests
  <2>3. up' = Sends(v, request) /\ asked' = [asked EXCEPT ![v] = FirstPeer(peers)]
    BY <1>4 DEF OnGetLivePeerList
  <2> HIDE DEF peers, request
  <2>4. asked'[v] = FirstPeer(peers) /\ \A w \in Viewer : w # v => asked'[w] = asked[w]
    BY <1>0, <2>3
  <2>5. /\ \A d \in Conn : d # v => up'[d] = up[d]
        /\ \A r \in Elems(up'[v]) : r \in Elems(up[v]) \/ r = request
    BY <1>0, <1>h, <2>2, <2>3, SendsElems
  <2>6. \A p, c : Linked(p, c) /\ c \in Conn => Linked(p, c)'
    <3> SUFFICES ASSUME NEW p, NEW c \in Conn, Linked(p, c) PROVE Linked(p, c)'
      OBVIOUS
    <3>1. PICK w \in Viewer : p = Address[w] /\ asked[w] = Address[c]
      BY DEF Linked
    <3>2. w # v
      BY <1>2, <3>1, AddressType, NoneIsNoAddress
    <3> QED
      BY <2>4, <3>1, <3>2 DEF Linked
  <2>7. ASSUME NEW c \in Conn, NEW r \in Elems(up'[c]) PROVE RequestOK(c, r)'
    <3>1. CASE r \in Elems(up[c])
      <4>1. RequestOK(c, r) /\ r \in Requests
        BY <1>0, <3>1 DEF RouteInv, QueuesInv, TypeOK, Elems
      <4>2. r.op = "connect" => c # v
        BY <1>2, <4>1, NoneIsNoAddress DEF RequestOK, Requests
      <4> QED
        BY <2>4, <2>6, <4>1, <4>2 DEF RequestOK
    <3>2. CASE c = v /\ r = request
      BY <2>2, <2>4, <3>2 DEF RequestOK
    <3> QED
      BY <2>5, <3>1, <3>2
  <2>8. ASSUME NEW c \in Conn, NEW r \in Elems(down'[c]) PROVE ResponseOK(c, r)'
    <3>1. ResponseOK(c, r) /\ r \in Responses
      <4>1. r \in Elems(down[c]) /\ down[c] \in Seq(Responses)
        BY <1>0, <1>1 DEF TypeOK
      <4>2. Elems(down[c]) \subseteq Responses
        BY <4>1 DEF Elems
      <4> QED
        BY <4>1, <4>2 DEF RouteInv, QueuesInv
    <3>2. r.kind = "result" => c # v
      BY <1>2, <3>1, NoneIsNoAddress DEF ResponseOK, Responses
    <3> QED
      BY <2>4, <2>6, <3>1, <3>2 DEF ResponseOK
  <2>9. QueuesInv'
    BY <2>7, <2>8 DEF QueuesInv
  <2>10. ASSUME NEW w \in Viewer, w # v PROVE AsksOnce(w)'
    BY <1>0, <1>h, <1>v, <1>1, <2>4, <2>5, <2>10, AsksOnceKept DEF RouteInv
  <2>11. AsksOnce(v)'
    <3>1. link[v] # "none"
      BY <1>1, <1>2 DEF AsksOnce
    <3>2. OkOnce(down'[v]) /\ ~HasOk(down'[v])
      BY <1>v, <1>1, <1>2, OkOnceTail DEF AsksOnce
    <3>3. ~AsksList(v)'
      BY <1>2, <2>2, <2>5 DEF AsksList
    <3> QED
      BY <1>v, <3>1, <3>2, <3>3 DEF AsksOnce
  <2>12. ResultIsOfAskedPeer'
    BY <1>v, <1>2, <2>4 DEF RouteInv, ResultIsOfAskedPeer
  <2> QED
    BY <1>v, <2>9, <2>10, <2>11, <2>12 DEF RouteInv
<1> QED
  BY <1>3, <1>4

LEMMA RouteInvConnectPeerResult ==
    ASSUME TypeInv, RouteInv, NEW v \in Viewer, OnConnectPeerResult(v)
    PROVE  RouteInv'
<1>h. Viewer \subseteq Conn
  BY DEF Conn
<1>0. TypeOK /\ result \in [Viewer -> Addresses \cup {None}]
  BY DEF TypeInv, TypeOK
<1>v. /\ ViewerReads(v) /\ Head(down[v]).kind = "result"
      /\ m_addr' = m_addr /\ up' = up /\ asked' = asked
  BY DEF OnConnectPeerResult, ViewerReads, tracker
<1>1. /\ down[v] # <<>> /\ down'[v] = Tail(down[v])
      /\ ResponseOK(v, Head(down[v]))
      /\ \A d \in Conn : d # v => down'[d] = down[d]
      /\ \A d \in Conn : Elems(down'[d]) \subseteq Elems(down[d])
  BY <1>v, ViewerReadsResponse
<1>2. QueuesInv'
  BY <1>v, <1>1, QueuesKept DEF RouteInv
<1>3. \A w \in Viewer : link[w] # "none" => link'[w] # "none"
  <2>1. CASE link' = link
    BY <2>1
  <2>2. CASE HangsUp(v)
    BY <1>0, <1>h, <2>2 DEF HangsUp, TypeOK
  <2> QED
    BY <2>1, <2>2 DEF OnConnectPeerResult, CloseClient
<1>4. \A w \in Viewer : AsksOnce(w)'
  BY <1>0, <1>h, <1>v, <1>1, <1>3, AsksOnceKept DEF RouteInv
<1>5. ResultIsOfAskedPeer'
  <2>1. Head(down[v]).peer = asked[v]
    BY <1>v, <1>1 DEF ResponseOK
  <2>2. result' = result \/ result' = [result EXCEPT ![v] = Head(down[v]).peer]
    BY DEF OnConnectPeerResult
  <2> QED
    BY <1>0, <1>v, <2>1, <2>2 DEF RouteInv, ResultIsOfAskedPeer
<1> QED
  BY <1>v, <1>2, <1>4, <1>5 DEF RouteInv

\* A host sends a request, or not, and no queue of a viewer is touched.
LEMMA RouteInvHostSends ==
    ASSUME TypeInv, RouteInv, UNCHANGED <<m_addr, viewerVars>>, NEW h \in Host,
           NEW request \in Requests, RequestOK(h, request), up' \in {up, Sends(h, request)},
           \/ down' = down
           \/ down[h] # <<>> /\ down' = [down EXCEPT ![h] = Tail(@)]
           \/ down' = [down EXCEPT ![h] = <<>>],
           link' = link \/ HangsUp(h)
    PROVE  RouteInv'
<1>h. h \in Conn /\ Viewer \subseteq Conn /\ Host \subseteq Conn /\ h \notin Viewer
  BY PeerTrackerAssumption DEF Conn
<1>0. TypeOK
  BY DEF TypeInv
<1>1. \A d \in Conn : d # h => up'[d] = up[d]
  BY <1>0, <1>h, SendsElems
<1>2. \A d \in Conn : \A r \in Elems(up'[d]) : r \in Elems(up[d]) \/ (d = h /\ r = request)
  BY <1>0, <1>h, SentElems
<1>3. \A d \in Conn : d # h => down'[d] = down[d]
  BY <1>0, <1>h DEF TypeOK
<1>4. \A d \in Conn : Elems(down'[d]) \subseteq Elems(down[d])
  BY <1>0, <1>h, TakesElems, ElemsFew DEF TypeOK
<1>5. \A v \in Viewer : link[v] # "none" => link'[v] # "none"
  BY <1>0, <1>h DEF HangsUp, TypeOK
<1> QED
  BY <1>0, <1>h, <1>1, <1>2, <1>3, <1>4, <1>5, RouteInvHosts

\* A viewer's program ends, or its connection breaks: it loses what it was to read.
LEMMA RouteInvViewerEnds ==
    ASSUME TypeInv, RouteInv, UNCHANGED <<up, m_addr, viewerVars>>, NEW v \in Viewer,
           \A d \in Conn : d # v => down'[d] = down[d],
           down'[v] \in {down[v], <<>>},
           \A w \in Viewer : link[w] # "none" => link'[w] # "none"
    PROVE  RouteInv'
<1>0. TypeOK /\ Viewer \subseteq Conn /\ asked' = asked /\ result' = result
  BY DEF TypeInv, Conn, viewerVars
<1>1. QueuesInv'
  BY ElemsFew, <1>0, QueuesKept DEF RouteInv
<1>2. ASSUME NEW w \in Viewer PROVE AsksOnce(w)'
  <2>1. CASE down'[w] = down[w]
    BY <1>0, <2>1, AsksOnceKept DEF RouteInv
  <2>2. CASE w = v /\ down'[w] = <<>>
    <3>1. OkOnce(<<>>) /\ ~HasOk(<<>>)
      BY ElemsFew DEF OkOnce, HasOk
    <3> QED
      BY <1>0, <2>2, <3>1 DEF RouteInv, AsksOnce, AsksList
  <2> QED
    BY <1>0, <2>1, <2>2
<1> QED
  BY <1>0, <1>1, <1>2 DEF RouteInv, ResultIsOfAskedPeer

LEMMA RouteInvNext ==
    DistinctAddresses /\ TypeInv /\ RouteInv /\ [Next]_vars => RouteInv'
<1> SUFFICES ASSUME DistinctAddresses, TypeInv, RouteInv, [Next]_vars PROVE RouteInv'
  OBVIOUS
<1>h. Host \subseteq Conn /\ Viewer \subseteq Conn /\ Host \cap Viewer = {}
  BY PeerTrackerAssumption DEF Conn
<1>0. TypeOK
  BY DEF TypeInv
<1>r. \A op \in {"s", "p", "e"} : /\ Request(op) \in Requests
                                 /\ \A h \in Host : RequestOK(h, Request(op))
  BY <1>h DEF Request, Requests, RequestOK
<1>i. ASSUME UNCHANGED <<up, down, m_addr, viewerVars>>,
             \A v \in Viewer : link[v] # "none" => link'[v] # "none"
      PROVE  RouteInv'
  BY <1>0, <1>i, RouteInvHosts
<1>1. ASSUME OnTimer, UNCHANGED viewerVars PROVE RouteInv'
  BY <1>1, <1>i DEF OnTimer, wires
<1>2. ASSUME NEW c \in Conn, TrackerThread(c), UNCHANGED viewerVars PROVE RouteInv'
  <2>1. CASE listener_cb(c) \/ conn_eventcb(c)
    <3>1. /\ UNCHANGED <<up, down, m_addr>>
          /\ \E end \in {"up", "closing", "dead"} : link' = [link EXCEPT ![c] = end]
      BY <2>1 DEF listener_cb, conn_eventcb, Accepted
    <3> QED
      BY <1>0, <1>2, <1>h, <1>i, <3>1 DEF TypeOK
  <2> QED
    BY <1>2, <2>1, RouteInvExecute DEF TrackerThread
<1>3. ASSUME NEW c \in Conn, Breaks(c) PROVE RouteInv'
  <2>1. \A v \in Viewer : link[v] # "none" => link'[v] # "none"
    BY <1>0, <1>3, <1>h DEF Breaks, HangsUp, TypeOK
  <2>2. /\ \A d \in Conn : d # c => down'[d] = down[d]
        /\ down'[c] \in {down[c], <<>>}
        /\ up' = up /\ UNCHANGED <<m_addr, viewerVars>>
    BY <1>0, <1>3 DEF Breaks, TypeOK, tracker
  <2>3. CASE c \in Viewer
    BY <1>3, <2>1, <2>2, <2>3, RouteInvViewerEnds DEF Breaks
  <2>4. CASE c \in Host
    BY <1>0, <1>h, <2>1, <2>2, <2>4, ElemsFew, RouteInvHosts
  <2> QED
    BY <2>3, <2>4 DEF Conn
<1>4. ASSUME NEW h \in Host, HostStart(h) PROVE RouteInv'
  <2>1. \A d \in Conn : \A r \in Elems(up'[d]) :
            r \in Elems(up[d]) \/ (d = h /\ r = Request("s"))
    BY <1>0, <1>4, <1>h, ElemsFew DEF HostStart, TypeOK
  <2>2. /\ \A d \in Conn : d # h => up'[d] = up[d] /\ link'[d] = link[d]
        /\ down' = down /\ UNCHANGED <<m_addr, viewerVars>>
    BY <1>0, <1>4, <1>h DEF HostStart, TypeOK, tracker
  <2> QED
    BY <1>0, <1>h, <1>r, <2>1, <2>2, RouteInvHosts
<1>5. ASSUME NEW h \in Host, SendPing(h) PROVE RouteInv'
  BY <1>5, <1>r, RouteInvHostSends DEF SendPing, tracker
<1>6. ASSUME NEW h \in Host, HostStop(h) PROVE RouteInv'
  BY <1>6, <1>r, RouteInvHostSends DEF HostStop, CloseClient, tracker
<1>7. ASSUME NEW h \in Host, OnHttpResponse(h) PROVE RouteInv'
  <2>2. HostReads(h) =>
            /\ down[h] # <<>> /\ down' = [down EXCEPT ![h] = Tail(@)]
            /\ UNCHANGED <<m_addr, viewerVars>>
    BY DEF HostReads, tracker
  <2>1. CASE OnPeerConnectingClosed(h)
    BY <1>r, <2>1, RouteInvHostSends DEF OnPeerConnectingClosed, tracker
  <2>3. CASE OnPeerConnecting(h)
    <3>0. HostReads(h)
      BY <2>3 DEF OnPeerConnecting
    <3>1. Head(down[h]) \in Elems(down[h]) /\ down[h] \in Seq(Responses)
      BY <1>0, <1>h, <2>2, <3>0, TakesElems DEF TypeOK
    <3>2. Head(down[h]) \in Responses /\ Linked(Head(down[h]).peer, h)
      BY <1>h, <2>2, <2>3, <3>0, <3>1 DEF RouteInv, QueuesInv, ResponseOK, OnPeerConnecting
    <3>3. PICK ok \in BOOLEAN : up' = Sends(h, ResultRequest(ok, Head(down[h]).peer))
      BY <2>3 DEF OnPeerConnecting
    <3>4. ResultRequest(ok, Head(down[h]).peer) \in Requests
      BY <2>3, <3>2 DEF OnPeerConnecting, ResultRequest, Requests, Responses
    <3>5. RequestOK(h, ResultRequest(ok, Head(down[h]).peer))
      BY <1>h, <3>2 DEF ResultRequest, RequestOK
    <3>6. link' = link
      BY <2>3 DEF OnPeerConnecting
    <3> QED
      BY <2>2, <3>0, <3>3, <3>4, <3>5, <3>6, RouteInvHostSends
  <2>4. CASE \/ OnServerSuccess(h) \/ OnServerConnectFailed(h) \/ OnServerPingFailed(h)
             \/ OnFailureLogged(h) \/ OnServerOfflineFinish(h)
    <3>1. HostReads(h) /\ up' = up /\ (link' = link \/ HangsUp(h))
      BY <2>4 DEF OnServerSuccess, OnServerConnectFailed, OnServerPingFailed, OnFailureLogged,
                  OnServerOfflineFinish, CloseClient
    <3> QED
      BY <1>r, <2>2, <3>1, RouteInvHostSends
  <2> QED
    BY <1>7, <2>1, <2>3, <2>4 DEF OnHttpResponse
<1>8. ASSUME NEW v \in Viewer, ViewerStart(v) \/ OnGetLivePeerList(v) \/ OnConnectPeerResult(v)
      PROVE  RouteInv'
  BY <1>8, RouteInvViewerStart, RouteInvGetLivePeerList, RouteInvConnectPeerResult
<1>9. CASE UNCHANGED vars
  BY <1>9, <1>i DEF vars, wires, tracker
<1> QED
  BY <1>1, <1>2, <1>3, <1>4, <1>5, <1>6, <1>7, <1>8, <1>9 DEF Next

\* Whatever the tracker serves in between, the Dig-Result on which a viewer acts
\* (OnConnectPeerResult) is the answer of the host it asked for, for any number
\* of hosts and viewers behind any ips, as long as no two have the same ip and
\* port: the only key CHttpRequestCommandDig routes by.
THEOREM AnswerIsOfAskedPeer ==
    ASSUME DistinctAddresses
    PROVE  Spec => []ResultIsOfAskedPeer
<1>1. RouteInv => ResultIsOfAskedPeer
  BY DEF RouteInv
<1>2. TypeInv /\ RouteInv /\ [Next]_vars => RouteInv'
  BY RouteInvNext
<1> QED
  BY <1>1, <1>2, TypeInvInit, TypeInvNext, RefInvInit, RefInvNext, RouteInvInit, PTL DEF Spec

-----------------------------------------------------------------------------
(* A connection is refused only for one that has not been heard.           *)

\* The address of a connection becomes known when its first request is read, and
\* that is what its program has sent first.
FirstInv ==
    /\ \A c \in Conn : link[c] \in {"none", "dialing", "left"} => m_addr[c] = NoAddress
    /\ \A c \in Conn : link[c] # "none" /\ m_addr[c] = NoAddress
                         => up[c] # <<>> /\ Head(up[c]).op \in {"s", "g"}

LEMMA FirstInvInit == Init => FirstInv
BY DEF Init, TrackerInit, FirstInv

\* A step that reads nothing keeps it if what is first in a queue stays there.
LEMMA FirstKept ==
    ASSUME FirstInv, m_addr' = m_addr,
           \A c \in Conn : link'[c] \in {"none", "dialing", "left"} =>
                             link[c] \in {"none", "dialing", "left"},
           \A c \in Conn : link[c] # "none" /\ up[c] # <<>> =>
                             up'[c] # <<>> /\ Head(up'[c]) = Head(up[c]),
           \A c \in Conn : link[c] = "none" /\ link'[c] # "none" =>
                             up'[c] # <<>> /\ Head(up'[c]).op \in {"s", "g"}
    PROVE  FirstInv'
BY DEF FirstInv

\* What Sends adds comes after what is in the queue.
LEMMA SendsFirst ==
    ASSUME TypeOK, NEW c \in Conn, NEW request \in Requests, up' \in {up, Sends(c, request)}
    PROVE  \A d \in Conn : up[d] # <<>> => up'[d] # <<>> /\ Head(up'[d]) = Head(up[d])
<1>1. up \in [Conn -> Seq(Requests)]
  BY DEF TypeOK
<1>2. ASSUME NEW s \in Seq(Requests), s # <<>>
      PROVE  Append(s, request) # <<>> /\ Head(Append(s, request)) = Head(s)
  BY <1>2
<1> QED
  BY <1>1, <1>2 DEF Sends

\* How a peer's step may change the state of a connection, and a step of the tracker.
LinkStep ==
    /\ \A d \in Conn : \/ link'[d] = link[d]
                       \/ link[d] = "none" /\ link'[d] = "dialing"
                       \/ link[d] = "dialing" /\ link'[d] \in {"left", "dead", "up"}
                       \/ link[d] = "left" /\ link'[d] \in {"closing", "dead"}
                       \/ link[d] \in {"up", "closing"} /\ link'[d] \in {"closing", "dead"}

LEMMA LinkSteps == TypeOK /\ [Next]_vars => LinkStep
<1> SUFFICES ASSUME TypeOK, [Next]_vars PROVE LinkStep
  OBVIOUS
<1>0. link \in [Conn -> Links]
  BY DEF TypeOK, Links
<1>s. link' = link => LinkStep
  BY DEF LinkStep
<1>u. ASSUME NEW c \in Conn, HangsUp(c) PROVE LinkStep
  BY <1>0, <1>u DEF HangsUp, LinkStep
<1>d. ASSUME NEW c \in Conn, link[c] = "none", link' = [link EXCEPT ![c] = "dialing"]
      PROVE  LinkStep
  BY <1>0, <1>d DEF LinkStep
<1>1. CASE OnTimer
  BY <1>1, <1>s DEF OnTimer, wires
<1>2. ASSUME NEW c \in Conn, TrackerThread(c) PROVE LinkStep
  <2>1. CASE listener_cb(c)
    BY <1>0, <2>1 DEF listener_cb, Accepted, LinkStep
  <2>2. CASE conn_eventcb(c)
    BY <1>0, <2>2 DEF conn_eventcb, LinkStep
  <2>3. CASE Execute(c)
    BY <2>3, <1>s DEF Execute, OnPeerOnline, OnPeerPing, OnPeerOffline, OnPeerGetLive,
                      OnRequestConnectPeer, OnRequestPeerConnectPeerResult, Reads
  <2> QED
    BY <1>2, <2>1, <2>2, <2>3 DEF TrackerThread
<1>3. ASSUME NEW c \in Conn, Breaks(c) PROVE LinkStep
  BY <1>3, <1>u DEF Breaks
<1>4. ASSUME NEW h \in Host, HostStart(h) \/ SendPing(h) \/ HostStop(h) \/ OnHttpResponse(h)
      PROVE  LinkStep
  BY <1>4, <1>s, <1>u, <1>d
     DEF HostStart, SendPing, HostStop, OnHttpResponse, OnPeerConnecting,
         OnPeerConnectingClosed, OnServerSuccess, OnServerConnectFailed, OnServerPingFailed,
         OnFailureLogged, OnServerOfflineFinish, CloseClient, Conn
<1>5. ASSUME NEW v \in Viewer, ViewerStart(v) \/ OnGetLivePeerList(v) \/ OnConnectPeerResult(v)
      PROVE  LinkStep
  BY <1>5, <1>s, <1>u, <1>d
     DEF ViewerStart, OnGetLivePeerList, OnConnectPeerResult, CloseClient, Conn
<1>6. CASE UNCHANGED vars
  BY <1>6, <1>s DEF vars, wires
<1> QED
  BY <1>1, <1>2, <1>3, <1>4, <1>5, <1>6 DEF Next

LEMMA FirstInvNext == TypeInv /\ RefInv /\ FirstInv /\ [Next]_vars => FirstInv'
<1> SUFFICES ASSUME TypeInv, RefInv, FirstInv, [Next]_vars PROVE FirstInv'
  OBVIOUS
<1>h. Host \subseteq Conn /\ Viewer \subseteq Conn
  BY DEF Conn
<1>0. TypeOK /\ LinkStep
  BY LinkSteps DEF TypeInv
<1>r. \A op \in {"s", "p", "e", "g"} : Request(op) \in Requests
  BY DEF Request, Requests
<1>q. ASSUME m_addr' = m_addr, NEW c \in Conn, NEW request \in Requests,
             up' \in {up, Sends(c, request)},
             \A d \in Conn : link[d] = "none" => link'[d] = "none"
      PROVE  FirstInv'
  <2>1. \A d \in Conn : link'[d] \in {"none", "dialing", "left"} =>
                          link[d] \in {"none", "dialing", "left"}
    BY <1>0 DEF LinkStep
  <2> QED
    BY <1>0, <1>q, <2>1, SendsFirst, FirstKept
<1>b. ASSUME NEW c \in Conn, link[c] = "none", link' = [link EXCEPT ![c] = "dialing"],
             NEW op \in {"s", "g"}, up' = [up EXCEPT ![c] = <<Request(op)>>], m_addr' = m_addr
      PROVE  FirstInv'
  <2>1. up'[c] = <<Request(op)>> /\ \A d \in Conn : d # c => up'[d] = up[d] /\ link'[d] = link[d]
    BY <1>0, <1>b DEF TypeOK
  <2>2. up'[c] # <<>> /\ Head(up'[c]).op = op
    BY <2>1 DEF Request
  <2>3. link'[c] = "dialing"
    BY <1>0, <1>b DEF TypeOK
  <2> QED
    BY <1>b, <2>1, <2>2, <2>3, FirstKept
<1>1. ASSUME OnTimer PROVE FirstInv'
  BY <1>1 DEF OnTimer, wires, FirstInv
<1>2. ASSUME NEW c \in Conn, TrackerThread(c) PROVE FirstInv'
  <2>1. CASE listener_cb(c) \/ conn_eventcb(c)
    <3>1. up' = up /\ m_addr' = m_addr /\ \A d \in Conn : link[d] = "none" => link'[d] = "none"
      BY <1>0, <2>1 DEF listener_cb, conn_eventcb, TypeOK
    <3> QED
      BY <1>q, <1>r, <1>2, <3>1
  <2>2. ASSUME NEW op, Reads(c, op) PROVE FirstInv'
    <3>1. link[c] \in {"up", "closing"}
      BY <2>2 DEF Reads, RefInv
    <3>2. /\ m_addr'[c] = Address[c] /\ Address[c] # NoAddress
          /\ \A d \in Conn : d # c => m_addr'[d] = m_addr[d] /\ up'[d] = up[d]
      BY <1>0, <2>2, AddressType, NoneIsNoAddress DEF Reads, TypeOK
    <3> QED
      BY <2>2, <3>1, <3>2 DEF Reads, FirstInv
  <2>3. CASE Execute(c)
    BY <2>2, <2>3 DEF Execute, OnPeerOnline, OnPeerPing, OnPeerOffline, OnPeerGetLive,
                      OnRequestConnectPeer, OnRequestPeerConnectPeerResult
  <2> QED
    BY <1>2, <2>1, <2>3 DEF TrackerThread
<1>3. ASSUME NEW c \in Conn, Breaks(c) PROVE FirstInv'
  <2>1. up' = up /\ m_addr' = m_addr /\ \A d \in Conn : link[d] = "none" => link'[d] = "none"
    BY <1>0, <1>3 DEF Breaks, HangsUp, tracker, TypeOK
  <2> QED
    BY <1>q, <1>r, <1>3, <2>1
<1>4. ASSUME NEW h \in Host, HostStart(h) PROVE FirstInv'
  BY <1>4, <1>b, <1>h DEF HostStart, tracker
<1>5. ASSUME NEW h \in Host, SendPing(h) \/ HostStop(h) PROVE FirstInv'
  <2>1. \/ up' \in {up, Sends(h, Request("p"))}
        \/ up' \in {up, Sends(h, Request("e"))}
    BY <1>5 DEF SendPing, HostStop
  <2>2. m_addr' = m_addr /\ \A d \in Conn : link[d] = "none" => link'[d] = "none"
    BY <1>0, <1>5 DEF SendPing, HostStop, CloseClient, HangsUp, tracker, TypeOK
  <2> QED
    BY <1>h, <1>q, <1>r, <2>1, <2>2
<1>6. ASSUME NEW h \in Host, OnHttpResponse(h) PROVE FirstInv'
  <2>1. m_addr' = m_addr /\ \A d \in Conn : link[d] = "none" => link'[d] = "none"
    BY <1>0, <1>6
       DEF OnHttpResponse, OnPeerConnecting, OnPeerConnectingClosed, OnServerSuccess,
           OnServerConnectFailed, OnServerPingFailed, OnFailureLogged, OnServerOfflineFinish,
           HostReads, CloseClient, HangsUp, tracker, TypeOK
  <2>2. CASE OnPeerConnecting(h)
    <3>1. down[h] \in Seq(Responses) /\ down[h] # <<>> /\ Head(down[h]).kind = "connect"
      BY <1>0, <1>h, <2>2 DEF OnPeerConnecting, HostReads, TypeOK
    <3>2. Head(down[h]) \in Responses
      BY <3>1
    <3>3. \A ok \in BOOLEAN : ResultRequest(ok, Head(down[h]).peer) \in Requests
      BY <3>1, <3>2 DEF ResultRequest, Requests, Responses
    <3>4. \E ok \in BOOLEAN : up' = Sends(h, ResultRequest(ok, Head(down[h]).peer))
      BY <2>2 DEF OnPeerConnecting
    <3> QED
      BY <1>h, <1>q, <2>1, <3>3, <3>4
  <2>3. CASE ~OnPeerConnecting(h)
    <3>1. up' = up
      BY <1>6, <2>3
         DEF OnHttpResponse, OnPeerConnectingClosed, OnServerSuccess, OnServerConnectFailed,
             OnServerPingFailed, OnFailureLogged, OnServerOfflineFinish
    <3> QED
      BY <1>h, <1>q, <1>r, <2>1, <3>1
  <2> QED
    BY <2>2, <2>3
<1>7. ASSUME NEW v \in Viewer, ViewerStart(v) PROVE FirstInv'
  BY <1>7, <1>b, <1>h DEF ViewerStart, tracker
<1>8. ASSUME NEW v \in Viewer, OnGetLivePeerList(v) PROVE FirstInv'
  <2> DEFINE peers == Head(down[v]).peers
  <2>1. down[v] \in Seq(Responses) /\ down[v] # <<>> /\ Head(down[v]).kind = "ok"
    BY <1>0, <1>h, <1>8 DEF OnGetLivePeerList, ViewerReads, TypeOK
  <2>2. peers \subseteq Addresses
    <3>1. Head(down[v]) \in Responses
      BY <2>1
    <3> QED
      BY <2>1, <3>1 DEF Responses
  <2>3. peers # {} => ConnectRequest(FirstPeer(peers)) \in Requests
    BY <2>2, FirstPeerListed DEF ConnectRequest, Requests
  <2>4. /\ m_addr' = m_addr /\ link' = link
        /\ up' = up \/ (peers # {} /\ up' = Sends(v, ConnectRequest(FirstPeer(peers))))
    BY <1>8 DEF OnGetLivePeerList, ViewerReads, tracker
  <2> QED
    BY <1>h, <1>q, <1>r, <2>3, <2>4
<1>9. ASSUME NEW v \in Viewer, OnConnectPeerResult(v) PROVE FirstInv'
  <2>1. /\ m_addr' = m_addr /\ up' = up
        /\ \A d \in Conn : link[d] = "none" => link'[d] = "none"
    BY <1>0, <1>9 DEF OnConnectPeerResult, ViewerReads, CloseClient, HangsUp, tracker, TypeOK
  <2> QED
    BY <1>h, <1>q, <1>r, <2>1
<1>10. CASE UNCHANGED vars
  BY <1>10 DEF vars, wires, tracker, FirstInv
<1> QED
  BY <1>1, <1>2, <1>3, <1>4, <1>5, <1>6, <1>7, <1>8, <1>9, <1>10 DEF Next

\* A host or viewer is refused (listener_cb) only while the first request of
\* another has not been read: the addresses in X_FORWARDED_FOR tell all others
\* from it, for any number of them.
THEOREM RefusalsNeedUnreadRequests == Spec => RefusalNeedsUnreadRequest
<1>1. ASSUME TypeInv, RefInv, FirstInv, [Next]_vars, leaked' # leaked
      PROVE  \E d \in m_mapClient : up[d] # <<>> /\ Head(up[d]).op \in {"s", "g"}
  <2>1. PICK c \in Conn : listener_cb(c)
    <3>1. UNCHANGED tracker \/ OnTimer \/ (\E c \in Conn : TrackerThread(c))
      BY <1>1 DEF Next, Breaks, HostStart, SendPing, HostStop, OnHttpResponse,
                  OnPeerConnecting, OnPeerConnectingClosed, OnServerSuccess,
                  OnServerConnectFailed, OnServerPingFailed, OnFailureLogged,
                  OnServerOfflineFinish, HostReads, ViewerStart, OnGetLivePeerList,
                  OnConnectPeerResult, ViewerReads, vars
    <3>2. \E c \in Conn : TrackerThread(c)
      BY <1>1, <3>1 DEF tracker, OnTimer
    <3> QED
      BY <1>1, <3>2 DEF TrackerThread, conn_eventcb, Execute, OnPeerOnline, OnPeerPing,
                        OnPeerOffline, OnPeerGetLive, OnRequestConnectPeer,
                        OnRequestPeerConnectPeerResult, Reads
  <2>2. PICK d \in m_mapClient : m_addr[d] = m_addr[c]
    BY <1>1, <2>1 DEF listener_cb
  <2>3. m_addr[c] = NoAddress
    BY <1>1, <2>1 DEF listener_cb, FirstInv
  <2>4. d \in Conn /\ link[d] # "none"
    BY <1>1 DEF RefInv
  <2> QED
    BY <1>1, <2>2, <2>3, <2>4 DEF FirstInv
<1>2. TypeInv /\ RefInv /\ FirstInv /\ [Next]_vars =>
        [leaked' # leaked =>
           \E d \in m_mapClient : up[d] # <<>> /\ Head(up[d]).op \in {"s", "g"}]_vars
  BY <1>1
<1> QED
  BY <1>2, TypeInvInit, TypeInvNext, RefInvInit, RefInvNext, FirstInvInit, FirstInvNext, PTL
     DEF Spec, RefusalNeedsUnreadRequest

-----------------------------------------------------------------------------
(* The tracker is brought down only by a listed host that has gone.        *)

\* p is the address of a host, and the tracker has read a request of it.
Known(p) == \E h \in Host : Address[h] = p /\ m_addr[h] = p

AskedKnown == \A v \in Viewer : asked[v] # None => Known(asked[v])

\* What CrashNeedsGoneHost needs to be inductive: whom the tracker lists, and whom
\* it has told viewers of, it has heard; and it forgets no one's address.
KnownInv ==
    /\ \A p \in GetLivePeer : Known(p)
    /\ \A v \in Viewer : \A r \in Elems(down[v]) :
         r.kind = "ok" => \A p \in r.peers : Known(p)
    /\ AskedKnown
    /\ CrashNeedsGoneHost

LEMMA KnownInvInit == Init => KnownInv
BY ElemsFew DEF Init, TrackerInit, KnownInv, AskedKnown, GetLivePeer, NoPeers,
                 CrashNeedsGoneHost, Conn

LEMMA KnownKept ==
    ASSUME TypeOK, m_addr' = m_addr \/ \E c \in Conn : \E op : Reads(c, op)
    PROVE  \A p : Known(p) => Known(p)'
<1> SUFFICES ASSUME NEW p, Known(p) PROVE Known(p)'
  OBVIOUS
<1>1. PICK h \in Host : Address[h] = p /\ m_addr[h] = p
  BY DEF Known
<1>2. m_addr'[h] = p
  <2>1. CASE m_addr' = m_addr
    BY <1>1, <2>1
  <2>2. ASSUME NEW c \in Conn, NEW op, Reads(c, op) PROVE m_addr'[h] = p
    BY <1>1, <2>2 DEF Reads, TypeOK, Conn
  <2> QED
    BY <2>1, <2>2
<1> QED
  BY <1>1, <1>2 DEF Known

\* What is gone stays gone, so a crash that needed a gone host goes on to need it.
LEMMA GoneKept ==
    ASSUME LinkStep, CrashNeedsGoneHost, crashed, \A v \in Viewer : asked[v] # None => asked'[v] = asked[v]
    PROVE  \E v \in Viewer, h \in Host : asked'[v] = Address[h] /\ link'[h] = "dead"
<1>1. PICK v \in Viewer, h \in Host : asked[v] = Address[h] /\ link[h] = "dead"
  BY DEF CrashNeedsGoneHost
<1>2. h \in Conn
  BY DEF Conn
<1>3. link'[h] = "dead"
  BY <1>1, <1>2 DEF LinkStep
<1>4. asked[v] # None
  BY <1>1, <1>2, AddressType, NoneIsNoAddress
<1> QED
  BY <1>1, <1>3, <1>4

\* Steps in which the tracker reads nothing and no viewer asks.
LEMMA KnownInvQuiet ==
    ASSUME TypeOK, KnownInv, LinkStep, m_addr' = m_addr, asked' = asked, crashed' = crashed,
           GetLivePeer' \subseteq GetLivePeer,
           \A v \in Viewer : Elems(down'[v]) \subseteq Elems(down[v])
    PROVE  KnownInv'
<1>1. \A p : Known(p) => Known(p)'
  BY KnownKept
<1>2. \A p \in GetLivePeer' : Known(p)'
  BY <1>1 DEF KnownInv
<1>3. \A v \in Viewer : \A r \in Elems(down'[v]) : r.kind = "ok" => \A p \in r.peers : Known(p)'
  BY <1>1 DEF KnownInv
<1>4. AskedKnown'
  <2> SUFFICES ASSUME NEW v \in Viewer, asked'[v] # None
               PROVE  \E h \in Host : Address[h] = asked'[v] /\ m_addr'[h] = asked'[v]
    BY DEF AskedKnown, Known
  <2>1. PICK p : asked'[v] = p /\ asked[v] = p /\ Known(p)
    BY DEF KnownInv, AskedKnown
  <2>2. Known(p)'
    BY <1>1, <2>1
  <2> QED
    BY <2>1, <2>2 DEF Known
<1>5. CrashNeedsGoneHost'
  BY GoneKept DEF KnownInv, CrashNeedsGoneHost
<1> QED
  BY <1>2, <1>3, <1>4, <1>5 DEF KnownInv

\* The tracker reads a request of c and writes a response to d, or none.
LEMMA KnownInvReads ==
    ASSUME TypeOK, KnownInv, LinkStep, asked' = asked, NEW c \in Conn, NEW op, Reads(c, op),
           NEW d \in Conn, NEW response \in Responses, Written(d, response) \/ down' = down,
           response.kind = "ok" => \A p \in response.peers : Known(p),
           \A p \in GetLivePeer' : Known(p) \/ Known(p)',
           \/ crashed' = crashed
           \/ \E v \in Viewer, h \in Host : asked[v] = Address[h] /\ link[h] = "dead"
    PROVE  KnownInv'
<1>1. \A p : Known(p) => Known(p)'
  BY KnownKept
<1>2. \A p \in GetLivePeer' : Known(p)'
  BY <1>1
<1>3. ASSUME NEW v \in Viewer, NEW r \in Elems(down'[v]), r.kind = "ok", NEW p \in r.peers
      PROVE  Known(p)'
  <2>1. r \in Elems(down[v]) \/ r = response
    BY WrittenElems DEF Conn
  <2> QED
    BY <1>1, <1>3, <2>1 DEF KnownInv
<1>4. AskedKnown'
  <2> SUFFICES ASSUME NEW v \in Viewer, asked'[v] # None
               PROVE  \E h \in Host : Address[h] = asked'[v] /\ m_addr'[h] = asked'[v]
    BY DEF AskedKnown, Known
  <2>1. PICK p : asked'[v] = p /\ asked[v] = p /\ Known(p)
    BY DEF KnownInv, AskedKnown
  <2>2. Known(p)'
    BY <1>1, <2>1
  <2> QED
    BY <2>1, <2>2 DEF Known
<1>5. CrashNeedsGoneHost'
  <2>1. CASE crashed' = crashed
    BY <2>1, GoneKept DEF KnownInv, CrashNeedsGoneHost
  <2>2. CASE \E v \in Viewer, h \in Host : asked[v] = Address[h] /\ link[h] = "dead"
    BY <2>2 DEF CrashNeedsGoneHost, Reads
  <2> QED
    BY <2>1, <2>2
<1> QED
  BY <1>2, <1>3, <1>4, <1>5 DEF KnownInv

LEMMA KnownInvExecute ==
    ASSUME TypeInv, RefInv, FirstInv, RouteInv, KnownInv, LinkStep, UNCHANGED viewerVars,
           NEW c \in Conn, Execute(c)
    PROVE  KnownInv'
<1>0. TypeOK /\ m_mapClient \subseteq Conn /\ asked' = asked
  BY DEF TypeInv, TypeOK, viewerVars
<1>a. Address[c] \in Addresses
  BY AddressType
<1>q. ASSUME NEW op, Reads(c, op)
      PROVE  /\ Head(up[c]) \in Requests /\ Head(up[c]).op = op /\ RequestOK(c, Head(up[c]))
             /\ c \in Viewer => op \in {"g", "connect"}
  <2>1. Head(up[c]) \in Elems(up[c])
    BY <1>0, <1>q, ElemsTail DEF Reads, TypeOK
  <2>2. RequestOK(c, Head(up[c]))
    BY <2>1 DEF RouteInv, QueuesInv
  <2> QED
    BY <1>q, <2>2, ReadsType DEF Reads, RequestOK
<1>r. /\ Ok({}) \in Responses /\ NotFound \in Responses
      /\ NotFound.kind # "ok" /\ Ok({}).peers = {}
  BY DEF Ok, NotFound, Responses
<1>k. \A p \in GetLivePeer : Known(p)
  BY DEF KnownInv
<1>1. CASE OnPeerOnline(c)
  <2>1. Reads(c, "s") /\ Written(c, Ok({})) /\ crashed' = crashed
    BY <1>1 DEF OnPeerOnline
  <2>2. c \in Host
    BY <1>q, <2>1 DEF Conn
  <2>3. m_addr'[c] = Address[c]
    BY <1>0, <2>1 DEF Reads, TypeOK
  <2>4. Known(Address[c])'
    BY <2>2, <2>3 DEF Known
  <2>5. ASSUME NEW p \in GetLivePeer' PROVE p \in GetLivePeer \/ p = Address[c]
    <3> DEFINE ip == Address[c].ip
    <3>1. PICK i \in DOMAIN m_mapPeer' : p = [ip |-> i, tcp_port |-> m_mapPeer'[i].tcp_port]
      BY DEF GetLivePeer
    <3>2. DOMAIN m_mapPeer' = DOMAIN m_mapPeer \cup {ip}
          /\ \A j \in DOMAIN m_mapPeer' : j # ip => m_mapPeer'[j] = m_mapPeer[j]
      BY <1>1 DEF OnPeerOnline
    <3>3. m_mapPeer'[ip].tcp_port = IF ip \in DOMAIN m_mapPeer THEN m_mapPeer[ip].tcp_port
                                    ELSE Address[c].tcp_port
      BY <1>1 DEF OnPeerOnline
    <3>4. Address[c] = [ip |-> ip, tcp_port |-> Address[c].tcp_port]
      BY AddressType
    <3>5. CASE i \in DOMAIN m_mapPeer
      BY <3>1, <3>2, <3>3, <3>5 DEF GetLivePeer
    <3>6. CASE i \notin DOMAIN m_mapPeer
      BY <3>1, <3>2, <3>3, <3>4, <3>6
    <3> QED
      BY <3>5, <3>6
  <2>6. \A p \in GetLivePeer' : Known(p) \/ Known(p)'
    BY <1>k, <2>4, <2>5
  <2> QED
    BY <1>0, <1>r, <2>1, <2>6, KnownInvReads
<1>2. CASE OnPeerPing(c)
  <2>1. Reads(c, "p") /\ crashed' = crashed /\ (Written(c, Ok({})) \/ Written(c, NotFound))
    BY <1>2 DEF OnPeerPing
  <2>2. GetLivePeer' \subseteq GetLivePeer
    <3>1. /\ DOMAIN m_mapPeer' = DOMAIN m_mapPeer
          /\ \A i \in DOMAIN m_mapPeer : m_mapPeer'[i].tcp_port = m_mapPeer[i].tcp_port
      <4>1. \A i \in DOMAIN m_mapPeer : m_mapPeer[i] \in [tcp_port : Nat, offline_times : 0..5]
        BY <1>0 DEF TypeOK, MAX_OFFLINE_TIMES
      <4>2. CASE Address[c].ip \in DOMAIN m_mapPeer
        BY <1>2, <4>1, <4>2 DEF OnPeerPing
      <4>3. CASE Address[c].ip \notin DOMAIN m_mapPeer
        BY <1>2, <4>3 DEF OnPeerPing
      <4> QED
        BY <4>2, <4>3
    <3> QED
      BY <3>1 DEF GetLivePeer
  <2> QED
    BY <1>0, <1>r, <1>k, <2>1, <2>2, KnownInvReads
<1>3. CASE OnPeerOffline(c)
  <2>1. Reads(c, "e") /\ crashed' = crashed /\ (Written(c, Ok({})) \/ Written(c, NotFound))
    BY <1>3 DEF OnPeerOffline
  <2>2. GetLivePeer' \subseteq GetLivePeer
    BY <1>3 DEF OnPeerOffline, GetLivePeer, Without
  <2> QED
    BY <1>0, <1>r, <1>k, <2>1, <2>2, KnownInvReads
<1>4. CASE OnPeerGetLive(c)
  <2>1. Reads(c, "g") /\ crashed' = crashed /\ Written(c, Ok(GetLivePeer))
        /\ GetLivePeer' = GetLivePeer
    BY <1>4 DEF OnPeerGetLive, GetLivePeer
  <2>2. Ok(GetLivePeer) \in Responses /\ Ok(GetLivePeer).peers = GetLivePeer
    BY <1>0 DEF TypeOK, Ok, Responses
  <2> QED
    BY <1>0, <1>k, <2>1, <2>2, KnownInvReads
<1>5. CASE OnRequestConnectPeer(c)
  <2> DEFINE peer == Head(up[c]).peer
             dest == GetHttpClientConnection(peer)
  <2>1. Reads(c, "connect") /\ GetLivePeer' = GetLivePeer
    BY <1>5 DEF OnRequestConnectPeer, GetLivePeer
  <2>2. c \in Viewer /\ peer = asked[c] /\ peer \in Addresses
    BY <1>q, <2>1 DEF RequestOK, Requests
  <2>3. ConnectPeer(Address[c]) \in Responses /\ ConnectPeer(Address[c]).kind # "ok"
    BY <1>a DEF ConnectPeer, Responses
  <2>4. \E d \in Conn : Written(d, ConnectPeer(Address[c])) \/ down' = down
    BY <1>0, <1>5 DEF OnRequestConnectPeer, GetHttpClientConnection
  <2>5. crashed' = crashed \/ dest = {}
    BY <1>5 DEF OnRequestConnectPeer
  <2>6. ASSUME dest = {}
        PROVE  \E v \in Viewer, h \in Host : asked[v] = Address[h] /\ link[h] = "dead"
    <3>1. Known(peer)
      BY <2>2, NoneIsNoAddress DEF KnownInv, AskedKnown
    <3>2. PICK h \in Host : Address[h] = peer /\ m_addr[h] = peer
      BY <3>1 DEF Known
    <3>3. h \in Conn /\ h \notin m_mapClient
      BY <2>6, <3>2 DEF GetHttpClientConnection, Conn
    <3>4. link[h] \notin {"up", "closing"} /\ link[h] \in Links
      BY <3>3 DEF RefInv
    <3>5. link[h] \notin {"none", "dialing", "left"}
      BY <2>2, <3>2, <3>3, NoneIsNoAddress DEF FirstInv
    <3> QED
      BY <2>2, <3>2, <3>4, <3>5 DEF Links
  <2> QED
    BY <1>0, <1>k, <2>1, <2>3, <2>4, <2>5, <2>6, KnownInvReads
<1>6. CASE OnRequestPeerConnectPeerResult(c)
  <2> DEFINE answer == PeerResult(Head(up[c]).ok, Address[c])
  <2>1. Reads(c, "result") /\ GetLivePeer' = GetLivePeer /\ crashed' = crashed
    BY <1>6 DEF OnRequestPeerConnectPeerResult, GetLivePeer
  <2>2. answer \in Responses /\ answer.kind # "ok"
    BY <1>a, <1>q, <2>1 DEF PeerResult, Requests, Responses
  <2>3. \E d \in Conn : Written(d, NotFound) \/ Written(d, answer)
    BY <1>0, <1>6 DEF OnRequestPeerConnectPeerResult, GetHttpClientConnection
  <2> QED
    BY <1>0, <1>r, <1>k, <2>1, <2>2, <2>3, KnownInvReads
<1> QED
  BY <1>1, <1>2, <1>3, <1>4, <1>5, <1>6 DEF Execute

\* A viewer asks for a peer the tracker has told it of, and has not asked before.
LEMMA KnownInvGetLivePeerList ==
    ASSUME TypeInv, RouteInv, KnownInv, LinkStep, NEW v \in Viewer, OnGetLivePeerList(v)
    PROVE  KnownInv'
<1>0. TypeOK
  BY DEF TypeInv
<1>v. /\ ViewerReads(v) /\ Head(down[v]).kind = "ok"
      /\ UNCHANGED <<m_addr, m_mapPeer, crashed>>
  BY DEF OnGetLivePeerList, ViewerReads, tracker
<1>1. /\ Head(down[v]) \in Responses /\ Head(down[v]) \in Elems(down[v])
      /\ \A d \in Conn : Elems(down'[d]) \subseteq Elems(down[d])
  BY <1>v, ViewerReadsResponse
<1> DEFINE peers == Head(down[v]).peers
<1>2. asked[v] = None
  BY <1>v, <1>1 DEF RouteInv, AsksOnce, HasOk
<1>3. \A p : Known(p) => Known(p)'
  BY <1>0, <1>v, KnownKept
<1>4. GetLivePeer' = GetLivePeer
  BY <1>v DEF GetLivePeer
<1>5. \A w \in Viewer : \A r \in Elems(down'[w]) : r.kind = "ok" => \A p \in r.peers : Known(p)'
  BY <1>1, <1>3 DEF KnownInv, Conn
<1>6. peers # {} => Known(FirstPeer(peers))
  <2>1. peers \subseteq Addresses
    BY <1>v, <1>1 DEF Responses
  <2> QED
    BY <1>v, <1>1, <2>1, FirstPeerListed DEF KnownInv
<1>7. \/ asked' = asked
      \/ peers # {} /\ asked' = [asked EXCEPT ![v] = FirstPeer(peers)]
  BY DEF OnGetLivePeerList
<1> HIDE DEF peers
<1>8. \A w \in Viewer : \/ asked'[w] = asked[w]
                        \/ asked[w] = None /\ \E p : asked'[w] = p /\ Known(p)
  BY <1>0, <1>2, <1>6, <1>7 DEF TypeOK
<1>9. AskedKnown'
  <2> SUFFICES ASSUME NEW w \in Viewer, asked'[w] # None
               PROVE  \E h \in Host : Address[h] = asked'[w] /\ m_addr'[h] = asked'[w]
    BY DEF AskedKnown, Known
  <2>1. PICK p : asked'[w] = p /\ Known(p)
    BY <1>8 DEF KnownInv, AskedKnown
  <2>2. Known(p)'
    BY <1>3, <2>1
  <2> QED
    BY <2>1, <2>2 DEF Known
<1>10. CrashNeedsGoneHost'
  BY <1>v, <1>8, GoneKept DEF KnownInv, CrashNeedsGoneHost
<1> QED
  BY <1>3, <1>4, <1>5, <1>9, <1>10 DEF KnownInv

LEMMA KnownInvNext ==
    TypeInv /\ RefInv /\ FirstInv /\ RouteInv /\ KnownInv /\ [Next]_vars => KnownInv'
<1> SUFFICES ASSUME TypeInv, RefInv, FirstInv, RouteInv, KnownInv, [Next]_vars PROVE KnownInv'
  OBVIOUS
<1>h. Host \subseteq Conn /\ Viewer \subseteq Conn /\ Host \cap Viewer = {}
  BY PeerTrackerAssumption DEF Conn
<1>0. TypeOK /\ LinkStep
  BY LinkSteps DEF TypeInv
<1>g. m_mapPeer' = m_mapPeer => GetLivePeer' = GetLivePeer
  BY DEF GetLivePeer
\* What a host or a viewer does that is not asking.
<1>p. ASSUME UNCHANGED <<tracker, asked>>,
             \A v \in Viewer : Elems(down'[v]) \subseteq Elems(down[v])
      PROVE  KnownInv'
  BY <1>0, <1>g, <1>p, KnownInvQuiet DEF tracker
<1>e. ASSUME NEW c \in Conn, \/ down' = [down EXCEPT ![c] = <<>>]
                             \/ down' = down
                             \/ down[c] # <<>> /\ down' = [down EXCEPT ![c] = Tail(@)]
      PROVE  \A d \in Conn : Elems(down'[d]) \subseteq Elems(down[d])
  BY <1>0, <1>e, TakesElems, ElemsFew DEF TypeOK
<1>1. ASSUME OnTimer, UNCHANGED viewerVars PROVE KnownInv'
  <2>1. UNCHANGED <<m_addr, asked, crashed, down>>
    BY <1>1 DEF OnTimer, wires, viewerVars
  <2>2. GetLivePeer' \subseteq GetLivePeer
    <3> DEFINE left == DOMAIN m_mapPeer \ {ip \in DOMAIN m_mapPeer :
                                             m_mapPeer[ip].offline_times + 1 > MAX_OFFLINE_TIMES}
    <3>1. m_mapPeer' = [ip \in left |-> [m_mapPeer[ip] EXCEPT !.offline_times = @ + 1]]
      BY <1>1 DEF OnTimer, Without
    <3>2. \A ip \in left : m_mapPeer[ip] \in [tcp_port : Nat, offline_times : 0..5]
      BY <1>0 DEF TypeOK, MAX_OFFLINE_TIMES
    <3>3. \A ip \in left : m_mapPeer'[ip].tcp_port = m_mapPeer[ip].tcp_port
      BY <3>1, <3>2
    <3> QED
      BY <3>1, <3>3 DEF GetLivePeer
  <2> QED
    BY <1>0, <2>1, <2>2, KnownInvQuiet
<1>2. ASSUME NEW c \in Conn, TrackerThread(c), UNCHANGED viewerVars PROVE KnownInv'
  <2>1. CASE listener_cb(c) \/ conn_eventcb(c)
    <3>1. UNCHANGED <<m_addr, crashed, down, asked>> /\ m_mapPeer' \in {m_mapPeer, NoPeers}
      BY <1>2, <2>1 DEF listener_cb, conn_eventcb, viewerVars
    <3>2. m_mapPeer' = NoPeers => GetLivePeer' = {}
      BY DEF GetLivePeer, NoPeers
    <3> QED
      BY <1>0, <1>g, <3>1, <3>2, KnownInvQuiet
  <2> QED
    BY <1>0, <1>2, <2>1, KnownInvExecute DEF TrackerThread
<1>3. ASSUME NEW c \in Conn, Breaks(c) PROVE KnownInv'
  BY <1>3, <1>e, <1>h, <1>p DEF Breaks, viewerVars
<1>4. ASSUME NEW h \in Host, HostStart(h) \/ SendPing(h) \/ HostStop(h) PROVE KnownInv'
  BY <1>4, <1>e, <1>h, <1>p DEF HostStart, SendPing, HostStop, viewerVars
<1>5. ASSUME NEW h \in Host, OnHttpResponse(h) PROVE KnownInv'
  <2>1. /\ \/ down[h] # <<>> /\ down' = [down EXCEPT ![h] = Tail(@)]
           \/ down' = [down EXCEPT ![h] = <<>>]
        /\ UNCHANGED <<tracker, asked>>
    BY <1>5 DEF OnHttpResponse, OnPeerConnecting, OnPeerConnectingClosed, OnServerSuccess,
                OnServerConnectFailed, OnServerPingFailed, OnFailureLogged,
                OnServerOfflineFinish, HostReads, viewerVars
  <2> QED
    BY <1>e, <1>h, <1>p, <2>1
<1>6. ASSUME NEW v \in Viewer, ViewerStart(v) PROVE KnownInv'
  BY <1>6, <1>e, <1>h, <1>p DEF ViewerStart, viewerVars
<1>7. ASSUME NEW v \in Viewer, OnGetLivePeerList(v) PROVE KnownInv'
  BY <1>0, <1>7, KnownInvGetLivePeerList
<1>8. ASSUME NEW v \in Viewer, OnConnectPeerResult(v) PROVE KnownInv'
  BY <1>8, <1>e, <1>h, <1>p DEF OnConnectPeerResult, ViewerReads
<1>9. CASE UNCHANGED vars
  BY <1>9, <1>p DEF vars, wires, viewerVars
<1> QED
  BY <1>1, <1>2, <1>3, <1>4, <1>5, <1>6, <1>7, <1>8, <1>9 DEF Next

\* However hosts and viewers come and go, the tracker calls Send on NULL
\* (OnRequestConnectPeer) only for a listed host whose connection has gone: a host
\* whose connection is open is found by the address viewers were given.
THEOREM CrashesNeedGoneHost ==
    ASSUME DistinctAddresses
    PROVE  Spec => []CrashNeedsGoneHost
<1>1. KnownInv => CrashNeedsGoneHost
  BY DEF KnownInv
<1>2. TypeInv /\ RouteInv /\ [Next]_vars => RouteInv'
  BY RouteInvNext
<1> QED
  BY <1>1, <1>2, TypeInvInit, TypeInvNext, RefInvInit, RefInvNext, FirstInvInit, FirstInvNext,
     RouteInvInit, KnownInvInit, KnownInvNext, PTL DEF Spec
=============================================================================
