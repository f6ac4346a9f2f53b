-------------------------- MODULE ScreenSyncProofs --------------------------
(***************************************************************************)
(* Proofs about ScreenSync for any set of clients, any screen and any      *)
(* number of posted messages: the protocol of a connection and who is in   *)
(* which handler first; then that what is sent is drawn, that something    *)
(* always leads to the next image, and that images do not pile up          *)
(* (DrawnIsSent, TransferNeverStalls, AtMostTwoImages).                    *)
(***************************************************************************)
EXTENDS ScreenSync, BlockListProofs, FiniteSetTheorems, FunctionTheorems, TLAPS

\* The threads' program counters are records with these fields.
UiShape ==
    ui = [pc |-> ui.pc, todo |-> ui.todo, blocks |-> ui.blocks, conn |-> ui.conn,
          next |-> ui.next, img |-> ui.img, torn |-> ui.torn]
LevShape ==
    lev.pc = "command" => lev = [pc |-> "command", conn |-> lev.conn, cmds |-> lev.cmds]

\* A client sends its version once, and first.
WithoutVersion(cmds) == \A i \in 1..Len(cmds) : cmds[i].code # RDCC_PROTOCOL_VERSION
VersionFirst(cmds)   == \A i \in 2..Len(cmds) : cmds[i].code # RDCC_PROTOCOL_VERSION
Chunk == {cmds \in Seq(ClientCommand) : VersionFirst(cmds)}
VersionInv ==
    /\ c2s \in [Client -> Chunk]
    /\ lev.pc = "command" => lev.cmds \in Chunk \ {<<>>}

\* The libevent thread may bring further commands of a connection that the UI
\* thread has just closed (OnGetProtocalVersion, StopClient).  Its state has
\* stayed CONNECTED, in which only a version is accepted, and that has been read.
ClosedInv ==
    lev.pc = "command" =>
        /\ lev.conn \in Client
        /\ lev.conn \in m_mapClient
           \/ (m_state[lev.conn] = RDCS_CONNECTED /\ WithoutVersion(lev.cmds))

\* A whole picture is compressed for the command the libevent thread waits with.
CompressInv == ui.pc = "compress" => lev.pc = "command"

LoopInv ==
    /\ m_state \in [Client -> ConnectionState]
    /\ UiShape /\ LevShape /\ VersionInv /\ ClosedInv /\ CompressInv
    /\ LoopStaysInMap

LEMMA LoopInvInit == Init => LoopInv
<1>1. <<>> \in Chunk
  BY DEF Chunk, VersionFirst
<1> QED
  BY <1>1 DEF Init, LoopInv, UiShape, LevShape, VersionInv, ClosedInv, CompressInv,
              LoopStaysInMap, Idle, UiFree, ConnectionState

\* What conn_readcb and Return do to a client's commands.
LEMMA ChunkTail ==
    ASSUME NEW cmds \in Chunk, cmds # <<>>
    PROVE  Tail(cmds) \in Chunk /\ WithoutVersion(Tail(cmds))
<1>1. cmds \in Seq(ClientCommand) /\ Len(cmds) \in Nat \ {0}
  BY DEF Chunk
<1>2. Tail(cmds) \in Seq(ClientCommand) /\ Len(Tail(cmds)) = Len(cmds) - 1
  BY <1>1
<1>3. \A i \in 1..Len(Tail(cmds)) : Tail(cmds)[i] = cmds[i + 1] /\ i + 1 \in 2..Len(cmds)
  BY <1>1, <1>2
<1>4. WithoutVersion(Tail(cmds))
  BY <1>3 DEF Chunk, VersionFirst, WithoutVersion
<1>5. VersionFirst(Tail(cmds))
  BY <1>2, <1>4 DEF VersionFirst, WithoutVersion
<1> QED
  BY <1>2, <1>4, <1>5 DEF Chunk

LEMMA ChunkSplit ==
    ASSUME NEW cmds \in Chunk, NEW n \in 1..Len(cmds)
    PROVE  /\ SubSeq(cmds, 1, n) \in Chunk \ {<<>>}
           /\ SubSeq(cmds, n + 1, Len(cmds)) \in Chunk
<1>1. cmds \in Seq(ClientCommand) /\ Len(cmds) \in Nat /\ n \in Nat \ {0} /\ n <= Len(cmds)
  BY DEF Chunk
<1> DEFINE first == SubSeq(cmds, 1, n)
           rest  == SubSeq(cmds, n + 1, Len(cmds))
<1>2. first \in Seq(ClientCommand) /\ Len(first) = n
  BY <1>1
<1>3. \A i \in 2..Len(first) : first[i] = cmds[i] /\ i \in 2..Len(cmds)
  BY <1>1, <1>2
<1>4. rest \in Seq(ClientCommand) /\ Len(rest) = Len(cmds) - n
  BY <1>1
<1>5. \A i \in 2..Len(rest) : rest[i] = cmds[n + i] /\ n + i \in 2..Len(cmds)
  BY <1>1, <1>4
<1>6. VersionFirst(first) /\ VersionFirst(rest)
  BY <1>3, <1>5 DEF Chunk, VersionFirst
<1>7. first # <<>>
  BY <1>1, <1>2
<1> HIDE DEF first, rest
<1>8. first \in Chunk \ {<<>>} /\ rest \in Chunk
  BY <1>2, <1>4, <1>6, <1>7 DEF Chunk
<1> QED
  BY <1>8 DEF first, rest

\* What a client sends: its replies follow its version.
LEMMA ChunkReplies ==
    ASSUME NEW cmds \in Chunk, NEW m
    PROVE  cmds \o ClientReplies(m) \in Chunk
<1> DEFINE replies == ClientReplies(m)
           all     == cmds \o replies
<1>1. cmds \in Seq(ClientCommand) /\ Len(cmds) \in Nat
  BY DEF Chunk
<1>2. /\ Command(RDCC_TRANSFER_BITMAP_RESPONSE) \in ClientCommand
      /\ Command(RDCC_COMPRESS_MODE) \in ClientCommand
      /\ Command(RDCC_TRANSFER_BITMAP) \in ClientCommand
  BY DEF ClientCommand, Commands, Command
<1>3. replies \in Seq(ClientCommand) /\ Len(replies) \in Nat /\ WithoutVersion(replies)
  <2>1. CASE IsImage(m)
    BY <1>2, <2>1 DEF ClientReplies, WithoutVersion, Command, RDCC_TRANSFER_BITMAP_RESPONSE,
                      RDCC_PROTOCOL_VERSION
  <2>2. CASE ~IsImage(m)
    BY <1>2, <2>2 DEF ClientReplies, WithoutVersion, Command, RDCC_COMPRESS_MODE,
                      RDCC_TRANSFER_BITMAP, RDCC_PROTOCOL_VERSION
  <2> QED
    BY <2>1, <2>2
<1> HIDE DEF replies
<1>4. all \in Seq(ClientCommand) /\ Len(all) = Len(cmds) + Len(replies)
  BY <1>1, <1>3
<1>5. \A i \in 2..Len(all) : IF i <= Len(cmds) THEN all[i] = cmds[i]
                             ELSE all[i] = replies[i - Len(cmds)] /\ i - Len(cmds) \in 1..Len(replies)
  BY <1>1, <1>3, <1>4
<1>6. VersionFirst(all)
  BY <1>1, <1>3, <1>4, <1>5 DEF Chunk, VersionFirst, WithoutVersion
<1>7. all \in Chunk
  BY <1>4, <1>6 DEF Chunk
<1> QED
  BY <1>7 DEF replies

\* A handler that has returned, or a command that is still waiting, leaves the
\* libevent thread where ClosedInv wants it.
LEMMA ReturnKeeps ==
    ASSUME LoopInv, lev.pc = "command", Return \/ UNCHANGED lev
    PROVE  /\ LevShape'
           /\ lev'.pc = "command" =>
                /\ lev'.conn = lev.conn /\ lev'.cmds \in Chunk \ {<<>>}
                /\ Return \/ WithoutVersion(lev.cmds) => WithoutVersion(lev'.cmds)
<1>1. lev = [pc |-> "command", conn |-> lev.conn, cmds |-> lev.cmds] /\ lev.cmds \in Chunk \ {<<>>}
  BY DEF LoopInv, LevShape, VersionInv
<1>2. CASE UNCHANGED lev /\ ~Return
  BY <1>1, <1>2 DEF LevShape
<1>3. CASE Return
  <2>1. CASE Len(lev.cmds) = 1
    BY <1>3, <2>1 DEF Return, Idle, LevShape
  <2>2. CASE Len(lev.cmds) # 1
    <3>1. lev' = [pc |-> "command", conn |-> lev.conn, cmds |-> Tail(lev.cmds)]
      BY <1>1, <1>3, <2>2 DEF Return
    <3>2. Tail(lev.cmds) \in Chunk /\ WithoutVersion(Tail(lev.cmds))
      BY <1>1, ChunkTail
    <3>3. Tail(lev.cmds) # <<>>
      <4>1. lev.cmds \in Seq(ClientCommand) /\ lev.cmds # <<>>
        BY <1>1 DEF Chunk
      <4>2. Len(lev.cmds) \in Nat \ {0} /\ Len(Tail(lev.cmds)) = Len(lev.cmds) - 1
        BY <4>1
      <4>3. Len(Tail(lev.cmds)) # 0
        BY <2>2, <4>2
      <4>4. Len(<<>>) = 0
        OBVIOUS
      <4> QED
        BY <4>3, <4>4, Zenon
    <3> QED
      BY <3>1, <3>2, <3>3 DEF LevShape
  <2> QED
    BY <2>1, <2>2
<1> QED
  BY <1>2, <1>3

LEMMA LoopInvCapture ==
    ASSUME LoopInv, CaptureThread
    PROVE  LoopInv'
<1>1. UNCHANGED <<m_mapClient, lev, m_state, c2s>>
  BY DEF CaptureThread, CaptureFirst, CaptureSwap
<1>2. ui' = ui \/ \E t : ui' = [ui EXCEPT !.torn = t]
  BY DEF CaptureThread, CaptureFirst, CaptureSwap, Overtake
<1>3. UiShape' /\ ui'.todo = ui.todo /\ ui'.conn = ui.conn /\ ui'.pc = ui.pc
  BY <1>2 DEF LoopInv, UiShape
<1> QED
  BY <1>1, <1>3 DEF LoopInv, LevShape, VersionInv, ClosedInv, CompressInv, LoopStaysInMap

LEMMA LoopInvLibevent ==
    ASSUME LoopInv, NEW c \in Client, LibeventThread(c) \/ conn_eventcb(c)
    PROVE  LoopInv'
<1> USE DEF LoopInv
<1>1. UNCHANGED <<ui, m_state>>
  BY DEF LibeventThread, listener_cb, conn_readcb, conn_eventcb, OnAsynSendCommand, connVars
<1>2. UiShape'
  BY <1>1 DEF UiShape
<1>e. <<>> \in Chunk
  BY DEF Chunk, VersionFirst
<1>3. CASE OnAsynSendCommand(c)
  BY <1>1, <1>2, <1>3 DEF OnAsynSendCommand, LevShape, VersionInv, ClosedInv, CompressInv,
                          LoopStaysInMap
<1>4. CASE listener_cb(c)
  BY <1>1, <1>2, <1>4 DEF listener_cb, LevShape, VersionInv, ClosedInv, CompressInv,
                          LoopStaysInMap, UiFree
<1>5. CASE conn_readcb(c)
  <2>1. PICK n \in 1..Len(c2s[c]) :
          /\ lev' = [pc |-> "command", conn |-> c, cmds |-> SubSeq(c2s[c], 1, n)]
          /\ c2s' = [c2s EXCEPT ![c] = SubSeq(@, n + 1, Len(@))]
    BY <1>5 DEF conn_readcb
  <2>2. c2s[c] \in Chunk
    BY DEF VersionInv
  <2>3. VersionInv'
    BY <2>1, <2>2, ChunkSplit DEF VersionInv
  <2> QED
    BY <1>1, <1>2, <1>5, <2>1, <2>3 DEF conn_readcb, LevShape, ClosedInv, CompressInv,
                                        LoopStaysInMap
<1>6. CASE conn_eventcb(c)
  BY <1>1, <1>2, <1>6, <1>e DEF conn_eventcb, LevShape, VersionInv, ClosedInv, CompressInv,
                                LoopStaysInMap, UiFree
<1> QED
  BY <1>3, <1>4, <1>5, <1>6 DEF LibeventThread

LEMMA LoopInvConnections ==
    ASSUME LoopInv, NEW c \in Client, OnClientConnected(c) \/ OnClientDisconnected(c)
    PROVE  LoopInv'
<1>1. UNCHANGED <<ui, m_mapClient, c2s>> /\ lev' = Idle /\ ui = UiFree
  BY DEF OnClientConnected, OnClientDisconnected
<1>2. m_state' \in [Client -> ConnectionState]
  BY DEF LoopInv, OnClientConnected, OnClientDisconnected, ConnectionState
<1> QED
  BY <1>1, <1>2 DEF LoopInv, UiShape, LevShape, VersionInv, ClosedInv, CompressInv,
                   LoopStaysInMap, Idle, UiFree

LEMMA LoopInvCommand ==
    ASSUME LoopInv, NEW c \in Client, OnReciveCommand(c)
    PROVE  LoopInv'
<1> USE DEF LoopInv
<1>1. ui = UiFree /\ lev.pc = "command" /\ lev.conn = c
  BY DEF OnReciveCommand, IgnoreCommand, OnGetProtocalVersion, OnGetLogon, OnGetCompressMode,
         OnGetTransferBitmap, OnGetTransferBitmapResult, Receives, Waiting
<1>2. Return \/ UNCHANGED lev
  BY DEF OnReciveCommand, IgnoreCommand, OnGetProtocalVersion, OnGetLogon, OnGetCompressMode,
         OnGetTransferBitmap, OnGetTransferBitmapResult, Receives
<1>3. /\ LevShape'
      /\ lev'.pc = "command" =>
           /\ lev'.conn = c /\ lev'.cmds \in Chunk \ {<<>>}
           /\ Return \/ WithoutVersion(lev.cmds) => WithoutVersion(lev'.cmds)
  BY <1>1, <1>2, ReturnKeeps
<1>v. c2s' = c2s => VersionInv'
  BY <1>3 DEF VersionInv
<1>4. ASSUME UNCHANGED <<ui, m_mapClient, c2s>>, m_state' \in [Client -> ConnectionState],
             c \in m_mapClient \/ UNCHANGED m_state
      PROVE  LoopInv'
  BY <1>1, <1>3, <1>4, <1>v DEF UiShape, ClosedInv, CompressInv, LoopStaysInMap, UiFree
\* Past CONNECTED a connection is still in the map.
<1>5. m_state[c] # RDCS_CONNECTED => c \in m_mapClient
  BY <1>1 DEF ClosedInv
<1>6. CASE IgnoreCommand(c)
  BY <1>4, <1>6 DEF IgnoreCommand
<1>7. CASE OnGetProtocalVersion(c)
  <2>1. UNCHANGED ui /\ Return /\ Head(lev.cmds).code = RDCC_PROTOCOL_VERSION
        /\ m_state[c] = RDCS_CONNECTED
    BY <1>7 DEF OnGetProtocalVersion, Receives, Waiting, ServerAccepts, RDCC_PROTOCOL_VERSION,
                RDCC_LOGON, RDCC_COMPRESS_MODE, RDCC_TRANSFER_BITMAP
  <2>2. ~WithoutVersion(lev.cmds)
    <3>1. lev.cmds \in Seq(ClientCommand) /\ lev.cmds # <<>>
      BY <1>1 DEF VersionInv, Chunk
    <3>2. Head(lev.cmds) = lev.cmds[1] /\ 1 \in 1..Len(lev.cmds)
      BY <3>1
    <3> QED
      BY <2>1, <3>2 DEF WithoutVersion
  <2>3. c \in m_mapClient
    BY <1>1, <2>2 DEF ClosedInv
  <2>4. CASE m_state' = [m_state EXCEPT ![c] = RDCS_PROTOCOL_VERSION] /\ UNCHANGED <<m_mapClient, c2s>>
    <3>1. m_state' \in [Client -> ConnectionState]
      BY <2>4 DEF ConnectionState
    <3> QED
      BY <1>4, <2>1, <2>3, <2>4, <3>1
  <2>5. CASE StopClient(c) /\ UNCHANGED m_state
    <3>1. <<>> \in Chunk
      BY DEF Chunk, VersionFirst
    <3>2. VersionInv'
      BY <1>3, <2>5, <3>1 DEF StopClient, VersionInv
    <3>3. ClosedInv'
      BY <1>3, <2>1, <2>5 DEF ClosedInv
    <3> QED
      BY <1>1, <1>3, <2>1, <2>5, <3>2, <3>3 DEF UiShape, CompressInv, LoopStaysInMap, UiFree
  <2> QED
    BY <1>7, <2>4, <2>5 DEF OnGetProtocalVersion
<1>8. CASE OnGetLogon(c)
  <2>1. m_state[c] = RDCS_PROTOCOL_VERSION
    BY <1>8 DEF OnGetLogon, Receives, ServerAccepts, RDCC_PROTOCOL_VERSION, RDCC_LOGON,
                RDCC_COMPRESS_MODE, RDCC_TRANSFER_BITMAP
  <2>2. m_state' \in [Client -> ConnectionState]
    BY <1>8 DEF OnGetLogon, ConnectionState
  <2> QED
    BY <1>4, <1>5, <1>8, <2>1, <2>2
       DEF OnGetLogon, Receives, RDCS_PROTOCOL_VERSION, RDCS_CONNECTED
<1>9. CASE OnGetCompressMode(c)
  <2>1. m_state[c] = RDCS_LOGON
    BY <1>9 DEF OnGetCompressMode, Receives, ServerAccepts, RDCC_PROTOCOL_VERSION, RDCC_LOGON,
                RDCC_COMPRESS_MODE, RDCC_TRANSFER_BITMAP
  <2>2. m_state' \in [Client -> ConnectionState]
    BY <1>9 DEF OnGetCompressMode, ConnectionState
  <2> QED
    BY <1>4, <1>5, <1>9, <2>1, <2>2 DEF OnGetCompressMode, Receives, RDCS_LOGON, RDCS_CONNECTED
<1>10. CASE OnGetTransferBitmap(c)
  <2>1. c \in m_mapClient
    BY <1>5, <1>10 DEF OnGetTransferBitmap, ServerAccepts, RDCC_PROTOCOL_VERSION, RDCC_LOGON,
         RDCC_COMPRESS_MODE, RDCC_TRANSFER_BITMAP, RDCS_CONNECTED, RDCS_PROTOCOL_VERSION,
         RDCS_LOGON, RDCS_COMPRESS_MODE, RDCS_TRANSFER
  <2>2. m_state' \in [Client -> ConnectionState] /\ UNCHANGED <<m_mapClient, c2s>>
    BY <1>10 DEF OnGetTransferBitmap, ConnectionState
  <2>3. CASE m_pBuffer = Null
    BY <1>4, <1>10, <2>1, <2>2, <2>3 DEF OnGetTransferBitmap
  <2>4. CASE m_pBuffer # Null
    <3>1. ui' = [UiFree EXCEPT !.pc = "compress", !.conn = c, !.img = m_pBuffer]
          /\ UNCHANGED lev
      BY <1>10, <2>4 DEF OnGetTransferBitmap
    <3>2. UiShape' /\ ui'.todo = {} /\ ui'.conn = c
      BY <3>1 DEF UiFree, UiShape
    <3> QED
      BY <1>1, <1>3, <1>v, <2>1, <2>2, <3>1, <3>2 DEF ClosedInv, CompressInv, LoopStaysInMap
  <2> QED
    BY <2>3, <2>4
<1>11. CASE OnGetTransferBitmapResult(c)
  BY <1>4, <1>11 DEF OnGetTransferBitmapResult, Receives
<1> QED
  BY <1>6, <1>7, <1>8, <1>9, <1>10, <1>11 DEF OnReciveCommand

\* The UI thread inside a handler: the map does not change under its loop.
LEMMA LoopInvBusy ==
    ASSUME LoopInv,
           \/ OnFirstBitmap \/ OnModified \/ ClipBitmapRect
           \/ JPEG_CompressFaults \/ \E c \in Client : Busy(c)
    PROVE  LoopInv'
<1> USE DEF LoopInv
<1>1. UNCHANGED <<m_mapClient, m_state, c2s>>
  BY DEF OnFirstBitmap, OnModified, ClipBitmapRect, JPEG_CompressFaults,
         Busy, OnScreenModified, OnScreenModifiedNull, AsynSendTransterModifyBitmap, JPEG_Compress
<1>2. CASE UNCHANGED lev
  <2>1. LevShape' /\ VersionInv' /\ ClosedInv'
    BY <1>1, <1>2 DEF LevShape, VersionInv, ClosedInv
  <2>2. UiShape' /\ CompressInv' /\ LoopStaysInMap'
    <3>1. CASE OnFirstBitmap \/ JPEG_CompressFaults
      BY <1>1, <3>1 DEF OnFirstBitmap, JPEG_CompressFaults, UiShape, CompressInv, LoopStaysInMap
    <3>2. CASE OnModified
      BY <1>1, <3>2 DEF OnModified, UiFree, UiShape, CompressInv, LoopStaysInMap
    <3>3. CASE ClipBitmapRect
      BY <1>1, <3>3 DEF ClipBitmapRect, UiShape, CompressInv, LoopStaysInMap
    <3>4. ASSUME NEW c \in Client, OnScreenModified(c) \/ AsynSendTransterModifyBitmap(c)
          PROVE  UiShape' /\ CompressInv' /\ LoopStaysInMap'
      <4>1. ui' = LoopAfter(c) \/ (c \in ui.todo /\ ui' = [ui EXCEPT !.pc = "clip", !.conn = c])
        BY <3>4 DEF OnScreenModified, AsynSendTransterModifyBitmap
      <4> QED
        <5>1. CASE ui' = LoopAfter(c)
          BY <1>1, <5>1 DEF LoopAfter, UiFree, UiShape, CompressInv, LoopStaysInMap
        <5>2. CASE c \in ui.todo /\ ui' = [ui EXCEPT !.pc = "clip", !.conn = c]
          BY <1>1, <5>2 DEF UiShape, CompressInv, LoopStaysInMap
        <5> QED
          BY <4>1, <5>1, <5>2
    <3>5. ASSUME NEW c \in Client, OnScreenModifiedNull(c) \/ JPEG_Compress(c)
          PROVE  UiShape' /\ CompressInv' /\ LoopStaysInMap'
      BY <1>1, <3>5 DEF OnScreenModifiedNull, JPEG_Compress, UiFree, UiShape, CompressInv, LoopStaysInMap
    <3> QED
      BY <3>1, <3>2, <3>3, <3>4, <3>5 DEF Busy
  <2> QED
    BY <1>1, <2>1, <2>2
<1>3. ASSUME NEW c \in Client, JPEG_Compress(c) PROVE LoopInv'
  <2>1. ui' = UiFree /\ Return
    BY <1>3 DEF JPEG_Compress
  <2>2. lev.pc = "command"
    BY <1>3 DEF JPEG_Compress, CompressInv
  <2> QED
    BY <1>1, <2>1, <2>2, ReturnKeeps DEF UiFree, UiShape, LoopStaysInMap, VersionInv, ClosedInv,
                                         CompressInv
<1> QED
  BY <1>2, <1>3 DEF OnFirstBitmap, OnModified, ClipBitmapRect,
     JPEG_CompressFaults, Busy, OnScreenModified, OnScreenModifiedNull,
     AsynSendTransterModifyBitmap

LEMMA LoopInvNext == LoopInv /\ [Next]_vars => LoopInv'
<1> SUFFICES ASSUME LoopInv, [Next]_vars PROVE LoopInv'
  OBVIOUS
<1>1. ASSUME NEW c \in Client, ClientOnConnected(c) \/ ClientOnReciveCommand(c) PROVE LoopInv'
  <2>1. UNCHANGED <<m_mapClient, lev, ui, m_state>>
    BY <1>1 DEF ClientOnConnected, ClientOnReciveCommand
  <2>2. c2s' \in [Client -> Chunk]
    <3>1. c2s \in [Client -> Chunk] /\ c2s[c] \in Chunk
      BY DEF LoopInv, VersionInv
    <3>2. CASE ClientOnConnected(c)
      <4> DEFINE hello == <<Command(RDCC_PROTOCOL_VERSION), Command(RDCC_LOGON)>>
      <4>1. hello \in Seq(ClientCommand) /\ Len(hello) = 2 /\ hello[2] = Command(RDCC_LOGON)
        BY DEF ClientCommand, Commands, Command
      <4>2. VersionFirst(hello)
        BY <4>1 DEF VersionFirst, Command, RDCC_LOGON, RDCC_PROTOCOL_VERSION
      <4>3. hello \in Chunk
        BY <4>1, <4>2 DEF Chunk
      <4> QED
        BY <3>1, <3>2, <4>3 DEF ClientOnConnected
    <3>3. CASE ClientOnReciveCommand(c)
      <4>1. \A m : c2s[c] \o ClientReplies(m) \in Chunk
        BY <3>1, ChunkReplies
      <4>2. c2s' = c2s \/ c2s' = [c2s EXCEPT ![c] = @ \o ClientReplies(Head(s2c[c]))]
        BY <3>3 DEF ClientOnReciveCommand
      <4> QED
        BY <3>1, <4>1, <4>2
    <3> QED
      BY <1>1, <3>2, <3>3
  <2> QED
    BY <2>1, <2>2 DEF LoopInv, UiShape, LevShape, VersionInv, ClosedInv, CompressInv,
                      LoopStaysInMap
<1>2. CASE UNCHANGED vars
  BY <1>2 DEF vars, LoopInv, UiShape, LevShape, VersionInv, ClosedInv, CompressInv,
              LoopStaysInMap
<1> QED
  BY <1>1, <1>2, LoopInvCapture, LoopInvLibevent, LoopInvConnections, LoopInvCommand,
     LoopInvBusy DEF Next

\* CRemoteServer::OnScreenModified and AsynSendTransferBitmap work on connections
\* that are in the map, for any number of clients that connect, break off and are
\* turned away: no other thread takes one out from under the loop.
THEOREM LoopIsLocked == Spec => []LoopStaysInMap
<1>1. LoopInv => LoopStaysInMap
  BY DEF LoopInv
<1> QED
  BY <1>1, LoopInvInit, LoopInvNext, PTL DEF Spec

-----------------------------------------------------------------------------
(* Types.  That the image being made is one, and that a picture is there   *)
(* to draw it over, rests on who acknowledged what: the connection is made  *)
(* ready by an acknowledgement, that answers an image, and an image is     *)
(* queued for a connection only after it was sent a picture.               *)

\* Some command has one of the codes.
HasCode(cmds, codes) == \E i \in 1..Len(cmds) : cmds[i].code \in codes

\* A command of c with one of the codes is on its way to its handler.
Coming(c, codes) == HasCode(c2s[c], codes) \/ HasCode(Brought(c), codes)

\* Until the connection has broken, images and acknowledgements follow a picture.
AckInv ==
    \A c \in Client :
        /\ m_state[c] # RDCS_DISCONNECTED
        /\ m_bSendBitmapReady[c] \/ Coming(c, AnswerCodes) \/ HasCode(InFlight(c), ImageCodes)
        => sent[c] # Null

\* Pictures are of a capture; a connection that is accepted has none yet.
BufferInv ==
    /\ capture.pc = "first" => m_pBuffer # Null
    /\ m_pBuffer = Null => \A c \in m_mapClient : sent[c] = Null
    /\ \A c \in Client : m_state[c] = RDCS_INVALID => sent[c] = Null
    /\ lev.pc = "connected" => m_state[lev.conn] = RDCS_INVALID

\* What the UI thread has in hand inside a handler.
HandlerInv ==
    /\ ui.pc = "free" => ui = UiFree
    /\ ui.pc = "notify" =>
         /\ ui = [UiFree EXCEPT !.pc = "notify", !.todo = ui.todo, !.blocks = ui.blocks]
    /\ ui.pc = "compress" =>
         /\ ui.conn \in m_mapClient /\ ui.todo = {}
         /\ m_pBuffer # Null /\ ui.img \in Bitmap
         /\ m_state[ui.conn] = RDCS_TRANSFER /\ m_pnModifiedBlocks[ui.conn] = <<>>
    /\ ui.pc = "clip" =>
         /\ ui.conn \in ui.todo /\ sent[ui.conn] # Null
         /\ m_pnModifiedBlocks[ui.conn] # Null
         /\ ui.next \in 1..Len(m_pnModifiedBlocks[ui.conn]) + 1
         /\ DOMAIN ui.img = {m_pnModifiedBlocks[ui.conn][i] : i \in 1..ui.next - 1}

SyncInv == TypeOK /\ LoopInv /\ AckInv /\ BufferInv /\ HandlerInv

\* The parts of the type invariant.
CapOK ==
    /\ m_uThreadId \in BOOLEAN /\ stopped \in BOOLEAN /\ crashed \in BOOLEAN
    /\ m_pBuffer \in Bitmap \cup {Null}
    /\ capture \in {Idle} \cup [pc : {"first"}]
    /\ notices \in Seq((SUBSET Block) \ {{}}) /\ Len(notices) <= MaxNotices
LevOK ==
    /\ m_mapClient \subseteq Client
    /\ lev \in {Idle} \cup [pc : {"connected", "disconnected"}, conn : Client]
               \cup [pc : {"command"}, conn : Client, cmds : Seq(ClientCommand) \ {<<>>}]
UiOK ==
    ui \in [pc : {"free", "notify", "clip", "compress"}, todo : SUBSET Client,
            blocks : SUBSET Block, conn : Client \cup {Null}, next : Nat,
            img : PartialImage, torn : BOOLEAN]
ConnOK ==
    /\ m_state \in [Client -> ConnectionState]
    /\ m_pAsynSendCommandEvent \in [Client -> BOOLEAN]
    /\ m_bSendBitmapReady \in [Client -> BOOLEAN]
    /\ garbled \in [Client -> BOOLEAN]
ListOK ==
    /\ m_pnModifiedBlocks \in [Client -> Seq(Block) \cup {Null}]
    /\ \A c \in Client :
         m_pnModifiedBlocks[c] # Null => Len(m_pnModifiedBlocks[c]) <= BlockCount
    /\ lost \in [Client -> SUBSET Block]
SentOK ==
    /\ m_queueAsynCommand \in [Client -> Seq(ServerCommand)]
    /\ sent \in [Client -> [Block -> Pixels] \cup {Null}]
NetOK ==
    s2c \in [Client -> Seq(ServerCommand)] /\ c2s \in [Client -> Seq(ClientCommand)]
CliOK ==
    /\ cliState \in [Client -> {RDCS_INVALID, RDCS_LOGON, RDCS_COMPRESS_MODE, RDCS_TRANSFER}]
    /\ view \in [Client -> [Block -> Pixels] \cup {Null}]

-----------------------------------------------------------------------------
(* Lists of commands.                                                      *)

LEMMA NoCode == ASSUME NEW codes PROVE ~HasCode(<<>>, codes)
BY DEF HasCode

LEMMA CodeOfConcat ==
    ASSUME NEW S, NEW s \in Seq(S), NEW T, NEW t \in Seq(T), NEW codes
    PROVE  HasCode(s \o t, codes) <=> HasCode(s, codes) \/ HasCode(t, codes)
<1> DEFINE st == s \o t
<1>1. Len(s) \in Nat /\ Len(t) \in Nat /\ Len(st) = Len(s) + Len(t)
  OBVIOUS
<1>2. \A i \in 1..Len(s) : st[i] = s[i] /\ i \in 1..Len(st)
  BY <1>1
<1>3. \A i \in 1..Len(t) : st[Len(s) + i] = t[i] /\ Len(s) + i \in 1..Len(st)
  BY <1>1
<1>4. \A i \in 1..Len(st) : i \in 1..Len(s) \/ (i - Len(s) \in 1..Len(t) /\ st[i] = t[i - Len(s)])
  BY <1>1
<1> HIDE DEF st
<1>5. HasCode(st, codes) <=> HasCode(s, codes) \/ HasCode(t, codes)
  BY <1>2, <1>3, <1>4 DEF HasCode
<1> QED
  BY <1>5 DEF st

LEMMA CodeOfAppend ==
    ASSUME NEW S, NEW s \in Seq(S), NEW e, NEW codes
    PROVE  HasCode(Append(s, e), codes) <=> HasCode(s, codes) \/ e.code \in codes
<1> DEFINE st == Append(s, e)
<1>1. Len(s) \in Nat /\ Len(st) = Len(s) + 1 /\ st[Len(s) + 1] = e
  OBVIOUS
<1>2. \A i \in 1..Len(s) : st[i] = s[i] /\ i \in 1..Len(st)
  BY <1>1
<1>3. \A i \in 1..Len(st) : i \in 1..Len(s) \/ i = Len(s) + 1
  BY <1>1
<1>4. Len(s) + 1 \in 1..Len(st)
  BY <1>1
<1> HIDE DEF st
<1>5. HasCode(st, codes) <=> HasCode(s, codes) \/ e.code \in codes
  BY <1>1, <1>2, <1>3, <1>4 DEF HasCode
<1> QED
  BY <1>5 DEF st

LEMMA CodeOfTail ==
    ASSUME NEW S, NEW s \in Seq(S), s # <<>>, NEW codes
    PROVE  HasCode(s, codes) <=> Head(s).code \in codes \/ HasCode(Tail(s), codes)
<1> DEFINE t == Tail(s)
<1>1. Len(s) \in Nat \ {0} /\ Len(t) = Len(s) - 1 /\ s[1] = Head(s)
  OBVIOUS
<1>2. \A i \in 1..Len(t) : s[i + 1] = t[i] /\ i + 1 \in 1..Len(s)
  BY <1>1
<1>3. \A i \in 1..Len(s) : i = 1 \/ (i - 1 \in 1..Len(t) /\ s[i] = t[i - 1])
  BY <1>1
<1>4. 1 \in 1..Len(s)
  BY <1>1
<1> HIDE DEF t
<1>5. HasCode(s, codes) <=> Head(s).code \in codes \/ HasCode(t, codes)
  BY <1>1, <1>2, <1>3, <1>4 DEF HasCode
<1> QED
  BY <1>5 DEF t

LEMMA CodeOfSplit ==
    ASSUME NEW S, NEW s \in Seq(S), NEW n \in 1..Len(s), NEW codes
    PROVE  HasCode(s, codes) <=> \/ HasCode(SubSeq(s, 1, n), codes)
                                 \/ HasCode(SubSeq(s, n + 1, Len(s)), codes)
<1> DEFINE f == SubSeq(s, 1, n)
           r == SubSeq(s, n + 1, Len(s))
<1>1. Len(s) \in Nat /\ n \in Nat /\ n <= Len(s) /\ Len(f) = n /\ Len(r) = Len(s) - n
  OBVIOUS
<1>2. \A i \in 1..Len(f) : s[i] = f[i] /\ i \in 1..Len(s)
  BY <1>1
<1>3. \A i \in 1..Len(r) : s[n + i] = r[i] /\ n + i \in 1..Len(s)
  BY <1>1
<1>4. \A i \in 1..Len(s) : i \in 1..Len(f) \/ (i - n \in 1..Len(r) /\ s[i] = r[i - n])
  BY <1>1
<1> HIDE DEF f, r
<1>5. HasCode(s, codes) <=> HasCode(f, codes) \/ HasCode(r, codes)
  BY <1>2, <1>3, <1>4 DEF HasCode
<1> QED
  BY <1>5 DEF f, r

LEMMA SyncTypeParts ==
    /\ TypeOK <=> CapOK /\ LevOK /\ UiOK /\ ConnOK /\ ListOK /\ SentOK /\ NetOK /\ CliOK
    /\ TypeOK' <=> (CapOK /\ LevOK /\ UiOK /\ ConnOK /\ ListOK /\ SentOK /\ NetOK /\ CliOK)'
BY Zenon DEF TypeOK, CapOK, LevOK, UiOK, ConnOK, ListOK, SentOK, NetOK, CliOK

\* An image has pixels for some blocks.
LEMMA ImageShape ==
    ASSUME NEW img
    PROVE  img \in PartialImage <=>
             /\ img = [b \in DOMAIN img |-> img[b]] /\ DOMAIN img \subseteq Block
             /\ \A b \in DOMAIN img : img[b] \in Pixels
<1>1. ASSUME img \in PartialImage
      PROVE  /\ img = [b \in DOMAIN img |-> img[b]] /\ DOMAIN img \subseteq Block
             /\ \A b \in DOMAIN img : img[b] \in Pixels
  <2>1. PICK B \in SUBSET Block : img \in [B -> Pixels]
    BY <1>1 DEF PartialImage
  <2> QED
    BY <2>1
<1>2. ASSUME img = [b \in DOMAIN img |-> img[b]], DOMAIN img \subseteq Block,
             \A b \in DOMAIN img : img[b] \in Pixels
      PROVE  img \in PartialImage
  <2>1. img \in [DOMAIN img -> Pixels]
    BY <1>2
  <2> QED
    BY <1>2, <2>1 DEF PartialImage
<1> QED
  BY <1>1, <1>2

\* A capture is a picture, and a picture is an image of all blocks.
LEMMA PictureIsImage ==
    /\ Bitmap \subseteq [Block -> Pixels] /\ [Block -> Pixels] \subseteq PartialImage
    /\ Null \notin [Block -> Pixels] /\ Null \notin Client /\ Null \notin Seq(Block)
<1>1. Bitmap \subseteq [Block -> Pixels]
  BY DEF Bitmap, Pixels
<1>2. [Block -> Pixels] \subseteq PartialImage
  BY DEF PartialImage
<1>3. Null \notin [Block -> Pixels] /\ Null \notin Client /\ Null \notin Seq(Nat)
  BY ScreenSyncAssumption DEF Block, Pixels
<1>4. Block \subseteq Nat
  BY DEF Block
<1>5. Null \notin Seq(Block)
  BY <1>3, <1>4, SeqSubset, Zenon
<1> QED
  BY <1>1, <1>2, <1>3, <1>5

\* An image drawn over a picture gives a picture.
LEMMA DrawnPicture ==
    ASSUME NEW img \in PartialImage, NEW picture \in [Block -> Pixels]
    PROVE  Drawn(img, picture) \in [Block -> Pixels]
<1>1. \A b \in DOMAIN img : img[b] \in Pixels
  BY ImageShape
<1> QED
  BY <1>1 DEF Drawn

\* What the server sends.
LEMMA ServerCommands ==
    /\ Command(RDCC_LOGON_RESULT) \in ServerCommand
    /\ \A img \in [Block -> Pixels] : Image(RDCC_TRANSFER_BITMAP, img) \in ServerCommand
    /\ \A img \in PartialImage : Image(RDCC_TRANSFER_MODIFY_BITMAP, img) \in ServerCommand
    /\ \A m \in ServerCommand :
         /\ m.code \in ImageCodes \cup {RDCC_LOGON_RESULT}
         /\ m.code = RDCC_TRANSFER_BITMAP => m.img \in [Block -> Pixels]
         /\ m.code = RDCC_TRANSFER_MODIFY_BITMAP => m.img \in PartialImage
<1>1. Command(RDCC_LOGON_RESULT) \in ServerCommand
  BY DEF Command, ServerCommand, Commands
<1>2. /\ \A img \in [Block -> Pixels] : Image(RDCC_TRANSFER_BITMAP, img) \in ServerCommand
      /\ \A img \in PartialImage : Image(RDCC_TRANSFER_MODIFY_BITMAP, img) \in ServerCommand
  BY DEF Image, ServerCommand, Images
<1>3. ASSUME NEW m \in ServerCommand
      PROVE  /\ m.code \in ImageCodes \cup {RDCC_LOGON_RESULT}
             /\ m.code = RDCC_TRANSFER_BITMAP => m.img \in [Block -> Pixels]
             /\ m.code = RDCC_TRANSFER_MODIFY_BITMAP => m.img \in PartialImage
  <2>1. CASE m \in Commands({RDCC_LOGON_RESULT})
    BY <2>1 DEF Commands, RDCC_LOGON_RESULT, RDCC_TRANSFER_BITMAP, RDCC_TRANSFER_MODIFY_BITMAP
  <2>2. CASE m \in Images
    BY <2>2 DEF Images, ImageCodes, RDCC_TRANSFER_BITMAP, RDCC_TRANSFER_MODIFY_BITMAP
  <2> QED
    BY <2>1, <2>2 DEF ServerCommand
<1> QED
  BY <1>1, <1>2, <1>3

\* The initial state.
LEMMA InitSync == Init => SyncInv
<1> SUFFICES ASSUME Init PROVE SyncInv
  OBVIOUS
<1> USE DEF Init
<1>1. CapOK
  <2>1. Len(<<>>) <= MaxNotices
    BY ScreenSyncAssumption
  <2>2. notices \in Seq((SUBSET Block) \ {{}}) /\ Len(notices) <= MaxNotices
    BY <2>1
  <2>3. m_pBuffer \in Bitmap \cup {Null} /\ capture \in {Idle} \cup [pc : {"first"}]
    OBVIOUS
  <2>4. m_uThreadId \in BOOLEAN /\ stopped \in BOOLEAN /\ crashed \in BOOLEAN
    BY Zenon
  <2> QED
    BY <2>2, <2>3, <2>4 DEF CapOK
<1>2. LevOK
  BY DEF LevOK
<1>3. UiOK
  <2>1. <<>> \in PartialImage
    <3>1. <<>> = [b \in {} |-> Torn] /\ DOMAIN <<>> = {}
      OBVIOUS
    <3> QED
      BY <3>1, ImageShape
  <2> QED
    BY <2>1 DEF UiOK, UiFree
<1>4. ConnOK
  BY DEF ConnOK, ConnectionState
<1>5. ListOK /\ SentOK /\ NetOK /\ CliOK
  BY DEF ListOK, SentOK, NetOK, CliOK
<1>6. TypeOK
  BY <1>1, <1>2, <1>3, <1>4, <1>5, SyncTypeParts
<1>7. BufferInv /\ HandlerInv
  BY DEF BufferInv, HandlerInv, Idle, UiFree
<1>8. AckInv
  <2>1. \A c \in Client : /\ m_bSendBitmapReady[c] = FALSE /\ c2s[c] = <<>> /\ Brought(c) = <<>>
                         /\ InFlight(c) = <<>>
    BY DEF Brought, InFlight, Idle
  <2> QED
    BY <2>1, NoCode DEF AckInv, Coming
<1> QED
  BY <1>6, <1>7, <1>8, LoopInvInit DEF SyncInv

\* What a step does not touch keeps its type.
LEMMA SyncFrame ==
    /\ LevOK /\ UNCHANGED <<m_mapClient, lev>> => LevOK'
    /\ UiOK /\ UNCHANGED ui => UiOK'
    /\ ListOK /\ UNCHANGED <<m_pnModifiedBlocks, lost>> => ListOK'
    /\ SentOK /\ UNCHANGED <<m_queueAsynCommand, sent>> => SentOK'
    /\ NetOK /\ UNCHANGED <<s2c, c2s>> => NetOK'
    /\ CliOK /\ UNCHANGED <<cliState, view>> => CliOK'
    /\ CapOK /\ UNCHANGED <<m_uThreadId, stopped, crashed, m_pBuffer, capture, notices>> => CapOK'
    /\ ConnOK /\ UNCHANGED <<m_state, m_pAsynSendCommandEvent, m_bSendBitmapReady, garbled>> => ConnOK'
<1>1. /\ LevOK /\ UNCHANGED <<m_mapClient, lev>> => LevOK'
      /\ UiOK /\ UNCHANGED ui => UiOK'
      /\ ListOK /\ UNCHANGED <<m_pnModifiedBlocks, lost>> => ListOK'
      /\ SentOK /\ UNCHANGED <<m_queueAsynCommand, sent>> => SentOK'
      /\ NetOK /\ UNCHANGED <<s2c, c2s>> => NetOK'
      /\ CliOK /\ UNCHANGED <<cliState, view>> => CliOK'
  BY DEF LevOK, UiOK, ListOK, SentOK, NetOK, CliOK
<1>2. CapOK /\ UNCHANGED <<m_uThreadId, stopped, crashed, m_pBuffer, capture, notices>> => CapOK'
  BY Zenon DEF CapOK
<1>3. ConnOK /\ UNCHANGED <<m_state, m_pAsynSendCommandEvent, m_bSendBitmapReady, garbled>> => ConnOK'
  BY DEF ConnOK
<1> QED
  BY <1>1, <1>2, <1>3

LEMMA AckFrame ==
    AckInv /\ UNCHANGED <<m_state, m_bSendBitmapReady, c2s, lev, s2c, m_queueAsynCommand, sent>>
    => AckInv'
BY DEF AckInv, Coming, Brought, InFlight, HasCode

LEMMA SyncCapture ==
    ASSUME SyncInv, CaptureThread
    PROVE  TypeOK' /\ AckInv' /\ BufferInv' /\ HandlerInv'
<1>1. /\ UNCHANGED <<m_mapClient, lev, m_state, m_pAsynSendCommandEvent, m_bSendBitmapReady,
                     m_pnModifiedBlocks, m_queueAsynCommand, sent, lost, garbled, s2c, c2s,
                     cliState, view>>
      /\ UNCHANGED <<m_uThreadId, stopped, crashed>>
  BY Zenon DEF CaptureThread, CaptureFirst, CaptureSwap, connVars, cliVars
<1>2. ui' = ui \/ ui' = [ui EXCEPT !.torn = TRUE]
  BY DEF CaptureThread, CaptureFirst, CaptureSwap, Overtake
<1>3. UiOK' /\ ui'.pc = ui.pc /\ ui'.todo = ui.todo /\ ui'.blocks = ui.blocks /\ ui'.conn = ui.conn
      /\ ui'.next = ui.next /\ ui'.img = ui.img
  BY <1>2, SyncTypeParts DEF SyncInv, UiOK
<1>4. ui.pc \in {"free", "notify"} => ui' = ui
  BY DEF CaptureThread, CaptureFirst, CaptureSwap, Overtake, Overtaken
<1>5. m_pBuffer' \in Bitmap /\ m_pBuffer' # Null
  BY PictureIsImage DEF CaptureThread, CaptureFirst, CaptureSwap
<1>6. capture' = capture \/ capture' = [pc |-> "first"]
  BY DEF CaptureThread, CaptureFirst, CaptureSwap
<1>7. notices' \in Seq((SUBSET Block) \ {{}}) /\ Len(notices') <= MaxNotices
  <2>1. notices \in Seq((SUBSET Block) \ {{}}) /\ Len(notices) <= MaxNotices
    BY DEF SyncInv, TypeOK
  <2>2. CASE CaptureFirst
    BY <2>1, <2>2 DEF CaptureFirst
  <2>3. CASE CaptureSwap
    <3>1. PICK new \in Bitmap :
            /\ ModifiedBlocks(new, m_pBuffer) = {} \/ Len(notices) < MaxNotices
            /\ notices' = IF ModifiedBlocks(new, m_pBuffer) = {} THEN notices
                          ELSE Append(notices, ModifiedBlocks(new, m_pBuffer))
      BY <2>3 DEF CaptureSwap
    <3>2. ModifiedBlocks(new, m_pBuffer) \in SUBSET Block
      BY DEF ModifiedBlocks, Bitmap
    <3>3. CASE ModifiedBlocks(new, m_pBuffer) = {}
      BY <2>1, <3>1, <3>3
    <3>4. CASE ModifiedBlocks(new, m_pBuffer) # {}
      <4>1. ModifiedBlocks(new, m_pBuffer) \in (SUBSET Block) \ {{}}
        BY <3>2, <3>4
      <4>2. notices' = Append(notices, ModifiedBlocks(new, m_pBuffer)) /\ Len(notices) < MaxNotices
        BY <3>1, <3>4
      <4>3. Len(notices) \in Nat /\ MaxNotices \in Nat
        BY <2>1, ScreenSyncAssumption
      <4>4. notices' \in Seq((SUBSET Block) \ {{}})
        BY <2>1, <4>1, <4>2
      <4>5. Len(notices') = Len(notices) + 1
        BY <2>1, <4>1, <4>2
      <4> QED
        BY <4>2, <4>3, <4>4, <4>5
    <3> QED
      BY <3>3, <3>4
  <2> QED
    BY <2>2, <2>3 DEF CaptureThread
<1>8. CapOK'
  <2>1. m_uThreadId' \in BOOLEAN /\ stopped' \in BOOLEAN /\ crashed' \in BOOLEAN
    BY <1>1, Zenon DEF SyncInv, TypeOK
  <2>2. m_pBuffer' \in Bitmap \cup {Null} /\ capture' \in {Idle} \cup [pc : {"first"}]
    BY <1>5, <1>6 DEF SyncInv, TypeOK
  <2> QED
    BY <1>7, <2>1, <2>2, Zenon DEF CapOK
<1>9. TypeOK'
  BY <1>1, <1>3, <1>8, SyncTypeParts, SyncFrame DEF SyncInv
<1>10. AckInv'
  BY <1>1, AckFrame DEF SyncInv
<1>11. BufferInv'
  BY <1>1, <1>5 DEF SyncInv, BufferInv
<1>12. HandlerInv'
  BY <1>1, <1>3, <1>4, <1>5 DEF SyncInv, HandlerInv
<1> QED
  BY <1>9, <1>10, <1>11, <1>12

\* What the UI thread has in hand when it is in no handler.
LEMMA UiFreeFields ==
    /\ UiFree.pc = "free" /\ UiFree.todo = {} /\ UiFree.blocks = {} /\ UiFree.conn = Null
    /\ UiFree.next = 1 /\ UiFree.img = <<>> /\ UiFree.torn = FALSE
    /\ UiFree \in [pc : {"free", "notify", "clip", "compress"}, todo : SUBSET Client,
                   blocks : SUBSET Block, conn : Client \cup {Null}, next : Nat,
                   img : PartialImage, torn : BOOLEAN]
<1>1. <<>> \in PartialImage
  <2>1. <<>> = [b \in {} |-> Torn] /\ DOMAIN <<>> = {}
    OBVIOUS
  <2> QED
    BY <2>1, ImageShape
<1> QED
  BY <1>1 DEF UiFree

\* OnAsynSendCommand moves commands from the queue to the connection.
LEMMA FlushKeepsInFlight ==
    ASSUME TypeOK, NEW c \in Client, OnAsynSendCommand(c)
    PROVE  \A d \in Client : InFlight(d)' = InFlight(d)
<1> SUFFICES ASSUME NEW d \in Client PROVE InFlight(d)' = InFlight(d)
  OBVIOUS
<1>1. /\ s2c[d] \in Seq(ServerCommand) /\ m_queueAsynCommand[d] \in Seq(ServerCommand)
      /\ s2c' = [s2c EXCEPT ![c] = @ \o m_queueAsynCommand[c]]
      /\ m_queueAsynCommand' = [m_queueAsynCommand EXCEPT ![c] = <<>>]
      /\ s2c \in [Client -> Seq(ServerCommand)] /\ m_queueAsynCommand \in [Client -> Seq(ServerCommand)]
  BY DEF TypeOK, OnAsynSendCommand
<1>2. CASE d # c
  BY <1>1, <1>2 DEF InFlight
<1>3. CASE d = c
  <2>1. s2c'[d] = s2c[d] \o m_queueAsynCommand[d] /\ m_queueAsynCommand'[d] = <<>>
    BY <1>1, <1>3
  <2>2. (s2c[d] \o m_queueAsynCommand[d]) \o <<>> = s2c[d] \o m_queueAsynCommand[d]
    BY <1>1
  <2> QED
    BY <2>1, <2>2 DEF InFlight
<1> QED
  BY <1>2, <1>3

LEMMA SyncLibevent ==
    ASSUME SyncInv, NEW c \in Client, LibeventThread(c) \/ conn_eventcb(c)
    PROVE  TypeOK' /\ AckInv' /\ BufferInv' /\ HandlerInv'
<1>1. UNCHANGED <<m_uThreadId, stopped, crashed, m_pBuffer, capture, notices>>
  BY Zenon DEF LibeventThread, listener_cb, conn_readcb, conn_eventcb, OnAsynSendCommand, capVars
<1>2. UNCHANGED <<ui, m_state, m_bSendBitmapReady, m_pnModifiedBlocks, sent, lost, garbled,
                  cliState, view>>
  BY DEF LibeventThread, listener_cb, conn_readcb, conn_eventcb, OnAsynSendCommand, connVars, cliVars
<1>3. lev = Idle /\ \A d \in Client : Brought(d) = <<>>
  <2>1. lev = Idle
    BY Zenon DEF LibeventThread, listener_cb, conn_readcb, conn_eventcb, OnAsynSendCommand
  <2> QED
    BY <2>1 DEF Idle, Brought
<1>t. LevOK' /\ NetOK' /\ SentOK' /\ ConnOK' => TypeOK'
  BY <1>1, <1>2, SyncTypeParts, SyncFrame DEF SyncInv
<1>h. ASSUME m_mapClient \subseteq m_mapClient' \/ ui = UiFree PROVE HandlerInv'
  BY <1>1, <1>2, <1>h, UiFreeFields DEF SyncInv, HandlerInv
<1>p. LevOK /\ NetOK /\ SentOK /\ ConnOK
  BY SyncTypeParts DEF SyncInv
<1>4. CASE listener_cb(c)
  <2>1. lev' = [pc |-> "connected", conn |-> c] /\ UNCHANGED <<s2c, c2s, m_queueAsynCommand>>
        /\ m_mapClient' = m_mapClient \cup {c} /\ m_state[c] = RDCS_INVALID
    BY <1>4 DEF listener_cb
  <2>2. LevOK'
    BY <1>p, <2>1 DEF LevOK
  <2>3. ConnOK'
    BY <1>p, <1>2, <1>4 DEF ConnOK, listener_cb
  <2>4. TypeOK'
    BY <1>p, <1>2, <1>t, <2>1, <2>2, <2>3, SyncFrame
  <2>5. \A d \in Client : Brought(d)' = <<>> /\ InFlight(d)' = InFlight(d)
    BY <2>1 DEF Brought, InFlight
  <2>6. AckInv'
    BY <1>2, <1>3, <2>1, <2>5 DEF SyncInv, AckInv, Coming
  <2>7. BufferInv'
    BY <1>1, <1>2, <2>1 DEF SyncInv, BufferInv
  <2> QED
    BY <1>h, <2>1, <2>4, <2>6, <2>7
<1>5. CASE conn_readcb(c)
  <2>1. PICK n \in 1..Len(c2s[c]) :
          /\ lev' = [pc |-> "command", conn |-> c, cmds |-> SubSeq(c2s[c], 1, n)]
          /\ c2s' = [c2s EXCEPT ![c] = SubSeq(@, n + 1, Len(@))]
    BY <1>5 DEF conn_readcb
  <2>2. UNCHANGED <<m_mapClient, s2c, m_queueAsynCommand, m_pAsynSendCommandEvent>>
    BY <1>5 DEF conn_readcb, connVars
  <2>3. c2s[c] \in Seq(ClientCommand) /\ c2s \in [Client -> Seq(ClientCommand)]
    BY <1>p DEF NetOK
  <2>4. /\ SubSeq(c2s[c], 1, n) \in Seq(ClientCommand) /\ SubSeq(c2s[c], 1, n) # <<>>
        /\ SubSeq(c2s[c], n + 1, Len(c2s[c])) \in Seq(ClientCommand)
    <3>1. c2s[c] \in Chunk
      BY DEF SyncInv, LoopInv, VersionInv
    <3> QED
      BY <3>1, ChunkSplit DEF Chunk
  <2>5. LevOK'
    BY <1>p, <2>1, <2>2, <2>4 DEF LevOK
  <2>6. NetOK'
    BY <1>p, <2>1, <2>2, <2>3, <2>4 DEF NetOK
  <2>7. TypeOK'
    BY <1>p, <1>2, <1>t, <2>2, <2>5, <2>6, SyncFrame
  <2>8. /\ Coming(c, AnswerCodes)' => Coming(c, AnswerCodes)
        /\ \A d \in Client \ {c} : Coming(d, AnswerCodes)' = Coming(d, AnswerCodes)
    <3>1. c2s'[c] = SubSeq(c2s[c], n + 1, Len(c2s[c])) /\ Brought(c)' = SubSeq(c2s[c], 1, n)
      BY <2>1, <2>3 DEF Brought
    <3>2. \A d \in Client \ {c} : c2s'[d] = c2s[d] /\ Brought(d)' = <<>>
      BY <2>1, <2>3 DEF Brought
    <3>3. HasCode(c2s[c], AnswerCodes) <=> \/ HasCode(SubSeq(c2s[c], 1, n), AnswerCodes)
                                           \/ HasCode(SubSeq(c2s[c], n + 1, Len(c2s[c])), AnswerCodes)
      BY <2>3, CodeOfSplit
    <3> QED
      BY <1>3, <3>1, <3>2, <3>3 DEF Coming
  <2>9. AckInv'
    BY <1>2, <2>2, <2>8 DEF SyncInv, AckInv, InFlight
  <2>10. BufferInv'
    BY <1>1, <1>2, <2>1, <2>2 DEF SyncInv, BufferInv
  <2> QED
    BY <1>h, <2>2, <2>7, <2>9, <2>10
<1>6. CASE OnAsynSendCommand(c)
  <2>1. /\ s2c' = [s2c EXCEPT ![c] = @ \o m_queueAsynCommand[c]]
        /\ m_queueAsynCommand' = [m_queueAsynCommand EXCEPT ![c] = <<>>]
        /\ UNCHANGED <<m_mapClient, lev, c2s, m_pAsynSendCommandEvent>>
    BY <1>6 DEF OnAsynSendCommand
  <2>2. NetOK' /\ SentOK'
    BY <1>2, <1>p, <2>1 DEF NetOK, SentOK
  <2>3. TypeOK'
    BY <1>p, <1>2, <1>t, <2>1, <2>2, SyncFrame
  <2>4. \A d \in Client : InFlight(d)' = InFlight(d)
    BY <1>6, FlushKeepsInFlight DEF SyncInv
  <2>5. AckInv'
    BY <1>2, <2>1, <2>4 DEF SyncInv, AckInv, Coming, Brought
  <2>6. BufferInv'
    BY <1>1, <1>2, <2>1 DEF SyncInv, BufferInv
  <2> QED
    BY <1>h, <2>1, <2>3, <2>5, <2>6
<1>7. CASE conn_eventcb(c)
  <2>1. /\ m_mapClient' = m_mapClient \ {c} /\ lev' = [pc |-> "disconnected", conn |-> c]
        /\ s2c' = [s2c EXCEPT ![c] = <<>>] /\ c2s' = [c2s EXCEPT ![c] = <<>>]
        /\ UNCHANGED <<m_queueAsynCommand, m_pAsynSendCommandEvent>> /\ ui = UiFree
    BY <1>7 DEF conn_eventcb, connVars
  <2>2. LevOK' /\ NetOK'
    BY <1>p, <2>1 DEF LevOK, NetOK
  <2>3. TypeOK'
    BY <1>p, <1>2, <1>t, <2>1, <2>2, SyncFrame
  <2>4. ASSUME NEW d \in Client
        PROVE  /\ Coming(d, AnswerCodes)' => Coming(d, AnswerCodes)
               /\ HasCode(InFlight(d)', ImageCodes) => HasCode(InFlight(d), ImageCodes)
    <3>1. s2c[d] \in Seq(ServerCommand) /\ m_queueAsynCommand[d] \in Seq(ServerCommand)
      BY <1>p DEF NetOK, SentOK
    <3>2. Brought(d)' = <<>> /\ c2s'[d] \in {c2s[d], <<>>} /\ s2c'[d] \in {s2c[d], <<>>}
          /\ m_queueAsynCommand'[d] = m_queueAsynCommand[d]
      BY <1>p, <2>1 DEF Brought, NetOK
    <3>3. InFlight(d) = s2c[d] \o m_queueAsynCommand[d]
          /\ (InFlight(d)' = InFlight(d) \/ InFlight(d)' = m_queueAsynCommand[d])
      <4>1. <<>> \o m_queueAsynCommand[d] = m_queueAsynCommand[d]
        BY <3>1
      <4> QED
        BY <3>2, <4>1, Zenon DEF InFlight
    <3>4. HasCode(InFlight(d), ImageCodes)
            <=> HasCode(s2c[d], ImageCodes) \/ HasCode(m_queueAsynCommand[d], ImageCodes)
      BY <3>1, <3>3, CodeOfConcat
    <3> QED
      BY <3>2, <3>3, <3>4, NoCode DEF Coming
  <2>5. AckInv'
    BY <1>2, <2>4 DEF SyncInv, AckInv
  <2>6. BufferInv'
    BY <1>1, <1>2, <2>1 DEF SyncInv, BufferInv
  <2> QED
    BY <1>h, <2>1, <2>3, <2>5, <2>6
<1> QED
  BY <1>4, <1>5, <1>6, <1>7 DEF LibeventThread

LEMMA SyncConnections ==
    ASSUME SyncInv, NEW c \in Client, OnClientConnected(c) \/ OnClientDisconnected(c)
    PROVE  TypeOK' /\ AckInv' /\ BufferInv' /\ HandlerInv'
<1>1. UNCHANGED <<m_mapClient, ui, m_bSendBitmapReady, garbled, s2c, c2s, cliState, view>>
      /\ ui = UiFree /\ lev' = Idle /\ lev \in {[pc |-> "connected", conn |-> c],
                                                [pc |-> "disconnected", conn |-> c]}
  BY DEF OnClientConnected, OnClientDisconnected, connVars, cliVars
<1>2. \A d \in Client : Brought(d) = <<>> /\ Brought(d)' = <<>>
  BY <1>1 DEF Brought, Idle
<1>3. LevOK' /\ UiOK' /\ NetOK' /\ CliOK'
  <2>1. LevOK'
    BY <1>1, SyncTypeParts DEF SyncInv, LevOK
  <2> QED
    BY <1>1, <2>1, SyncTypeParts, SyncFrame DEF SyncInv
<1>4. HandlerInv'
  BY <1>1, UiFreeFields DEF HandlerInv
<1>p. CapOK /\ ConnOK /\ ListOK /\ SentOK
  BY SyncTypeParts DEF SyncInv
<1>5. CASE OnClientConnected(c)
  <2>1. /\ m_uThreadId' = TRUE
        /\ UNCHANGED <<stopped, m_pBuffer, capture, notices, crashed>>
    BY <1>5, Zenon DEF OnClientConnected
  <2>2. /\ lev = [pc |-> "connected", conn |-> c]
        /\ m_state' = [m_state EXCEPT ![c] = RDCS_CONNECTED]
        /\ UNCHANGED <<m_pAsynSendCommandEvent, m_pnModifiedBlocks, m_queueAsynCommand, sent, lost>>
    BY <1>5 DEF OnClientConnected, connVars
  <2>3. CapOK'
    BY <1>p, <2>1, Zenon DEF CapOK
  <2>4. ConnOK'
    BY <1>1, <1>p, <2>2 DEF ConnOK, ConnectionState
  <2>5. TypeOK'
    BY <1>3, <1>p, <2>2, <2>3, <2>4, SyncTypeParts, SyncFrame
  <2>6. m_state[c] = RDCS_INVALID
    BY <2>2 DEF SyncInv, BufferInv
  <2>7. AckInv'
    <3>1. \A d \in Client : InFlight(d)' = InFlight(d)
      BY <1>1, <2>2 DEF InFlight
    <3>2. \A d \in Client : m_state'[d] # RDCS_DISCONNECTED => m_state[d] # RDCS_DISCONNECTED
      BY <1>p, <2>2, <2>6 DEF ConnOK, RDCS_INVALID, RDCS_DISCONNECTED
    <3> QED
      BY <1>1, <1>2, <2>2, <3>1, <3>2 DEF SyncInv, AckInv, Coming
  <2>8. BufferInv'
    <3>1. \A d \in Client : m_state'[d] = RDCS_INVALID => m_state[d] = RDCS_INVALID
      BY <1>p, <2>2, <2>6 DEF ConnOK
    <3> QED
      BY <1>1, <2>1, <2>2, <3>1 DEF SyncInv, BufferInv, Idle
  <2> QED
    BY <1>4, <2>5, <2>7, <2>8
<1>6. CASE OnClientDisconnected(c)
  <2>1. /\ m_state' = [m_state EXCEPT ![c] = RDCS_DISCONNECTED]
        /\ m_pAsynSendCommandEvent' = [m_pAsynSendCommandEvent EXCEPT ![c] = FALSE]
        /\ m_queueAsynCommand' = [m_queueAsynCommand EXCEPT ![c] = <<>>]
        /\ m_pnModifiedBlocks' = [m_pnModifiedBlocks EXCEPT ![c] = Null]
        /\ sent' = [sent EXCEPT ![c] = Null] /\ lost' = [lost EXCEPT ![c] = {}]
    BY <1>6 DEF OnClientDisconnected
  <2>2. \/ UNCHANGED <<m_uThreadId, stopped, m_pBuffer, capture, notices, crashed>>
        \/ /\ m_mapClient = {} /\ m_uThreadId' = FALSE /\ stopped' = TRUE /\ m_pBuffer' = Null
           /\ capture' = Idle /\ notices' = <<>> /\ crashed' \in BOOLEAN
    BY <1>6, Zenon DEF OnClientDisconnected, StopCapture, capVars
  <2>3. CapOK'
    <3>1. <<>> \in Seq((SUBSET Block) \ {{}}) /\ Len(<<>>) <= MaxNotices
      BY ScreenSyncAssumption
    <3> QED
      BY <1>p, <2>2, <3>1, Zenon DEF CapOK
  <2>4. ConnOK'
    BY <1>1, <1>p, <2>1 DEF ConnOK, ConnectionState
  <2>5. ListOK'
    BY <1>p, <2>1 DEF ListOK
  <2>6. SentOK'
    BY <1>p, <2>1 DEF SentOK
  <2>7. TypeOK'
    BY <1>3, <2>3, <2>4, <2>5, <2>6, SyncTypeParts
  <2>8. /\ m_state'[c] = RDCS_DISCONNECTED /\ sent'[c] = Null
        /\ \A d \in Client \ {c} : /\ m_state'[d] = m_state[d] /\ sent'[d] = sent[d]
                                   /\ InFlight(d)' = InFlight(d)
    BY <1>1, <1>p, <2>1 DEF ConnOK, SentOK, InFlight
  <2>9. AckInv'
    <3> SUFFICES ASSUME NEW d \in Client, m_state'[d] # RDCS_DISCONNECTED,
                        \/ m_bSendBitmapReady'[d] \/ Coming(d, AnswerCodes)'
                        \/ HasCode(InFlight(d)', ImageCodes)
                 PROVE  sent'[d] # Null
      BY DEF AckInv
    <3>1. d # c
      BY <2>8
    <3> QED
      BY <1>1, <1>2, <2>8, <3>1 DEF SyncInv, AckInv, Coming
  <2>10. BufferInv'
    <3>1. lev'.pc # "connected" /\ \A d \in Client : m_state'[d] = RDCS_INVALID => sent'[d] = Null
      BY <1>1, <2>8 DEF SyncInv, BufferInv, Idle
    <3>2. \A d \in Client : sent[d] = Null => sent'[d] = Null
      BY <2>8
    <3>3. m_mapClient' \subseteq Client
      BY <1>3 DEF LevOK
    <3> QED
      BY <1>1, <2>2, <3>1, <3>2, <3>3 DEF SyncInv, BufferInv, Idle
  <2> QED
    BY <1>4, <2>7, <2>9, <2>10
<1> QED
  BY <1>5, <1>6

\* The command the libevent thread waits with, and the ones after it.
LEMMA BroughtCommands ==
    ASSUME TypeOK, lev.pc = "command"
    PROVE  /\ lev.conn \in Client /\ Brought(lev.conn) = lev.cmds
           /\ lev = [pc |-> "command", conn |-> lev.conn, cmds |-> lev.cmds]
           /\ lev.cmds \in Seq(ClientCommand) /\ lev.cmds # <<>>
           /\ \A d \in Client \ {lev.conn} : Brought(d) = <<>>
<1>1. lev \in [pc : {"command"}, conn : Client, cmds : Seq(ClientCommand) \ {<<>>}]
  BY DEF TypeOK, Idle
<1> QED
  BY <1>1 DEF Brought

LEMMA EmptyList == ASSUME NEW S, NEW s \in Seq(S), Len(s) = 0 PROVE s = <<>>
OBVIOUS

\* A handler that returns leaves the others; and it brings nothing new.
LEMMA ReturnBrings ==
    ASSUME TypeOK, NEW c \in Client, lev.pc = "command", lev.conn = c, Return
    PROVE  /\ lev' \in {Idle} \cup [pc : {"command"}, conn : Client, cmds : Seq(ClientCommand) \ {<<>>}]
           /\ Brought(c)' = Tail(lev.cmds)
           /\ \A d \in Client \ {c} : Brought(d)' = <<>>
           /\ \A d \in Client, codes \in SUBSET Nat :
                HasCode(Brought(d)', codes) => HasCode(Brought(d), codes)
<1>1. /\ Brought(c) = lev.cmds
      /\ lev = [pc |-> "command", conn |-> c, cmds |-> lev.cmds]
      /\ lev.cmds \in Seq(ClientCommand) /\ lev.cmds # <<>>
      /\ \A d \in Client \ {c} : Brought(d) = <<>>
  BY BroughtCommands
<1>2. Len(lev.cmds) \in Nat \ {0} /\ Tail(lev.cmds) \in Seq(ClientCommand)
      /\ Len(Tail(lev.cmds)) = Len(lev.cmds) - 1
  BY <1>1
<1>3. /\ lev' \in {Idle} \cup [pc : {"command"}, conn : Client, cmds : Seq(ClientCommand) \ {<<>>}]
      /\ Brought(c)' = Tail(lev.cmds)
      /\ \A d \in Client \ {c} : Brought(d)' = <<>>
  <2>1. CASE Len(lev.cmds) = 1
    <3>1. Tail(lev.cmds) = <<>>
      <4>1. Len(Tail(lev.cmds)) = 0
        BY <1>2, <2>1
      <4> QED
        BY <1>2, <4>1, EmptyList, Zenon
    <3> QED
      BY <2>1, <3>1 DEF Return, Brought, Idle
  <2>2. CASE Len(lev.cmds) # 1
    <3>1. lev' = [pc |-> "command", conn |-> c, cmds |-> Tail(lev.cmds)]
      BY <1>1, <2>2 DEF Return
    <3>2. Tail(lev.cmds) # <<>>
      <4>1. Len(Tail(lev.cmds)) # 0 /\ Len(<<>>) = 0
        BY <1>2, <2>2
      <4> QED
        BY <4>1, Zenon
    <3> QED
      BY <1>1, <1>2, <3>1, <3>2 DEF Brought
  <2> QED
    BY <2>1, <2>2
<1>4. ASSUME NEW d \in Client, NEW codes \in SUBSET Nat, HasCode(Brought(d)', codes)
      PROVE  HasCode(Brought(d), codes)
  <2>1. d = c
    BY <1>3, <1>4, NoCode
  <2>2. HasCode(Tail(lev.cmds), codes)
    BY <1>3, <1>4, <2>1
  <2> QED
    BY <1>1, <2>1, <2>2, CodeOfTail
<1> QED
  BY <1>3, <1>4

\* A command that does not change the picture.
LEMMA SyncReturned ==
    ASSUME SyncInv, NEW c \in Client, lev.pc = "command", lev.conn = c, ui = UiFree, Return,
           UNCHANGED <<m_uThreadId, stopped, crashed, m_pBuffer, capture, notices>>,
           UNCHANGED <<ui, m_pnModifiedBlocks, sent, lost, garbled, cliState, view>>
    PROVE  /\ m_mapClient' \subseteq Client => LevOK'
           /\ ConnOK' /\ SentOK' /\ NetOK' /\ LevOK' => TypeOK'
           /\ HandlerInv'
           /\ (m_mapClient' \subseteq m_mapClient
                /\ \A d \in Client : m_state'[d] = RDCS_INVALID => m_state[d] = RDCS_INVALID)
              => BufferInv'
<1>1. lev' \in {Idle} \cup [pc : {"command"}, conn : Client, cmds : Seq(ClientCommand) \ {<<>>}]
  BY ReturnBrings DEF SyncInv
<1>2. HandlerInv'
  BY UiFreeFields DEF HandlerInv
<1>3. m_mapClient' \subseteq Client => LevOK'
  BY <1>1 DEF LevOK
<1>4. ConnOK' /\ SentOK' /\ NetOK' /\ LevOK' => TypeOK'
  BY SyncTypeParts, SyncFrame DEF SyncInv
<1>5. lev'.pc # "connected"
  BY <1>1 DEF Idle
<1>6. (m_mapClient' \subseteq m_mapClient
        /\ \A d \in Client : m_state'[d] = RDCS_INVALID => m_state[d] = RDCS_INVALID)
      => BufferInv'
  BY <1>5 DEF SyncInv, BufferInv
<1> QED
  BY <1>2, <1>3, <1>4, <1>6

\* What a connection accepts tells its state.
LEMMA AcceptedIn ==
    ASSUME NEW state \in ConnectionState
    PROVE  /\ ServerAccepts(state, RDCC_PROTOCOL_VERSION) => state = RDCS_CONNECTED
           /\ ServerAccepts(state, RDCC_LOGON) => state = RDCS_PROTOCOL_VERSION
           /\ ServerAccepts(state, RDCC_COMPRESS_MODE) => state = RDCS_LOGON
           /\ ServerAccepts(state, RDCC_TRANSFER_BITMAP) => state \in {RDCS_COMPRESS_MODE, RDCS_TRANSFER}
           /\ ServerAccepts(state, RDCC_TRANSFER_BITMAP_RESPONSE) <=> state = RDCS_TRANSFER
BY DEF ServerAccepts, RDCC_PROTOCOL_VERSION, RDCC_LOGON, RDCC_COMPRESS_MODE, RDCC_TRANSFER_BITMAP,
       RDCC_TRANSFER_BITMAP_RESPONSE, RDCC_DISCONNECT

LEMMA SyncCommand ==
    ASSUME SyncInv, NEW c \in Client, OnReciveCommand(c)
    PROVE  TypeOK' /\ AckInv' /\ BufferInv' /\ HandlerInv'
<1>1. ui = UiFree /\ lev.pc = "command" /\ lev.conn = c
  BY DEF OnReciveCommand, IgnoreCommand, OnGetProtocalVersion, OnGetLogon, OnGetCompressMode,
         OnGetTransferBitmap, OnGetTransferBitmapResult, Receives, Waiting
<1>2. /\ UNCHANGED <<m_uThreadId, stopped, crashed, m_pBuffer, capture, notices>>
  BY Zenon DEF OnReciveCommand, IgnoreCommand, OnGetProtocalVersion, OnGetLogon, OnGetCompressMode,
         OnGetTransferBitmap, OnGetTransferBitmapResult, Receives, capVars
<1>3. UNCHANGED <<sent, lost, garbled, cliState, view>>
  BY DEF OnReciveCommand, IgnoreCommand, OnGetProtocalVersion, OnGetLogon, OnGetCompressMode,
         OnGetTransferBitmap, OnGetTransferBitmapResult, Receives, connVars, cliVars
<1>p. LevOK /\ ConnOK /\ SentOK /\ NetOK /\ ListOK /\ UiOK /\ TypeOK
  BY SyncTypeParts DEF SyncInv
<1>s. m_state[c] \in ConnectionState /\ m_mapClient \subseteq Client
      /\ m_state \in [Client -> ConnectionState]
  BY <1>p DEF ConnOK, LevOK
<1>4. /\ lev.cmds \in Seq(ClientCommand) /\ lev.cmds # <<>> /\ Brought(c) = lev.cmds
      /\ \A codes : HasCode(Brought(c), codes) <=> \/ Head(lev.cmds).code \in codes
                                                   \/ HasCode(Tail(lev.cmds), codes)
  BY <1>1, <1>p, BroughtCommands, CodeOfTail
<1>5. ASSUME Return
      PROVE  \A d \in Client : HasCode(Brought(d)', AnswerCodes) => HasCode(Brought(d), AnswerCodes)
  <2>1. AnswerCodes \in SUBSET Nat
    BY DEF AnswerCodes, RDCC_TRANSFER_BITMAP_RESPONSE
  <2> QED
    BY <1>1, <1>5, <1>p, <2>1, ReturnBrings
<1>6. ASSUME Return, UNCHANGED <<ui, m_pnModifiedBlocks>>
      PROVE  /\ m_mapClient' \subseteq Client => LevOK'
             /\ ConnOK' /\ SentOK' /\ NetOK' /\ LevOK' => TypeOK'
             /\ HandlerInv'
             /\ (m_mapClient' \subseteq m_mapClient
                  /\ \A d \in Client : m_state'[d] = RDCS_INVALID => m_state[d] = RDCS_INVALID)
                => BufferInv'
  BY <1>1, <1>2, <1>3, <1>6, SyncReturned
\* A step up in the negotiation.
<1>7. ASSUME NEW s \in ConnectionState, m_state' = [m_state EXCEPT ![c] = s],
             s \notin {RDCS_INVALID, RDCS_DISCONNECTED}, m_state[c] # RDCS_DISCONNECTED
      PROVE  /\ m_state' \in [Client -> ConnectionState]
             /\ \A d \in Client : m_state'[d] = RDCS_INVALID => m_state[d] = RDCS_INVALID
             /\ \A d \in Client : m_state'[d] # RDCS_DISCONNECTED => m_state[d] # RDCS_DISCONNECTED
  BY <1>7, <1>s
<1>8. CASE IgnoreCommand(c)
  <2>1. /\ Return /\ UNCHANGED <<m_mapClient, ui, m_state, s2c, c2s>>
        /\ UNCHANGED <<m_pnModifiedBlocks, m_pAsynSendCommandEvent, m_bSendBitmapReady, m_queueAsynCommand>>
    BY <1>8 DEF IgnoreCommand, connVars
  <2>2. TypeOK' /\ HandlerInv' /\ BufferInv'
    BY <1>3, <1>6, <1>p, <1>s, <2>1, SyncFrame
  <2>3. AckInv'
    BY <1>3, <1>5, <2>1 DEF SyncInv, AckInv, Coming, InFlight
  <2> QED
    BY <2>2, <2>3
<1>9. CASE OnGetProtocalVersion(c)
  <2>1. /\ Return /\ UNCHANGED <<ui, m_pnModifiedBlocks, m_bSendBitmapReady, m_queueAsynCommand>>
        /\ m_state[c] = RDCS_CONNECTED
    BY <1>9, <1>s, AcceptedIn DEF OnGetProtocalVersion, Receives
  <2>2. CASE m_state' = [m_state EXCEPT ![c] = RDCS_PROTOCOL_VERSION]
             /\ UNCHANGED <<m_mapClient, m_pAsynSendCommandEvent, s2c, c2s>>
    <3>1. /\ m_state' \in [Client -> ConnectionState]
          /\ \A d \in Client : m_state'[d] = RDCS_INVALID => m_state[d] = RDCS_INVALID
          /\ \A d \in Client : m_state'[d] # RDCS_DISCONNECTED => m_state[d] # RDCS_DISCONNECTED
      BY <1>7, <2>1, <2>2 DEF ConnectionState, RDCS_INVALID, RDCS_DISCONNECTED, RDCS_CONNECTED,
                              RDCS_PROTOCOL_VERSION
    <3>2. ConnOK'
      BY <1>3, <1>p, <2>1, <2>2, <3>1 DEF ConnOK
    <3>3. TypeOK' /\ HandlerInv' /\ BufferInv'
      BY <1>3, <1>6, <1>p, <1>s, <2>1, <2>2, <3>1, <3>2, SyncFrame
    <3>4. AckInv'
      BY <1>3, <1>5, <2>1, <2>2, <3>1 DEF SyncInv, AckInv, Coming, InFlight
    <3> QED
      BY <3>3, <3>4
  <2>3. CASE StopClient(c) /\ UNCHANGED m_state
    <3>1. /\ m_mapClient' = m_mapClient \ {c}
          /\ m_pAsynSendCommandEvent' = [m_pAsynSendCommandEvent EXCEPT ![c] = FALSE]
          /\ s2c' = [s2c EXCEPT ![c] = <<>>] /\ c2s' = [c2s EXCEPT ![c] = <<>>]
      BY <2>3 DEF StopClient
    <3>2. ConnOK' /\ NetOK'
      BY <1>3, <1>p, <2>1, <2>3, <3>1 DEF ConnOK, NetOK
    <3>3. TypeOK' /\ HandlerInv' /\ BufferInv'
      BY <1>3, <1>6, <1>p, <1>s, <2>1, <2>3, <3>1, <3>2, SyncFrame
    <3>4. ASSUME NEW d \in Client
          PROVE  /\ Coming(d, AnswerCodes)' => Coming(d, AnswerCodes)
                 /\ HasCode(InFlight(d)', ImageCodes) => HasCode(InFlight(d), ImageCodes)
      <4>1. s2c[d] \in Seq(ServerCommand) /\ m_queueAsynCommand[d] \in Seq(ServerCommand)
        BY <1>p DEF NetOK, SentOK
      <4>2. /\ c2s'[d] \in {c2s[d], <<>>} /\ s2c'[d] \in {s2c[d], <<>>}
            /\ m_queueAsynCommand'[d] = m_queueAsynCommand[d]
        BY <1>p, <2>1, <3>1 DEF NetOK
      <4>3. InFlight(d) = s2c[d] \o m_queueAsynCommand[d]
            /\ (InFlight(d)' = InFlight(d) \/ InFlight(d)' = m_queueAsynCommand[d])
        <5>1. <<>> \o m_queueAsynCommand[d] = m_queueAsynCommand[d]
          BY <4>1
        <5> QED
          BY <4>2, <5>1, Zenon DEF InFlight
      <4>4. HasCode(InFlight(d), ImageCodes)
              <=> HasCode(s2c[d], ImageCodes) \/ HasCode(m_queueAsynCommand[d], ImageCodes)
        BY <4>1, <4>3, CodeOfConcat
      <4> QED
        BY <1>5, <2>1, <4>2, <4>3, <4>4, NoCode DEF Coming
    <3>5. AckInv'
      BY <1>3, <2>1, <2>3, <3>4 DEF SyncInv, AckInv
    <3> QED
      BY <3>3, <3>5
  <2> QED
    BY <1>9, <2>2, <2>3 DEF OnGetProtocalVersion
<1>10. CASE OnGetLogon(c)
  <2>1. /\ Return /\ UNCHANGED <<ui, m_pnModifiedBlocks, m_bSendBitmapReady>>
        /\ m_state[c] = RDCS_PROTOCOL_VERSION
        /\ m_state' = [m_state EXCEPT ![c] = RDCS_LOGON]
        /\ UNCHANGED <<m_mapClient, m_pAsynSendCommandEvent, s2c, c2s>>
        /\ m_queueAsynCommand' =
             [m_queueAsynCommand EXCEPT ![c] = Append(@, Command(RDCC_LOGON_RESULT))]
    BY <1>10, <1>s, AcceptedIn DEF OnGetLogon, Receives
  <2>2. /\ m_state' \in [Client -> ConnectionState]
        /\ \A d \in Client : m_state'[d] = RDCS_INVALID => m_state[d] = RDCS_INVALID
        /\ \A d \in Client : m_state'[d] # RDCS_DISCONNECTED => m_state[d] # RDCS_DISCONNECTED
    BY <1>7, <2>1 DEF ConnectionState, RDCS_INVALID, RDCS_DISCONNECTED, RDCS_LOGON,
                      RDCS_PROTOCOL_VERSION
  <2>3. ConnOK'
    BY <1>3, <1>p, <2>1, <2>2 DEF ConnOK
  <2>4. SentOK'
    BY <1>3, <1>p, <2>1, ServerCommands DEF SentOK
  <2>5. TypeOK' /\ HandlerInv' /\ BufferInv'
    BY <1>3, <1>6, <1>p, <1>s, <2>1, <2>2, <2>3, <2>4, SyncFrame
  <2>6. ASSUME NEW d \in Client
        PROVE  HasCode(InFlight(d)', ImageCodes) => HasCode(InFlight(d), ImageCodes)
    <3>1. s2c[d] \in Seq(ServerCommand) /\ m_queueAsynCommand[d] \in Seq(ServerCommand)
          /\ m_queueAsynCommand'[d] \in Seq(ServerCommand)
      BY <1>p, <2>4 DEF NetOK, SentOK
    <3>2. HasCode(InFlight(d), ImageCodes)
            <=> HasCode(s2c[d], ImageCodes) \/ HasCode(m_queueAsynCommand[d], ImageCodes)
      BY <3>1, CodeOfConcat DEF InFlight
    <3>3. HasCode(InFlight(d)', ImageCodes)
            <=> HasCode(s2c[d], ImageCodes) \/ HasCode(m_queueAsynCommand'[d], ImageCodes)
      BY <2>1, <3>1, CodeOfConcat DEF InFlight
    <3>4. \/ m_queueAsynCommand'[d] = m_queueAsynCommand[d]
          \/ m_queueAsynCommand'[d] = Append(m_queueAsynCommand[d], Command(RDCC_LOGON_RESULT))
      BY <1>p, <2>1 DEF SentOK
    <3>5. Command(RDCC_LOGON_RESULT).code \notin ImageCodes
      BY DEF Command, ImageCodes, RDCC_LOGON_RESULT, RDCC_TRANSFER_BITMAP, RDCC_TRANSFER_MODIFY_BITMAP
    <3>6. HasCode(Append(m_queueAsynCommand[d], Command(RDCC_LOGON_RESULT)), ImageCodes)
            => HasCode(m_queueAsynCommand[d], ImageCodes)
      BY <3>1, <3>5, CodeOfAppend
    <3> QED
      BY <3>2, <3>3, <3>4, <3>6
  <2>7. AckInv'
    BY <1>3, <1>5, <2>1, <2>2, <2>6 DEF SyncInv, AckInv, Coming
  <2> QED
    BY <2>5, <2>7
<1>11. CASE OnGetCompressMode(c)
  <2>1. /\ Return /\ UNCHANGED <<ui, m_pnModifiedBlocks, m_bSendBitmapReady, m_queueAsynCommand>>
        /\ m_state[c] = RDCS_LOGON
        /\ m_state' = [m_state EXCEPT ![c] = RDCS_COMPRESS_MODE]
        /\ UNCHANGED <<m_mapClient, m_pAsynSendCommandEvent, s2c, c2s>>
    BY <1>11, <1>s, AcceptedIn DEF OnGetCompressMode, Receives, connVars
  <2>2. /\ m_state' \in [Client -> ConnectionState]
        /\ \A d \in Client : m_state'[d] = RDCS_INVALID => m_state[d] = RDCS_INVALID
        /\ \A d \in Client : m_state'[d] # RDCS_DISCONNECTED => m_state[d] # RDCS_DISCONNECTED
    BY <1>7, <2>1 DEF ConnectionState, RDCS_INVALID, RDCS_DISCONNECTED, RDCS_LOGON,
                      RDCS_COMPRESS_MODE
  <2>3. ConnOK'
    BY <1>3, <1>p, <2>1, <2>2 DEF ConnOK
  <2>4. TypeOK' /\ HandlerInv' /\ BufferInv'
    BY <1>3, <1>6, <1>p, <1>s, <2>1, <2>2, <2>3, SyncFrame
  <2>5. AckInv'
    BY <1>3, <1>5, <2>1, <2>2 DEF SyncInv, AckInv, Coming, InFlight
  <2> QED
    BY <2>4, <2>5
<1>12. CASE OnGetTransferBitmap(c)
  <2>1. /\ m_state[c] \in {RDCS_COMPRESS_MODE, RDCS_TRANSFER}
        /\ m_state' = [m_state EXCEPT ![c] = RDCS_TRANSFER]
        /\ UNCHANGED <<m_mapClient, m_bSendBitmapReady, m_queueAsynCommand,
                       m_pAsynSendCommandEvent, s2c, c2s>>
    BY <1>12, <1>s, AcceptedIn DEF OnGetTransferBitmap
  <2>2. /\ m_state' \in [Client -> ConnectionState]
        /\ \A d \in Client : m_state'[d] = RDCS_INVALID => m_state[d] = RDCS_INVALID
        /\ \A d \in Client : m_state'[d] # RDCS_DISCONNECTED => m_state[d] # RDCS_DISCONNECTED
        /\ m_state'[c] = RDCS_TRANSFER
    BY <1>7, <1>s, <2>1 DEF ConnectionState, RDCS_INVALID, RDCS_DISCONNECTED, RDCS_TRANSFER,
                      RDCS_COMPRESS_MODE
  <2>3. ConnOK'
    BY <1>3, <1>p, <2>1, <2>2 DEF ConnOK
  <2>4. CASE m_pBuffer = Null
    <3>1. Return /\ UNCHANGED <<ui, m_pnModifiedBlocks>>
      BY <1>12, <2>4 DEF OnGetTransferBitmap
    <3>2. TypeOK' /\ HandlerInv' /\ BufferInv'
      BY <1>3, <1>6, <1>p, <1>s, <2>1, <2>2, <2>3, <3>1, SyncFrame
    <3>3. AckInv'
      BY <1>3, <1>5, <2>1, <2>2, <3>1 DEF SyncInv, AckInv, Coming, InFlight
    <3> QED
      BY <3>2, <3>3
  <2>5. CASE m_pBuffer # Null
    <3>1. /\ m_pnModifiedBlocks' = [d \in Client |-> IF d \in {c} THEN <<>> ELSE m_pnModifiedBlocks[d]]
          /\ ui' = [UiFree EXCEPT !.pc = "compress", !.conn = c, !.img = m_pBuffer]
          /\ UNCHANGED lev
      BY <1>12, <2>5 DEF OnGetTransferBitmap, ForgetModifiedBlocks
    <3>2. m_pBuffer \in Bitmap /\ m_pBuffer \in PartialImage
      BY <1>p, <2>5, PictureIsImage DEF TypeOK
    <3>3. /\ UiOK' /\ ui'.pc = "compress" /\ ui'.conn = c /\ ui'.todo = {} /\ ui'.img = m_pBuffer
      BY <3>1, <3>2, UiFreeFields DEF UiOK
    <3>4. ListOK'
      <4>1. Len(<<>>) <= BlockCount
        BY ScreenSyncAssumption
      <4> QED
        BY <1>3, <1>p, <3>1, <4>1 DEF ListOK
    <3>5. TypeOK'
      BY <1>2, <1>3, <1>p, <2>1, <2>3, <3>1, <3>3, <3>4, SyncFrame, SyncTypeParts
    <3>6. AckInv'
      BY <1>3, <2>1, <2>2, <3>1 DEF SyncInv, AckInv, Coming, Brought, InFlight
    <3>7. BufferInv'
      BY <1>1, <1>2, <1>3, <2>1, <2>2, <3>1 DEF SyncInv, BufferInv
    <3>8. c \in m_mapClient
      BY <1>1, <2>1 DEF SyncInv, LoopInv, ClosedInv, RDCS_CONNECTED, RDCS_COMPRESS_MODE, RDCS_TRANSFER
    <3>9. HandlerInv'
      BY <1>2, <2>1, <2>2, <2>5, <3>1, <3>2, <3>3, <3>8 DEF HandlerInv
    <3> QED
      BY <3>5, <3>6, <3>7, <3>9
  <2> QED
    BY <2>4, <2>5
<1>13. CASE OnGetTransferBitmapResult(c)
  <2>1. /\ Return /\ UNCHANGED <<ui, m_pnModifiedBlocks, m_queueAsynCommand>>
        /\ m_state[c] = RDCS_TRANSFER /\ Head(lev.cmds).code = RDCC_TRANSFER_BITMAP_RESPONSE
        /\ m_bSendBitmapReady' = [m_bSendBitmapReady EXCEPT ![c] = TRUE]
        /\ UNCHANGED <<m_mapClient, m_state, m_pAsynSendCommandEvent, s2c, c2s>>
    BY <1>13, <1>s, AcceptedIn DEF OnGetTransferBitmapResult, Receives, Waiting
  <2>2. ConnOK'
    BY <1>3, <1>p, <2>1 DEF ConnOK
  <2>3. TypeOK' /\ HandlerInv' /\ BufferInv'
    BY <1>3, <1>6, <1>p, <1>s, <2>1, <2>2, SyncFrame
  <2>4. Coming(c, AnswerCodes) /\ m_state[c] # RDCS_DISCONNECTED
    BY <1>4, <2>1 DEF Coming, AnswerCodes, RDCS_TRANSFER, RDCS_DISCONNECTED
  <2>5. sent[c] # Null
    BY <2>4 DEF SyncInv, AckInv
  <2>6. \A d \in Client \ {c} : m_bSendBitmapReady'[d] = m_bSendBitmapReady[d]
    BY <1>p, <2>1 DEF ConnOK
  <2>7. \A d \in Client : /\ Coming(d, AnswerCodes)' => Coming(d, AnswerCodes)
                          /\ InFlight(d)' = InFlight(d)
    BY <1>5, <2>1 DEF Coming, InFlight
  <2>8. AckInv'
    BY <1>3, <2>1, <2>5, <2>6, <2>7 DEF SyncInv, AckInv
  <2> QED
    BY <2>3, <2>8
<1> QED
  BY <1>8, <1>9, <1>10, <1>11, <1>12, <1>13 DEF OnReciveCommand

\* A whole picture queued for the connections of S, and what follows from it.
LEMMA SyncQueued ==
    ASSUME SyncInv, NEW S \in SUBSET Client, NEW img \in [Block -> Pixels], QueuePicture(S, img),
           UNCHANGED <<m_state, m_bSendBitmapReady, s2c, c2s>>,
           \A d \in Client : HasCode(Brought(d)', AnswerCodes) => HasCode(Brought(d), AnswerCodes)
    PROVE  SentOK' /\ AckInv' /\ \A d \in Client : sent'[d] = IF d \in S THEN img ELSE sent[d]
<1>1. SentOK /\ NetOK
  BY SyncTypeParts DEF SyncInv
<1>2. Image(RDCC_TRANSFER_BITMAP, img) \in ServerCommand /\ img # Null
  BY PictureIsImage, ServerCommands
<1>3. \A d \in Client : sent'[d] = IF d \in S THEN img ELSE sent[d]
  BY DEF QueuePicture
<1>4. ASSUME NEW d \in Client
      PROVE  m_queueAsynCommand'[d] \in Seq(ServerCommand)
             /\ (d \notin S => m_queueAsynCommand'[d] = m_queueAsynCommand[d])
  BY <1>1, <1>2 DEF QueuePicture, SentOK
<1>5. SentOK'
  BY <1>1, <1>4 DEF QueuePicture, SentOK
<1>6. AckInv'
  <2> SUFFICES ASSUME NEW d \in Client, m_state'[d] # RDCS_DISCONNECTED,
                      \/ m_bSendBitmapReady'[d] \/ Coming(d, AnswerCodes)'
                      \/ HasCode(InFlight(d)', ImageCodes)
               PROVE  sent'[d] # Null
    BY DEF AckInv
  <2>1. CASE d \in S
    BY <1>2, <1>3, <2>1
  <2>2. CASE d \notin S
    BY <1>3, <1>4, <2>2 DEF SyncInv, AckInv, Coming, InFlight
  <2> QED
    BY <2>1, <2>2
<1> QED
  BY <1>3, <1>5, <1>6

LEMMA SyncPictures ==
    ASSUME SyncInv, OnFirstBitmap \/ \E c \in Client : JPEG_Compress(c)
    PROVE  TypeOK' /\ AckInv' /\ BufferInv' /\ HandlerInv'
<1>1. /\ UNCHANGED <<m_uThreadId, stopped, crashed, m_pBuffer, notices>>
      /\ UNCHANGED <<m_mapClient, m_state, m_pAsynSendCommandEvent, m_bSendBitmapReady,
                     s2c, c2s, cliState, view>>
      /\ ui' = UiFree
  BY Zenon DEF OnFirstBitmap, JPEG_Compress, capVars, cliVars
<1>p. TypeOK /\ CapOK /\ LevOK /\ ConnOK /\ ListOK /\ NetOK /\ CliOK
  BY SyncTypeParts DEF SyncInv
<1>2. UiOK' /\ HandlerInv'
  BY <1>1, UiFreeFields DEF UiOK, HandlerInv
<1>3. ASSUME NEW S \in SUBSET Client, NEW img \in [Block -> Pixels],
             \A d \in Client : sent'[d] = IF d \in S THEN img ELSE sent[d],
             \A d \in S : m_state[d] = RDCS_TRANSFER,
             m_pBuffer # Null, capture' \in {capture, Idle}, lev'.pc # "connected" \/ UNCHANGED lev
      PROVE  BufferInv'
  BY <1>1, <1>3 DEF SyncInv, BufferInv, Idle, RDCS_TRANSFER, RDCS_INVALID
<1>4. CASE OnFirstBitmap
  <2> DEFINE S == FirstBitmapReceivers
  <2>1. /\ ForgetModifiedBlocks(S) /\ QueuePicture(S, m_pBuffer)
        /\ capture' = Idle /\ capture.pc = "first" /\ UNCHANGED lev
        /\ garbled' = [c \in Client |-> c \notin S /\ garbled[c]]
    BY <1>4 DEF OnFirstBitmap
  <2>2. S \in SUBSET Client /\ \A d \in S : m_state[d] = RDCS_TRANSFER
    BY <1>p DEF FirstBitmapReceivers, LevOK
  <2>3. m_pBuffer # Null /\ m_pBuffer \in Bitmap
    BY <1>p, <2>1 DEF SyncInv, BufferInv, TypeOK
  <2>4. m_pBuffer \in [Block -> Pixels]
    BY <2>3, PictureIsImage
  <2> HIDE DEF S
  <2>5. \A d \in Client : HasCode(Brought(d)', AnswerCodes) => HasCode(Brought(d), AnswerCodes)
    BY <2>1 DEF Brought
  <2>6. SentOK' /\ AckInv' /\ \A d \in Client : sent'[d] = IF d \in S THEN m_pBuffer ELSE sent[d]
    BY <1>1, <2>1, <2>2, <2>4, <2>5, SyncQueued
  <2>7. BufferInv'
    BY <1>3, <2>1, <2>2, <2>3, <2>4, <2>6
  <2>8. CapOK'
    BY <1>1, <1>p, <2>1, Zenon DEF CapOK
  <2>9. ConnOK'
    BY <1>1, <1>p, <2>1 DEF ConnOK
  <2>10. ListOK'
    <3>1. Len(<<>>) <= BlockCount /\ <<>> \in Seq(Block)
      BY ScreenSyncAssumption
    <3>2. lost' = [c \in Client |-> IF c \in S THEN {} ELSE lost[c]]
      BY <2>1 DEF QueuePicture
    <3>3. m_pnModifiedBlocks' = [c \in Client |-> IF c \in S THEN <<>> ELSE m_pnModifiedBlocks[c]]
      BY <2>1 DEF ForgetModifiedBlocks
    <3> QED
      BY <1>p, <3>1, <3>2, <3>3 DEF ListOK
  <2>11. TypeOK'
    BY <1>1, <1>2, <1>p, <2>1, <2>6, <2>8, <2>9, <2>10, SyncTypeParts, SyncFrame
  <2> QED
    BY <1>2, <2>6, <2>7, <2>11
<1>5. ASSUME NEW c \in Client, JPEG_Compress(c)
      PROVE  TypeOK' /\ AckInv' /\ BufferInv' /\ HandlerInv'
  <2>1. PICK img \in {ui.img} \cup (IF ui.torn THEN {[b \in Block |-> Torn]} ELSE {}) :
          /\ QueuePicture({c}, img)
          /\ garbled' = [garbled EXCEPT ![c] = img # ui.img]
    BY <1>5 DEF JPEG_Compress
  <2>2. ui.pc = "compress" /\ ui.conn = c /\ Return /\ UNCHANGED <<m_pnModifiedBlocks, capture>>
    BY <1>5 DEF JPEG_Compress, capVars
  <2>3. ui.img \in Bitmap /\ m_pBuffer # Null /\ m_state[c] = RDCS_TRANSFER /\ lev.pc = "command"
    BY <2>2 DEF SyncInv, HandlerInv, LoopInv, CompressInv
  <2>4. img \in [Block -> Pixels]
    <3>1. [b \in Block |-> Torn] \in [Block -> Pixels]
      BY DEF Pixels
    <3>2. ui.img \in [Block -> Pixels]
      BY <2>3, PictureIsImage
    <3> QED
      BY <3>1, <3>2
  <2>5. /\ lev' \in {Idle} \cup [pc : {"command"}, conn : Client, cmds : Seq(ClientCommand) \ {<<>>}]
        /\ \A d \in Client : HasCode(Brought(d)', AnswerCodes) => HasCode(Brought(d), AnswerCodes)
    <3>1. AnswerCodes \in SUBSET Nat
      BY DEF AnswerCodes, RDCC_TRANSFER_BITMAP_RESPONSE
    <3>2. lev.conn \in Client
      BY <1>p, <2>3, BroughtCommands
    <3>3. PICK w \in Client : lev.conn = w
      BY <3>2
    <3> QED
      BY <1>p, <2>2, <2>3, <3>1, <3>3, ReturnBrings
  <2>6. SentOK' /\ AckInv' /\ \A d \in Client : sent'[d] = IF d \in {c} THEN img ELSE sent[d]
    BY <1>1, <2>1, <2>4, <2>5, SyncQueued
  <2>7. BufferInv'
    <3>1. lev'.pc # "connected"
      BY <2>5 DEF Idle
    <3> QED
      BY <1>3, <2>2, <2>3, <2>4, <2>6, <3>1
  <2>8. CapOK'
    BY <1>1, <1>p, <2>2, Zenon DEF CapOK
  <2>9. ConnOK'
    <3>1. (img # ui.img) \in BOOLEAN
      OBVIOUS
    <3> QED
      BY <1>1, <1>p, <2>1, <3>1 DEF ConnOK
  <2>10. ListOK'
    <3>1. lost' = [d \in Client |-> IF d \in {c} THEN {} ELSE lost[d]]
      BY <2>1 DEF QueuePicture
    <3> QED
      BY <1>p, <2>2, <3>1 DEF ListOK
  <2>11. LevOK'
    BY <1>1, <1>p, <2>5 DEF LevOK
  <2>12. TypeOK'
    BY <1>1, <1>2, <1>p, <2>6, <2>8, <2>9, <2>10, <2>11, SyncTypeParts, SyncFrame
  <2> QED
    BY <1>2, <2>6, <2>7, <2>12
<1> QED
  BY <1>4, <1>5

\* Where the loop of OnScreenModified stands after a connection.
LEMMA LoopAfterUi ==
    ASSUME TypeOK, NEW c \in Client
    PROVE  /\ LoopAfter(c) \in [pc : {"free", "notify", "clip", "compress"}, todo : SUBSET Client,
                                blocks : SUBSET Block, conn : Client \cup {Null}, next : Nat,
                                img : PartialImage, torn : BOOLEAN]
           /\ LoopAfter(c).pc \in {"free", "notify"}
           /\ LoopAfter(c).pc = "free" => LoopAfter(c) = UiFree
           /\ LoopAfter(c).pc = "notify" =>
                LoopAfter(c) = [UiFree EXCEPT !.pc = "notify", !.todo = LoopAfter(c).todo,
                                              !.blocks = LoopAfter(c).blocks]
           /\ LoopAfter(c).todo = ui.todo \ {c}
           /\ ui.todo # {c} => LoopAfter(c).blocks = ui.blocks /\ LoopAfter(c).pc = "notify"
<1>1. ui.todo \in SUBSET Client /\ ui.blocks \in SUBSET Block
  BY DEF TypeOK
<1>2. CASE ui.todo = {c}
  BY <1>2, UiFreeFields DEF LoopAfter
<1>3. CASE ui.todo # {c}
  BY <1>1, <1>3, UiFreeFields DEF LoopAfter, UiFree
<1> QED
  BY <1>2, <1>3

LEMMA SyncLoop ==
    ASSUME SyncInv,
           OnModified \/ ClipBitmapRect \/ \E c \in Client : OnScreenModified(c)
    PROVE  TypeOK' /\ AckInv' /\ BufferInv' /\ HandlerInv'
<1>1. /\ UNCHANGED <<m_uThreadId, stopped, crashed, m_pBuffer, capture>>
      /\ UNCHANGED <<m_mapClient, lev, m_state, m_pAsynSendCommandEvent, m_queueAsynCommand, sent, garbled,
                     s2c, c2s, cliState, view>>
  BY Zenon DEF OnModified, ClipBitmapRect, OnScreenModified, capVars, cliVars, connVars
<1>p. TypeOK /\ CapOK /\ LevOK /\ ConnOK /\ ListOK /\ SentOK /\ NetOK /\ CliOK /\ UiOK
  BY SyncTypeParts DEF SyncInv
<1>2. BufferInv'
  BY <1>1 DEF SyncInv, BufferInv
<1>3. CASE OnModified
  <2>1. /\ UNCHANGED <<m_bSendBitmapReady, m_pnModifiedBlocks, lost>> /\ notices # <<>>
        /\ notices' = Tail(notices)
        /\ ui' = IF m_mapClient = {} THEN UiFree
                 ELSE [UiFree EXCEPT !.pc = "notify", !.todo = m_mapClient, !.blocks = Head(notices)]
    BY <1>3 DEF OnModified, connVars
  <2>2. /\ notices \in Seq((SUBSET Block) \ {{}}) /\ Len(notices) <= MaxNotices
    BY <1>p DEF CapOK
  <2>3. /\ Head(notices) \in SUBSET Block /\ notices' \in Seq((SUBSET Block) \ {{}})
        /\ Len(notices') <= MaxNotices
    <3>1. Head(notices) \in (SUBSET Block) \ {{}} /\ notices' \in Seq((SUBSET Block) \ {{}})
      BY <2>1, <2>2
    <3>2. Len(notices') = Len(notices) - 1 /\ Len(notices) \in Nat /\ MaxNotices \in Nat
      BY <2>1, <2>2, ScreenSyncAssumption
    <3> QED
      BY <2>2, <3>1, <3>2
  <2>4. CapOK'
    BY <1>1, <1>p, <2>3, Zenon DEF CapOK
  <2>5. ConnOK'
    BY <1>1, <1>p, <2>1, SyncFrame
  <2>6. UiOK' /\ HandlerInv'
    <3>1. CASE m_mapClient = {}
      BY <2>1, <3>1, UiFreeFields DEF UiOK, HandlerInv
    <3>2. CASE m_mapClient # {}
      <4>1. ui' = [UiFree EXCEPT !.pc = "notify", !.todo = m_mapClient, !.blocks = Head(notices)]
        BY <2>1, <3>2
      <4>2. UiOK'
        BY <1>p, <2>3, <4>1, UiFreeFields DEF UiOK, LevOK
      <4>3. ui'.pc = "notify"
            /\ ui' = [UiFree EXCEPT !.pc = "notify", !.todo = ui'.todo, !.blocks = ui'.blocks]
        BY <4>1 DEF UiFree
      <4> QED
        BY <4>2, <4>3 DEF HandlerInv
    <3> QED
      BY <3>1, <3>2
  <2>7. TypeOK' /\ AckInv'
    BY <1>1, <1>p, <2>1, <2>4, <2>5, <2>6, SyncTypeParts, SyncFrame, AckFrame DEF SyncInv
  <2> QED
    BY <1>2, <2>6, <2>7
<1>4. CASE ClipBitmapRect
  <2> DEFINE list == m_pnModifiedBlocks[ui.conn]
             block == list[ui.next]
             pixels == IF ui.torn THEN Torn ELSE m_pBuffer[block]
             img == [b \in DOMAIN ui.img \cup {block} |-> IF b = block THEN pixels ELSE ui.img[b]]
  <2>1. /\ UNCHANGED <<m_bSendBitmapReady, m_pnModifiedBlocks, lost, notices>>
        /\ ui.pc = "clip" /\ ui.next <= Len(list)
        /\ ui' = [ui EXCEPT !.next = @ + 1, !.torn = FALSE, !.img = img]
    BY <1>4 DEF ClipBitmapRect, connVars, capVars
  <2>2. /\ ui.conn \in ui.todo /\ sent[ui.conn] # Null /\ list # Null
        /\ ui.next \in 1..Len(list) + 1
        /\ DOMAIN ui.img = {list[i] : i \in 1..ui.next - 1}
    BY <2>1 DEF SyncInv, HandlerInv
  <2>3. ui.conn \in m_mapClient /\ ui.conn \in Client
    BY <1>p, <2>2 DEF SyncInv, LoopInv, LoopStaysInMap, LevOK
  <2>4. list \in Seq(Block) /\ ui.next \in 1..Len(list) /\ Len(list) \in Nat
    BY <1>p, <2>1, <2>2, <2>3 DEF ListOK
  <2>5. block \in Block
    BY <2>4
  <2>6. m_pBuffer \in Bitmap
    BY <1>p, <2>2, <2>3 DEF SyncInv, BufferInv, TypeOK
  <2>7. pixels \in Pixels
    BY <2>5, <2>6 DEF Bitmap, Pixels
  <2>8. img \in PartialImage
    <3>1. /\ DOMAIN ui.img \subseteq Block
          /\ \A b \in DOMAIN ui.img : ui.img[b] \in Pixels
      BY <1>p, ImageShape DEF UiOK
    <3> HIDE DEF block, pixels
    <3>2. img \in [DOMAIN ui.img \cup {block} -> Pixels] /\ DOMAIN ui.img \cup {block} \in SUBSET Block
      BY <2>5, <2>7, <3>1
    <3> QED
      BY <3>2 DEF PartialImage
  <2>9. DOMAIN img = {list[i] : i \in 1..ui.next}
    <3>1. 1..ui.next = (1..ui.next - 1) \cup {ui.next}
      BY <2>4
    <3>2. DOMAIN img = DOMAIN ui.img \cup {list[ui.next]}
      OBVIOUS
    <3> HIDE DEF list, img
    <3> QED
      BY <2>2, <3>1, <3>2
  <2> HIDE DEF list, img
  <2>10. /\ UiOK' /\ ui'.pc = ui.pc /\ ui'.todo = ui.todo /\ ui'.conn = ui.conn
         /\ ui'.next = ui.next + 1 /\ ui'.img = img
    <3>1. ui' = [ui EXCEPT !.next = @ + 1, !.torn = FALSE, !.img = img]
      BY <2>1
    <3>2. ui \in [pc : {"free", "notify", "clip", "compress"}, todo : SUBSET Client,
                  blocks : SUBSET Block, conn : Client \cup {Null}, next : Nat,
                  img : PartialImage, torn : BOOLEAN]
      BY <1>p DEF UiOK
    <3>3. ui.next + 1 \in Nat
      BY <3>2
    <3>4. ui' \in [pc : {"free", "notify", "clip", "compress"}, todo : SUBSET Client,
                  blocks : SUBSET Block, conn : Client \cup {Null}, next : Nat,
                  img : PartialImage, torn : BOOLEAN]
      BY <2>8, <3>1, <3>2, <3>3
    <3> QED
      BY <3>1, <3>2, <3>4 DEF UiOK
  <2>11. ui'.next - 1 = ui.next /\ ui'.next \in 1..Len(list) + 1
    BY <2>4, <2>10
  <2>12. HandlerInv'
    <3>1. m_pnModifiedBlocks'[ui'.conn] = list /\ ui'.pc = "clip" /\ sent'[ui'.conn] # Null
          /\ ui'.conn \in ui'.todo
      BY <1>1, <2>1, <2>2, <2>10 DEF list
    <3>2. DOMAIN ui'.img = {list[i] : i \in 1..ui'.next - 1}
      BY <2>9, <2>10, <2>11
    <3> QED
      BY <2>2, <2>11, <3>1, <3>2 DEF HandlerInv
  <2>13. CapOK' /\ ConnOK'
    BY <1>1, <1>p, <2>1, SyncFrame
  <2>14. TypeOK' /\ AckInv'
    BY <1>1, <1>p, <2>1, <2>10, <2>13, SyncTypeParts, SyncFrame, AckFrame DEF SyncInv
  <2> QED
    BY <1>2, <2>12, <2>14
<1>5. ASSUME NEW c \in Client, OnScreenModified(c)
      PROVE  TypeOK' /\ AckInv' /\ BufferInv' /\ HandlerInv'
  <2> DEFINE old == m_pnModifiedBlocks[c]
             new == AddModifiedBlocks(old, Ascending(ui.blocks), BlockCount)
  <2>1. /\ UNCHANGED notices /\ ui.pc = "notify" /\ c \in ui.todo /\ old # Null
        /\ m_pnModifiedBlocks' = [m_pnModifiedBlocks EXCEPT ![c] = new]
        /\ lost' = [lost EXCEPT ![c] = (@ \cup ToSet(old) \cup ui.blocks) \ ToSet(new)]
    BY <1>5 DEF OnScreenModified, capVars
  <2>2. \/ /\ m_bSendBitmapReady[c] /\ m_state[c] = RDCS_TRANSFER
           /\ m_bSendBitmapReady' = [m_bSendBitmapReady EXCEPT ![c] = FALSE]
           /\ ui' = [ui EXCEPT !.pc = "clip", !.conn = c]
        \/ ui' = LoopAfter(c) /\ UNCHANGED m_bSendBitmapReady
    BY <1>5 DEF OnScreenModified
  <2>3. old \in Seq(Block) /\ Len(old) <= BlockCount /\ ui.blocks \in SUBSET Block
    BY <1>p, <2>1 DEF ListOK, UiOK
  <2>4. new \in Seq(Block) /\ Len(new) <= BlockCount
    BY <2>3, AddedBlocks, ScreenSyncAssumption DEF Block
  <2>5. ToSet(old) \subseteq Block
    BY <2>3 DEF ToSet
  <2> HIDE DEF old, new
  <2>6. new # Null
    BY <2>4, PictureIsImage
  <2>7. ListOK'
    BY <1>p, <2>1, <2>3, <2>4, <2>5 DEF ListOK
  <2>8. CapOK'
    BY <1>1, <1>p, <2>1, SyncFrame
  <2>9. ConnOK' /\ \A d \in Client : m_bSendBitmapReady'[d] => m_bSendBitmapReady[d]
    BY <1>1, <1>p, <2>2 DEF ConnOK
  <2>10. AckInv'
    BY <1>1, <2>9 DEF SyncInv, AckInv, Coming, Brought, InFlight
  <2>11. UiOK' /\ HandlerInv'
    <3>1. CASE ui' = LoopAfter(c)
      BY <1>p, <3>1, LoopAfterUi DEF UiOK, HandlerInv
    <3>2. CASE /\ m_bSendBitmapReady[c] /\ m_state[c] = RDCS_TRANSFER
               /\ ui' = [ui EXCEPT !.pc = "clip", !.conn = c]
      <4>1. ui = [UiFree EXCEPT !.pc = "notify", !.todo = ui.todo, !.blocks = ui.blocks]
        BY <2>1 DEF SyncInv, HandlerInv
      <4>2. UiOK' /\ ui'.pc = "clip" /\ ui'.conn = c /\ ui'.todo = ui.todo
            /\ ui'.next = 1 /\ ui'.img = <<>>
        BY <1>p, <3>2, <4>1 DEF UiOK, UiFree
      <4>3. sent[c] # Null
        BY <3>2 DEF SyncInv, AckInv, RDCS_TRANSFER, RDCS_DISCONNECTED
      <4>4. m_pnModifiedBlocks'[c] = new
        BY <1>p, <2>1 DEF ListOK
      <4>5. /\ 1 \in 1..Len(new) + 1
            /\ DOMAIN <<>> = {new[i] : i \in 1..1 - 1}
        BY <2>4
      <4> QED
        BY <1>1, <2>1, <2>6, <4>2, <4>3, <4>4, <4>5 DEF HandlerInv
    <3> QED
      BY <2>2, <3>1, <3>2
  <2>12. TypeOK'
    BY <1>1, <1>p, <2>7, <2>8, <2>9, <2>11, SyncTypeParts, SyncFrame
  <2> QED
    BY <1>2, <2>10, <2>11, <2>12
<1> QED
  BY <1>3, <1>4, <1>5

\* The image of modified blocks is queued.
LEMMA SyncModifyBitmap ==
    ASSUME SyncInv, NEW c \in Client, AsynSendTransterModifyBitmap(c)
    PROVE  /\ TypeOK' /\ AckInv' /\ BufferInv' /\ HandlerInv'
           /\ sent[c] # Null /\ sent'[c] # Null
<1>1. /\ UNCHANGED <<m_uThreadId, stopped, crashed, m_pBuffer, capture, notices>>
      /\ UNCHANGED <<m_mapClient, lev, m_state, m_pAsynSendCommandEvent, m_bSendBitmapReady,
                     lost, garbled, s2c, c2s, cliState, view>>
  BY Zenon DEF AsynSendTransterModifyBitmap, capVars, cliVars
<1>p. TypeOK /\ CapOK /\ LevOK /\ ConnOK /\ ListOK /\ SentOK /\ NetOK /\ CliOK /\ UiOK
  BY SyncTypeParts DEF SyncInv
<1>2. /\ ui.pc = "clip" /\ ui.conn = c /\ ui' = LoopAfter(c)
      /\ m_queueAsynCommand' =
           [m_queueAsynCommand EXCEPT ![c] = Append(@, Image(RDCC_TRANSFER_MODIFY_BITMAP, ui.img))]
      /\ m_pnModifiedBlocks' = [m_pnModifiedBlocks EXCEPT ![c] = <<>>]
      /\ sent' = [sent EXCEPT ![c] = Drawn(ui.img, @)]
  BY DEF AsynSendTransterModifyBitmap
<1>3. sent[c] # Null /\ c \in m_mapClient
  BY <1>2 DEF SyncInv, HandlerInv, LoopInv, LoopStaysInMap
<1>4. ui.img \in PartialImage /\ sent[c] \in [Block -> Pixels]
  BY <1>p, <1>3 DEF UiOK, SentOK
<1>5. Drawn(ui.img, sent[c]) \in [Block -> Pixels] /\ Drawn(ui.img, sent[c]) # Null
  BY <1>4, DrawnPicture, PictureIsImage
<1>6. Image(RDCC_TRANSFER_MODIFY_BITMAP, ui.img) \in ServerCommand
  BY <1>4, ServerCommands
<1>7. SentOK' /\ sent'[c] # Null /\ \A d \in Client \ {c} : sent'[d] = sent[d]
  <2>1. m_queueAsynCommand' \in [Client -> Seq(ServerCommand)]
    BY <1>2, <1>6, <1>p DEF SentOK
  <2>2. sent' \in [Client -> [Block -> Pixels] \cup {Null}]
        /\ sent'[c] # Null /\ \A d \in Client \ {c} : sent'[d] = sent[d]
    BY <1>2, <1>5, <1>p DEF SentOK
  <2> QED
    BY <2>1, <2>2 DEF SentOK
<1>8. ListOK'
  <2>1. Len(<<>>) <= BlockCount /\ <<>> \in Seq(Block)
    BY ScreenSyncAssumption
  <2> QED
    BY <1>1, <1>2, <1>p, <2>1 DEF ListOK
<1>9. UiOK' /\ HandlerInv'
  BY <1>2, <1>p, LoopAfterUi DEF UiOK, HandlerInv
<1>10. TypeOK'
  BY <1>1, <1>7, <1>8, <1>9, <1>p, SyncTypeParts, SyncFrame
<1>11. BufferInv'
  <2>1. m_pBuffer # Null /\ m_state[c] # RDCS_INVALID
    BY <1>3 DEF SyncInv, BufferInv
  <2> QED
    BY <1>1, <1>7, <2>1 DEF SyncInv, BufferInv
<1>12. AckInv'
  <2>1. \A d \in Client \ {c} : InFlight(d)' = InFlight(d)
    BY <1>1, <1>2, <1>p DEF InFlight, SentOK
  <2> QED
    BY <1>1, <1>7, <2>1 DEF SyncInv, AckInv, Coming, Brought
<1> QED
  BY <1>3, <1>7, <1>9, <1>10, <1>11, <1>12

\* What a client takes from the connection: the next command in flight.
LEMMA ReceivedInFlight ==
    ASSUME TypeOK, NEW c \in Client, ClientOnReciveCommand(c)
    PROVE  /\ InFlight(c) \in Seq(ServerCommand) /\ InFlight(c) # <<>>
           /\ Head(InFlight(c)) = Head(s2c[c]) /\ InFlight(c)' = Tail(InFlight(c))
           /\ Head(s2c[c]) \in ServerCommand
           /\ \A d \in Client \ {c} : InFlight(d)' = InFlight(d)
<1>1. /\ s2c \in [Client -> Seq(ServerCommand)] /\ s2c[c] \in Seq(ServerCommand)
      /\ m_queueAsynCommand[c] \in Seq(ServerCommand)
      /\ s2c[c] # <<>> /\ s2c' = [s2c EXCEPT ![c] = Tail(@)] /\ UNCHANGED m_queueAsynCommand
  BY DEF TypeOK, ClientOnReciveCommand, connVars
<1>2. s2c'[c] = Tail(s2c[c]) /\ \A d \in Client \ {c} : s2c'[d] = s2c[d]
  BY <1>1
<1> DEFINE s == s2c[c]
           q == m_queueAsynCommand[c]
<1> HIDE DEF s, q
<1>3. s \in Seq(ServerCommand) /\ q \in Seq(ServerCommand) /\ s # <<>>
  BY <1>1 DEF s, q
<1>4. s \o q \in Seq(ServerCommand) /\ s \o q # <<>> /\ Head(s \o q) = Head(s)
      /\ Tail(s \o q) = Tail(s) \o q /\ Head(s) \in ServerCommand
  BY <1>3
<1> QED
  BY <1>1, <1>2, <1>4 DEF InFlight, s, q

\* Clients.
LEMMA SyncClients ==
    ASSUME SyncInv, NEW c \in Client, ClientOnConnected(c) \/ ClientOnReciveCommand(c)
    PROVE  TypeOK' /\ AckInv' /\ BufferInv' /\ HandlerInv'
<1>1. /\ UNCHANGED <<m_uThreadId, stopped, crashed, m_pBuffer, capture, notices>>
      /\ UNCHANGED <<m_mapClient, lev, ui, m_state, m_pAsynSendCommandEvent, m_bSendBitmapReady,
                     m_pnModifiedBlocks, m_queueAsynCommand, sent, lost, garbled>>
  BY Zenon DEF ClientOnConnected, ClientOnReciveCommand, capVars, connVars
<1>p. TypeOK /\ CapOK /\ LevOK /\ ConnOK /\ ListOK /\ SentOK /\ NetOK /\ CliOK /\ UiOK
  BY SyncTypeParts DEF SyncInv
<1>2. BufferInv' /\ HandlerInv'
  BY <1>1 DEF SyncInv, BufferInv, HandlerInv
<1>3. c2s' \in [Client -> Seq(ClientCommand)]
  <2>1. [Next]_vars
    BY DEF Next
  <2>2. LoopInv'
    BY <2>1, LoopInvNext DEF SyncInv
  <2> QED
    BY <2>2 DEF LoopInv, VersionInv, Chunk
<1>4. CASE ClientOnConnected(c)
  <2>1. /\ cliState' = [cliState EXCEPT ![c] = RDCS_LOGON] /\ UNCHANGED <<s2c, view>>
        /\ c2s' = [c2s EXCEPT ![c] = <<Command(RDCC_PROTOCOL_VERSION), Command(RDCC_LOGON)>>]
    BY <1>4 DEF ClientOnConnected
  <2>2. CliOK' /\ NetOK'
    BY <1>3, <1>p, <2>1 DEF CliOK, NetOK
  <2>3. TypeOK'
    BY <1>1, <1>p, <2>2, SyncTypeParts, SyncFrame
  <2>4. \A d \in Client : HasCode(c2s'[d], AnswerCodes) => HasCode(c2s[d], AnswerCodes)
    <3> DEFINE hello == <<Command(RDCC_PROTOCOL_VERSION), Command(RDCC_LOGON)>>
    <3>1. Len(hello) = 2 /\ hello[1].code = RDCC_PROTOCOL_VERSION /\ hello[2].code = RDCC_LOGON
      BY DEF Command
    <3>2. ~HasCode(hello, AnswerCodes)
      BY <3>1 DEF HasCode, AnswerCodes, RDCC_PROTOCOL_VERSION, RDCC_LOGON, RDCC_TRANSFER_BITMAP_RESPONSE
    <3> QED
      BY <1>p, <2>1, <3>2 DEF NetOK
  <2>5. AckInv'
    BY <1>1, <2>1, <2>4 DEF SyncInv, AckInv, Coming, Brought, InFlight
  <2> QED
    BY <1>2, <2>3, <2>5
<1>5. CASE ClientOnReciveCommand(c)
  <2> DEFINE m == Head(s2c[c])
  <2>1. /\ InFlight(c) \in Seq(ServerCommand) /\ InFlight(c) # <<>>
        /\ Head(InFlight(c)) = m /\ InFlight(c)' = Tail(InFlight(c)) /\ m \in ServerCommand
        /\ \A d \in Client \ {c} : InFlight(d)' = InFlight(d)
    BY <1>5, <1>p, ReceivedInFlight
  <2>2. /\ s2c[c] # <<>> /\ s2c' = [s2c EXCEPT ![c] = Tail(@)]
        /\ \/ UNCHANGED <<cliState, view, c2s>>
           \/ /\ ClientAccepts(cliState[c], m.code)
              /\ cliState' = [cliState EXCEPT ![c] = ClientStateAfter(@, m)]
              /\ view' = [view EXCEPT ![c] = ClientViewAfter(@, m)]
              /\ c2s' = [c2s EXCEPT ![c] = @ \o ClientReplies(m)]
    BY <1>5 DEF ClientOnReciveCommand, cliVars
  <2> HIDE DEF m
  <2>3. NetOK'
    BY <1>3, <1>p, <2>2 DEF NetOK
  <2>4. CliOK'
    <3>1. ClientStateAfter(cliState[c], m) \in {RDCS_INVALID, RDCS_LOGON, RDCS_COMPRESS_MODE, RDCS_TRANSFER}
      BY <1>p DEF ClientStateAfter, CliOK
    <3>2. ClientViewAfter(view[c], m) \in [Block -> Pixels] \cup {Null}
      BY <1>p, <2>1, ServerCommands, DrawnPicture DEF ClientViewAfter, CliOK
    <3> QED
      BY <1>p, <2>2, <3>1, <3>2 DEF CliOK
  <2>5. TypeOK'
    BY <1>1, <1>p, <2>3, <2>4, SyncTypeParts, SyncFrame
  <2>6. ASSUME NEW d \in Client, HasCode(InFlight(d)', ImageCodes)
        PROVE  HasCode(InFlight(d), ImageCodes)
    BY <2>1, <2>6, CodeOfTail
  <2>7. ASSUME NEW d \in Client, HasCode(c2s'[d], AnswerCodes)
        PROVE  HasCode(c2s[d], AnswerCodes) \/ HasCode(InFlight(d), ImageCodes)
    <3>1. c2s[d] \in Seq(ClientCommand) /\ c2s \in [Client -> Seq(ClientCommand)]
      BY <1>p DEF NetOK
    <3>2. CASE c2s'[d] = c2s[d]
      BY <2>7, <3>2
    <3>3. CASE c2s'[d] # c2s[d]
      <4>1. d = c /\ c2s'[d] = c2s[d] \o ClientReplies(m)
        BY <2>2, <3>1, <3>3
      <4>2. CASE IsImage(m)
        <5>1. HasCode(InFlight(c), ImageCodes)
          BY <2>1, <4>2, CodeOfTail DEF IsImage, ImageCodes
        <5> QED
          BY <4>1, <5>1
      <4>3. CASE ~IsImage(m)
        <5> DEFINE asks == <<Command(RDCC_COMPRESS_MODE), Command(RDCC_TRANSFER_BITMAP)>>
        <5>1. /\ Len(asks) = 2 /\ asks[1].code = RDCC_COMPRESS_MODE
              /\ asks[2].code = RDCC_TRANSFER_BITMAP /\ asks \in Seq(ClientCommand)
          BY DEF Command, ClientCommand, Commands
        <5>2. ~HasCode(asks, AnswerCodes)
          BY <5>1 DEF HasCode, AnswerCodes, RDCC_COMPRESS_MODE, RDCC_TRANSFER_BITMAP,
                      RDCC_TRANSFER_BITMAP_RESPONSE
        <5>3. c2s'[d] = c2s[d] \o asks
          BY <4>1, <4>3 DEF ClientReplies
        <5> HIDE DEF asks
        <5> QED
          BY <2>7, <3>1, <5>1, <5>2, <5>3, CodeOfConcat
      <4> QED
        BY <4>2, <4>3
    <3> QED
      BY <3>2, <3>3
  <2>8. AckInv'
    BY <1>1, <2>6, <2>7 DEF SyncInv, AckInv, Coming, Brought
  <2> QED
    BY <1>2, <2>5, <2>8
<1> QED
  BY <1>4, <1>5

LEMMA SyncInvNext == SyncInv /\ [Next]_vars => SyncInv'
<1> SUFFICES ASSUME SyncInv, [Next]_vars PROVE TypeOK' /\ AckInv' /\ BufferInv' /\ HandlerInv'
  BY LoopInvNext DEF SyncInv
\* The server dies: nothing but crashed changes.
<1>1. ASSUME crashed' = TRUE \/ UNCHANGED crashed,
             UNCHANGED <<m_uThreadId, stopped, m_pBuffer, capture, notices, m_mapClient, lev, ui, m_state,
                         m_pAsynSendCommandEvent, m_bSendBitmapReady, m_pnModifiedBlocks,
                         m_queueAsynCommand, sent, lost, garbled, s2c, c2s, cliState, view>>
      PROVE  TypeOK' /\ AckInv' /\ BufferInv' /\ HandlerInv'
  <2>p. TypeOK /\ CapOK /\ LevOK /\ ConnOK /\ ListOK /\ SentOK /\ NetOK /\ CliOK /\ UiOK
    BY SyncTypeParts DEF SyncInv
  <2>1. CapOK'
    BY <1>1, <2>p, Zenon DEF CapOK
  <2>2. TypeOK'
    BY <1>1, <2>1, <2>p, SyncTypeParts, SyncFrame
  <2>3. AckInv'
    BY <1>1, AckFrame DEF SyncInv
  <2>4. BufferInv' /\ HandlerInv'
    BY <1>1 DEF SyncInv, BufferInv, HandlerInv
  <2> QED
    BY <2>2, <2>3, <2>4
<1>2. CASE JPEG_CompressFaults \/ \E c \in Client : OnScreenModifiedNull(c)
  <2>1. /\ crashed' = TRUE
        /\ UNCHANGED <<m_uThreadId, stopped, m_pBuffer, capture, notices, m_mapClient, lev, ui, m_state,
                       m_pAsynSendCommandEvent, m_bSendBitmapReady, m_pnModifiedBlocks,
                       m_queueAsynCommand, sent, lost, garbled, s2c, c2s, cliState, view>>
    BY <1>2, Zenon DEF JPEG_CompressFaults, OnScreenModifiedNull, capVars, connVars, cliVars
  <2> QED
    BY <1>1, <2>1
<1>3. CASE UNCHANGED vars
  <2>1. UNCHANGED <<m_uThreadId, stopped, m_pBuffer, capture, notices, m_mapClient, lev, ui, m_state,
                    m_pAsynSendCommandEvent, m_bSendBitmapReady, m_pnModifiedBlocks, m_queueAsynCommand,
                    sent, lost, garbled, s2c, c2s, cliState, view, crashed>>
    BY <1>3, Zenon DEF vars, capVars, connVars, cliVars
  <2> QED
    BY <1>1, <2>1
<1> QED
  BY <1>2, <1>3, SyncCapture, SyncLibevent, SyncConnections, SyncCommand, SyncPictures, SyncLoop,
     SyncModifyBitmap, SyncClients DEF Next, Busy

\* Every variable of the screen synchronisation keeps its type, for any clients,
\* screen and message queue.  Among others: the block list never outgrows the
\* allocation that OnScreenModified writes into, every whole picture a client is
\* sent has all blocks, and an image of modified blocks is made only over a picture.
THEOREM SyncTypeCorrect == Spec => []TypeOK
<1>1. SyncInv => TypeOK
  BY DEF SyncInv
<1> QED
  BY <1>1, InitSync, SyncInvNext, PTL DEF Spec

-----------------------------------------------------------------------------
(* Drawing a list of commands, one after the other.                        *)

After(picture, cmds) == FoldLeft(ClientViewAfter, picture, cmds)

\* The recursion that FoldLeft is defined by.
FoldsOver(f, S, picture, cmds) ==
    f = [s \in SUBSET S |->
            IF s = {} THEN picture ELSE ClientViewAfter(f[s \ {Max(s)}], cmds[Max(s)])]

LEMMA AfterIsFold ==
    ASSUME NEW picture, NEW cmds
    PROVE  After(picture, cmds) =
             (CHOOSE f : FoldsOver(f, DOMAIN cmds, picture, cmds))[DOMAIN cmds]
BY DEF After, FoldLeft, MapThenFoldSet, FoldsOver

LEMMA MaxOfRange ==
    ASSUME NEW k \in Nat, NEW s \in SUBSET (1..k + 1), k + 1 \in s
    PROVE  Max(s) = k + 1
<1>1. \A y \in s : k + 1 >= y
  OBVIOUS
<1>2. \A x \in s : (\A y \in s : x >= y) => x = k + 1
  OBVIOUS
<1>3. \E x \in s : \A y \in s : x >= y
  BY <1>1
<1>4. Max(s) \in s /\ \A y \in s : Max(s) >= y
  BY <1>3, Zenon DEF Max
<1> QED
  BY <1>2, <1>4

LEMMA FoldExists ==
    ASSUME NEW picture, NEW cmds
    PROVE  \A n \in Nat : \E f : FoldsOver(f, 1..n, picture, cmds)
<1> DEFINE N == {n \in Nat : \E f : FoldsOver(f, 1..n, picture, cmds)}
<1>1. 0 \in N
  <2> DEFINE f == [s \in SUBSET (1..0) |-> picture]
  <2>1. \A s \in SUBSET (1..0) : s = {}
    OBVIOUS
  <2>2. f = [s \in SUBSET (1..0) |->
              IF s = {} THEN picture ELSE ClientViewAfter(f[s \ {Max(s)}], cmds[Max(s)])]
    BY <2>1
  <2> QED
    BY <2>2 DEF FoldsOver
<1>2. ASSUME NEW n \in Nat, n \in N PROVE n + 1 \in N
  <2>1. PICK g : FoldsOver(g, 1..n, picture, cmds)
    BY <1>2
  <2> DEFINE f == [s \in SUBSET (1..n + 1) |->
                     IF n + 1 \in s THEN ClientViewAfter(g[s \ {n + 1}], cmds[n + 1]) ELSE g[s]]
  <2>2. \A s \in SUBSET (1..n + 1) : /\ s \ {n + 1} \in SUBSET (1..n)
                                     /\ n + 1 \notin s => s \in SUBSET (1..n)
    OBVIOUS
  <2>3. \A s \in SUBSET (1..n) : s \in SUBSET (1..n + 1) /\ n + 1 \notin s
    OBVIOUS
  <2>4. ASSUME NEW s \in SUBSET (1..n + 1)
        PROVE  f[s] = IF s = {} THEN picture ELSE ClientViewAfter(f[s \ {Max(s)}], cmds[Max(s)])
    <3>1. CASE n + 1 \in s
      <4>1. Max(s) = n + 1
        BY <3>1, MaxOfRange
      <4>2. f[s \ {n + 1}] = g[s \ {n + 1}]
        BY <2>2, <2>3
      <4>3. f[s] = ClientViewAfter(g[s \ {n + 1}], cmds[n + 1])
        BY <3>1
      <4> QED
        BY <3>1, <4>1, <4>2, <4>3
    <3>2. CASE n + 1 \notin s
      <4>1. s \in SUBSET (1..n) /\ s \ {Max(s)} \in SUBSET (1..n)
        BY <2>2, <3>2
      <4>2. f[s] = g[s] /\ f[s \ {Max(s)}] = g[s \ {Max(s)}]
        BY <2>3, <4>1
      <4>3. g[s] = IF s = {} THEN picture ELSE ClientViewAfter(g[s \ {Max(s)}], cmds[Max(s)])
        BY <2>1, <4>1 DEF FoldsOver
      <4> QED
        BY <4>2, <4>3
    <3> QED
      BY <3>1, <3>2
  <2>5. f = [s \in SUBSET (1..n + 1) |-> f[s]]
    OBVIOUS
  <2> HIDE DEF f
  <2>6. FoldsOver(f, 1..n + 1, picture, cmds)
    BY <2>4, <2>5 DEF FoldsOver
  <2> QED
    BY <2>6
<1> HIDE DEF N
<1>3. \A n \in Nat : n \in N
  BY <1>1, <1>2, Induction
<1> QED
  BY <1>3 DEF N

\* The pictures after each of the commands.
Draws(f, picture, cmds) ==
    /\ f[0] = picture
    /\ \A i \in 1..Len(cmds) : f[i] = ClientViewAfter(f[i - 1], cmds[i])

LEMMA AfterDraws ==
    ASSUME NEW picture, NEW S, NEW cmds \in Seq(S)
    PROVE  \E f : Draws(f, picture, cmds) /\ After(picture, cmds) = f[Len(cmds)]
<1> DEFINE n == Len(cmds)
           g == CHOOSE f : FoldsOver(f, 1..n, picture, cmds)
           f == [i \in 0..n |-> g[1..i]]
<1>1. n \in Nat /\ DOMAIN cmds = 1..n
  OBVIOUS
<1> HIDE DEF n
<1>2. \E h : FoldsOver(h, 1..n, picture, cmds)
  BY <1>1, FoldExists
<1>3. FoldsOver(g, 1..n, picture, cmds)
  BY <1>2
<1>4. After(picture, cmds) = g[1..n]
  BY <1>1, AfterIsFold
<1> HIDE DEF g
<1>5. \A s \in SUBSET (1..n) :
        g[s] = IF s = {} THEN picture ELSE ClientViewAfter(g[s \ {Max(s)}], cmds[Max(s)])
  BY <1>3 DEF FoldsOver
<1>6. f[0] = picture
  <2>1. 1..0 = {} /\ {} \in SUBSET (1..n) /\ 0 \in 0..n
    BY <1>1
  <2>2. f[0] = g[{}]
    BY <2>1
  <2> QED
    BY <1>5, <2>1, <2>2
<1>7. ASSUME NEW i \in 1..n PROVE f[i] = ClientViewAfter(f[i - 1], cmds[i])
  <2>1. i - 1 \in Nat /\ i - 1 \in 0..n /\ i \in 0..n /\ (i - 1) + 1 = i
    BY <1>1
  <2>2. 1..i \in SUBSET (1..n) /\ i \in 1..i /\ 1..i # {} /\ (1..i) \ {i} = 1..i - 1
    BY <1>1
  <2>3. Max(1..i) = i
    BY <2>1, <2>2, MaxOfRange
  <2>4. g[1..i] = ClientViewAfter(g[1..i - 1], cmds[i])
    BY <1>5, <2>2, <2>3
  <2> QED
    BY <2>1, <2>4
<1>8. f[n] = g[1..n]
  BY <1>1
<1> HIDE DEF f
<1> QED
  BY <1>4, <1>6, <1>7, <1>8 DEF Draws, n

\* The pictures are determined by the commands up to there.
LEMMA DrawsSame ==
    ASSUME NEW picture, NEW cmds, NEW more, Len(cmds) \in Nat, Len(more) \in Nat,
           Len(cmds) <= Len(more), \A i \in 1..Len(cmds) : cmds[i] = more[i],
           NEW f, Draws(f, picture, cmds), NEW g, Draws(g, picture, more)
    PROVE  f[Len(cmds)] = g[Len(cmds)]
<1> DEFINE N == {n \in Nat : n <= Len(cmds) => f[n] = g[n]}
<1>1. 0 \in N
  BY DEF Draws
<1>2. ASSUME NEW n \in Nat, n \in N PROVE n + 1 \in N
  <2> SUFFICES ASSUME n + 1 <= Len(cmds) PROVE f[n + 1] = g[n + 1]
    OBVIOUS
  <2>1. n + 1 \in 1..Len(cmds) /\ n + 1 \in 1..Len(more) /\ (n + 1) - 1 = n /\ f[n] = g[n]
    BY <1>2
  <2> QED
    BY <2>1 DEF Draws
<1> HIDE DEF N
<1>3. Len(cmds) \in N
  BY <1>1, <1>2, Induction
<1> QED
  BY <1>3 DEF N

LEMMA AfterNothing == ASSUME NEW picture PROVE After(picture, <<>>) = picture
<1>1. <<>> \in Seq({}) /\ Len(<<>>) = 0
  OBVIOUS
<1>2. PICK f : Draws(f, picture, <<>>) /\ After(picture, <<>>) = f[Len(<<>>)]
  BY <1>1, AfterDraws
<1> QED
  BY <1>1, <1>2 DEF Draws

\* A command queued is drawn last.
LEMMA AfterAppend ==
    ASSUME NEW picture, NEW S, NEW cmds \in Seq(S), NEW m \in S
    PROVE  After(picture, Append(cmds, m)) = ClientViewAfter(After(picture, cmds), m)
<1> DEFINE more == Append(cmds, m)
<1>1. more \in Seq(S) /\ Len(cmds) \in Nat /\ Len(more) = Len(cmds) + 1 /\ more[Len(cmds) + 1] = m
      /\ \A i \in 1..Len(cmds) : cmds[i] = more[i]
  OBVIOUS
<1> HIDE DEF more
<1>2. PICK f : Draws(f, picture, cmds) /\ After(picture, cmds) = f[Len(cmds)]
  BY AfterDraws
<1>3. PICK g : Draws(g, picture, more) /\ After(picture, more) = g[Len(more)]
  BY <1>1, AfterDraws
<1>4. f[Len(cmds)] = g[Len(cmds)]
  <2>1. Len(more) \in Nat /\ Len(cmds) <= Len(more)
    BY <1>1
  <2> QED
    BY <1>1, <1>2, <1>3, <2>1, DrawsSame
<1>5. Len(more) \in 1..Len(more) /\ Len(more) - 1 = Len(cmds)
  BY <1>1
<1>6. g[Len(more)] = ClientViewAfter(g[Len(cmds)], m)
  BY <1>1, <1>3, <1>5 DEF Draws
<1>7. After(picture, more) = ClientViewAfter(After(picture, cmds), m)
  BY <1>2, <1>3, <1>4, <1>6
<1> QED
  BY <1>7 DEF more

\* The command at the head is drawn first.
LEMMA AfterTail ==
    ASSUME NEW picture, NEW S, NEW cmds \in Seq(S), cmds # <<>>
    PROVE  After(picture, cmds) = After(ClientViewAfter(picture, Head(cmds)), Tail(cmds))
<1> DEFINE rest == Tail(cmds)
           p == ClientViewAfter(picture, Head(cmds))
<1>1. rest \in Seq(S) /\ Len(cmds) \in Nat \ {0} /\ Len(rest) = Len(cmds) - 1 /\ Head(cmds) = cmds[1]
      /\ \A i \in 1..Len(rest) : rest[i] = cmds[i + 1]
  OBVIOUS
<1> HIDE DEF rest
<1>2. PICK f : Draws(f, picture, cmds) /\ After(picture, cmds) = f[Len(cmds)]
  BY AfterDraws
<1>3. PICK g : Draws(g, p, rest) /\ After(p, rest) = g[Len(rest)]
  BY <1>1, AfterDraws
<1> DEFINE N == {n \in Nat : n <= Len(rest) => f[n + 1] = g[n]}
<1>4. 0 \in N
  <2>1. 1 \in 1..Len(cmds) /\ 1 - 1 = 0 /\ 0 + 1 = 1
    BY <1>1
  <2>2. f[1] = p /\ g[0] = p
    BY <1>1, <1>2, <1>3, <2>1 DEF Draws
  <2> QED
    BY <2>1, <2>2
<1>5. ASSUME NEW n \in Nat, n \in N PROVE n + 1 \in N
  <2> SUFFICES ASSUME n + 1 <= Len(rest) PROVE f[(n + 1) + 1] = g[n + 1]
    OBVIOUS
  <2>1. /\ n + 1 \in 1..Len(rest) /\ (n + 1) + 1 \in 1..Len(cmds) /\ (n + 1) - 1 = n
        /\ ((n + 1) + 1) - 1 = n + 1 /\ f[n + 1] = g[n]
    BY <1>1, <1>5
  <2>2. g[n + 1] = ClientViewAfter(g[n], rest[n + 1])
    BY <1>3, <2>1 DEF Draws
  <2>3. f[(n + 1) + 1] = ClientViewAfter(f[n + 1], cmds[(n + 1) + 1])
    BY <1>2, <2>1 DEF Draws
  <2> QED
    BY <1>1, <2>1, <2>2, <2>3
<1> HIDE DEF N
<1>6. Len(rest) \in Nat
  BY <1>1
<1>7. Len(rest) \in N
  BY <1>4, <1>5, <1>6, Induction
<1>8. f[Len(rest) + 1] = g[Len(rest)]
  BY <1>6, <1>7 DEF N
<1>9. After(picture, cmds) = After(p, rest)
  BY <1>1, <1>2, <1>3, <1>8
<1> QED
  BY <1>9 DEF rest

-----------------------------------------------------------------------------
(* The negotiation: how far the server is with a client, how far the       *)
(* client is, and what is on its way between them.                         *)

RequestCodes == {RDCC_COMPRESS_MODE, RDCC_TRANSFER_BITMAP}
ModifyCodes  == {RDCC_TRANSFER_MODIFY_BITMAP}

\* There is a sign that the client has drawn its first picture.
HasDrawn(c) ==
    \/ m_bSendBitmapReady[c] \/ Coming(c, AnswerCodes) \/ Clips(c)
    \/ HasCode(InFlight(c), ModifyCodes)

\* A picture is sent in the TRANSFER state only.  The server is no further than the
\* client's requests, and images of modified blocks follow the first picture.  Nothing
\* was sent to, or shown by, a client that is not accepted yet.
Agreed(c) ==
    /\ sent[c] # Null => m_state[c] = RDCS_TRANSFER
    /\ Coming(c, RequestCodes) \/ m_state[c] \in {RDCS_COMPRESS_MODE, RDCS_TRANSFER}
         => cliState[c] \in {RDCS_COMPRESS_MODE, RDCS_TRANSFER}
    /\ HasDrawn(c) => cliState[c] = RDCS_TRANSFER
    /\ cliState[c] = RDCS_TRANSFER <=> view[c] # Null
    /\ m_state[c] = RDCS_INVALID => InFlight(c) = <<>> /\ view[c] = Null

\* A connection in the map has not been torn down.
MapInv ==
    /\ \A c \in m_mapClient : m_pAsynSendCommandEvent[c] /\ m_state[c] # RDCS_DISCONNECTED
    /\ lev.pc = "disconnected" => lev.conn \notin m_mapClient

HandshakeInv == MapInv /\ \A c \in Client : Agreed(c)

LEMMA HandshakeInit == Init => HandshakeInv
<1> SUFFICES ASSUME Init PROVE HandshakeInv
  OBVIOUS
<1>1. MapInv
  BY DEF Init, MapInv, Idle
<1>2. ASSUME NEW c \in Client PROVE Agreed(c)
  <2>1. /\ m_state[c] = RDCS_INVALID /\ cliState[c] = RDCS_INVALID /\ view[c] = Null /\ sent[c] = Null
        /\ c2s[c] = <<>> /\ Brought(c) = <<>> /\ InFlight(c) = <<>> /\ m_bSendBitmapReady[c] = FALSE
    BY DEF Init, Brought, InFlight, Idle
  <2>2. ~Clips(c)
    BY UiFreeFields DEF Init, Clips
  <2>3. ~HasDrawn(c) /\ ~Coming(c, RequestCodes)
    BY <2>1, <2>2, NoCode DEF HasDrawn, Coming
  <2> QED
    BY <2>1, <2>3 DEF Agreed, RDCS_INVALID, RDCS_COMPRESS_MODE, RDCS_TRANSFER
<1> QED
  BY <1>1, <1>2 DEF HandshakeInv

\* A step that brings no new sign and leaves both ends where they are.
LEMMA AgreedFrame ==
    ASSUME NEW c, Agreed(c),
           m_state'[c] = m_state[c], cliState'[c] = cliState[c], view'[c] = view[c],
           sent'[c] # Null => sent[c] # Null \/ m_state[c] = RDCS_TRANSFER,
           Coming(c, RequestCodes)' => Coming(c, RequestCodes),
           HasDrawn(c)' => HasDrawn(c) \/ cliState[c] = RDCS_TRANSFER,
           m_state[c] = RDCS_INVALID => InFlight(c)' = InFlight(c)
    PROVE  Agreed(c)'
BY DEF Agreed

\* What conn_readcb does to the commands coming from a client.
LEMMA ReadKeepsComing ==
    ASSUME TypeOK, NEW c \in Client, conn_readcb(c), NEW d \in Client, NEW codes
    PROVE  Coming(d, codes)' <=> Coming(d, codes)
<1>1. PICK n \in 1..Len(c2s[c]) :
        /\ lev' = [pc |-> "command", conn |-> c, cmds |-> SubSeq(c2s[c], 1, n)]
        /\ c2s' = [c2s EXCEPT ![c] = SubSeq(@, n + 1, Len(@))]
  BY DEF conn_readcb
<1>2. c2s[c] \in Seq(ClientCommand) /\ c2s \in [Client -> Seq(ClientCommand)]
  BY DEF TypeOK
<1>3. ~HasCode(Brought(d), codes)
  BY NoCode DEF conn_readcb, Brought, Idle
<1>4. CASE d # c
  <2>1. c2s'[d] = c2s[d] /\ Brought(d)' = <<>>
    BY <1>1, <1>2, <1>4 DEF Brought
  <2> QED
    BY <1>3, <2>1, NoCode DEF Coming
<1>5. CASE d = c
  <2>1. c2s'[d] = SubSeq(c2s[c], n + 1, Len(c2s[c])) /\ Brought(d)' = SubSeq(c2s[c], 1, n)
    BY <1>1, <1>2, <1>5 DEF Brought
  <2>2. HasCode(c2s[c], codes) <=> \/ HasCode(SubSeq(c2s[c], 1, n), codes)
                                   \/ HasCode(SubSeq(c2s[c], n + 1, Len(c2s[c])), codes)
    BY <1>2, CodeOfSplit
  <2> QED
    BY <1>3, <1>5, <2>1, <2>2 DEF Coming
<1> QED
  BY <1>4, <1>5

LEMMA EmptyConcat ==
    ASSUME NEW S, NEW s \in Seq(S), NEW t \in Seq(S), s \o t = <<>>
    PROVE  s = <<>> /\ t = <<>>
<1>1. Len(s \o t) = Len(s) + Len(t) /\ Len(s) \in Nat /\ Len(t) \in Nat
  OBVIOUS
<1>2. Len(s) + Len(t) = 0
  BY <1>1
<1>3. Len(s) = 0 /\ Len(t) = 0
  BY <1>1, <1>2
<1> QED
  BY <1>3, EmptyList

\* What becomes of what is in flight when a connection is closed.
LEMMA ClosedInFlight ==
    ASSUME TypeOK, NEW c \in Client, s2c' = [s2c EXCEPT ![c] = <<>>], UNCHANGED m_queueAsynCommand,
           NEW d \in Client
    PROVE  /\ \A codes : HasCode(InFlight(d)', codes) => HasCode(InFlight(d), codes)
           /\ InFlight(d) = <<>> => InFlight(d)' = <<>>
           /\ d # c => InFlight(d)' = InFlight(d)
<1>1. s2c[d] \in Seq(ServerCommand) /\ m_queueAsynCommand[d] \in Seq(ServerCommand)
      /\ s2c'[d] \in {s2c[d], <<>>} /\ (d # c => s2c'[d] = s2c[d])
  BY DEF TypeOK
<1>2. <<>> \o m_queueAsynCommand[d] = m_queueAsynCommand[d]
  BY <1>1
<1>3. InFlight(d)' = InFlight(d) \/ InFlight(d)' = m_queueAsynCommand[d]
  BY <1>1, <1>2, Zenon DEF InFlight
<1>4. \A codes : HasCode(InFlight(d), codes)
                   <=> HasCode(s2c[d], codes) \/ HasCode(m_queueAsynCommand[d], codes)
  BY <1>1, CodeOfConcat DEF InFlight
<1>5. InFlight(d) = <<>> => m_queueAsynCommand[d] = <<>>
  BY <1>1, EmptyConcat DEF InFlight
<1>6. d # c => InFlight(d)' = InFlight(d)
  BY <1>1, Zenon DEF InFlight
<1> QED
  BY <1>3, <1>4, <1>5, <1>6

LEMMA HandshakeLibevent ==
    ASSUME SyncInv, HandshakeInv, NEW c \in Client, LibeventThread(c) \/ conn_eventcb(c)
    PROVE  HandshakeInv'
<1>0. UNCHANGED <<ui, m_state, m_bSendBitmapReady, sent, cliState, view>> /\ lev = Idle
  BY Zenon DEF LibeventThread, listener_cb, conn_readcb, conn_eventcb, OnAsynSendCommand, connVars, cliVars
<1>t. TypeOK
  BY DEF SyncInv
<1>1. \A d \in Client : Brought(d) = <<>> /\ (Clips(d)' <=> Clips(d))
  BY <1>0 DEF Brought, Idle, Clips
<1>2. ASSUME NEW d \in Client,
             Coming(d, RequestCodes)' => Coming(d, RequestCodes),
             Coming(d, AnswerCodes)' => Coming(d, AnswerCodes),
             HasCode(InFlight(d)', ModifyCodes) => HasCode(InFlight(d), ModifyCodes),
             InFlight(d) = <<>> => InFlight(d)' = <<>>
      PROVE  Agreed(d)'
  <2>1. HasDrawn(d)' => HasDrawn(d)
    BY <1>0, <1>1, <1>2 DEF HasDrawn
  <2>2. Agreed(d)
    BY DEF HandshakeInv
  <2>3. m_state[d] = RDCS_INVALID => InFlight(d)' = InFlight(d)
    BY <1>2, <2>2 DEF Agreed
  <2> QED
    BY <1>0, <1>2, <2>1, <2>2, <2>3, AgreedFrame
<1>3. CASE listener_cb(c)
  <2>1. /\ lev' = [pc |-> "connected", conn |-> c] /\ UNCHANGED <<s2c, c2s, m_queueAsynCommand>>
        /\ m_mapClient' = m_mapClient \cup {c} /\ m_state[c] = RDCS_INVALID
        /\ m_pAsynSendCommandEvent' = [m_pAsynSendCommandEvent EXCEPT ![c] = TRUE]
    BY <1>3 DEF listener_cb
  <2>2. MapInv'
    <3>1. \A d \in m_mapClient' : m_pAsynSendCommandEvent'[d]
      BY <1>t, <2>1 DEF HandshakeInv, MapInv, TypeOK
    <3>2. \A d \in m_mapClient' : m_state'[d] # RDCS_DISCONNECTED
      BY <1>0, <2>1 DEF HandshakeInv, MapInv, RDCS_INVALID, RDCS_DISCONNECTED
    <3> QED
      BY <2>1, <3>1, <3>2 DEF MapInv
  <2>3. \A d \in Client : Brought(d)' = <<>> /\ InFlight(d)' = InFlight(d) /\ c2s'[d] = c2s[d]
    BY <2>1 DEF Brought, InFlight
  <2> QED
    BY <1>1, <1>2, <2>2, <2>3 DEF HandshakeInv, Coming
<1>4. CASE conn_readcb(c)
  <2>1. /\ lev'.pc = "command"
        /\ UNCHANGED <<m_mapClient, s2c, m_queueAsynCommand, m_pAsynSendCommandEvent>>
    BY <1>4 DEF conn_readcb, connVars
  <2>2. MapInv'
    BY <1>0, <2>1 DEF HandshakeInv, MapInv
  <2>3. \A d \in Client : InFlight(d)' = InFlight(d)
    BY <2>1 DEF InFlight
  <2> QED
    BY <1>2, <1>4, <1>t, <2>2, <2>3, ReadKeepsComing DEF HandshakeInv
<1>5. CASE OnAsynSendCommand(c)
  <2>1. UNCHANGED <<m_mapClient, lev, c2s, m_pAsynSendCommandEvent>>
    BY <1>5 DEF OnAsynSendCommand
  <2>2. MapInv'
    BY <1>0, <2>1 DEF HandshakeInv, MapInv
  <2>3. \A d \in Client : InFlight(d)' = InFlight(d)
    BY <1>5, <1>t, FlushKeepsInFlight
  <2>4. \A d \in Client : \A codes : Coming(d, codes)' <=> Coming(d, codes)
    BY <2>1 DEF Coming, Brought
  <2> QED
    BY <1>2, <2>2, <2>3, <2>4 DEF HandshakeInv
<1>6. CASE conn_eventcb(c)
  <2>1. /\ m_mapClient' = m_mapClient \ {c} /\ lev' = [pc |-> "disconnected", conn |-> c]
        /\ s2c' = [s2c EXCEPT ![c] = <<>>] /\ c2s' = [c2s EXCEPT ![c] = <<>>]
        /\ UNCHANGED <<m_queueAsynCommand, m_pAsynSendCommandEvent>>
    BY <1>6 DEF conn_eventcb, connVars
  <2>2. MapInv'
    BY <1>0, <2>1 DEF HandshakeInv, MapInv
  <2>3. ASSUME NEW d \in Client, NEW codes PROVE Coming(d, codes)' => Coming(d, codes)
    <3>1. c2s'[d] \in {c2s[d], <<>>} /\ Brought(d)' = <<>>
      BY <1>t, <2>1 DEF TypeOK, Brought
    <3> QED
      BY <3>1, NoCode DEF Coming
  <2> QED
    BY <1>2, <1>t, <2>1, <2>2, <2>3, ClosedInFlight DEF HandshakeInv
<1> QED
  BY <1>3, <1>4, <1>5, <1>6 DEF LibeventThread

LEMMA HandshakeConnections ==
    ASSUME SyncInv, HandshakeInv, NEW c \in Client, OnClientConnected(c) \/ OnClientDisconnected(c)
    PROVE  HandshakeInv'
<1>t. TypeOK /\ m_state \in [Client -> ConnectionState]
  BY DEF SyncInv, TypeOK
<1>0. UNCHANGED <<m_mapClient, ui, m_bSendBitmapReady, s2c, c2s, cliState, view>>
      /\ lev' = Idle /\ lev \in {[pc |-> "connected", conn |-> c], [pc |-> "disconnected", conn |-> c]}
  BY DEF OnClientConnected, OnClientDisconnected, connVars, cliVars
<1>1. \A d \in Client : \A codes : Coming(d, codes)' <=> Coming(d, codes)
  BY <1>0 DEF Coming, Brought, Idle
<1>2. CASE OnClientConnected(c)
  <2>1. /\ lev = [pc |-> "connected", conn |-> c]
        /\ m_state' = [m_state EXCEPT ![c] = RDCS_CONNECTED]
        /\ UNCHANGED <<m_pAsynSendCommandEvent, m_queueAsynCommand, sent>>
    BY <1>2 DEF OnClientConnected, connVars
  <2>2. m_state[c] = RDCS_INVALID /\ sent[c] = Null
    BY <2>1 DEF SyncInv, BufferInv
  <2>3. /\ m_state'[c] = RDCS_CONNECTED
        /\ \A d \in Client \ {c} : m_state'[d] = m_state[d]
    BY <1>t, <2>1
  <2>4. MapInv'
    <3>1. \A d \in m_mapClient' : m_state'[d] # RDCS_DISCONNECTED
      BY <1>0, <1>t, <2>3 DEF HandshakeInv, MapInv, TypeOK, RDCS_CONNECTED, RDCS_DISCONNECTED
    <3> QED
      BY <1>0, <2>1, <3>1 DEF HandshakeInv, MapInv, Idle
  <2>5. ASSUME NEW d \in Client PROVE Agreed(d)'
    <3>1. Agreed(d) /\ InFlight(d)' = InFlight(d) /\ (HasDrawn(d)' <=> HasDrawn(d))
      BY <1>0, <1>1, <2>1 DEF HandshakeInv, InFlight, HasDrawn, Clips
    <3>2. CASE d # c
      BY <1>0, <1>1, <2>1, <2>3, <3>1, <3>2, AgreedFrame
    <3>3. CASE d = c
      BY <1>0, <1>1, <2>1, <2>2, <2>3, <3>1, <3>3
         DEF Agreed, RDCS_INVALID, RDCS_CONNECTED, RDCS_COMPRESS_MODE, RDCS_TRANSFER
    <3> QED
      BY <3>2, <3>3
  <2> QED
    BY <2>4, <2>5 DEF HandshakeInv
<1>3. CASE OnClientDisconnected(c)
  <2>1. /\ lev = [pc |-> "disconnected", conn |-> c]
        /\ m_state' = [m_state EXCEPT ![c] = RDCS_DISCONNECTED]
        /\ m_pAsynSendCommandEvent' = [m_pAsynSendCommandEvent EXCEPT ![c] = FALSE]
        /\ m_queueAsynCommand' = [m_queueAsynCommand EXCEPT ![c] = <<>>]
        /\ sent' = [sent EXCEPT ![c] = Null]
    BY <1>3 DEF OnClientDisconnected
  <2>2. /\ m_state'[c] = RDCS_DISCONNECTED /\ sent'[c] = Null /\ m_queueAsynCommand'[c] = <<>>
        /\ \A d \in Client \ {c} : /\ m_state'[d] = m_state[d] /\ sent'[d] = sent[d]
                                   /\ m_queueAsynCommand'[d] = m_queueAsynCommand[d]
                                   /\ m_pAsynSendCommandEvent'[d] = m_pAsynSendCommandEvent[d]
    BY <1>t, <2>1 DEF TypeOK
  <2>3. MapInv'
    <3>1. c \notin m_mapClient /\ m_mapClient \subseteq Client
      BY <1>t, <2>1 DEF HandshakeInv, MapInv, TypeOK
    <3> QED
      BY <1>0, <2>2, <3>1 DEF HandshakeInv, MapInv, Idle
  <2>4. ASSUME NEW d \in Client PROVE Agreed(d)'
    <3>0. Agreed(d)
      BY DEF HandshakeInv
    <3>1. CASE d # c
      <4>1. InFlight(d)' = InFlight(d) /\ (HasDrawn(d)' <=> HasDrawn(d))
        BY <1>0, <1>1, <2>2, <3>1 DEF InFlight, HasDrawn, Clips
      <4> QED
        BY <1>0, <1>1, <2>2, <3>0, <3>1, <4>1, AgreedFrame
    <3>2. CASE d = c
      <4>1. s2c[d] \in Seq(ServerCommand) /\ m_queueAsynCommand[d] \in Seq(ServerCommand)
        BY <1>t DEF TypeOK
      <4>2. s2c[d] \o <<>> = s2c[d]
        BY <4>1
      <4>3. InFlight(d)' = s2c[d]
        BY <1>0, <2>2, <3>2, <4>2 DEF InFlight
      <4>4. HasCode(InFlight(d)', ModifyCodes) => HasCode(InFlight(d), ModifyCodes)
        BY <4>1, <4>3, CodeOfConcat DEF InFlight
      <4>5. HasDrawn(d)' => HasDrawn(d)
        BY <1>0, <1>1, <4>4 DEF HasDrawn, Clips
      <4> QED
        BY <1>0, <1>1, <2>2, <3>0, <3>2, <4>5
           DEF Agreed, RDCS_INVALID, RDCS_DISCONNECTED, RDCS_COMPRESS_MODE, RDCS_TRANSFER
    <3> QED
      BY <3>1, <3>2
  <2> QED
    BY <2>3, <2>4 DEF HandshakeInv
<1> QED
  BY <1>2, <1>3

\* A command queued is the last one in flight.
LEMMA QueuedInFlight ==
    ASSUME TypeOK, NEW c \in Client, NEW m \in ServerCommand, s2c'[c] = s2c[c],
           m_queueAsynCommand'[c] = Append(m_queueAsynCommand[c], m)
    PROVE  /\ InFlight(c) \in Seq(ServerCommand) /\ InFlight(c)' = Append(InFlight(c), m)
           /\ \A codes : HasCode(InFlight(c)', codes) <=> HasCode(InFlight(c), codes) \/ m.code \in codes
<1> DEFINE s == s2c[c]
           q == m_queueAsynCommand[c]
<1>1. s \in Seq(ServerCommand) /\ q \in Seq(ServerCommand)
  BY DEF TypeOK
<1> HIDE DEF s, q
<1>2. s \o q \in Seq(ServerCommand) /\ s \o Append(q, m) = Append(s \o q, m)
  BY <1>1
<1>3. InFlight(c) \in Seq(ServerCommand) /\ InFlight(c)' = Append(InFlight(c), m)
  BY <1>2 DEF InFlight, s, q
<1> QED
  BY <1>3, CodeOfAppend

LEMMA CodeSets ==
    /\ AnswerCodes \in SUBSET Nat /\ RequestCodes \in SUBSET Nat
    /\ ImageCodes \in SUBSET Nat /\ ModifyCodes \in SUBSET Nat
BY DEF AnswerCodes, RequestCodes, ImageCodes, ModifyCodes, RDCC_TRANSFER_BITMAP_RESPONSE,
       RDCC_COMPRESS_MODE, RDCC_TRANSFER_BITMAP, RDCC_TRANSFER_MODIFY_BITMAP

LEMMA HandshakeCommand ==
    ASSUME SyncInv, HandshakeInv, NEW c \in Client, OnReciveCommand(c)
    PROVE  HandshakeInv'
<1>t. TypeOK /\ m_state \in [Client -> ConnectionState] /\ m_state[c] \in ConnectionState
      /\ m_mapClient \subseteq Client
  BY DEF SyncInv, TypeOK
<1>0. ui = UiFree /\ lev.pc = "command" /\ lev.conn = c
  BY DEF OnReciveCommand, IgnoreCommand, OnGetProtocalVersion, OnGetLogon, OnGetCompressMode,
         OnGetTransferBitmap, OnGetTransferBitmapResult, Receives, Waiting
<1>1. UNCHANGED <<sent, cliState, view>> /\ (Return \/ UNCHANGED lev)
  BY Zenon DEF OnReciveCommand, IgnoreCommand, OnGetProtocalVersion, OnGetLogon, OnGetCompressMode,
         OnGetTransferBitmap, OnGetTransferBitmapResult, Receives, connVars, cliVars
<1>2. /\ lev' \in {Idle} \cup [pc : {"command"}, conn : Client, cmds : Seq(ClientCommand) \ {<<>>}]
      /\ \A d \in Client, codes \in SUBSET Nat : HasCode(Brought(d)', codes) => HasCode(Brought(d), codes)
  <2>1. CASE Return
    BY <1>0, <1>t, <2>1, ReturnBrings
  <2>2. CASE UNCHANGED lev
    BY <1>0, <1>t, <2>2 DEF Brought, TypeOK, Idle
  <2> QED
    BY <1>1, <2>1, <2>2
<1>3. lev'.pc # "disconnected"
  BY <1>2 DEF Idle
<1>4. \A d \in Client : ~Clips(d)'
  <2>1. ui' = ui \/ ui'.pc = "compress"
    BY <1>0, UiFreeFields DEF OnReciveCommand, IgnoreCommand, OnGetProtocalVersion, OnGetLogon,
         OnGetCompressMode, OnGetTransferBitmap, OnGetTransferBitmapResult, Receives, UiFree
  <2> QED
    BY <1>0, <2>1, UiFreeFields DEF Clips
\* The state does not change, and no sign is new.
<1>5. ASSUME NEW d \in Client, c2s'[d] \in {c2s[d], <<>>}, m_state'[d] = m_state[d],
             m_bSendBitmapReady'[d] => m_bSendBitmapReady[d] \/ Coming(d, AnswerCodes),
             HasCode(InFlight(d)', ModifyCodes) => HasCode(InFlight(d), ModifyCodes),
             m_state[d] = RDCS_INVALID => InFlight(d)' = InFlight(d)
      PROVE  Agreed(d)'
  <2>1. \A codes \in SUBSET Nat : Coming(d, codes)' => Coming(d, codes)
    BY <1>2, <1>5, NoCode DEF Coming
  <2>2. HasDrawn(d)' => HasDrawn(d)
    BY <1>4, <1>5, <2>1, CodeSets DEF HasDrawn
  <2> QED
    BY <1>1, <1>5, <2>1, <2>2, CodeSets, AgreedFrame DEF HandshakeInv
\* The state of c changes, and nothing else.
<1>6. ASSUME NEW s \in ConnectionState, m_state' = [m_state EXCEPT ![c] = s],
             s \notin {RDCS_INVALID, RDCS_DISCONNECTED}, sent[c] # Null => s = RDCS_TRANSFER,
             s \in {RDCS_COMPRESS_MODE, RDCS_TRANSFER} =>
               Coming(c, RequestCodes) \/ m_state[c] \in {RDCS_COMPRESS_MODE, RDCS_TRANSFER},
             UNCHANGED <<m_bSendBitmapReady, c2s, m_mapClient, m_pAsynSendCommandEvent>>,
             \A d \in Client : HasCode(InFlight(d)', ModifyCodes) => HasCode(InFlight(d), ModifyCodes),
             \A d \in Client \ {c} : InFlight(d)' = InFlight(d)
      PROVE  HandshakeInv'
  <2>1. m_state'[c] = s /\ \A d \in Client \ {c} : m_state'[d] = m_state[d]
    BY <1>6, <1>t
  <2>2. MapInv'
    BY <1>3, <1>6, <1>t, <2>1 DEF HandshakeInv, MapInv
  <2>3. ASSUME NEW d \in Client, d # c PROVE Agreed(d)'
    BY <1>5, <1>6, <2>1, <2>3
  <2>4. Agreed(c)'
    <3>1. \A codes \in SUBSET Nat : Coming(c, codes)' => Coming(c, codes)
      BY <1>2, <1>6 DEF Coming
    <3>2. HasDrawn(c)' => HasDrawn(c)
      BY <1>4, <1>6, <3>1, CodeSets DEF HasDrawn
    <3>3. Agreed(c)
      BY DEF HandshakeInv
    <3> QED
      BY <1>1, <1>6, <2>1, <3>1, <3>2, <3>3, CodeSets DEF Agreed
  <2> QED
    BY <2>2, <2>3, <2>4 DEF HandshakeInv
<1>7. \A codes : Head(lev.cmds).code \in codes => Coming(c, codes)
  BY <1>0, <1>t, BroughtCommands, CodeOfTail DEF Coming
<1>8. sent[c] # Null => m_state[c] = RDCS_TRANSFER
  BY DEF HandshakeInv, Agreed
<1>9. CASE IgnoreCommand(c) \/ OnGetTransferBitmapResult(c)
  <2>1. UNCHANGED <<m_mapClient, m_state, s2c, c2s, m_pAsynSendCommandEvent, m_queueAsynCommand>>
    BY <1>9, Zenon DEF IgnoreCommand, OnGetTransferBitmapResult, connVars
  <2>2. MapInv'
    BY <1>3, <2>1 DEF HandshakeInv, MapInv
  <2>3. ASSUME NEW d \in Client
        PROVE  m_bSendBitmapReady'[d] => m_bSendBitmapReady[d] \/ Coming(d, AnswerCodes)
    <3>1. CASE IgnoreCommand(c)
      BY <3>1 DEF IgnoreCommand, connVars
    <3>2. CASE OnGetTransferBitmapResult(c)
      <4>1. Head(lev.cmds).code \in AnswerCodes
            /\ m_bSendBitmapReady' = [m_bSendBitmapReady EXCEPT ![c] = TRUE]
        BY <3>2 DEF OnGetTransferBitmapResult, Receives, Waiting, AnswerCodes
      <4> QED
        BY <1>7, <1>t, <4>1 DEF TypeOK
    <3> QED
      BY <1>9, <3>1, <3>2
  <2>4. \A d \in Client : InFlight(d)' = InFlight(d)
    BY <2>1 DEF InFlight
  <2> QED
    BY <1>5, <2>1, <2>2, <2>3, <2>4 DEF HandshakeInv
<1>10. CASE OnGetProtocalVersion(c)
  <2>1. m_state[c] = RDCS_CONNECTED /\ UNCHANGED <<m_bSendBitmapReady, m_queueAsynCommand>>
    BY <1>10, <1>t, AcceptedIn DEF OnGetProtocalVersion, Receives
  <2>2. CASE m_state' = [m_state EXCEPT ![c] = RDCS_PROTOCOL_VERSION]
             /\ UNCHANGED <<m_mapClient, m_pAsynSendCommandEvent, s2c, c2s>>
    <3>1. \A d \in Client : InFlight(d)' = InFlight(d)
      BY <2>1, <2>2 DEF InFlight
    <3>2. /\ RDCS_PROTOCOL_VERSION \in ConnectionState
          /\ RDCS_PROTOCOL_VERSION \notin {RDCS_INVALID, RDCS_DISCONNECTED, RDCS_COMPRESS_MODE, RDCS_TRANSFER}
          /\ m_state[c] # RDCS_TRANSFER
      BY <2>1 DEF ConnectionState, RDCS_PROTOCOL_VERSION, RDCS_INVALID, RDCS_DISCONNECTED,
                  RDCS_COMPRESS_MODE, RDCS_TRANSFER, RDCS_CONNECTED
    <3> QED
      BY <1>6, <1>8, <2>1, <2>2, <3>1, <3>2
  <2>3. CASE StopClient(c) /\ UNCHANGED m_state
    <3>1. /\ m_mapClient' = m_mapClient \ {c}
          /\ m_pAsynSendCommandEvent' = [m_pAsynSendCommandEvent EXCEPT ![c] = FALSE]
          /\ s2c' = [s2c EXCEPT ![c] = <<>>] /\ c2s' = [c2s EXCEPT ![c] = <<>>]
      BY <2>3 DEF StopClient
    <3>2. MapInv'
      BY <1>3, <1>t, <2>3, <3>1 DEF HandshakeInv, MapInv, TypeOK
    <3>3. ASSUME NEW d \in Client PROVE Agreed(d)'
      <4>1. /\ HasCode(InFlight(d)', ModifyCodes) => HasCode(InFlight(d), ModifyCodes)
            /\ InFlight(d) = <<>> => InFlight(d)' = <<>>
        BY <1>t, <2>1, <3>1, ClosedInFlight
      <4>2. m_state[d] = RDCS_INVALID => InFlight(d)' = InFlight(d)
        BY <4>1 DEF HandshakeInv, Agreed
      <4>3. c2s'[d] \in {c2s[d], <<>>}
        BY <1>t, <3>1 DEF TypeOK
      <4> QED
        BY <1>5, <2>1, <2>3, <4>1, <4>2, <4>3
    <3> QED
      BY <3>2, <3>3 DEF HandshakeInv
  <2> QED
    BY <1>10, <2>2, <2>3 DEF OnGetProtocalVersion
<1>11. CASE OnGetLogon(c)
  <2>1. /\ m_state[c] = RDCS_PROTOCOL_VERSION /\ m_state' = [m_state EXCEPT ![c] = RDCS_LOGON]
        /\ UNCHANGED <<m_bSendBitmapReady, m_mapClient, m_pAsynSendCommandEvent, s2c, c2s>>
        /\ m_queueAsynCommand' =
             [m_queueAsynCommand EXCEPT ![c] = Append(@, Command(RDCC_LOGON_RESULT))]
    BY <1>11, <1>t, AcceptedIn DEF OnGetLogon, Receives
  <2>2. /\ RDCS_LOGON \in ConnectionState
        /\ RDCS_LOGON \notin {RDCS_INVALID, RDCS_DISCONNECTED, RDCS_COMPRESS_MODE, RDCS_TRANSFER}
        /\ m_state[c] # RDCS_TRANSFER
    BY <2>1 DEF ConnectionState, RDCS_PROTOCOL_VERSION, RDCS_INVALID, RDCS_DISCONNECTED,
                RDCS_COMPRESS_MODE, RDCS_TRANSFER, RDCS_LOGON
  <2>3. /\ m_queueAsynCommand'[c] = Append(m_queueAsynCommand[c], Command(RDCC_LOGON_RESULT))
        /\ \A d \in Client \ {c} : m_queueAsynCommand'[d] = m_queueAsynCommand[d]
    BY <1>t, <2>1 DEF TypeOK
  <2>4. \A d \in Client \ {c} : InFlight(d)' = InFlight(d)
    BY <2>1, <2>3 DEF InFlight
  <2>5. HasCode(InFlight(c)', ModifyCodes) => HasCode(InFlight(c), ModifyCodes)
    <3>1. Command(RDCC_LOGON_RESULT).code \notin ModifyCodes
      BY DEF Command, ModifyCodes, RDCC_LOGON_RESULT, RDCC_TRANSFER_MODIFY_BITMAP
    <3> QED
      BY <1>t, <2>1, <2>3, <3>1, ServerCommands, QueuedInFlight
  <2> QED
    BY <1>6, <1>8, <2>1, <2>2, <2>4, <2>5
<1>12. CASE OnGetCompressMode(c)
  <2>1. /\ m_state[c] = RDCS_LOGON /\ m_state' = [m_state EXCEPT ![c] = RDCS_COMPRESS_MODE]
        /\ Head(lev.cmds).code \in RequestCodes
        /\ UNCHANGED <<m_bSendBitmapReady, m_mapClient, m_pAsynSendCommandEvent, s2c, c2s, m_queueAsynCommand>>
    BY <1>12, <1>t, AcceptedIn DEF OnGetCompressMode, Receives, Waiting, connVars, RequestCodes
  <2>2. /\ RDCS_COMPRESS_MODE \in ConnectionState
        /\ RDCS_COMPRESS_MODE \notin {RDCS_INVALID, RDCS_DISCONNECTED} /\ m_state[c] # RDCS_TRANSFER
    BY <2>1 DEF ConnectionState, RDCS_INVALID, RDCS_DISCONNECTED, RDCS_COMPRESS_MODE, RDCS_LOGON,
                RDCS_TRANSFER
  <2>3. \A d \in Client : InFlight(d)' = InFlight(d)
    BY <2>1 DEF InFlight
  <2> QED
    BY <1>6, <1>7, <1>8, <2>1, <2>2, <2>3
<1>13. CASE OnGetTransferBitmap(c)
  <2>1. /\ m_state[c] \in {RDCS_COMPRESS_MODE, RDCS_TRANSFER}
        /\ m_state' = [m_state EXCEPT ![c] = RDCS_TRANSFER]
        /\ UNCHANGED <<m_mapClient, m_bSendBitmapReady, m_queueAsynCommand,
                       m_pAsynSendCommandEvent, s2c, c2s>>
    BY <1>13, <1>t, AcceptedIn DEF OnGetTransferBitmap
  <2>2. RDCS_TRANSFER \in ConnectionState /\ RDCS_TRANSFER \notin {RDCS_INVALID, RDCS_DISCONNECTED}
    BY DEF ConnectionState, RDCS_INVALID, RDCS_DISCONNECTED, RDCS_TRANSFER
  <2>3. \A d \in Client : InFlight(d)' = InFlight(d)
    BY <2>1 DEF InFlight
  <2> QED
    BY <1>6, <2>1, <2>2, <2>3
<1> QED
  BY <1>9, <1>10, <1>11, <1>12, <1>13 DEF OnReciveCommand

\* A step that moves neither end of a negotiation.
LEMMA HandshakeFrame ==
    ASSUME HandshakeInv, UNCHANGED <<m_mapClient, m_state, m_pAsynSendCommandEvent, cliState, view>>,
           lev'.pc # "disconnected" \/ lev' = lev,
           \A d \in Client :
              /\ sent'[d] # Null => sent[d] # Null \/ m_state[d] = RDCS_TRANSFER
              /\ Coming(d, RequestCodes)' => Coming(d, RequestCodes)
              /\ HasDrawn(d)' => HasDrawn(d)
              /\ m_state[d] = RDCS_INVALID => InFlight(d)' = InFlight(d)
    PROVE  HandshakeInv'
<1>1. MapInv'
  BY DEF HandshakeInv, MapInv
<1>2. \A d \in Client : Agreed(d)'
  BY AgreedFrame DEF HandshakeInv
<1> QED
  BY <1>1, <1>2 DEF HandshakeInv

\* A whole picture is no sign that the client has drawn one.
LEMMA PictureInFlight ==
    ASSUME TypeOK, NEW S \in SUBSET Client, NEW img \in [Block -> Pixels], QueuePicture(S, img),
           UNCHANGED s2c, NEW d \in Client
    PROVE  /\ HasCode(InFlight(d)', ModifyCodes) => HasCode(InFlight(d), ModifyCodes)
           /\ d \notin S => InFlight(d)' = InFlight(d)
           /\ InFlight(d) \in Seq(ServerCommand)
           /\ d \in S /\ m_pAsynSendCommandEvent[d] =>
                InFlight(d)' = Append(InFlight(d), Image(RDCC_TRANSFER_BITMAP, img))
<1> DEFINE m == Image(RDCC_TRANSFER_BITMAP, img)
<1>1. m \in ServerCommand /\ m.code \notin ModifyCodes
  <2>1. m.code = RDCC_TRANSFER_BITMAP
    BY DEF Image
  <2> QED
    BY <2>1, ServerCommands DEF ModifyCodes, RDCC_TRANSFER_BITMAP, RDCC_TRANSFER_MODIFY_BITMAP
<1>2. m_queueAsynCommand'[d] = IF d \in S /\ m_pAsynSendCommandEvent[d]
                               THEN Append(m_queueAsynCommand[d], m) ELSE m_queueAsynCommand[d]
  BY DEF QueuePicture
<1> HIDE DEF m
<1>3. CASE d \in S /\ m_pAsynSendCommandEvent[d]
  <2>1. m_queueAsynCommand'[d] = Append(m_queueAsynCommand[d], m)
    BY <1>2, <1>3
  <2> QED
    BY <1>1, <1>3, <2>1, QueuedInFlight DEF m
<1>4. CASE ~(d \in S /\ m_pAsynSendCommandEvent[d])
  <2>1. m_queueAsynCommand'[d] = m_queueAsynCommand[d]
    BY <1>2, <1>4
  <2>2. s2c[d] \in Seq(ServerCommand) /\ m_queueAsynCommand[d] \in Seq(ServerCommand)
    BY DEF TypeOK
  <2>3. InFlight(d) \in Seq(ServerCommand)
    BY <2>2 DEF InFlight
  <2> QED
    BY <1>4, <2>1, <2>3 DEF InFlight
<1> QED
  BY <1>3, <1>4

\* The two handlers that queue a whole picture.
LEMMA PictureQueued ==
    ASSUME SyncInv, OnFirstBitmap \/ \E c \in Client : JPEG_Compress(c)
    PROVE  /\ UNCHANGED <<m_mapClient, m_state, m_pAsynSendCommandEvent, m_bSendBitmapReady,
                          s2c, c2s, cliState, view, crashed>>
           /\ ui' = UiFree /\ ui.pc \in {"free", "compress"}
           /\ lev'.pc # "disconnected" \/ lev' = lev
           /\ \A d \in Client, codes \in SUBSET Nat : HasCode(Brought(d)', codes) => HasCode(Brought(d), codes)
           /\ \E S \in SUBSET m_mapClient, img \in [Block -> Pixels] :
                /\ QueuePicture(S, img) /\ \A d \in S : m_state[d] = RDCS_TRANSFER
                /\ ui.pc = "compress" => S = {ui.conn}
                /\ \A d \in Client : Brought(d)' = Brought(d) \/ (ui.pc = "compress" /\ d = lev.conn)
<1>t. TypeOK /\ m_mapClient \subseteq Client
  BY DEF SyncInv, TypeOK
<1>1. /\ UNCHANGED <<m_mapClient, m_state, m_pAsynSendCommandEvent, m_bSendBitmapReady,
                     s2c, c2s, cliState, view, crashed>>
      /\ ui' = UiFree /\ ui.pc \in {"free", "compress"}
  BY UiFreeFields, Zenon DEF OnFirstBitmap, JPEG_Compress, capVars, cliVars
<1>2. CASE OnFirstBitmap
  <2>1. QueuePicture(FirstBitmapReceivers, m_pBuffer) /\ capture.pc = "first" /\ UNCHANGED lev
    BY <1>2 DEF OnFirstBitmap
  <2>2. FirstBitmapReceivers \in SUBSET m_mapClient /\ \A d \in FirstBitmapReceivers : m_state[d] = RDCS_TRANSFER
    BY DEF FirstBitmapReceivers
  <2>3. m_pBuffer \in [Block -> Pixels]
    BY <1>t, <2>1, PictureIsImage DEF SyncInv, BufferInv, TypeOK
  <2>4. \A d : Brought(d)' = Brought(d)
    BY <2>1 DEF Brought
  <2>5. ui.pc = "free"
    BY <1>2, UiFreeFields DEF OnFirstBitmap
  <2> QED
    BY <1>1, <2>1, <2>2, <2>3, <2>4, <2>5
<1>3. ASSUME NEW c \in Client, JPEG_Compress(c)
      PROVE  /\ lev'.pc # "disconnected"
             /\ \A d \in Client, codes \in SUBSET Nat : HasCode(Brought(d)', codes) => HasCode(Brought(d), codes)
             /\ \E S \in SUBSET m_mapClient, img \in [Block -> Pixels] :
                  /\ QueuePicture(S, img) /\ \A d \in S : m_state[d] = RDCS_TRANSFER
                  /\ ui.pc = "compress" => S = {ui.conn}
                  /\ \A d \in Client : Brought(d)' = Brought(d) \/ (ui.pc = "compress" /\ d = lev.conn)
  <2>1. PICK img \in {ui.img} \cup (IF ui.torn THEN {[b \in Block |-> Torn]} ELSE {}) :
          /\ QueuePicture({c}, img)
          /\ garbled' = [garbled EXCEPT ![c] = img # ui.img]
    BY <1>3 DEF JPEG_Compress
  <2>2. ui.pc = "compress" /\ ui.conn = c /\ Return
    BY <1>3 DEF JPEG_Compress
  <2>3. /\ ui.img \in Bitmap /\ c \in m_mapClient /\ m_state[c] = RDCS_TRANSFER /\ lev.pc = "command"
    BY <2>2 DEF SyncInv, HandlerInv, LoopInv, CompressInv
  <2>4. img \in [Block -> Pixels]
    <3>1. [b \in Block |-> Torn] \in [Block -> Pixels]
      BY DEF Pixels
    <3>2. ui.img \in [Block -> Pixels]
      BY <2>3, PictureIsImage
    <3> QED
      BY <3>1, <3>2
  <2>5. PICK w \in Client : lev.conn = w
    BY <1>t, <2>3, BroughtCommands
  <2>6. /\ lev' \in {Idle} \cup [pc : {"command"}, conn : Client, cmds : Seq(ClientCommand) \ {<<>>}]
        /\ \A d \in Client, codes \in SUBSET Nat : HasCode(Brought(d)', codes) => HasCode(Brought(d), codes)
        /\ \A d \in Client \ {w} : Brought(d)' = <<>>
    BY <1>t, <2>2, <2>3, <2>5, ReturnBrings
  <2>7. lev'.pc # "disconnected"
    BY <2>6 DEF Idle
  <2>8. \A d \in Client \ {w} : Brought(d) = <<>>
    BY <1>t, <2>3, <2>5, BroughtCommands
  <2>9. {c} \in SUBSET m_mapClient
    BY <2>3
  <2> QED
    BY <2>1, <2>2, <2>3, <2>4, <2>5, <2>6, <2>7, <2>8, <2>9
<1> QED
  BY <1>1, <1>2, <1>3

LEMMA HandshakePictures ==
    ASSUME SyncInv, HandshakeInv, OnFirstBitmap \/ \E c \in Client : JPEG_Compress(c)
    PROVE  HandshakeInv'
<1>t. TypeOK /\ m_mapClient \subseteq Client
  BY DEF SyncInv, TypeOK
<1>1. /\ UNCHANGED <<m_mapClient, m_state, m_pAsynSendCommandEvent, m_bSendBitmapReady,
                     s2c, c2s, cliState, view>>
      /\ ui' = UiFree /\ (lev'.pc # "disconnected" \/ lev' = lev)
      /\ \A d \in Client, codes \in SUBSET Nat : HasCode(Brought(d)', codes) => HasCode(Brought(d), codes)
  BY PictureQueued
<1>2. PICK S \in SUBSET m_mapClient, img \in [Block -> Pixels] :
        QueuePicture(S, img) /\ \A d \in S : m_state[d] = RDCS_TRANSFER
  BY PictureQueued
<1>3. S \in SUBSET Client
  BY <1>t
<1>4. ASSUME NEW d \in Client
      PROVE  /\ sent'[d] # Null => sent[d] # Null \/ m_state[d] = RDCS_TRANSFER
             /\ Coming(d, RequestCodes)' => Coming(d, RequestCodes)
             /\ HasDrawn(d)' => HasDrawn(d)
             /\ m_state[d] = RDCS_INVALID => InFlight(d)' = InFlight(d)
  <2>1. sent'[d] = IF d \in S THEN img ELSE sent[d]
    BY <1>2 DEF QueuePicture
  <2>2. \A codes \in SUBSET Nat : Coming(d, codes)' => Coming(d, codes)
    BY <1>1 DEF Coming
  <2>3. /\ HasCode(InFlight(d)', ModifyCodes) => HasCode(InFlight(d), ModifyCodes)
        /\ d \notin S => InFlight(d)' = InFlight(d)
    BY <1>1, <1>2, <1>3, <1>t, PictureInFlight
  <2>4. ~Clips(d)'
    BY <1>1, UiFreeFields DEF Clips
  <2>5. HasDrawn(d)' => HasDrawn(d)
    BY <1>1, <2>2, <2>3, <2>4, CodeSets DEF HasDrawn
  <2>6. d \in S => m_state[d] # RDCS_INVALID
    BY <1>2 DEF RDCS_TRANSFER, RDCS_INVALID
  <2> QED
    BY <1>2, <2>1, <2>2, <2>3, <2>5, <2>6, CodeSets
<1> QED
  BY <1>1, <1>4, HandshakeFrame

LEMMA CaptureUi ==
    ASSUME TypeOK, CaptureThread
    PROVE  ui'.pc = ui.pc /\ ui'.conn = ui.conn
<1>1. ui' = ui \/ ui' = [ui EXCEPT !.torn = TRUE]
  BY DEF CaptureThread, CaptureFirst, CaptureSwap, Overtake
<1> QED
  BY <1>1 DEF TypeOK

LEMMA HandshakeLoop ==
    ASSUME SyncInv, HandshakeInv,
           CaptureThread \/ OnModified \/ ClipBitmapRect \/ \E c \in Client : OnScreenModified(c)
    PROVE  HandshakeInv'
<1>1. UNCHANGED <<m_mapClient, lev, m_state, m_pAsynSendCommandEvent, m_queueAsynCommand, sent,
                  s2c, c2s, cliState, view>>
  BY Zenon DEF CaptureThread, CaptureFirst, CaptureSwap, OnModified, ClipBitmapRect, OnScreenModified,
               connVars, cliVars
<1>t. TypeOK
  BY DEF SyncInv
<1>2. \A d \in Client : \A codes : Coming(d, codes)' <=> Coming(d, codes)
  BY <1>1 DEF Coming, Brought
<1>3. \A d \in Client : InFlight(d)' = InFlight(d)
  BY <1>1 DEF InFlight
<1>4. ASSUME NEW d \in Client PROVE (m_bSendBitmapReady'[d] => m_bSendBitmapReady[d])
                                    /\ (Clips(d)' => Clips(d) \/ m_bSendBitmapReady[d])
  <2>1. CASE CaptureThread \/ OnModified \/ ClipBitmapRect
    <3>1. UNCHANGED m_bSendBitmapReady
      BY <2>1, Zenon DEF CaptureThread, CaptureFirst, CaptureSwap, OnModified, ClipBitmapRect, connVars
    <3>2. Clips(d)' => Clips(d)
      <4>1. CASE CaptureThread
        BY <1>t, <4>1, CaptureUi DEF Clips
      <4>2. CASE OnModified
        <5>1. ui'.pc # "clip"
          BY <4>2 DEF OnModified, UiFree
        <5> QED
          BY <5>1 DEF Clips
      <4>3. CASE ClipBitmapRect
        <5>1. ui'.pc = ui.pc /\ ui'.conn = ui.conn
          BY <1>t, <4>3 DEF ClipBitmapRect, TypeOK
        <5> QED
          BY <5>1 DEF Clips
      <4> QED
        BY <2>1, <4>1, <4>2, <4>3
    <3> QED
      BY <3>1, <3>2
  <2>2. ASSUME NEW c \in Client, OnScreenModified(c)
        PROVE  (m_bSendBitmapReady'[d] => m_bSendBitmapReady[d])
               /\ (Clips(d)' => Clips(d) \/ m_bSendBitmapReady[d])
    <3>1. CASE /\ m_bSendBitmapReady[c]
               /\ m_bSendBitmapReady' = [m_bSendBitmapReady EXCEPT ![c] = FALSE]
               /\ ui' = [ui EXCEPT !.pc = "clip", !.conn = c]
      BY <1>t, <3>1 DEF Clips, TypeOK
    <3>2. CASE ui' = LoopAfter(c) /\ UNCHANGED m_bSendBitmapReady
      BY <1>t, <3>2, LoopAfterUi DEF Clips
    <3> QED
      BY <2>2, <3>1, <3>2 DEF OnScreenModified
  <2> QED
    BY <2>1, <2>2
<1>5. \A d \in Client : HasDrawn(d)' => HasDrawn(d)
  BY <1>2, <1>3, <1>4 DEF HasDrawn
<1> QED
  BY <1>1, <1>2, <1>3, <1>5, HandshakeFrame

LEMMA HandshakeModifyBitmap ==
    ASSUME SyncInv, HandshakeInv, NEW c \in Client, AsynSendTransterModifyBitmap(c)
    PROVE  HandshakeInv'
<1>t. TypeOK
  BY DEF SyncInv
<1>1. /\ UNCHANGED <<m_mapClient, lev, m_state, m_pAsynSendCommandEvent, m_bSendBitmapReady,
                     s2c, c2s, cliState, view>>
      /\ Clips(c) /\ ui' = LoopAfter(c)
      /\ m_queueAsynCommand' =
           [m_queueAsynCommand EXCEPT ![c] = Append(@, Image(RDCC_TRANSFER_MODIFY_BITMAP, ui.img))]
      /\ sent' = [sent EXCEPT ![c] = Drawn(ui.img, @)]
  BY DEF AsynSendTransterModifyBitmap, cliVars, Clips
<1>2. sent[c] # Null
  BY SyncModifyBitmap
<1>3. ASSUME NEW d \in Client, d # c PROVE InFlight(d)' = InFlight(d) /\ sent'[d] = sent[d]
  BY <1>1, <1>3, <1>t DEF InFlight, TypeOK
<1>4. ASSUME NEW d \in Client
      PROVE  /\ sent'[d] # Null => sent[d] # Null
             /\ Coming(d, RequestCodes)' <=> Coming(d, RequestCodes)
             /\ Coming(d, AnswerCodes)' <=> Coming(d, AnswerCodes)
             /\ ~Clips(d)'
             /\ m_state[d] = RDCS_INVALID => InFlight(d)' = InFlight(d)
  <2>1. ~Clips(d)'
    BY <1>1, <1>t, LoopAfterUi DEF Clips
  <2>2. \A codes : Coming(d, codes)' <=> Coming(d, codes)
    BY <1>1 DEF Coming, Brought
  <2>3. m_state[c] # RDCS_INVALID
    BY <1>2 DEF SyncInv, BufferInv
  <2> QED
    BY <1>2, <1>3, <2>1, <2>2, <2>3
<1>5. \A d \in Client : HasDrawn(d)' => HasDrawn(d)
  <2>1. HasDrawn(c)
    BY <1>1 DEF HasDrawn
  <2> QED
    BY <1>1, <1>3, <1>4, <2>1 DEF HasDrawn
<1> QED
  BY <1>1, <1>4, <1>5, HandshakeFrame

\* What a client says first, and what it asks for when it has logged on.
Hello == <<Command(RDCC_PROTOCOL_VERSION), Command(RDCC_LOGON)>>
Asks  == <<Command(RDCC_COMPRESS_MODE), Command(RDCC_TRANSFER_BITMAP)>>
Ack   == <<Command(RDCC_TRANSFER_BITMAP_RESPONSE)>>

LEMMA ClientWords ==
    /\ ~HasCode(Hello, RequestCodes) /\ ~HasCode(Hello, AnswerCodes)
    /\ Asks \in Seq(ClientCommand) /\ HasCode(Asks, RequestCodes) /\ ~HasCode(Asks, AnswerCodes)
    /\ Ack \in Seq(ClientCommand) /\ ~HasCode(Ack, RequestCodes) /\ HasCode(Ack, AnswerCodes)
<1> USE DEF RDCC_PROTOCOL_VERSION, RDCC_LOGON, RDCC_COMPRESS_MODE, RDCC_TRANSFER_BITMAP,
            RDCC_TRANSFER_BITMAP_RESPONSE
<1>1. Len(Hello) = 2 /\ Hello[1].code = RDCC_PROTOCOL_VERSION /\ Hello[2].code = RDCC_LOGON
  BY DEF Hello, Command
<1>2. /\ Len(Asks) = 2 /\ Asks[1].code = RDCC_COMPRESS_MODE /\ Asks[2].code = RDCC_TRANSFER_BITMAP
      /\ Asks \in Seq(ClientCommand)
  BY DEF Asks, Command, ClientCommand, Commands
<1>3. /\ Len(Ack) = 1 /\ Ack[1].code = RDCC_TRANSFER_BITMAP_RESPONSE
      /\ Ack \in Seq(ClientCommand)
  BY DEF Ack, Command, ClientCommand, Commands
<1> QED
  BY <1>1, <1>2, <1>3 DEF HasCode, RequestCodes, AnswerCodes

\* What a client accepts tells its state, and so does what it rejects.
LEMMA ClientAcceptedIn ==
    ASSUME NEW state \in {RDCS_INVALID, RDCS_LOGON, RDCS_COMPRESS_MODE, RDCS_TRANSFER}
    PROVE  /\ ClientAccepts(state, RDCC_LOGON_RESULT) <=> state = RDCS_LOGON
           /\ ClientAccepts(state, RDCC_TRANSFER_BITMAP) <=> state \in {RDCS_COMPRESS_MODE, RDCS_TRANSFER}
           /\ ClientAccepts(state, RDCC_TRANSFER_MODIFY_BITMAP) <=> state = RDCS_TRANSFER
BY DEF ClientAccepts, RDCC_LOGON_RESULT, RDCC_TRANSFER_BITMAP, RDCC_TRANSFER_MODIFY_BITMAP,
       RDCC_COMPRESS_MODE, RDCC_DISCONNECT, RDCS_INVALID, RDCS_LOGON, RDCS_LOGON_RESULT,
       RDCS_COMPRESS_MODE, RDCS_TRANSFER, RDCS_CONNECTED, RDCS_DISCONNECTED

\* The cases of a command that a client receives.
LEMMA ClientReceives ==
    ASSUME TypeOK, NEW c \in Client, ClientOnReciveCommand(c)
    PROVE  LET m == Head(s2c[c])
           IN  \/ /\ UNCHANGED <<cliState, view, c2s>>
                  /\ \/ m.code = RDCC_LOGON_RESULT
                     \/ m.code = RDCC_TRANSFER_BITMAP
                          /\ cliState[c] \notin {RDCS_COMPRESS_MODE, RDCS_TRANSFER}
                     \/ m.code = RDCC_TRANSFER_MODIFY_BITMAP /\ cliState[c] # RDCS_TRANSFER
               \/ /\ m.code = RDCC_LOGON_RESULT /\ cliState[c] = RDCS_LOGON
                  /\ cliState'[c] = RDCS_COMPRESS_MODE /\ view'[c] = view[c]
                  /\ c2s'[c] = c2s[c] \o Asks
               \/ /\ m.code = RDCC_TRANSFER_BITMAP
                  /\ cliState[c] \in {RDCS_COMPRESS_MODE, RDCS_TRANSFER}
                  /\ cliState'[c] = RDCS_TRANSFER /\ view'[c] = m.img
                  /\ c2s'[c] = c2s[c] \o Ack
               \/ /\ m.code = RDCC_TRANSFER_MODIFY_BITMAP /\ cliState[c] = RDCS_TRANSFER
                  /\ cliState'[c] = RDCS_TRANSFER /\ view'[c] = ClientViewAfter(view[c], m)
                  /\ c2s'[c] = c2s[c] \o Ack
<1> DEFINE m == Head(s2c[c])
<1>1. /\ \/ UNCHANGED <<cliState, view, c2s>> /\ ~ClientAccepts(cliState[c], m.code)
         \/ /\ ClientAccepts(cliState[c], m.code)
            /\ cliState' = [cliState EXCEPT ![c] = ClientStateAfter(@, m)]
            /\ view' = [view EXCEPT ![c] = ClientViewAfter(@, m)]
            /\ c2s' = [c2s EXCEPT ![c] = @ \o ClientReplies(m)]
  BY DEF ClientOnReciveCommand, cliVars
<1>2. m \in ServerCommand
  BY ReceivedInFlight
<1> HIDE DEF m
<1>3. m.code \in {RDCC_TRANSFER_BITMAP, RDCC_TRANSFER_MODIFY_BITMAP, RDCC_LOGON_RESULT}
  BY <1>2, ServerCommands DEF ImageCodes
<1>4. /\ cliState[c] \in {RDCS_INVALID, RDCS_LOGON, RDCS_COMPRESS_MODE, RDCS_TRANSFER}
      /\ cliState \in [Client -> {RDCS_INVALID, RDCS_LOGON, RDCS_COMPRESS_MODE, RDCS_TRANSFER}]
      /\ view \in [Client -> [Block -> Pixels] \cup {Null}] /\ c2s \in [Client -> Seq(ClientCommand)]
  BY DEF TypeOK
<1>5. CASE UNCHANGED <<cliState, view, c2s>> /\ ~ClientAccepts(cliState[c], m.code)
  BY <1>3, <1>4, <1>5, ClientAcceptedIn DEF m
<1>6. CASE /\ ClientAccepts(cliState[c], m.code)
           /\ cliState' = [cliState EXCEPT ![c] = ClientStateAfter(@, m)]
           /\ view' = [view EXCEPT ![c] = ClientViewAfter(@, m)]
           /\ c2s' = [c2s EXCEPT ![c] = @ \o ClientReplies(m)]
  <2>1. /\ cliState'[c] = ClientStateAfter(cliState[c], m)
        /\ view'[c] = ClientViewAfter(view[c], m)
        /\ c2s'[c] = c2s[c] \o ClientReplies(m)
    BY <1>4, <1>6
  <2> USE DEF RDCC_LOGON_RESULT, RDCC_TRANSFER_BITMAP, RDCC_TRANSFER_MODIFY_BITMAP
  <2>2. CASE m.code = RDCC_LOGON_RESULT
    <3>1. ClientStateAfter(cliState[c], m) = RDCS_COMPRESS_MODE /\ ClientViewAfter(view[c], m) = view[c]
          /\ ClientReplies(m) = Asks
      BY <2>2 DEF ClientStateAfter, ClientViewAfter, ClientReplies, IsImage, Asks
    <3> QED
      BY <1>4, <1>6, <2>1, <2>2, <3>1, ClientAcceptedIn DEF m
  <2>3. CASE m.code = RDCC_TRANSFER_BITMAP
    <3>1. ClientStateAfter(cliState[c], m) = RDCS_TRANSFER /\ ClientViewAfter(view[c], m) = m.img
          /\ ClientReplies(m) = Ack
      BY <2>3 DEF ClientStateAfter, ClientViewAfter, ClientReplies, IsImage, Ack
    <3> QED
      BY <1>4, <1>6, <2>1, <2>3, <3>1, ClientAcceptedIn DEF m
  <2>4. CASE m.code = RDCC_TRANSFER_MODIFY_BITMAP
    <3>1. ClientStateAfter(cliState[c], m) = cliState[c] /\ ClientReplies(m) = Ack
      BY <2>4 DEF ClientStateAfter, ClientReplies, IsImage, Ack
    <3> QED
      BY <1>4, <1>6, <2>1, <2>4, <3>1, ClientAcceptedIn DEF m
  <2> QED
    BY <1>3, <2>2, <2>3, <2>4
<1> QED
  BY <1>1, <1>5, <1>6 DEF m

LEMMA HandshakeClients ==
    ASSUME SyncInv, HandshakeInv, NEW c \in Client, ClientOnConnected(c) \/ ClientOnReciveCommand(c)
    PROVE  HandshakeInv'
<1>1. UNCHANGED <<m_mapClient, lev, ui, m_state, m_pAsynSendCommandEvent, m_bSendBitmapReady,
                  m_queueAsynCommand, sent>>
  BY Zenon DEF ClientOnConnected, ClientOnReciveCommand, connVars
<1>t. TypeOK /\ c2s[c] \in Seq(ClientCommand)
  BY DEF SyncInv, TypeOK
<1>2. MapInv'
  BY <1>1 DEF HandshakeInv, MapInv
<1>3. \A d \in Client : Brought(d)' = Brought(d) /\ (Clips(d)' <=> Clips(d))
  BY <1>1 DEF Brought, Clips
<1>4. \A d \in Client \ {c} :
        c2s'[d] = c2s[d] /\ s2c'[d] = s2c[d] /\ cliState'[d] = cliState[d] /\ view'[d] = view[d]
  BY <1>t DEF ClientOnConnected, ClientOnReciveCommand, cliVars, TypeOK
<1>5. ASSUME NEW d \in Client, d # c PROVE Agreed(d)'
  <2>1. InFlight(d)' = InFlight(d) /\ \A codes : Coming(d, codes)' <=> Coming(d, codes)
    BY <1>1, <1>3, <1>4, <1>5 DEF InFlight, Coming
  <2>2. HasDrawn(d)' <=> HasDrawn(d)
    BY <1>1, <1>3, <2>1 DEF HasDrawn
  <2> QED
    BY <1>1, <1>4, <1>5, <2>1, <2>2, AgreedFrame DEF HandshakeInv
<1>6. Agreed(c)
  BY DEF HandshakeInv
<1>7. CASE ClientOnConnected(c)
  <2>1. /\ cliState[c] = RDCS_INVALID /\ cliState'[c] = RDCS_LOGON /\ UNCHANGED <<s2c, view>>
        /\ c2s'[c] = Hello
    BY <1>7, <1>t DEF ClientOnConnected, TypeOK, Hello
  <2>2. InFlight(c)' = InFlight(c)
    BY <1>1, <2>1 DEF InFlight
  <2>3. \A codes \in {RequestCodes, AnswerCodes} : Coming(c, codes)' => Coming(c, codes)
    BY <1>3, <2>1, ClientWords DEF Coming
  <2>4. HasDrawn(c)' => HasDrawn(c)
    BY <1>1, <1>3, <2>2, <2>3 DEF HasDrawn
  <2>5. Agreed(c)'
    BY <1>1, <1>6, <2>1, <2>2, <2>3, <2>4
       DEF Agreed, RDCS_INVALID, RDCS_LOGON, RDCS_COMPRESS_MODE, RDCS_TRANSFER
  <2> QED
    BY <1>2, <1>5, <2>5 DEF HandshakeInv
<1>8. CASE ClientOnReciveCommand(c)
  <2> SUFFICES Agreed(c)'
    BY <1>2, <1>5 DEF HandshakeInv
  <2> DEFINE m == Head(s2c[c])
  <2>1. /\ InFlight(c) \in Seq(ServerCommand) /\ InFlight(c) # <<>>
        /\ Head(InFlight(c)) = m /\ InFlight(c)' = Tail(InFlight(c)) /\ m \in ServerCommand
    BY <1>8, <1>t, ReceivedInFlight
  <2>2. \/ UNCHANGED <<cliState, view, c2s>>
        \/ /\ cliState[c] = RDCS_LOGON /\ cliState'[c] = RDCS_COMPRESS_MODE /\ view'[c] = view[c]
           /\ c2s'[c] = c2s[c] \o Asks
        \/ /\ m.code = RDCC_TRANSFER_BITMAP /\ cliState[c] \in {RDCS_COMPRESS_MODE, RDCS_TRANSFER}
           /\ cliState'[c] = RDCS_TRANSFER /\ view'[c] = m.img
           /\ c2s'[c] = c2s[c] \o Ack
        \/ /\ m.code = RDCC_TRANSFER_MODIFY_BITMAP /\ cliState[c] = RDCS_TRANSFER
           /\ cliState'[c] = RDCS_TRANSFER /\ view'[c] = ClientViewAfter(view[c], m)
           /\ c2s'[c] = c2s[c] \o Ack
    BY <1>8, <1>t, ClientReceives
  <2> HIDE DEF m
  <2>3. m_state[c] # RDCS_INVALID
    BY <1>6, <2>1 DEF Agreed
  <2>4. HasCode(InFlight(c)', ModifyCodes) => HasCode(InFlight(c), ModifyCodes)
    BY <2>1, CodeOfTail
  <2>5. CASE UNCHANGED <<cliState, view, c2s>>
    <3>1. \A codes : Coming(c, codes)' <=> Coming(c, codes)
      BY <1>3, <2>5 DEF Coming
    <3>2. HasDrawn(c)' => HasDrawn(c)
      BY <1>1, <1>3, <2>4, <3>1 DEF HasDrawn
    <3> QED
      BY <1>1, <1>6, <2>3, <2>5, <3>1, <3>2, AgreedFrame
  <2>6. CASE /\ cliState[c] = RDCS_LOGON /\ cliState'[c] = RDCS_COMPRESS_MODE /\ view'[c] = view[c]
             /\ c2s'[c] = c2s[c] \o Asks
    <3>1. Coming(c, AnswerCodes)' <=> Coming(c, AnswerCodes)
      BY <1>3, <1>t, <2>6, ClientWords, CodeOfConcat DEF Coming
    <3>2. HasDrawn(c)' => HasDrawn(c)
      BY <1>1, <1>3, <2>4, <3>1 DEF HasDrawn
    <3> QED
      BY <1>1, <1>6, <2>3, <2>6, <3>2 DEF Agreed, RDCS_LOGON, RDCS_COMPRESS_MODE, RDCS_TRANSFER
  <2>7. CASE cliState'[c] = RDCS_TRANSFER /\ view'[c] # Null
    BY <1>1, <1>6, <2>3, <2>7 DEF Agreed
  <2>8. m.code = RDCC_TRANSFER_BITMAP => m.img # Null
    BY <2>1, ServerCommands, PictureIsImage
  <2>9. m.code = RDCC_TRANSFER_MODIFY_BITMAP /\ cliState[c] = RDCS_TRANSFER
        => ClientViewAfter(view[c], m) # Null
    <3> SUFFICES ASSUME m.code = RDCC_TRANSFER_MODIFY_BITMAP, cliState[c] = RDCS_TRANSFER
                 PROVE  ClientViewAfter(view[c], m) # Null
      OBVIOUS
    <3>1. view[c] # Null /\ view[c] \in [Block -> Pixels]
      BY <1>6, <1>t DEF Agreed, TypeOK
    <3>2. ClientViewAfter(view[c], m) = Drawn(m.img, view[c])
      BY <3>1 DEF ClientViewAfter, RDCC_TRANSFER_BITMAP, RDCC_TRANSFER_MODIFY_BITMAP
    <3> QED
      BY <2>1, <3>1, <3>2, ServerCommands, DrawnPicture, PictureIsImage
  <2> QED
    BY <2>2, <2>5, <2>6, <2>7, <2>8, <2>9
<1> QED
  BY <1>7, <1>8

LEMMA HandshakeNext == SyncInv /\ HandshakeInv /\ [Next]_vars => HandshakeInv'
<1> SUFFICES ASSUME SyncInv, HandshakeInv, [Next]_vars PROVE HandshakeInv'
  OBVIOUS
<1>1. CASE JPEG_CompressFaults \/ (\E c \in Client : OnScreenModifiedNull(c)) \/ UNCHANGED vars
  <2>1. UNCHANGED <<m_mapClient, lev, ui, m_state, m_pAsynSendCommandEvent, m_bSendBitmapReady,
                    m_queueAsynCommand, sent, s2c, c2s, cliState, view>>
    BY <1>1, Zenon DEF JPEG_CompressFaults, OnScreenModifiedNull, vars, connVars, cliVars
  <2>2. \A d \in Client : /\ \A codes : Coming(d, codes)' <=> Coming(d, codes)
                          /\ InFlight(d)' = InFlight(d) /\ (Clips(d)' <=> Clips(d))
    BY <2>1 DEF Coming, Brought, InFlight, Clips
  <2>3. \A d \in Client : HasDrawn(d)' <=> HasDrawn(d)
    BY <2>1, <2>2 DEF HasDrawn
  <2> QED
    BY <2>1, <2>2, <2>3, HandshakeFrame
<1> QED
  BY <1>1, HandshakeLibevent, HandshakeConnections, HandshakeCommand, HandshakePictures, HandshakeLoop,
     HandshakeModifyBitmap, HandshakeClients DEF Next, Busy

-----------------------------------------------------------------------------
(* Delivery.                                                               *)

\* What leads to the next image.
Leads(c) ==
    \/ m_bSendBitmapReady[c] \/ Clips(c)
    \/ HasCode(InFlight(c), ImageCodes) \/ Coming(c, AnswerCodes)

Delivers(c) ==
    /\ sent[c] # Null => Leads(c)
    /\ sent[c] = After(view[c], InFlight(c))

\* A picture is compressed for the connection whose command is being handled.
DeliverInv ==
    /\ ui.pc = "compress" => lev.conn = ui.conn
    /\ \A c \in m_mapClient : Delivers(c)

LEMMA DeliverInit == Init => DeliverInv
BY UiFreeFields DEF Init, DeliverInv

\* A step that takes nothing away from a connection.
LEMMA DeliversFrame ==
    ASSUME NEW c, Delivers(c), sent'[c] = sent[c], view'[c] = view[c],
           InFlight(c)' = InFlight(c), Leads(c) => Leads(c)'
    PROVE  Delivers(c)'
BY DEF Delivers, After

LEMMA DeliverLibevent ==
    ASSUME SyncInv, HandshakeInv, DeliverInv, NEW c \in Client, LibeventThread(c) \/ conn_eventcb(c)
    PROVE  DeliverInv'
<1>0. UNCHANGED <<ui, m_bSendBitmapReady, sent, view>> /\ lev = Idle
  BY Zenon DEF LibeventThread, listener_cb, conn_readcb, conn_eventcb, OnAsynSendCommand, connVars, cliVars
<1>t. TypeOK /\ m_mapClient \subseteq Client
  BY DEF SyncInv, TypeOK
<1>1. ui'.pc = "compress" => lev'.conn = ui'.conn
  BY <1>0, UiFreeFields
     DEF LibeventThread, listener_cb, conn_readcb, conn_eventcb, OnAsynSendCommand, DeliverInv
<1>2. \A d \in Client : Brought(d) = <<>> /\ (Clips(d)' <=> Clips(d))
  BY <1>0 DEF Brought, Idle, Clips
<1>3. ASSUME NEW d \in m_mapClient, InFlight(d)' = InFlight(d),
             Coming(d, AnswerCodes) => Coming(d, AnswerCodes)'
      PROVE  Delivers(d)'
  <2>1. d \in Client
    BY <1>t
  <2>2. Leads(d) => Leads(d)'
    BY <1>0, <1>2, <1>3, <2>1 DEF Leads
  <2> QED
    BY <1>0, <1>3, <2>2, DeliversFrame DEF DeliverInv
<1>4. CASE listener_cb(c)
  <2>1. /\ m_mapClient' = m_mapClient \cup {c} /\ m_state[c] = RDCS_INVALID
        /\ UNCHANGED <<s2c, c2s, m_queueAsynCommand>>
    BY <1>4 DEF listener_cb
  <2>2. \A d \in Client : InFlight(d)' = InFlight(d)
    BY <2>1 DEF InFlight
  <2>3. \A d \in Client : Coming(d, AnswerCodes) => Coming(d, AnswerCodes)'
    BY <1>2, <2>1, NoCode DEF Coming
  <2>4. Delivers(c)'
    <3>1. sent[c] = Null /\ view[c] = Null /\ InFlight(c) = <<>>
      BY <2>1 DEF SyncInv, BufferInv, HandshakeInv, Agreed
    <3> QED
      BY <1>0, <2>2, <3>1, AfterNothing DEF Delivers
  <2> QED
    BY <1>1, <1>3, <1>t, <2>1, <2>2, <2>3, <2>4 DEF DeliverInv
<1>5. CASE conn_readcb(c)
  <2>1. UNCHANGED <<m_mapClient, s2c, m_queueAsynCommand>>
    BY <1>5 DEF conn_readcb, connVars
  <2>2. \A d \in Client : InFlight(d)' = InFlight(d)
    BY <2>1 DEF InFlight
  <2> QED
    BY <1>1, <1>3, <1>5, <1>t, <2>1, <2>2, ReadKeepsComing DEF DeliverInv
<1>6. CASE OnAsynSendCommand(c)
  <2>1. UNCHANGED <<m_mapClient, lev, c2s>>
    BY <1>6 DEF OnAsynSendCommand
  <2>2. \A d \in Client : InFlight(d)' = InFlight(d)
    BY <1>6, <1>t, FlushKeepsInFlight
  <2>3. \A d \in Client : Coming(d, AnswerCodes) => Coming(d, AnswerCodes)'
    BY <2>1 DEF Coming, Brought
  <2> QED
    BY <1>1, <1>3, <1>t, <2>1, <2>2, <2>3 DEF DeliverInv
<1>7. CASE conn_eventcb(c)
  <2>1. /\ m_mapClient' = m_mapClient \ {c} /\ UNCHANGED m_queueAsynCommand
        /\ s2c' = [s2c EXCEPT ![c] = <<>>] /\ c2s' = [c2s EXCEPT ![c] = <<>>]
    BY <1>7 DEF conn_eventcb, connVars
  <2>2. \A d \in Client \ {c} : s2c'[d] = s2c[d] /\ c2s'[d] = c2s[d]
    BY <1>t, <2>1 DEF TypeOK
  <2>3. \A d \in Client \ {c} :
          InFlight(d)' = InFlight(d) /\ (Coming(d, AnswerCodes) => Coming(d, AnswerCodes)')
    BY <1>2, <2>1, <2>2, NoCode DEF InFlight, Coming
  <2> QED
    BY <1>1, <1>3, <1>t, <2>1, <2>3 DEF DeliverInv
<1> QED
  BY <1>4, <1>5, <1>6, <1>7 DEF LibeventThread

LEMMA DeliverConnections ==
    ASSUME SyncInv, HandshakeInv, DeliverInv, NEW c \in Client,
           OnClientConnected(c) \/ OnClientDisconnected(c)
    PROVE  DeliverInv'
<1>t. TypeOK /\ m_mapClient \subseteq Client
  BY DEF SyncInv, TypeOK
<1>0. /\ UNCHANGED <<m_mapClient, ui, m_bSendBitmapReady, s2c, c2s, view>> /\ ui = UiFree
      /\ lev' = Idle /\ lev \in {[pc |-> "connected", conn |-> c], [pc |-> "disconnected", conn |-> c]}
  BY DEF OnClientConnected, OnClientDisconnected, connVars, cliVars
<1>1. ASSUME NEW d \in m_mapClient
      PROVE  sent'[d] = sent[d] /\ m_queueAsynCommand'[d] = m_queueAsynCommand[d]
  <2>1. CASE OnClientConnected(c)
    BY <2>1 DEF OnClientConnected, connVars
  <2>2. CASE OnClientDisconnected(c)
    <3>1. /\ lev = [pc |-> "disconnected", conn |-> c]
          /\ m_queueAsynCommand' = [m_queueAsynCommand EXCEPT ![c] = <<>>]
          /\ sent' = [sent EXCEPT ![c] = Null]
      BY <2>2 DEF OnClientDisconnected
    <3>2. d # c
      BY <3>1 DEF HandshakeInv, MapInv
    <3> QED
      BY <1>t, <3>1, <3>2 DEF TypeOK
  <2> QED
    BY <2>1, <2>2
<1>2. ASSUME NEW d \in m_mapClient PROVE Delivers(d)'
  <2>1. InFlight(d)' = InFlight(d)
    BY <1>0, <1>1 DEF InFlight
  <2>2. Brought(d)' = Brought(d)
    BY <1>0 DEF Brought, Idle
  <2>3. Leads(d) => Leads(d)'
    BY <1>0, <2>1, <2>2 DEF Leads, Coming, Clips
  <2> QED
    BY <1>0, <1>1, <2>1, <2>3, DeliversFrame DEF DeliverInv
<1> QED
  BY <1>0, <1>2, UiFreeFields DEF DeliverInv

LEMMA DeliverCommand ==
    ASSUME SyncInv, HandshakeInv, DeliverInv, NEW c \in Client, OnReciveCommand(c)
    PROVE  DeliverInv'
<1>t. TypeOK /\ m_state[c] \in ConnectionState /\ m_mapClient \subseteq Client
  BY DEF SyncInv, TypeOK
<1>0. ui = UiFree /\ lev.pc = "command" /\ lev.conn = c
  BY DEF OnReciveCommand, IgnoreCommand, OnGetProtocalVersion, OnGetLogon, OnGetCompressMode,
         OnGetTransferBitmap, OnGetTransferBitmapResult, Receives, Waiting
<1>1. UNCHANGED <<sent, view>> /\ (Return \/ UNCHANGED lev) /\ m_mapClient' \subseteq m_mapClient
  BY Zenon DEF OnReciveCommand, IgnoreCommand, OnGetProtocalVersion, OnGetLogon, OnGetCompressMode,
         OnGetTransferBitmap, OnGetTransferBitmapResult, Receives, StopClient, connVars, cliVars
<1>2. ui'.pc = "compress" => lev'.conn = ui'.conn
  <2>1. CASE OnGetTransferBitmap(c) /\ m_pBuffer # Null
    BY <1>0, <2>1 DEF OnGetTransferBitmap, UiFree
  <2>2. CASE ui' = ui
    BY <1>0, <2>2, UiFreeFields
  <2>3. (OnGetTransferBitmap(c) /\ m_pBuffer # Null) \/ ui' = ui
    BY Zenon DEF OnReciveCommand, IgnoreCommand, OnGetProtocalVersion, OnGetLogon, OnGetCompressMode,
         OnGetTransferBitmap, OnGetTransferBitmapResult, Receives
  <2> QED
    BY <2>1, <2>2, <2>3
\* The commands of the chunk that are left.
<1>3. ASSUME NEW d \in Client, d # c \/ Head(lev.cmds).code \notin AnswerCodes,
             HasCode(Brought(d), AnswerCodes)
      PROVE  HasCode(Brought(d)', AnswerCodes)
  <2>1. /\ Brought(c) = lev.cmds /\ lev.cmds \in Seq(ClientCommand) /\ lev.cmds # <<>>
        /\ \A e \in Client \ {c} : Brought(e) = <<>>
    BY <1>0, <1>t, BroughtCommands
  <2>2. d = c
    BY <1>3, <2>1, NoCode
  <2>3. HasCode(Tail(lev.cmds), AnswerCodes)
    BY <1>3, <2>1, <2>2, CodeOfTail
  <2>4. CASE Return
    <3>1. Brought(c)' = Tail(lev.cmds)
      BY <1>0, <1>t, <2>4, ReturnBrings
    <3> QED
      BY <2>2, <2>3, <3>1
  <2>5. CASE UNCHANGED lev
    BY <1>3, <2>5 DEF Brought
  <2> QED
    BY <1>1, <2>4, <2>5
\* What is left to lead to the next image.
<1>4. ASSUME NEW d \in Client, d # c \/ Head(lev.cmds).code \notin AnswerCodes, c2s'[d] = c2s[d],
             m_bSendBitmapReady[d] => m_bSendBitmapReady'[d],
             HasCode(InFlight(d), ImageCodes) => HasCode(InFlight(d)', ImageCodes)
      PROVE  Leads(d) => Leads(d)'
  <2>1. ~Clips(d)
    BY <1>0, UiFreeFields DEF Clips
  <2> QED
    BY <1>3, <1>4, <2>1 DEF Leads, Coming
<1>5. ASSUME NEW d \in m_mapClient,  d # c \/ Head(lev.cmds).code \notin AnswerCodes,
             UNCHANGED <<s2c, c2s, m_queueAsynCommand, m_bSendBitmapReady>>
      PROVE  Delivers(d)'
  <2>1. InFlight(d)' = InFlight(d) /\ d \in Client
    BY <1>5, <1>t DEF InFlight
  <2>2. Leads(d) => Leads(d)'
    BY <1>4, <1>5, <2>1
  <2> QED
    BY <1>1, <2>1, <2>2, DeliversFrame DEF DeliverInv
<1>6. CASE IgnoreCommand(c)
  <2>1. UNCHANGED <<m_mapClient, s2c, c2s, m_queueAsynCommand, m_bSendBitmapReady>>
    BY <1>6 DEF IgnoreCommand, connVars
  <2>2. ASSUME NEW d \in m_mapClient, d = c, Head(lev.cmds).code \in AnswerCodes PROVE Delivers(d)'
    <3>1. m_state[c] # RDCS_TRANSFER
      BY <1>6, <1>t, <2>2, AcceptedIn DEF IgnoreCommand, Waiting, AnswerCodes
    <3>2. sent[c] = Null
      BY <3>1 DEF HandshakeInv, Agreed
    <3>3. InFlight(d)' = InFlight(d)
      BY <2>1 DEF InFlight
    <3>4. sent[d] = After(view[d], InFlight(d))
      BY DEF DeliverInv, Delivers
    <3> QED
      BY <1>1, <2>2, <3>2, <3>3, <3>4 DEF Delivers
  <2> QED
    BY <1>2, <1>5, <2>1, <2>2 DEF DeliverInv
<1>7. CASE OnGetProtocalVersion(c)
  <2>1. Head(lev.cmds).code \notin AnswerCodes /\ UNCHANGED <<m_queueAsynCommand, m_bSendBitmapReady>>
    BY <1>7 DEF OnGetProtocalVersion, Receives, Waiting, AnswerCodes, RDCC_PROTOCOL_VERSION,
                RDCC_TRANSFER_BITMAP_RESPONSE
  <2>2. CASE UNCHANGED <<m_mapClient, s2c, c2s>>
    BY <1>2, <1>5, <2>1, <2>2 DEF DeliverInv
  <2>3. CASE StopClient(c)
    <3>1. /\ m_mapClient' = m_mapClient \ {c}
          /\ s2c' = [s2c EXCEPT ![c] = <<>>] /\ c2s' = [c2s EXCEPT ![c] = <<>>]
      BY <2>3 DEF StopClient
    <3>2. ASSUME NEW d \in m_mapClient, d # c PROVE Delivers(d)'
      <4>1. d \in Client /\ c2s'[d] = c2s[d] /\ s2c'[d] = s2c[d]
        BY <1>t, <3>1, <3>2 DEF TypeOK
      <4>2. InFlight(d)' = InFlight(d)
        BY <2>1, <4>1 DEF InFlight
      <4>3. Leads(d) => Leads(d)'
        BY <1>4, <2>1, <4>1, <4>2
      <4> QED
        BY <1>1, <4>2, <4>3, DeliversFrame DEF DeliverInv
    <3> QED
      BY <1>2, <3>1, <3>2 DEF DeliverInv
  <2> QED
    BY <1>7, <2>2, <2>3 DEF OnGetProtocalVersion
<1>8. CASE OnGetLogon(c)
  <2>1. /\ Head(lev.cmds).code \notin AnswerCodes
        /\ UNCHANGED <<m_mapClient, s2c, c2s, m_bSendBitmapReady>>
        /\ m_queueAsynCommand' =
             [m_queueAsynCommand EXCEPT ![c] = Append(@, Command(RDCC_LOGON_RESULT))]
    BY <1>8 DEF OnGetLogon, Receives, Waiting, AnswerCodes, RDCC_LOGON, RDCC_TRANSFER_BITMAP_RESPONSE
  <2>2. /\ m_queueAsynCommand'[c] = Append(m_queueAsynCommand[c], Command(RDCC_LOGON_RESULT))
        /\ \A d \in Client \ {c} : m_queueAsynCommand'[d] = m_queueAsynCommand[d]
    BY <1>t, <2>1 DEF TypeOK
  <2>3. ASSUME NEW d \in m_mapClient PROVE Delivers(d)'
    <3>1. CASE d # c
      <4>1. InFlight(d)' = InFlight(d) /\ d \in Client
        BY <1>t, <2>1, <2>2, <3>1 DEF InFlight
      <4>2. Leads(d) => Leads(d)'
        BY <1>4, <2>1, <4>1
      <4> QED
        BY <1>1, <4>1, <4>2, DeliversFrame DEF DeliverInv
    <3>2. CASE d = c
      <4> DEFINE m == Command(RDCC_LOGON_RESULT)
      <4>1. m \in ServerCommand /\ m.code = RDCC_LOGON_RESULT
        BY ServerCommands DEF Command
      <4>2. m_queueAsynCommand'[c] = Append(m_queueAsynCommand[c], m)
        BY <2>2
      <4> HIDE DEF m
      <4>3. /\ InFlight(c) \in Seq(ServerCommand) /\ InFlight(c)' = Append(InFlight(c), m)
            /\ HasCode(InFlight(c), ImageCodes) => HasCode(InFlight(c)', ImageCodes)
        BY <1>t, <2>1, <4>1, <4>2, QueuedInFlight
      <4>4. After(view[c], InFlight(c)') = ClientViewAfter(After(view[c], InFlight(c)), m)
        BY <4>1, <4>3, AfterAppend
      <4>5. ClientViewAfter(After(view[c], InFlight(c)), m) = After(view[c], InFlight(c))
        BY <4>1 DEF ClientViewAfter, RDCC_LOGON_RESULT, RDCC_TRANSFER_BITMAP, RDCC_TRANSFER_MODIFY_BITMAP
      <4>6. Leads(c) => Leads(c)'
        BY <1>4, <2>1, <4>3
      <4>7. Delivers(c)
        BY <3>2 DEF DeliverInv
      <4> QED
        BY <1>1, <3>2, <4>4, <4>5, <4>6, <4>7 DEF Delivers
    <3> QED
      BY <3>1, <3>2
  <2> QED
    BY <1>2, <2>1, <2>3 DEF DeliverInv
<1>9. CASE OnGetCompressMode(c) \/ OnGetTransferBitmap(c)
  <2>1. UNCHANGED <<m_mapClient, s2c, c2s, m_queueAsynCommand, m_bSendBitmapReady>>
    BY <1>9 DEF OnGetCompressMode, OnGetTransferBitmap, connVars
  <2>2. Head(lev.cmds).code \notin AnswerCodes
    BY <1>9 DEF OnGetCompressMode, OnGetTransferBitmap, Receives, Waiting, AnswerCodes, RDCC_COMPRESS_MODE,
                RDCC_TRANSFER_BITMAP, RDCC_TRANSFER_BITMAP_RESPONSE
  <2> QED
    BY <1>2, <1>5, <2>1, <2>2 DEF DeliverInv
<1>10. CASE OnGetTransferBitmapResult(c)
  <2>1. /\ UNCHANGED <<m_mapClient, s2c, c2s, m_queueAsynCommand>>
        /\ m_bSendBitmapReady' = [m_bSendBitmapReady EXCEPT ![c] = TRUE]
    BY <1>10 DEF OnGetTransferBitmapResult
  <2>2. m_bSendBitmapReady'[c] = TRUE /\ \A d \in Client \ {c} : m_bSendBitmapReady'[d] = m_bSendBitmapReady[d]
    BY <1>t, <2>1 DEF TypeOK
  <2>3. ASSUME NEW d \in m_mapClient PROVE Delivers(d)'
    <3>1. InFlight(d)' = InFlight(d) /\ d \in Client
      BY <1>t, <2>1 DEF InFlight
    <3>2. Leads(d) => Leads(d)'
      <4>1. CASE d = c
        BY <2>2, <4>1 DEF Leads
      <4>2. CASE d # c
        BY <1>4, <2>1, <2>2, <3>1, <4>2
      <4> QED
        BY <4>1, <4>2
    <3> QED
      BY <1>1, <3>1, <3>2, DeliversFrame DEF DeliverInv
  <2> QED
    BY <1>2, <2>1, <2>3 DEF DeliverInv
<1> QED
  BY <1>6, <1>7, <1>8, <1>9, <1>10 DEF OnReciveCommand

LEMMA DeliverPictures ==
    ASSUME SyncInv, HandshakeInv, DeliverInv, OnFirstBitmap \/ \E c \in Client : JPEG_Compress(c)
    PROVE  DeliverInv'
<1>t. TypeOK /\ m_mapClient \subseteq Client
  BY DEF SyncInv, TypeOK
<1>1. /\ UNCHANGED <<m_mapClient, m_bSendBitmapReady, s2c, c2s, view>>
      /\ ui' = UiFree /\ ui.pc \in {"free", "compress"}
  BY PictureQueued
<1>2. PICK S \in SUBSET m_mapClient, img \in [Block -> Pixels] :
        /\ QueuePicture(S, img)
        /\ ui.pc = "compress" => S = {ui.conn}
        /\ \A d \in Client : Brought(d)' = Brought(d) \/ (ui.pc = "compress" /\ d = lev.conn)
  BY PictureQueued
<1>3. S \in SUBSET Client
  BY <1>t
<1>4. ASSUME NEW d \in m_mapClient PROVE Delivers(d)'
  <2>1. d \in Client /\ Delivers(d) /\ m_pAsynSendCommandEvent[d]
    BY <1>t DEF DeliverInv, HandshakeInv, MapInv
  <2>2. sent'[d] = IF d \in S THEN img ELSE sent[d]
    BY <1>2, <2>1 DEF QueuePicture
  <2>3. CASE d \in S
    <3> DEFINE m == Image(RDCC_TRANSFER_BITMAP, img)
    <3>1. m \in ServerCommand /\ m.code = RDCC_TRANSFER_BITMAP /\ m.img = img
      BY ServerCommands DEF Image
    <3>2. InFlight(d) \in Seq(ServerCommand) /\ InFlight(d)' = Append(InFlight(d), m)
      BY <1>1, <1>2, <1>3, <1>t, <2>1, <2>3, PictureInFlight
    <3> HIDE DEF m
    <3>3. After(view[d], InFlight(d)') = ClientViewAfter(After(view[d], InFlight(d)), m)
      BY <3>1, <3>2, AfterAppend
    <3>4. ClientViewAfter(After(view[d], InFlight(d)), m) = img
      BY <3>1 DEF ClientViewAfter, RDCC_TRANSFER_BITMAP, RDCC_TRANSFER_MODIFY_BITMAP
    <3>5. HasCode(InFlight(d)', ImageCodes)
      BY <3>1, <3>2, CodeOfAppend DEF ImageCodes
    <3> QED
      BY <1>1, <2>2, <2>3, <3>3, <3>4, <3>5 DEF Delivers, Leads
  <2>4. CASE d \notin S
    <3>1. InFlight(d)' = InFlight(d)
      BY <1>1, <1>2, <1>3, <1>t, <2>1, <2>4, PictureInFlight
    <3>2. ui.pc = "compress" => d # lev.conn
      BY <1>2, <2>4 DEF DeliverInv
    <3>3. Brought(d)' = Brought(d)
      BY <1>2, <2>1, <3>2
    <3>4. ~Clips(d)
      BY <1>1 DEF Clips
    <3>5. Leads(d) => Leads(d)'
      BY <1>1, <3>1, <3>3, <3>4 DEF Leads, Coming
    <3> QED
      BY <1>1, <2>1, <2>2, <2>4, <3>1, <3>5, DeliversFrame
  <2> QED
    BY <2>3, <2>4
<1> QED
  BY <1>1, <1>4, UiFreeFields DEF DeliverInv

LEMMA DeliverLoop ==
    ASSUME SyncInv, DeliverInv,
           CaptureThread \/ OnModified \/ ClipBitmapRect \/ \E c \in Client : OnScreenModified(c)
    PROVE  DeliverInv'
<1>1. UNCHANGED <<m_mapClient, lev, m_queueAsynCommand, sent, s2c, c2s, view>>
  BY Zenon DEF CaptureThread, CaptureFirst, CaptureSwap, OnModified, ClipBitmapRect, OnScreenModified,
               connVars, cliVars
<1>t. TypeOK /\ m_mapClient \subseteq Client
  BY DEF SyncInv, TypeOK
<1>2. ASSUME ui'.pc = "compress" => ui.pc = "compress" /\ ui'.conn = ui.conn,
             \A d \in m_mapClient : m_bSendBitmapReady[d] => m_bSendBitmapReady'[d] \/ Clips(d)',
             \A d \in m_mapClient : Clips(d) => Clips(d)'
      PROVE  DeliverInv'
  <2>1. ASSUME NEW d \in m_mapClient PROVE Delivers(d)'
    <3>1. InFlight(d)' = InFlight(d) /\ Brought(d)' = Brought(d)
      BY <1>1 DEF InFlight, Brought
    <3>2. Leads(d) => Leads(d)'
      BY <1>1, <1>2, <3>1 DEF Leads, Coming
    <3> QED
      BY <1>1, <3>1, <3>2, DeliversFrame DEF DeliverInv
  <2> QED
    BY <1>1, <1>2, <2>1 DEF DeliverInv
<1>3. CASE CaptureThread
  <2>1. ui'.pc = ui.pc /\ ui'.conn = ui.conn
    BY <1>3, <1>t, CaptureUi
  <2>2. UNCHANGED m_bSendBitmapReady
    BY <1>3, Zenon DEF CaptureThread, CaptureFirst, CaptureSwap, connVars
  <2> QED
    BY <1>2, <2>1, <2>2 DEF Clips
<1>4. CASE OnModified
  <2>1. ui.pc = "free" /\ ui'.pc # "compress"
    BY <1>4 DEF OnModified, UiFree
  <2>2. UNCHANGED m_bSendBitmapReady
    BY <1>4, Zenon DEF OnModified, connVars
  <2> QED
    BY <1>2, <2>1, <2>2 DEF Clips
<1>5. CASE ClipBitmapRect
  <2>1. ui'.pc = ui.pc /\ ui'.conn = ui.conn
    BY <1>5, <1>t DEF ClipBitmapRect, TypeOK
  <2>2. UNCHANGED m_bSendBitmapReady
    BY <1>5, Zenon DEF ClipBitmapRect, connVars
  <2> QED
    BY <1>2, <2>1, <2>2 DEF Clips
<1>6. ASSUME NEW c \in Client, OnScreenModified(c) PROVE DeliverInv'
  <2>1. ui.pc = "notify"
    BY <1>6 DEF OnScreenModified
  <2>2. CASE /\ m_bSendBitmapReady' = [m_bSendBitmapReady EXCEPT ![c] = FALSE]
             /\ ui' = [ui EXCEPT !.pc = "clip", !.conn = c]
    <3>1. Clips(c)' /\ ui'.pc # "compress"
      BY <1>t, <2>2 DEF Clips, TypeOK
    <3>2. \A d \in Client \ {c} : m_bSendBitmapReady'[d] = m_bSendBitmapReady[d]
      BY <1>t, <2>2 DEF TypeOK
    <3>3. \A d \in m_mapClient : d = c \/ d \in Client \ {c}
      BY <1>t
    <3> QED
      BY <1>2, <2>1, <3>1, <3>2, <3>3 DEF Clips
  <2>3. CASE ui' = LoopAfter(c) /\ UNCHANGED m_bSendBitmapReady
    <3>1. ui'.pc # "compress"
      BY <1>t, <2>3, LoopAfterUi
    <3> QED
      BY <1>2, <2>1, <2>3, <3>1 DEF Clips
  <2> QED
    BY <1>6, <2>2, <2>3 DEF OnScreenModified
<1> QED
  BY <1>3, <1>4, <1>5, <1>6

LEMMA DeliverModifyBitmap ==
    ASSUME SyncInv, DeliverInv, NEW c \in Client, AsynSendTransterModifyBitmap(c)
    PROVE  DeliverInv'
<1>t. TypeOK /\ m_mapClient \subseteq Client
  BY DEF SyncInv, TypeOK
<1>1. /\ UNCHANGED <<m_mapClient, lev, m_bSendBitmapReady, s2c, c2s, view>>
      /\ ui.pc = "clip" /\ ui.conn = c /\ ui' = LoopAfter(c)
      /\ m_queueAsynCommand' =
           [m_queueAsynCommand EXCEPT ![c] = Append(@, Image(RDCC_TRANSFER_MODIFY_BITMAP, ui.img))]
      /\ sent' = [sent EXCEPT ![c] = Drawn(ui.img, @)]
  BY DEF AsynSendTransterModifyBitmap, cliVars
<1>2. sent[c] # Null
  BY SyncModifyBitmap
<1>3. ui'.pc # "compress"
  BY <1>1, <1>t, LoopAfterUi
<1>4. ASSUME NEW d \in m_mapClient PROVE Delivers(d)'
  <2>1. d \in Client /\ Delivers(d)
    BY <1>t DEF DeliverInv
  <2>2. CASE d # c
    <3>1. m_queueAsynCommand'[d] = m_queueAsynCommand[d] /\ sent'[d] = sent[d]
      BY <1>1, <1>t, <2>1, <2>2 DEF TypeOK
    <3>2. InFlight(d)' = InFlight(d) /\ Brought(d)' = Brought(d)
      BY <1>1, <3>1 DEF InFlight, Brought
    <3>3. ~Clips(d)
      BY <1>1, <2>2 DEF Clips
    <3>4. Leads(d) => Leads(d)'
      BY <1>1, <3>2, <3>3 DEF Leads, Coming
    <3> QED
      BY <1>1, <2>1, <3>1, <3>2, <3>4, DeliversFrame
  <2>3. CASE d = c
    <3> DEFINE m == Image(RDCC_TRANSFER_MODIFY_BITMAP, ui.img)
    <3>1. ui.img \in PartialImage
      BY <1>t DEF TypeOK
    <3>2. m \in ServerCommand /\ m.code = RDCC_TRANSFER_MODIFY_BITMAP /\ m.img = ui.img
      BY <3>1, ServerCommands DEF Image
    <3>3. m_queueAsynCommand'[c] = Append(m_queueAsynCommand[c], m) /\ sent'[c] = Drawn(ui.img, sent[c])
      BY <1>1, <1>t DEF TypeOK
    <3> HIDE DEF m
    <3>4. /\ InFlight(c) \in Seq(ServerCommand) /\ InFlight(c)' = Append(InFlight(c), m)
          /\ HasCode(InFlight(c)', ImageCodes)
      BY <1>1, <1>t, <3>2, <3>3, QueuedInFlight DEF ImageCodes
    <3>5. After(view[c], InFlight(c)') = ClientViewAfter(After(view[c], InFlight(c)), m)
      BY <3>2, <3>4, AfterAppend
    <3>6. After(view[c], InFlight(c)) = sent[c]
      BY <2>1, <2>3 DEF Delivers
    <3>7. ClientViewAfter(sent[c], m) = Drawn(ui.img, sent[c])
      BY <1>2, <3>2 DEF ClientViewAfter, RDCC_TRANSFER_BITMAP, RDCC_TRANSFER_MODIFY_BITMAP
    <3> QED
      BY <1>1, <2>3, <3>3, <3>4, <3>5, <3>6, <3>7 DEF Delivers, Leads
  <2> QED
    BY <2>2, <2>3
<1> QED
  BY <1>1, <1>3, <1>4 DEF DeliverInv

LEMMA DeliverClients ==
    ASSUME SyncInv, HandshakeInv, DeliverInv, NEW c \in Client,
           ClientOnConnected(c) \/ ClientOnReciveCommand(c)
    PROVE  DeliverInv'
<1>1. UNCHANGED <<m_mapClient, lev, ui, m_bSendBitmapReady, m_queueAsynCommand, sent>>
  BY Zenon DEF ClientOnConnected, ClientOnReciveCommand, connVars
<1>t. TypeOK /\ m_mapClient \subseteq Client /\ c2s[c] \in Seq(ClientCommand)
  BY DEF SyncInv, TypeOK
<1>2. \A d \in Client : Brought(d)' = Brought(d) /\ (Clips(d)' <=> Clips(d))
  BY <1>1 DEF Brought, Clips
<1>3. \A d \in Client \ {c} : c2s'[d] = c2s[d] /\ s2c'[d] = s2c[d] /\ view'[d] = view[d]
  BY <1>t DEF ClientOnConnected, ClientOnReciveCommand, cliVars, TypeOK
<1>4. ASSUME NEW d \in m_mapClient, d # c PROVE Delivers(d)'
  <2>1. d \in Client \ {c}
    BY <1>4, <1>t
  <2>2. InFlight(d)' = InFlight(d)
    BY <1>1, <1>3, <2>1 DEF InFlight
  <2>3. Leads(d) => Leads(d)'
    BY <1>1, <1>2, <1>3, <2>1, <2>2 DEF Leads, Coming
  <2> QED
    BY <1>1, <1>3, <2>1, <2>2, <2>3, DeliversFrame DEF DeliverInv
<1> SUFFICES ASSUME c \in m_mapClient PROVE Delivers(c)'
  BY <1>1, <1>4 DEF DeliverInv
<1>5. Delivers(c) /\ Agreed(c) /\ m_state[c] # RDCS_DISCONNECTED
  BY DEF DeliverInv, HandshakeInv, MapInv
<1>6. sent[c] # Null => cliState[c] \in {RDCS_COMPRESS_MODE, RDCS_TRANSFER}
  BY <1>5 DEF Agreed
<1>7. CASE ClientOnConnected(c)
  <2>1. cliState[c] = RDCS_INVALID /\ UNCHANGED <<s2c, view>>
    BY <1>7 DEF ClientOnConnected
  <2>2. sent[c] = Null
    BY <1>6, <2>1 DEF RDCS_INVALID, RDCS_COMPRESS_MODE, RDCS_TRANSFER
  <2>3. InFlight(c)' = InFlight(c)
    BY <1>1, <2>1 DEF InFlight
  <2> QED
    BY <1>1, <1>5, <2>1, <2>2, <2>3 DEF Delivers
<1>8. CASE ClientOnReciveCommand(c)
  <2> DEFINE m == Head(s2c[c])
  <2>1. /\ InFlight(c) \in Seq(ServerCommand) /\ InFlight(c) # <<>>
        /\ Head(InFlight(c)) = m /\ InFlight(c)' = Tail(InFlight(c)) /\ m \in ServerCommand
    BY <1>8, <1>t, ReceivedInFlight
  <2>2. \/ /\ UNCHANGED <<cliState, view, c2s>>
           /\ \/ m.code = RDCC_LOGON_RESULT
              \/ m.code = RDCC_TRANSFER_BITMAP /\ cliState[c] \notin {RDCS_COMPRESS_MODE, RDCS_TRANSFER}
              \/ m.code = RDCC_TRANSFER_MODIFY_BITMAP /\ cliState[c] # RDCS_TRANSFER
        \/ /\ m.code = RDCC_LOGON_RESULT /\ view'[c] = view[c] /\ c2s'[c] = c2s[c] \o Asks
        \/ /\ m.code = RDCC_TRANSFER_BITMAP /\ view'[c] = m.img /\ c2s'[c] = c2s[c] \o Ack
        \/ /\ m.code = RDCC_TRANSFER_MODIFY_BITMAP /\ view'[c] = ClientViewAfter(view[c], m)
           /\ c2s'[c] = c2s[c] \o Ack
    BY <1>8, <1>t, ClientReceives
  <2> HIDE DEF m
  <2>3. After(view[c], InFlight(c)) = After(ClientViewAfter(view[c], m), Tail(InFlight(c)))
    BY <2>1, AfterTail
  <2>4. sent[c] = After(view[c], InFlight(c))
    BY <1>5 DEF Delivers
  \* An image that arrives is one that was sent, so the client is ready for it.
  <2>5. /\ m.code = RDCC_TRANSFER_BITMAP => cliState[c] \in {RDCS_COMPRESS_MODE, RDCS_TRANSFER}
        /\ m.code = RDCC_TRANSFER_MODIFY_BITMAP => cliState[c] = RDCS_TRANSFER
    <3>1. HasCode(InFlight(c), {m.code})
      BY <2>1, CodeOfTail
    <3>2. m.code \in ImageCodes => HasCode(InFlight(c), ImageCodes)
      BY <2>1, CodeOfTail
    <3>3. m.code \in ImageCodes => sent[c] # Null
      BY <1>5, <3>2 DEF SyncInv, AckInv
    <3>4. m.code = RDCC_TRANSFER_MODIFY_BITMAP => HasDrawn(c)
      BY <3>1 DEF HasDrawn, ModifyCodes
    <3> QED
      BY <1>5, <1>6, <3>3, <3>4 DEF Agreed, ImageCodes
  <2>6. CASE m.code = RDCC_LOGON_RESULT
    <3>1. ClientViewAfter(view[c], m) = view[c] /\ m.code \notin ImageCodes
      BY <2>6 DEF ClientViewAfter, ImageCodes, RDCC_LOGON_RESULT, RDCC_TRANSFER_BITMAP,
                  RDCC_TRANSFER_MODIFY_BITMAP
    <3>2. view'[c] = view[c] /\ (c2s'[c] = c2s[c] \/ c2s'[c] = c2s[c] \o Asks)
      BY <2>2, <2>6 DEF RDCC_LOGON_RESULT, RDCC_TRANSFER_BITMAP, RDCC_TRANSFER_MODIFY_BITMAP
    <3>3. HasCode(InFlight(c), ImageCodes) => HasCode(InFlight(c)', ImageCodes)
      BY <2>1, <3>1, CodeOfTail
    <3>4. HasCode(c2s[c], AnswerCodes) => HasCode(c2s'[c], AnswerCodes)
      <4>1. HasCode(c2s[c] \o Asks, AnswerCodes) <=> HasCode(c2s[c], AnswerCodes)
        BY <1>t, ClientWords, CodeOfConcat
      <4> QED
        BY <3>2, <4>1
    <3>5. Leads(c) => Leads(c)'
      BY <1>1, <1>2, <3>3, <3>4 DEF Leads, Coming
    <3> QED
      BY <1>1, <1>5, <2>1, <2>3, <2>4, <3>1, <3>2, <3>5 DEF Delivers
  <2>7. CASE m.code \in ImageCodes
    <3>1. view'[c] = ClientViewAfter(view[c], m) /\ c2s'[c] = c2s[c] \o Ack
      <4>1. m.code = RDCC_TRANSFER_BITMAP => ClientViewAfter(view[c], m) = m.img
        BY DEF ClientViewAfter, RDCC_TRANSFER_BITMAP, RDCC_TRANSFER_MODIFY_BITMAP
      <4> QED
        BY <2>2, <2>5, <2>7, <4>1 DEF ImageCodes, RDCC_LOGON_RESULT, RDCC_TRANSFER_BITMAP,
                                      RDCC_TRANSFER_MODIFY_BITMAP
    <3>2. HasCode(c2s'[c], AnswerCodes)
      BY <1>t, <3>1, ClientWords, CodeOfConcat
    <3> QED
      BY <1>1, <2>1, <2>3, <2>4, <3>1, <3>2 DEF Delivers, Leads, Coming
  <2> QED
    BY <2>1, <2>6, <2>7, ServerCommands
<1> QED
  BY <1>7, <1>8

LEMMA DeliverNext == SyncInv /\ HandshakeInv /\ DeliverInv /\ [Next]_vars => DeliverInv'
<1> SUFFICES ASSUME SyncInv, HandshakeInv, DeliverInv, [Next]_vars PROVE DeliverInv'
  OBVIOUS
<1>1. CASE JPEG_CompressFaults \/ (\E c \in Client : OnScreenModifiedNull(c)) \/ UNCHANGED vars
  <2>1. UNCHANGED <<m_mapClient, lev, ui, m_bSendBitmapReady, m_queueAsynCommand, sent, s2c, c2s, view>>
    BY <1>1, Zenon DEF JPEG_CompressFaults, OnScreenModifiedNull, vars, connVars, cliVars
  <2>2. ASSUME NEW d \in m_mapClient PROVE Delivers(d)'
    <3>1. InFlight(d)' = InFlight(d) /\ Brought(d)' = Brought(d) /\ (Clips(d)' <=> Clips(d))
      BY <2>1 DEF Brought, InFlight, Clips
    <3>2. Leads(d) => Leads(d)'
      BY <2>1, <3>1 DEF Leads, Coming
    <3> QED
      BY <2>1, <3>1, <3>2, DeliversFrame DEF DeliverInv
  <2> QED
    BY <2>1, <2>2 DEF DeliverInv
<1> QED
  BY <1>1, DeliverLibevent, DeliverConnections, DeliverCommand, DeliverPictures, DeliverLoop,
     DeliverModifyBitmap, DeliverClients DEF Next, Busy

DeliveryInv == SyncInv /\ HandshakeInv /\ DeliverInv

LEMMA DeliveryInvariant == Spec => []DeliveryInv
<1>1. Init => DeliveryInv
  BY InitSync, HandshakeInit, DeliverInit DEF DeliveryInv
<1>2. DeliveryInv /\ [Next]_vars => DeliveryInv'
  BY SyncInvNext, HandshakeNext, DeliverNext DEF DeliveryInv
<1> QED
  BY <1>1, <1>2, PTL DEF Spec

\* What a client's window will show when it has drawn all that is on its way is what
\* the server counts on having sent, for any clients and any interleaving: no image
\* is dropped by CheckCmdCodeValid, drawn out of order or into an empty window.
THEOREM SentIsDrawn == Spec => []DrawnIsSent
<1>1. DeliveryInv => DrawnIsSent
  BY DEF DeliveryInv, DeliverInv, Delivers, After, DrawnIsSent
<1> QED
  BY <1>1, DeliveryInvariant, PTL

\* The transfer never comes to a standstill of which no message could wake it: once a
\* picture was queued, the connection is ready for the next image, or an image or its
\* acknowledgement is being made or on its way and will be accepted.
THEOREM SomethingLeadsOn == Spec => []TransferNeverStalls
<1>1. DeliveryInv => TransferNeverStalls
  <2> SUFFICES ASSUME DeliveryInv, NEW c \in m_mapClient, sent[c] # Null
               PROVE  \/ m_bSendBitmapReady[c]
                      \/ Clips(c)
                      \/ \E i \in 1..Len(m_queueAsynCommand[c]) : IsImage(m_queueAsynCommand[c][i])
                      \/ \E i \in 1..Len(s2c[c]) : IsImage(s2c[c][i])
                      \/ Answered(c2s[c])
                      \/ lev.pc = "command" /\ lev.conn = c /\ Answered(lev.cmds)
    BY DEF TransferNeverStalls
  <2>1. c \in Client /\ s2c[c] \in Seq(ServerCommand) /\ m_queueAsynCommand[c] \in Seq(ServerCommand)
    BY DEF DeliveryInv, SyncInv, TypeOK
  <2>2. Leads(c)
    BY DEF DeliveryInv, DeliverInv, Delivers
  <2>3. CASE HasCode(InFlight(c), ImageCodes)
    <3>1. HasCode(s2c[c], ImageCodes) \/ HasCode(m_queueAsynCommand[c], ImageCodes)
      BY <2>1, <2>3, CodeOfConcat DEF InFlight
    <3> QED
      BY <3>1 DEF HasCode, ImageCodes, IsImage
  <2>4. CASE Coming(c, AnswerCodes)
    <3>1. CASE HasCode(c2s[c], AnswerCodes)
      BY <3>1 DEF HasCode, AnswerCodes, Answered
    <3>2. CASE HasCode(Brought(c), AnswerCodes)
      <4>1. lev.pc = "command" /\ lev.conn = c /\ Brought(c) = lev.cmds
        BY <3>2, NoCode DEF Brought
      <4> QED
        BY <3>2, <4>1 DEF HasCode, AnswerCodes, Answered
    <3> QED
      BY <2>4, <3>1, <3>2 DEF Coming
  <2> QED
    BY <2>2, <2>3, <2>4 DEF Leads
<1> QED
  BY <1>1, DeliveryInvariant, PTL

-----------------------------------------------------------------------------
(* Flow control.  Commands are counted.                                    *)

Places(cmds, codes) == {i \in 1..Len(cmds) : cmds[i].code \in codes}

LEMMA CountIsNat ==
    ASSUME NEW S, NEW s \in Seq(S), NEW codes
    PROVE  /\ IsFiniteSet(Places(s, codes)) /\ CountOf(s, codes) = Cardinality(Places(s, codes))
           /\ CountOf(s, codes) \in Nat
<1>1. Len(s) \in Nat /\ Places(s, codes) \in SUBSET (1..Len(s))
  BY DEF Places
<1>2. IsFiniteSet(1..Len(s))
  BY <1>1, FS_Interval
<1>3. IsFiniteSet(Places(s, codes))
  BY <1>1, <1>2, FS_Subset
<1>4. CountOf(s, codes) = Cardinality(Places(s, codes))
  BY DEF CountOf, Places
<1> QED
  BY <1>3, <1>4, FS_CardinalityType

LEMMA CountOfNone ==
    ASSUME NEW S, NEW s \in Seq(S), NEW codes, ~HasCode(s, codes)
    PROVE  CountOf(s, codes) = 0
<1>1. Places(s, codes) = {}
  BY DEF Places, HasCode
<1> QED
  BY <1>1, CountIsNat, FS_EmptySet

LEMMA CountOfEmpty == ASSUME NEW codes PROVE CountOf(<<>>, codes) = 0
<1>1. <<>> \in Seq(Nat) /\ ~HasCode(<<>>, codes)
  BY NoCode
<1> QED
  BY <1>1, CountOfNone

\* The commands of two lists, one behind the other.
LEMMA CountOfConcat ==
    ASSUME NEW S, NEW s \in Seq(S), NEW t \in Seq(S), NEW codes
    PROVE  CountOf(s \o t, codes) = CountOf(s, codes) + CountOf(t, codes)
<1> DEFINE P == Places(s, codes)
           Q == Places(t, codes)
           R == {i \in Len(s) + 1..Len(s) + Len(t) : t[i - Len(s)].code \in codes}
           f == [i \in Q |-> i + Len(s)]
<1>1. /\ Len(s) \in Nat /\ Len(t) \in Nat /\ Len(s \o t) = Len(s) + Len(t) /\ s \o t \in Seq(S)
      /\ \A i \in 1..Len(s) + Len(t) : (s \o t)[i] = IF i <= Len(s) THEN s[i] ELSE t[i - Len(s)]
  OBVIOUS
<1>2. Places(s \o t, codes) = P \cup R
  <2>1. ASSUME NEW i PROVE i \in Places(s \o t, codes) <=> i \in P \cup R
    <3>1. CASE i \in 1..Len(s)
      BY <1>1, <3>1 DEF Places
    <3>2. CASE i \in Len(s) + 1..Len(s) + Len(t)
      BY <1>1, <3>2 DEF Places
    <3>3. CASE i \notin 1..Len(s) /\ i \notin Len(s) + 1..Len(s) + Len(t)
      <4>1. i \notin 1..Len(s) + Len(t)
        BY <1>1, <3>3
      <4> QED
        BY <1>1, <3>3, <4>1 DEF Places
    <3> QED
      BY <3>1, <3>2, <3>3
  <2> QED
    BY <2>1
<1>3. P \cap R = {}
  BY <1>1 DEF Places
<1>4. f \in Bijection(Q, R)
  <2>1. \A i \in Q : i \in 1..Len(t) /\ t[i].code \in codes
    BY DEF Places
  <2>2. \A i \in Q : f[i] = i + Len(s) /\ f[i] \in R
    BY <1>1, <2>1
  <2>3. f \in [Q -> R]
    BY <2>2
  <2>4. \A i, j \in Q : f[i] = f[j] => i = j
    BY <1>1, <2>1, <2>2
  <2>5. ASSUME NEW j \in R PROVE \E i \in Q : f[i] = j
    <3>1. j - Len(s) \in Q
      BY <1>1 DEF Places
    <3>2. f[j - Len(s)] = j
      BY <1>1, <3>1
    <3> QED
      BY <3>1, <3>2
  <2> HIDE DEF f, Q, R
  <2> QED
    BY <2>3, <2>4, <2>5 DEF Bijection, Injection, Surjection, IsInjective
<1>5. IsFiniteSet(P) /\ IsFiniteSet(Q) /\ Cardinality(P) \in Nat /\ Cardinality(Q) \in Nat
  BY CountIsNat
<1>6. IsFiniteSet(R) /\ Cardinality(R) = Cardinality(Q)
  BY <1>4, <1>5, FS_Bijection DEF ExistsBijection
<1> HIDE DEF P, Q, R, f
<1>7. Cardinality(P \cup R) = Cardinality(P) + Cardinality(R) - 0
  BY <1>3, <1>5, <1>6, FS_Union, FS_EmptySet
<1>8. Cardinality(P \cup R) = Cardinality(P) + Cardinality(Q)
  BY <1>5, <1>6, <1>7
<1>9. /\ CountOf(s \o t, codes) = Cardinality(P \cup R)
      /\ CountOf(s, codes) = Cardinality(P) /\ CountOf(t, codes) = Cardinality(Q)
  BY <1>1, <1>2, CountIsNat DEF P, Q
<1> QED
  BY <1>8, <1>9

LEMMA CountOfOne ==
    ASSUME NEW S, NEW m \in S, NEW codes
    PROVE  CountOf(<<m>>, codes) = One(m.code \in codes)
<1>1. <<m>> \in Seq(S) /\ Len(<<m>>) = 1 /\ <<m>>[1] = m
  OBVIOUS
<1>2. CASE m.code \in codes
  <2>1. Places(<<m>>, codes) = {1}
    BY <1>1, <1>2 DEF Places
  <2>2. Cardinality({1}) = 1
    BY FS_Singleton
  <2> QED
    BY <1>1, <1>2, <2>1, <2>2, CountIsNat DEF One
<1>3. CASE m.code \notin codes
  <2>1. ~HasCode(<<m>>, codes)
    BY <1>1, <1>3 DEF HasCode
  <2> QED
    BY <1>1, <1>3, <2>1, CountOfNone DEF One
<1> QED
  BY <1>2, <1>3

\* Counting at the end, at the beginning and at a cut.
LEMMA CountOfAppend ==
    ASSUME NEW S, NEW s \in Seq(S), NEW m \in S, NEW codes
    PROVE  CountOf(Append(s, m), codes) = CountOf(s, codes) + One(m.code \in codes)
<1>1. Append(s, m) = s \o <<m>> /\ <<m>> \in Seq(S)
  OBVIOUS
<1>2. CountOf(s \o <<m>>, codes) = CountOf(s, codes) + CountOf(<<m>>, codes)
  BY <1>1, CountOfConcat
<1> QED
  BY <1>1, <1>2, CountOfOne

LEMMA CountOfTail ==
    ASSUME NEW S, NEW s \in Seq(S), s # <<>>, NEW codes
    PROVE  /\ Head(s) \in S /\ Tail(s) \in Seq(S)
           /\ CountOf(s, codes) = One(Head(s).code \in codes) + CountOf(Tail(s), codes)
<1>1. Head(s) \in S /\ Tail(s) \in Seq(S) /\ <<Head(s)>> \in Seq(S)
  OBVIOUS
<1>2. s = <<Head(s)>> \o Tail(s)
  OBVIOUS
<1>3. CountOf(<<Head(s)>> \o Tail(s), codes) = CountOf(<<Head(s)>>, codes) + CountOf(Tail(s), codes)
  BY <1>1, CountOfConcat
<1> QED
  BY <1>1, <1>2, <1>3, CountOfOne

LEMMA CountOfSplit ==
    ASSUME NEW S, NEW s \in Seq(S), NEW n \in 1..Len(s), NEW codes
    PROVE  CountOf(s, codes) = CountOf(SubSeq(s, 1, n), codes) + CountOf(SubSeq(s, n + 1, Len(s)), codes)
<1>1. SubSeq(s, 1, n) \in Seq(S) /\ SubSeq(s, n + 1, Len(s)) \in Seq(S)
  OBVIOUS
<1>2. s = SubSeq(s, 1, n) \o SubSeq(s, n + 1, Len(s))
  OBVIOUS
<1>3. CountOf(SubSeq(s, 1, n) \o SubSeq(s, n + 1, Len(s)), codes)
        = CountOf(SubSeq(s, 1, n), codes) + CountOf(SubSeq(s, n + 1, Len(s)), codes)
  BY <1>1, CountOfConcat
<1> QED
  BY <1>2, <1>3

-----------------------------------------------------------------------------
(* What is counted of a connection.                                        *)

\* Requests for a picture that are on their way, and what else leads to a picture: the
\* client has yet to ask, or the connection is in the TRANSFER state already.
Asking(c)      == CountOf(c2s[c], {RDCC_TRANSFER_BITMAP}) + CountOf(Brought(c), {RDCC_TRANSFER_BITMAP})
WillAsk(c)     == One(cliState[c] \in {RDCS_INVALID, RDCS_LOGON})
Granted(c)     == One(m_state[c] = RDCS_TRANSFER)
Compressing(c) == One(ui.pc = "compress" /\ ui.conn = c)

\* Images, acknowledgements, the leave to make an image, and the one being made.
Flying(c)  == CountOf(InFlight(c), ImageCodes)
Answers(c) == CountOf(c2s[c], AnswerCodes) + CountOf(Brought(c), AnswerCodes)
Ready(c)   == One(m_bSendBitmapReady[c])
Makes(c)   == One(ui.pc \in {"clip", "compress"} /\ ui.conn = c)

\* The first capture has yet to be announced.
First == One(m_pBuffer = Null \/ capture.pc = "first")

\* A client asks for one picture in its life; the request is still being handled while
\* the picture is compressed.
AsksOnce(c) == Asking(c) + WillAsk(c) + Granted(c) <= 1 + Compressing(c)

\* The announcement of the first capture may be one image more.
Flow(c) == Flying(c) + Answers(c) + Ready(c) + Makes(c) + First <= 2

FlowInv ==
    /\ ui.pc = "compress" => Head(lev.cmds).code = RDCC_TRANSFER_BITMAP
    /\ \A c \in Client : AsksOnce(c)
    /\ \A c \in m_mapClient : Flow(c)

Numbers(c) ==
    /\ Asking(c) \in Nat /\ Flying(c) \in Nat /\ Answers(c) \in Nat
    /\ WillAsk(c) \in {0, 1} /\ Granted(c) \in {0, 1} /\ Compressing(c) \in {0, 1}
    /\ Ready(c) \in {0, 1} /\ Makes(c) \in {0, 1} /\ First \in {0, 1}

LEMMA BroughtType == ASSUME TypeOK, NEW c \in Client PROVE Brought(c) \in Seq(ClientCommand)
BY DEF TypeOK, Brought, Idle

LEMMA AreNumbers == ASSUME TypeOK, NEW c \in Client PROVE Numbers(c)
<1>1. /\ c2s[c] \in Seq(ClientCommand) /\ s2c[c] \in Seq(ServerCommand)
      /\ m_queueAsynCommand[c] \in Seq(ServerCommand)
  BY DEF TypeOK
<1>2. Brought(c) \in Seq(ClientCommand)
  BY BroughtType
<1>3. InFlight(c) \in Seq(ServerCommand)
  BY <1>1 DEF InFlight
<1>4. \A codes : /\ CountOf(c2s[c], codes) \in Nat /\ CountOf(Brought(c), codes) \in Nat
                 /\ CountOf(InFlight(c), codes) \in Nat
  BY <1>1, <1>2, <1>3, CountIsNat
<1>5. Asking(c) \in Nat /\ Flying(c) \in Nat /\ Answers(c) \in Nat
  BY <1>4 DEF Asking, Flying, Answers
<1> QED
  BY <1>5 DEF Numbers, WillAsk, Granted, Compressing, Ready, Makes, First, One

LEMMA AreNumbersNext == ASSUME TypeOK', NEW c \in Client PROVE Numbers(c)'
<1>1. /\ c2s'[c] \in Seq(ClientCommand) /\ s2c'[c] \in Seq(ServerCommand)
      /\ m_queueAsynCommand'[c] \in Seq(ServerCommand)
  BY DEF TypeOK
<1>2. Brought(c)' \in Seq(ClientCommand)
  BY DEF TypeOK, Brought, Idle
<1>3. InFlight(c)' \in Seq(ServerCommand)
  BY <1>1 DEF InFlight
<1>4. \A codes : /\ CountOf(c2s'[c], codes) \in Nat /\ CountOf(Brought(c)', codes) \in Nat
                 /\ CountOf(InFlight(c)', codes) \in Nat
  BY <1>1, <1>2, <1>3, CountIsNat
<1>5. (Asking(c) \in Nat /\ Flying(c) \in Nat /\ Answers(c) \in Nat)'
  BY <1>4 DEF Asking, Flying, Answers
<1> QED
  BY <1>5 DEF Numbers, WillAsk, Granted, Compressing, Ready, Makes, First, One

\* A connection that was sent no picture has nothing to acknowledge.
LEMMA NothingYet ==
    ASSUME SyncInv, HandshakeInv, NEW c \in Client,
           m_state[c] # RDCS_TRANSFER, m_state[c] # RDCS_DISCONNECTED
    PROVE  Flying(c) = 0 /\ Answers(c) = 0 /\ Ready(c) = 0 /\ Makes(c) = 0
<1>1. sent[c] = Null
  BY DEF HandshakeInv, Agreed
<1>2. ~m_bSendBitmapReady[c] /\ ~Coming(c, AnswerCodes) /\ ~HasCode(InFlight(c), ImageCodes)
  BY <1>1 DEF SyncInv, AckInv
<1>3. /\ c2s[c] \in Seq(ClientCommand) /\ s2c[c] \in Seq(ServerCommand)
      /\ m_queueAsynCommand[c] \in Seq(ServerCommand)
  BY DEF SyncInv, TypeOK
<1>4. Brought(c) \in Seq(ClientCommand)
  BY BroughtType DEF SyncInv
<1>5. InFlight(c) \in Seq(ServerCommand)
  BY <1>3 DEF InFlight
<1>6. Flying(c) = 0
  BY <1>2, <1>5, CountOfNone DEF Flying
<1>7. CountOf(c2s[c], AnswerCodes) = 0 /\ CountOf(Brought(c), AnswerCodes) = 0
  BY <1>2, <1>3, <1>4, CountOfNone DEF Coming
<1>8. ~(ui.pc \in {"clip", "compress"} /\ ui.conn = c)
  BY <1>1 DEF SyncInv, HandlerInv
<1> QED
  BY <1>2, <1>6, <1>7, <1>8 DEF Answers, Ready, Makes, One

\* What a chunk takes out of the stream it brings; what a handler is done with is gone.
LEMMA ReadCounts ==
    ASSUME TypeOK, NEW c \in Client, conn_readcb(c), NEW d \in Client
    PROVE  Asking(d)' = Asking(d) /\ Answers(d)' = Answers(d)
<1>1. PICK n \in 1..Len(c2s[c]) :
        /\ lev' = [pc |-> "command", conn |-> c, cmds |-> SubSeq(c2s[c], 1, n)]
        /\ c2s' = [c2s EXCEPT ![c] = SubSeq(@, n + 1, Len(@))]
  BY DEF conn_readcb
<1>2. lev = Idle /\ c2s \in [Client -> Seq(ClientCommand)] /\ c2s[c] \in Seq(ClientCommand)
  BY DEF conn_readcb, TypeOK
<1>3. CASE d # c
  <2>1. c2s'[d] = c2s[d]
    BY <1>1, <1>2, <1>3
  <2>2. Brought(d)' = <<>> /\ Brought(d) = <<>>
    BY <1>1, <1>2, <1>3 DEF Brought, Idle
  <2> QED
    BY <2>1, <2>2 DEF Asking, Answers
<1>4. CASE d = c
  <2>1. c2s'[c] = SubSeq(c2s[c], n + 1, Len(c2s[c])) /\ Brought(c)' = SubSeq(c2s[c], 1, n)
        /\ Brought(c) = <<>>
    BY <1>1, <1>2 DEF Brought, Idle
  <2>2. \A codes : CountOf(<<>>, codes) = 0
    BY CountOfEmpty
  <2>3. \A codes : CountOf(c2s[c], codes) = CountOf(Brought(c)', codes) + CountOf(c2s'[c], codes)
    BY <1>2, <2>1, CountOfSplit
  <2>4. \A codes : CountOf(Brought(c)', codes) \in Nat /\ CountOf(c2s'[c], codes) \in Nat
                   /\ CountOf(Brought(c), codes) = 0
    <3>1. SubSeq(c2s[c], n + 1, Len(c2s[c])) \in Seq(ClientCommand) /\ SubSeq(c2s[c], 1, n) \in Seq(ClientCommand)
      BY <1>2
    <3> QED
      BY <2>1, <2>2, <3>1, CountIsNat
  <2> QED
    BY <1>4, <2>3, <2>4 DEF Asking, Answers
<1> QED
  BY <1>3, <1>4

LEMMA ReturnCounts ==
    ASSUME TypeOK, NEW c \in Client, lev.pc = "command", lev.conn = c, Return, NEW d \in Client,
           c2s'[d] = c2s[d]
    PROVE  /\ d # c => Asking(d)' = Asking(d) /\ Answers(d)' = Answers(d)
           /\ Asking(c)' + One(Head(lev.cmds).code = RDCC_TRANSFER_BITMAP) = Asking(c)
              \/ d # c
           /\ Answers(c)' + One(Head(lev.cmds).code \in AnswerCodes) = Answers(c)
              \/ d # c
<1>1. /\ Brought(c) = lev.cmds /\ lev.cmds \in Seq(ClientCommand) /\ lev.cmds # <<>>
      /\ \A e \in Client \ {c} : Brought(e) = <<>>
  BY BroughtCommands
<1>2. /\ Brought(c)' = Tail(lev.cmds) /\ \A e \in Client \ {c} : Brought(e)' = <<>>
  BY ReturnBrings
<1>3. CASE d # c
  <2>1. Brought(d)' = Brought(d)
    BY <1>1, <1>2, <1>3
  <2> QED
    BY <1>3, <2>1 DEF Asking, Answers
<1>4. CASE d = c
  <2>1. \A codes : /\ CountOf(Brought(c), codes) = One(Head(lev.cmds).code \in codes) + CountOf(Brought(c)', codes)
    BY <1>1, <1>2, CountOfTail
  <2>2. \A codes : CountOf(c2s[c], codes) \in Nat /\ CountOf(Brought(c)', codes) \in Nat
    <3>1. Tail(lev.cmds) \in Seq(ClientCommand) /\ c2s[c] \in Seq(ClientCommand)
      BY <1>1 DEF TypeOK
    <3> QED
      BY <1>2, <3>1, CountIsNat
  <2>3. /\ One(Head(lev.cmds).code \in {RDCC_TRANSFER_BITMAP}) \in {0, 1}
        /\ One(Head(lev.cmds).code \in AnswerCodes) \in {0, 1}
        /\ One(Head(lev.cmds).code = RDCC_TRANSFER_BITMAP) = One(Head(lev.cmds).code \in {RDCC_TRANSFER_BITMAP})
    BY DEF One
  <2>4. Asking(c)' + One(Head(lev.cmds).code = RDCC_TRANSFER_BITMAP) = Asking(c)
    BY <1>4, <2>1, <2>2, <2>3 DEF Asking
  <2>5. Answers(c)' + One(Head(lev.cmds).code \in AnswerCodes) = Answers(c)
    BY <1>4, <2>1, <2>2, <2>3 DEF Answers
  <2> QED
    BY <1>4, <2>4, <2>5
<1> QED
  BY <1>3, <1>4

\* What a step leaves alone.
LEMMA SameCounts ==
    ASSUME NEW d, InFlight(d)' = InFlight(d), c2s'[d] = c2s[d], Brought(d)' = Brought(d)
    PROVE  Asking(d)' = Asking(d) /\ Answers(d)' = Answers(d) /\ Flying(d)' = Flying(d)
BY DEF Asking, Answers, Flying

LEMMA FlowInit == Init => FlowInv
<1> SUFFICES ASSUME Init PROVE FlowInv
  OBVIOUS
<1>1. ui.pc = "free" /\ m_mapClient = {}
  BY UiFreeFields DEF Init
<1>2. ASSUME NEW c \in Client PROVE AsksOnce(c)
  <2>1. c2s[c] = <<>> /\ Brought(c) = <<>> /\ m_state[c] = RDCS_INVALID
    BY DEF Init, Brought, Idle
  <2>2. Asking(c) = 0
    BY <2>1, CountOfEmpty DEF Asking
  <2>3. Granted(c) = 0 /\ WillAsk(c) \in {0, 1} /\ Compressing(c) = 0
    BY <1>1, <2>1 DEF Granted, WillAsk, Compressing, One, RDCS_INVALID, RDCS_TRANSFER
  <2> QED
    BY <2>2, <2>3 DEF AsksOnce
<1> QED
  BY <1>1, <1>2 DEF FlowInv

LEMMA FlowLibevent ==
    ASSUME SyncInv, SyncInv', HandshakeInv, FlowInv, NEW c \in Client, LibeventThread(c) \/ conn_eventcb(c)
    PROVE  FlowInv'
<1>0. /\ UNCHANGED <<ui, m_bSendBitmapReady, m_state, cliState, m_pBuffer, capture>> /\ lev = Idle
  BY Zenon DEF LibeventThread, listener_cb, conn_readcb, conn_eventcb, OnAsynSendCommand, capVars, connVars, cliVars
<1>t. TypeOK /\ TypeOK' /\ m_mapClient \subseteq Client
  BY DEF SyncInv, TypeOK
<1>1. ui'.pc # "compress"
  BY <1>0 DEF SyncInv, LoopInv, CompressInv, Idle
<1>2. \A d \in Client : Brought(d) = <<>>
  BY <1>0 DEF Brought, Idle
<1>3. ASSUME NEW d \in Client
      PROVE  /\ WillAsk(d)' = WillAsk(d) /\ Granted(d)' = Granted(d) /\ Compressing(d)' = Compressing(d)
             /\ Ready(d)' = Ready(d) /\ Makes(d)' = Makes(d) /\ First' = First
  BY <1>0 DEF WillAsk, Granted, Compressing, Ready, Makes, First
<1>4. ASSUME NEW d \in Client, Asking(d)' = Asking(d) PROVE AsksOnce(d)'
  <2>1. Numbers(d)
    BY <1>t, AreNumbers
  <2> QED
    BY <1>3, <1>4, <2>1 DEF AsksOnce, FlowInv
<1>5. ASSUME NEW d \in Client, Flow(d), Flying(d)' = Flying(d), Answers(d)' = Answers(d) PROVE Flow(d)'
  BY <1>3, <1>5 DEF Flow
<1>6. CASE listener_cb(c)
  <2>1. /\ m_mapClient' = m_mapClient \cup {c} /\ m_state[c] = RDCS_INVALID
        /\ UNCHANGED <<s2c, c2s, m_queueAsynCommand>> /\ lev'.pc = "connected"
    BY <1>6 DEF listener_cb
  <2>2. ASSUME NEW d \in Client
        PROVE  Asking(d)' = Asking(d) /\ Answers(d)' = Answers(d) /\ Flying(d)' = Flying(d)
    <3>1. InFlight(d)' = InFlight(d) /\ c2s'[d] = c2s[d] /\ Brought(d)' = Brought(d)
      BY <1>2, <2>1 DEF InFlight, Brought
    <3> QED
      BY <3>1, SameCounts
  <2>3. Flow(c)
    <3>1. m_state[c] # RDCS_TRANSFER /\ m_state[c] # RDCS_DISCONNECTED
      BY <2>1 DEF RDCS_TRANSFER, RDCS_DISCONNECTED, RDCS_INVALID
    <3>2. Flying(c) = 0 /\ Answers(c) = 0 /\ Ready(c) = 0 /\ Makes(c) = 0 /\ First \in {0, 1}
      BY <1>t, <3>1, NothingYet, AreNumbers DEF Numbers
    <3> QED
      BY <3>2 DEF Flow
  <2>4. \A d \in m_mapClient' : d \in Client /\ Flow(d)
    BY <1>t, <2>1, <2>3 DEF FlowInv
  <2> QED
    BY <1>1, <1>4, <1>5, <2>2, <2>4 DEF FlowInv
<1>7. CASE conn_readcb(c)
  <2>1. UNCHANGED <<m_mapClient, s2c, m_queueAsynCommand>>
    BY <1>7 DEF conn_readcb, connVars
  <2>2. \A d \in Client : Asking(d)' = Asking(d) /\ Answers(d)' = Answers(d)
    BY <1>7, <1>t, ReadCounts
  <2>3. \A d \in Client : Flying(d)' = Flying(d)
    BY <2>1 DEF InFlight, Flying
  <2>4. \A d \in m_mapClient' : d \in Client /\ Flow(d)
    BY <1>t, <2>1 DEF FlowInv
  <2> QED
    BY <1>1, <1>4, <1>5, <2>2, <2>3, <2>4 DEF FlowInv
<1>8. CASE OnAsynSendCommand(c)
  <2>1. UNCHANGED <<m_mapClient, lev, c2s>>
    BY <1>8 DEF OnAsynSendCommand
  <2>2. ASSUME NEW d \in Client
        PROVE  Asking(d)' = Asking(d) /\ Answers(d)' = Answers(d) /\ Flying(d)' = Flying(d)
    <3>1. InFlight(d)' = InFlight(d)
      BY <1>8, <1>t, FlushKeepsInFlight
    <3>2. c2s'[d] = c2s[d] /\ Brought(d)' = Brought(d)
      BY <2>1 DEF Brought
    <3> QED
      BY <3>1, <3>2, SameCounts
  <2>3. \A d \in m_mapClient' : d \in Client /\ Flow(d)
    BY <1>t, <2>1 DEF FlowInv
  <2> QED
    BY <1>1, <1>4, <1>5, <2>2, <2>3 DEF FlowInv
<1>9. CASE conn_eventcb(c)
  <2>1. /\ m_mapClient' = m_mapClient \ {c} /\ UNCHANGED m_queueAsynCommand /\ lev'.pc = "disconnected"
        /\ s2c' = [s2c EXCEPT ![c] = <<>>] /\ c2s' = [c2s EXCEPT ![c] = <<>>]
    BY <1>9 DEF conn_eventcb, connVars
  <2>2. c2s'[c] = <<>> /\ \A d \in Client \ {c} : s2c'[d] = s2c[d] /\ c2s'[d] = c2s[d]
    BY <1>t, <2>1 DEF TypeOK
  <2>3. \A d \in Client : Brought(d)' = <<>>
    BY <2>1 DEF Brought
  <2>4. ASSUME NEW d \in Client \ {c}
        PROVE  Asking(d)' = Asking(d) /\ Answers(d)' = Answers(d) /\ Flying(d)' = Flying(d)
    <3>1. InFlight(d)' = InFlight(d) /\ c2s'[d] = c2s[d] /\ Brought(d)' = Brought(d)
      BY <1>2, <2>1, <2>2, <2>3 DEF InFlight
    <3> QED
      BY <3>1, SameCounts
  <2>5. AsksOnce(c)'
    <3>1. Asking(c)' = 0
      BY <2>2, <2>3, CountOfEmpty DEF Asking
    <3>2. Numbers(c) /\ AsksOnce(c)
      BY <1>t, AreNumbers DEF FlowInv
    <3> QED
      BY <1>3, <3>1, <3>2 DEF AsksOnce, Numbers
  <2>6. \A d \in m_mapClient' : d \in Client \ {c} /\ Flow(d)
    BY <1>t, <2>1 DEF FlowInv
  <2> QED
    BY <1>1, <1>4, <1>5, <2>4, <2>5, <2>6 DEF FlowInv
<1> QED
  BY <1>6, <1>7, <1>8, <1>9 DEF LibeventThread

LEMMA FlowConnections ==
    ASSUME SyncInv, SyncInv', HandshakeInv, FlowInv, NEW c \in Client,
           OnClientConnected(c) \/ OnClientDisconnected(c)
    PROVE  FlowInv'
<1>t. TypeOK /\ TypeOK' /\ m_mapClient \subseteq Client
  BY DEF SyncInv, TypeOK
<1>0. /\ UNCHANGED <<m_mapClient, ui, m_bSendBitmapReady, s2c, c2s, cliState>> /\ ui = UiFree
      /\ lev' = Idle /\ lev \in {[pc |-> "connected", conn |-> c], [pc |-> "disconnected", conn |-> c]}
  BY DEF OnClientConnected, OnClientDisconnected, connVars, cliVars
<1>1. ui'.pc # "compress"
  BY <1>0, UiFreeFields
<1>2. ASSUME NEW d \in Client
      PROVE  /\ WillAsk(d)' = WillAsk(d) /\ Compressing(d)' = Compressing(d) /\ Ready(d)' = Ready(d)
             /\ Makes(d)' = Makes(d) /\ Asking(d)' = Asking(d) /\ Answers(d)' = Answers(d)
  <2>1. Brought(d)' = Brought(d)
    BY <1>0 DEF Brought, Idle
  <2> QED
    BY <1>0, <2>1 DEF WillAsk, Compressing, Ready, Makes, Asking, Answers
<1>3. ASSUME NEW d \in Client PROVE Granted(d)' <= Granted(d)
  <2>1. m_state'[d] = m_state[d] \/ m_state'[d] \in {RDCS_CONNECTED, RDCS_DISCONNECTED}
    BY <1>t DEF OnClientConnected, OnClientDisconnected, TypeOK
  <2>2. m_state'[d] = RDCS_TRANSFER => m_state[d] = RDCS_TRANSFER
    BY <2>1 DEF RDCS_CONNECTED, RDCS_DISCONNECTED, RDCS_TRANSFER
  <2> QED
    BY <2>2 DEF Granted, One
<1>4. ASSUME NEW d \in Client PROVE AsksOnce(d)'
  <2>1. Numbers(d) /\ Numbers(d)' /\ AsksOnce(d)
    BY <1>t, AreNumbers, AreNumbersNext DEF FlowInv
  <2> QED
    BY <1>2, <1>3, <2>1 DEF AsksOnce, Numbers
<1>5. ASSUME NEW d \in m_mapClient PROVE Flow(d)'
  <2>1. d \in Client /\ Flow(d)
    BY <1>t DEF FlowInv
  <2>2. CASE OnClientConnected(c)
    <3>1. UNCHANGED <<m_queueAsynCommand, m_pBuffer, capture>>
      BY <2>2 DEF OnClientConnected, connVars
    <3>2. Flying(d)' = Flying(d) /\ First' = First
      BY <1>0, <3>1 DEF Flying, InFlight, First
    <3> QED
      BY <1>2, <2>1, <3>2 DEF Flow
  <2>3. CASE OnClientDisconnected(c)
    <3>1. /\ lev = [pc |-> "disconnected", conn |-> c]
          /\ m_queueAsynCommand' = [m_queueAsynCommand EXCEPT ![c] = <<>>]
          /\ m_mapClient # {} => UNCHANGED <<m_pBuffer, capture>>
      BY <2>3 DEF OnClientDisconnected, capVars
    <3>2. d # c
      BY <3>1 DEF HandshakeInv, MapInv
    <3>3. m_queueAsynCommand'[d] = m_queueAsynCommand[d]
      BY <1>t, <2>1, <3>1, <3>2 DEF TypeOK
    <3>4. Flying(d)' = Flying(d) /\ First' = First
      BY <1>0, <3>1, <3>3 DEF Flying, InFlight, First
    <3> QED
      BY <1>2, <2>1, <3>4 DEF Flow
  <2> QED
    BY <2>2, <2>3
<1> QED
  BY <1>0, <1>1, <1>4, <1>5 DEF FlowInv

\* The commands that do not lead to an image.
LEMMA FlowReturned ==
    ASSUME SyncInv, SyncInv', FlowInv, NEW c \in Client, lev.pc = "command", lev.conn = c, ui = UiFree,
           Return, UNCHANGED <<ui, cliState, m_pBuffer, capture>>,
           m_mapClient' \subseteq m_mapClient,
           \A d \in Client : m_state'[d] = RDCS_TRANSFER => m_state[d] = RDCS_TRANSFER,
           \A d \in Client : c2s'[d] = c2s[d] \/ (c2s'[d] = <<>> /\ d \notin m_mapClient'),
           \A d \in m_mapClient' : Flying(d)' = Flying(d),
           \A d \in m_mapClient' : m_bSendBitmapReady'[d] => m_bSendBitmapReady[d]
               \/ (d = c /\ Head(lev.cmds).code \in AnswerCodes)
    PROVE  FlowInv'
<1>t. TypeOK /\ TypeOK' /\ m_mapClient \subseteq Client /\ c2s \in [Client -> Seq(ClientCommand)]
  BY DEF SyncInv, TypeOK
<1>1. ui'.pc # "compress"
  BY UiFreeFields
<1>2. ASSUME NEW d \in Client
      PROVE  /\ WillAsk(d)' = WillAsk(d) /\ Compressing(d)' = Compressing(d) /\ Makes(d)' = Makes(d)
             /\ First' = First /\ Granted(d)' <= Granted(d)
  BY DEF WillAsk, Compressing, Makes, First, Granted, One
<1>3. ASSUME NEW d \in Client PROVE Asking(d)' <= Asking(d)
  <2>1. Numbers(d) /\ Numbers(d)'
    BY <1>t, AreNumbers, AreNumbersNext
  <2>2. CASE c2s'[d] = c2s[d]
    <3>1. CASE d # c
      BY <1>t, <2>1, <2>2, <3>1, ReturnCounts DEF Numbers
    <3>2. CASE d = c
      <4>1. Asking(c)' + One(Head(lev.cmds).code = RDCC_TRANSFER_BITMAP) = Asking(c)
        BY <1>t, <2>2, <3>2, ReturnCounts
      <4>2. One(Head(lev.cmds).code = RDCC_TRANSFER_BITMAP) \in {0, 1}
        BY DEF One
      <4> QED
        BY <2>1, <3>2, <4>1, <4>2 DEF Numbers
    <3> QED
      BY <3>1, <3>2
  <2>3. CASE c2s'[d] = <<>>
    <3>1. CountOf(c2s'[d], {RDCC_TRANSFER_BITMAP}) = 0
      BY <2>3, CountOfEmpty
    <3>2. CountOf(c2s[d], {RDCC_TRANSFER_BITMAP}) \in Nat
      BY <1>t, CountIsNat
    <3>3. /\ CountOf(Brought(d), {RDCC_TRANSFER_BITMAP}) \in Nat /\ CountOf(Brought(d)', {RDCC_TRANSFER_BITMAP}) \in Nat
          /\ CountOf(Brought(d)', {RDCC_TRANSFER_BITMAP}) <= CountOf(Brought(d), {RDCC_TRANSFER_BITMAP})
      <4>1. /\ Brought(c) = lev.cmds /\ lev.cmds \in Seq(ClientCommand) /\ lev.cmds # <<>>
            /\ \A e \in Client \ {c} : Brought(e) = <<>>
        BY <1>t, BroughtCommands
      <4>2. /\ Brought(c)' = Tail(lev.cmds) /\ \A e \in Client \ {c} : Brought(e)' = <<>>
        BY <1>t, ReturnBrings
      <4>3. CASE d # c
        BY <4>1, <4>2, <4>3, CountOfEmpty
      <4>4. CASE d = c
        <5> DEFINE n == CountOf(Tail(lev.cmds), {RDCC_TRANSFER_BITMAP})
                   k == One(Head(lev.cmds).code \in {RDCC_TRANSFER_BITMAP})
        <5>1. Tail(lev.cmds) \in Seq(ClientCommand) /\ CountOf(lev.cmds, {RDCC_TRANSFER_BITMAP}) = k + n
          BY <4>1, CountOfTail
        <5>2. k \in {0, 1} /\ n \in Nat
          BY <5>1, CountIsNat DEF One
        <5> HIDE DEF n, k
        <5>3. n <= k + n /\ k + n \in Nat
          BY <5>2
        <5> QED
          BY <4>1, <4>2, <4>4, <5>1, <5>2, <5>3 DEF n
      <4> QED
        BY <4>3, <4>4
    <3> QED
      BY <3>1, <3>2, <3>3 DEF Asking
  <2> QED
    BY <2>2, <2>3
<1>4. ASSUME NEW d \in Client PROVE AsksOnce(d)'
  <2>1. Numbers(d) /\ Numbers(d)' /\ AsksOnce(d)
    BY <1>t, AreNumbers, AreNumbersNext DEF FlowInv
  <2> QED
    BY <1>2, <1>3, <2>1 DEF AsksOnce, Numbers
<1>5. ASSUME NEW d \in m_mapClient' PROVE Flow(d)'
  <2>1. d \in Client /\ Flow(d) /\ c2s'[d] = c2s[d]
    BY <1>t DEF FlowInv
  <2>2. Numbers(d) /\ Numbers(d)'
    BY <1>t, <2>1, AreNumbers, AreNumbersNext
  <2>3. CASE d = c
    <3>1. Answers(d)' + One(Head(lev.cmds).code \in AnswerCodes) = Answers(d)
      BY <1>t, <2>1, <2>3, ReturnCounts
    <3>2. CASE Head(lev.cmds).code \in AnswerCodes
      <4>1. One(Head(lev.cmds).code \in AnswerCodes) = 1
        BY <3>2 DEF One
      <4>2. Answers(d)' + 1 = Answers(d) /\ Ready(d)' <= Ready(d) + 1
        BY <2>2, <3>1, <4>1 DEF Numbers
      <4>3. Flying(d)' = Flying(d) /\ Makes(d)' = Makes(d) /\ First' = First
        BY <1>2, <2>1
      <4> QED
        BY <2>1, <2>2, <4>2, <4>3 DEF Numbers, Flow
    <3>3. CASE Head(lev.cmds).code \notin AnswerCodes
      <4>1. One(Head(lev.cmds).code \in AnswerCodes) = 0
        BY <3>3 DEF One
      <4>2. Ready(d)' <= Ready(d)
        BY <3>3 DEF Ready, One
      <4>3. Answers(d)' = Answers(d)
        BY <2>2, <3>1, <4>1 DEF Numbers
      <4>4. Flying(d)' = Flying(d) /\ Makes(d)' = Makes(d) /\ First' = First
        BY <1>2, <2>1
      <4> QED
        BY <2>1, <2>2, <4>2, <4>3, <4>4 DEF Numbers, Flow
    <3> QED
      BY <3>2, <3>3
  <2>4. CASE d # c
    <3>1. Answers(d)' = Answers(d)
      BY <1>t, <2>1, <2>4, ReturnCounts
    <3>2. Ready(d)' <= Ready(d)
      BY <2>4 DEF Ready, One
    <3>3. Flying(d)' = Flying(d) /\ Makes(d)' = Makes(d) /\ First' = First
      BY <1>2, <2>1
    <3> QED
      BY <2>1, <2>2, <3>1, <3>2, <3>3 DEF Numbers, Flow
  <2> QED
    BY <2>3, <2>4
<1> QED
  BY <1>1, <1>4, <1>5 DEF FlowInv

LEMMA FlowCommand ==
    ASSUME SyncInv, SyncInv', HandshakeInv, FlowInv, NEW c \in Client, OnReciveCommand(c)
    PROVE  FlowInv'
<1>t. TypeOK /\ TypeOK' /\ m_state[c] \in ConnectionState /\ m_mapClient \subseteq Client
  BY DEF SyncInv, TypeOK
<1>0. ui = UiFree /\ lev.pc = "command" /\ lev.conn = c
  BY DEF OnReciveCommand, IgnoreCommand, OnGetProtocalVersion, OnGetLogon, OnGetCompressMode,
         OnGetTransferBitmap, OnGetTransferBitmapResult, Receives, Waiting
<1>1. UNCHANGED <<cliState, m_pBuffer, capture>> /\ m_mapClient' \subseteq m_mapClient
  BY Zenon DEF OnReciveCommand, IgnoreCommand, OnGetProtocalVersion, OnGetLogon, OnGetCompressMode,
         OnGetTransferBitmap, OnGetTransferBitmapResult, Receives, StopClient, capVars, cliVars
<1>2. CASE IgnoreCommand(c) \/ OnGetCompressMode(c)
  <2>1. /\ UNCHANGED <<ui, m_mapClient, s2c, c2s, m_queueAsynCommand, m_bSendBitmapReady>> /\ Return
        /\ UNCHANGED m_state \/ m_state' = [m_state EXCEPT ![c] = RDCS_COMPRESS_MODE]
    BY <1>2, Zenon DEF IgnoreCommand, OnGetCompressMode, Receives, connVars
  <2>2. \A d \in Client : m_state'[d] = RDCS_TRANSFER => m_state[d] = RDCS_TRANSFER
    BY <1>t, <2>1 DEF TypeOK, RDCS_TRANSFER, RDCS_COMPRESS_MODE
  <2>3. \A d : Flying(d)' = Flying(d)
    BY <2>1 DEF Flying, InFlight
  <2> QED
    BY <1>0, <1>1, <2>1, <2>2, <2>3, FlowReturned
<1>3. CASE OnGetProtocalVersion(c)
  <2>1. /\ UNCHANGED <<ui, m_queueAsynCommand, m_bSendBitmapReady>> /\ Return
        /\ UNCHANGED m_state \/ m_state' = [m_state EXCEPT ![c] = RDCS_PROTOCOL_VERSION]
    BY <1>3, Zenon DEF OnGetProtocalVersion, Receives
  <2>2. \A d \in Client : m_state'[d] = RDCS_TRANSFER => m_state[d] = RDCS_TRANSFER
    BY <1>t, <2>1 DEF TypeOK, RDCS_TRANSFER, RDCS_PROTOCOL_VERSION
  <2>3. /\ \A d \in Client : c2s'[d] = c2s[d] \/ (c2s'[d] = <<>> /\ d \notin m_mapClient')
        /\ \A d \in m_mapClient' : s2c'[d] = s2c[d]
    <3>1. CASE UNCHANGED <<m_mapClient, s2c, c2s>>
      BY <3>1
    <3>2. CASE StopClient(c)
      BY <1>t, <3>2 DEF StopClient, TypeOK
    <3> QED
      BY <1>3, <3>1, <3>2 DEF OnGetProtocalVersion
  <2>4. \A d \in m_mapClient' : Flying(d)' = Flying(d)
    BY <2>1, <2>3 DEF Flying, InFlight
  <2> QED
    BY <1>0, <1>1, <2>1, <2>2, <2>3, <2>4, FlowReturned
<1>4. CASE OnGetLogon(c)
  <2>1. /\ UNCHANGED <<ui, m_mapClient, s2c, c2s, m_bSendBitmapReady>> /\ Return
        /\ m_state' = [m_state EXCEPT ![c] = RDCS_LOGON]
        /\ m_queueAsynCommand' =
             [m_queueAsynCommand EXCEPT ![c] = Append(@, Command(RDCC_LOGON_RESULT))]
    BY <1>4, Zenon DEF OnGetLogon, Receives
  <2>2. \A d \in Client : m_state'[d] = RDCS_TRANSFER => m_state[d] = RDCS_TRANSFER
    BY <1>t, <2>1 DEF TypeOK, RDCS_TRANSFER, RDCS_LOGON
  <2>3. /\ m_queueAsynCommand'[c] = Append(m_queueAsynCommand[c], Command(RDCC_LOGON_RESULT))
        /\ \A d \in Client \ {c} : m_queueAsynCommand'[d] = m_queueAsynCommand[d]
    BY <1>t, <2>1 DEF TypeOK
  <2>4. Flying(c)' = Flying(c)
    <3> DEFINE m == Command(RDCC_LOGON_RESULT)
    <3>1. m \in ServerCommand /\ m.code = RDCC_LOGON_RESULT
      BY ServerCommands DEF Command
    <3>2. m_queueAsynCommand'[c] = Append(m_queueAsynCommand[c], m)
      BY <2>3
    <3> HIDE DEF m
    <3>3. InFlight(c) \in Seq(ServerCommand) /\ InFlight(c)' = Append(InFlight(c), m)
      BY <1>t, <2>1, <3>1, <3>2, QueuedInFlight
    <3>4. One(m.code \in ImageCodes) = 0
      BY <3>1 DEF One, ImageCodes, RDCC_LOGON_RESULT, RDCC_TRANSFER_BITMAP, RDCC_TRANSFER_MODIFY_BITMAP
    <3>5. CountOf(Append(InFlight(c), m), ImageCodes) = CountOf(InFlight(c), ImageCodes) + One(m.code \in ImageCodes)
      BY <3>1, <3>3, CountOfAppend
    <3>6. CountOf(InFlight(c), ImageCodes) \in Nat
      BY <3>3, CountIsNat
    <3> QED
      BY <3>3, <3>4, <3>5, <3>6 DEF Flying
  <2>5. \A d \in m_mapClient' : Flying(d)' = Flying(d)
    BY <1>t, <2>1, <2>3, <2>4 DEF Flying, InFlight
  <2> QED
    BY <1>0, <1>1, <2>1, <2>2, <2>5, FlowReturned
<1>5. CASE OnGetTransferBitmapResult(c)
  <2>1. /\ UNCHANGED <<ui, m_mapClient, m_state, s2c, c2s, m_queueAsynCommand>> /\ Return
        /\ m_bSendBitmapReady' = [m_bSendBitmapReady EXCEPT ![c] = TRUE]
        /\ Head(lev.cmds).code \in AnswerCodes
    BY <1>5 DEF OnGetTransferBitmapResult, Receives, Waiting, AnswerCodes
  <2>2. \A d \in Client \ {c} : m_bSendBitmapReady'[d] = m_bSendBitmapReady[d]
    BY <1>t, <2>1 DEF TypeOK
  <2>3. \A d : Flying(d)' = Flying(d)
    BY <2>1 DEF Flying, InFlight
  <2>4. \A d \in m_mapClient' : m_bSendBitmapReady'[d] => m_bSendBitmapReady[d]
               \/ (d = c /\ Head(lev.cmds).code \in AnswerCodes)
    BY <1>t, <2>1, <2>2
  <2> QED
    BY <1>0, <1>1, <2>1, <2>3, <2>4, FlowReturned
<1>6. CASE OnGetTransferBitmap(c)
  <2>1. /\ UNCHANGED <<m_mapClient, s2c, c2s, m_queueAsynCommand, m_bSendBitmapReady>>
        /\ m_state' = [m_state EXCEPT ![c] = RDCS_TRANSFER]
        /\ Head(lev.cmds).code = RDCC_TRANSFER_BITMAP
        /\ IF m_pBuffer = Null THEN Return /\ UNCHANGED ui
           ELSE /\ ui' = [UiFree EXCEPT !.pc = "compress", !.conn = c, !.img = m_pBuffer]
                /\ UNCHANGED lev
    BY <1>6 DEF OnGetTransferBitmap, Waiting
  <2>2. /\ m_state'[c] = RDCS_TRANSFER /\ \A d \in Client \ {c} : m_state'[d] = m_state[d]
    BY <1>t, <2>1 DEF TypeOK
  <2>3. \A d \in Client : /\ WillAsk(d)' = WillAsk(d) /\ Ready(d)' = Ready(d) /\ First' = First
                           /\ Flying(d)' = Flying(d) /\ (d # c => Granted(d)' = Granted(d))
    BY <1>1, <2>1, <2>2 DEF WillAsk, Ready, First, Flying, InFlight, Granted
  <2>4. \A d \in Client : Numbers(d) /\ Numbers(d)' /\ AsksOnce(d) /\ Compressing(d) = 0
    BY <1>0, <1>t, AreNumbers, AreNumbersNext, UiFreeFields DEF FlowInv, Compressing, One
  \* The client asks for the first time.
  <2>5. Asking(c) >= 1
    <3>1. Brought(c) = lev.cmds /\ lev.cmds \in Seq(ClientCommand) /\ lev.cmds # <<>>
      BY <1>0, <1>t, BroughtCommands
    <3> DEFINE n == CountOf(Tail(lev.cmds), {RDCC_TRANSFER_BITMAP})
               k == CountOf(c2s[c], {RDCC_TRANSFER_BITMAP})
    <3>2. One(Head(lev.cmds).code \in {RDCC_TRANSFER_BITMAP}) = 1
      BY <2>1 DEF One
    <3>c. c2s[c] \in Seq(ClientCommand)
      BY <1>t DEF TypeOK
    <3>3. /\ Tail(lev.cmds) \in Seq(ClientCommand)
          /\ CountOf(lev.cmds, {RDCC_TRANSFER_BITMAP}) = One(Head(lev.cmds).code \in {RDCC_TRANSFER_BITMAP}) + n
      BY <3>1, CountOfTail
    <3>4. n \in Nat /\ k \in Nat
      BY <3>3, <3>c, CountIsNat
    <3>5. Asking(c) = k + CountOf(lev.cmds, {RDCC_TRANSFER_BITMAP})
      BY <3>1 DEF Asking
    <3> HIDE DEF n, k
    <3> QED
      BY <3>2, <3>3, <3>4, <3>5
  <2>6. Asking(c) = 1 /\ WillAsk(c) = 0 /\ Granted(c) = 0
    BY <2>4, <2>5 DEF Numbers, AsksOnce
  <2>7. m_state[c] # RDCS_TRANSFER
    BY <2>6 DEF Granted, One
  <2>8. Flying(c) = 0 /\ Answers(c) = 0 /\ Ready(c) = 0 /\ Makes(c) = 0
    <3>1. m_state[c] # RDCS_DISCONNECTED
      <4>1. m_state[c] = RDCS_COMPRESS_MODE
        BY <1>6, <1>t, <2>7, AcceptedIn DEF OnGetTransferBitmap
      <4> QED
        BY <4>1 DEF RDCS_COMPRESS_MODE, RDCS_DISCONNECTED
    <3> QED
      BY <2>7, <3>1, NothingYet
  <2>9. Granted(c)' = 1
    BY <2>2 DEF Granted, One
  <2>10. CASE m_pBuffer = Null
    <3>1. Return /\ UNCHANGED ui
      BY <2>1, <2>10
    <3>2. \A d \in Client : Makes(d)' = Makes(d) /\ Compressing(d)' = 0
      BY <2>4, <3>1 DEF Makes, Compressing
    <3>3. \A d \in Client \ {c} : Asking(d)' = Asking(d) /\ Answers(d)' = Answers(d)
      BY <1>0, <1>t, <2>1, <3>1, ReturnCounts
    <3>4. Asking(c)' = 0
      <4>1. Asking(c)' + One(Head(lev.cmds).code = RDCC_TRANSFER_BITMAP) = Asking(c)
        BY <1>0, <1>t, <2>1, <3>1, ReturnCounts
      <4>2. One(Head(lev.cmds).code = RDCC_TRANSFER_BITMAP) = 1
        BY <2>1 DEF One
      <4> QED
        BY <2>4, <2>6, <4>1, <4>2 DEF Numbers
    <3>5. Answers(c)' = 0
      <4>1. Answers(c)' + One(Head(lev.cmds).code \in AnswerCodes) = Answers(c)
        BY <1>0, <1>t, <2>1, <3>1, ReturnCounts
      <4>2. One(Head(lev.cmds).code \in AnswerCodes) = 0
        BY <2>1 DEF One, AnswerCodes, RDCC_TRANSFER_BITMAP, RDCC_TRANSFER_BITMAP_RESPONSE
      <4> QED
        BY <2>4, <2>8, <4>1, <4>2 DEF Numbers
    <3>6. AsksOnce(c)'
      BY <2>3, <2>4, <2>6, <2>9, <3>2, <3>4 DEF AsksOnce, Numbers
    <3>7. \A d \in Client \ {c} : AsksOnce(d)'
      BY <2>3, <2>4, <3>2, <3>3 DEF AsksOnce
    <3>8. Flow(c)'
      BY <2>3, <2>4, <2>8, <3>2, <3>5 DEF Flow, Numbers
    <3>9. \A d \in m_mapClient : d # c => Flow(d)'
      BY <1>t, <2>3, <3>2, <3>3 DEF Flow, FlowInv
    <3>10. ui'.pc # "compress"
      BY <1>0, <3>1, UiFreeFields
    <3> QED
      BY <2>1, <3>6, <3>7, <3>8, <3>9, <3>10 DEF FlowInv
  <2>11. CASE m_pBuffer # Null
    <3>1. ui'.pc = "compress" /\ ui'.conn = c /\ UNCHANGED lev
      BY <2>1, <2>11 DEF UiFree
    <3>2. \A d \in Client : Asking(d)' = Asking(d) /\ Answers(d)' = Answers(d)
      BY <2>1, <3>1 DEF Asking, Answers, Brought
    <3>3. Makes(c)' = 1 /\ Compressing(c)' = 1
      BY <3>1 DEF Makes, Compressing, One
    <3>4. \A d \in Client \ {c} : Makes(d)' = Makes(d) /\ Compressing(d)' = Compressing(d)
      BY <1>0, <3>1, UiFreeFields DEF Makes, Compressing, One
    <3>5. AsksOnce(c)'
      BY <2>3, <2>4, <2>6, <2>9, <3>2, <3>3 DEF AsksOnce, Numbers
    <3>6. \A d \in Client \ {c} : AsksOnce(d)'
      BY <2>3, <2>4, <3>2, <3>4 DEF AsksOnce
    <3>7. Flow(c)'
      BY <2>3, <2>4, <2>8, <3>2, <3>3 DEF Flow, Numbers
    <3>8. \A d \in m_mapClient : d # c => Flow(d)'
      BY <1>t, <2>3, <3>2, <3>4 DEF Flow, FlowInv
    <3> QED
      BY <2>1, <3>1, <3>5, <3>6, <3>7, <3>8 DEF FlowInv
  <2> QED
    BY <2>10, <2>11
<1> QED
  BY <1>2, <1>3, <1>4, <1>5, <1>6 DEF OnReciveCommand

LEMMA FlowPictures ==
    ASSUME SyncInv, SyncInv', HandshakeInv, DeliverInv, FlowInv,
           OnFirstBitmap \/ \E c \in Client : JPEG_Compress(c)
    PROVE  FlowInv'
<1>t. TypeOK /\ TypeOK' /\ m_mapClient \subseteq Client
  BY DEF SyncInv, TypeOK
<1>1. /\ UNCHANGED <<m_mapClient, m_state, m_bSendBitmapReady, s2c, c2s, cliState>>
      /\ ui' = UiFree /\ ui'.pc = "free"
  BY PictureQueued, UiFreeFields
<1>2. \A d \in Client : /\ WillAsk(d)' = WillAsk(d) /\ Granted(d)' = Granted(d) /\ Ready(d)' = Ready(d)
                         /\ Makes(d)' = 0 /\ Compressing(d)' = 0
  BY <1>1 DEF WillAsk, Granted, Ready, Makes, Compressing, One
<1>3. \A d \in Client : Numbers(d) /\ Numbers(d)' /\ AsksOnce(d)
  BY <1>t, AreNumbers, AreNumbersNext DEF FlowInv
\* A picture is one image more.
<1>4. ASSUME NEW S \in SUBSET Client, NEW img \in [Block -> Pixels], QueuePicture(S, img), NEW d \in m_mapClient
      PROVE  Flying(d)' = Flying(d) + One(d \in S)
  <2>1. d \in Client /\ m_pAsynSendCommandEvent[d]
    BY <1>t DEF HandshakeInv, MapInv
  <2>2. CASE d \in S
    <3> DEFINE m == Image(RDCC_TRANSFER_BITMAP, img)
    <3>1. m \in ServerCommand /\ m.code = RDCC_TRANSFER_BITMAP
      BY ServerCommands DEF Image
    <3>2. InFlight(d) \in Seq(ServerCommand) /\ InFlight(d)' = Append(InFlight(d), m)
      BY <1>1, <1>4, <1>t, <2>1, <2>2, PictureInFlight
    <3> HIDE DEF m
    <3>3. CountOf(Append(InFlight(d), m), ImageCodes) = CountOf(InFlight(d), ImageCodes) + One(m.code \in ImageCodes)
      BY <3>1, <3>2, CountOfAppend
    <3>4. One(m.code \in ImageCodes) = One(d \in S)
      BY <2>2, <3>1 DEF One, ImageCodes
    <3> QED
      BY <3>2, <3>3, <3>4 DEF Flying
  <2>3. CASE d \notin S
    <3>1. InFlight(d)' = InFlight(d)
      BY <1>1, <1>4, <1>t, <2>1, <2>3, PictureInFlight
    <3>2. Flying(d)' = Flying(d) /\ Flying(d) \in Nat /\ One(d \in S) = 0
      BY <1>3, <2>1, <2>3, <3>1 DEF Flying, Numbers, One
    <3> QED
      BY <3>2
  <2> QED
    BY <2>2, <2>3
<1>5. CASE OnFirstBitmap
  <2>1. /\ QueuePicture(FirstBitmapReceivers, m_pBuffer) /\ capture.pc = "first" /\ ui = UiFree
        /\ capture' = Idle /\ UNCHANGED <<lev, m_pBuffer>>
    BY <1>5 DEF OnFirstBitmap
  <2>2. FirstBitmapReceivers \in SUBSET Client /\ m_pBuffer # Null /\ m_pBuffer \in [Block -> Pixels]
    BY <1>t, <2>1, PictureIsImage DEF SyncInv, BufferInv, TypeOK, FirstBitmapReceivers
  <2>3. First = 1 /\ First' = 0
    BY <2>1, <2>2 DEF First, One, Idle
  <2>4. \A d \in Client : /\ Asking(d)' = Asking(d) /\ Answers(d)' = Answers(d)
                           /\ Makes(d) = 0 /\ Compressing(d) = 0
    BY <1>1, <2>1, UiFreeFields DEF Asking, Answers, Brought, Makes, Compressing, One
  <2>5. \A d \in Client : AsksOnce(d)'
    BY <1>2, <1>3, <2>4 DEF AsksOnce
  <2>6. ASSUME NEW d \in m_mapClient PROVE Flow(d)'
    <3>1. d \in Client /\ Flow(d)
      BY <1>t DEF FlowInv
    <3>2. Flying(d)' <= Flying(d) + 1
      <4>1. One(d \in FirstBitmapReceivers) \in {0, 1}
        BY DEF One
      <4>2. Flying(d)' = Flying(d) + One(d \in FirstBitmapReceivers)
        BY <1>4, <2>1, <2>2
      <4> QED
        BY <1>3, <3>1, <4>1, <4>2 DEF Numbers
    <3> QED
      BY <1>2, <1>3, <2>3, <2>4, <3>1, <3>2 DEF Numbers, Flow
  <2> QED
    BY <1>1, <2>5, <2>6 DEF FlowInv
<1>6. ASSUME NEW c \in Client, JPEG_Compress(c) PROVE FlowInv'
  <2>1. /\ ui.pc = "compress" /\ ui.conn = c /\ Return /\ UNCHANGED <<m_pBuffer, capture>>
    BY <1>6 DEF JPEG_Compress, capVars
  <2>2. /\ c \in m_mapClient /\ lev.pc = "command" /\ lev.conn = c
        /\ Head(lev.cmds).code = RDCC_TRANSFER_BITMAP
    BY <2>1 DEF SyncInv, HandlerInv, LoopInv, CompressInv, DeliverInv, FlowInv
  <2>3. PICK img \in [Block -> Pixels] : QueuePicture({c}, img)
    <3>1. PICK i \in {ui.img} \cup (IF ui.torn THEN {[b \in Block |-> Torn]} ELSE {}) : QueuePicture({c}, i)
      BY <1>6 DEF JPEG_Compress
    <3>2. [b \in Block |-> Torn] \in [Block -> Pixels]
      BY DEF Pixels
    <3>3. ui.img \in [Block -> Pixels]
      BY <2>1, PictureIsImage DEF SyncInv, HandlerInv
    <3> QED
      BY <3>1, <3>2, <3>3
  <2>4. /\ Makes(c) = 1 /\ Compressing(c) = 1 /\ First' = First
        /\ \A d \in Client \ {c} : Makes(d) = 0 /\ Compressing(d) = 0
    BY <2>1 DEF Makes, Compressing, First, One
  <2>5. \A d \in Client \ {c} : Asking(d)' = Asking(d) /\ Answers(d)' = Answers(d)
    BY <1>1, <1>t, <2>1, <2>2, ReturnCounts
  <2>6. Asking(c)' + 1 = Asking(c)
    <3>1. Asking(c)' + One(Head(lev.cmds).code = RDCC_TRANSFER_BITMAP) = Asking(c)
      BY <1>1, <1>t, <2>1, <2>2, ReturnCounts
    <3>2. One(Head(lev.cmds).code = RDCC_TRANSFER_BITMAP) = 1
      BY <2>2 DEF One
    <3> QED
      BY <3>1, <3>2
  <2>7. Answers(c)' = Answers(c)
    <3>1. Answers(c)' + One(Head(lev.cmds).code \in AnswerCodes) = Answers(c)
      BY <1>1, <1>t, <2>1, <2>2, ReturnCounts
    <3>2. One(Head(lev.cmds).code \in AnswerCodes) = 0
      BY <2>2 DEF One, AnswerCodes, RDCC_TRANSFER_BITMAP, RDCC_TRANSFER_BITMAP_RESPONSE
    <3> QED
      BY <1>3, <3>1, <3>2 DEF Numbers
  <2>8. AsksOnce(c)'
    BY <1>2, <1>3, <2>4, <2>6 DEF AsksOnce, Numbers
  <2>9. \A d \in Client \ {c} : AsksOnce(d)'
    BY <1>2, <1>3, <2>4, <2>5 DEF AsksOnce
  <2>10. Flow(c)'
    <3>1. One(c \in {c}) = 1
      BY DEF One
    <3>2. Flying(c)' = Flying(c) + 1
      BY <1>4, <2>2, <2>3, <3>1
    <3>3. Flow(c)
      BY <2>2 DEF FlowInv
    <3> QED
      BY <1>2, <1>3, <2>4, <2>7, <3>2, <3>3 DEF Numbers, Flow
  <2>11. ASSUME NEW d \in m_mapClient, d # c PROVE Flow(d)'
    <3>1. One(d \in {c}) = 0
      BY <2>11 DEF One
    <3>2. Flying(d)' = Flying(d) + 0
      BY <1>4, <2>3, <3>1
    <3>3. d \in Client \ {c} /\ Flow(d)
      BY <1>t, <2>11 DEF FlowInv
    <3> QED
      BY <1>2, <1>3, <2>4, <2>5, <3>2, <3>3 DEF Numbers, Flow
  <2> QED
    BY <1>1, <2>8, <2>9, <2>10, <2>11 DEF FlowInv
<1> QED
  BY <1>5, <1>6

LEMMA FlowLoop ==
    ASSUME SyncInv, SyncInv', FlowInv,
           CaptureThread \/ OnModified \/ ClipBitmapRect \/ \E c \in Client : OnScreenModified(c)
    PROVE  FlowInv'
<1>1. UNCHANGED <<m_mapClient, lev, m_state, m_queueAsynCommand, s2c, c2s, cliState>>
  BY Zenon DEF CaptureThread, CaptureFirst, CaptureSwap, OnModified, ClipBitmapRect, OnScreenModified,
               connVars, cliVars
<1>t. TypeOK /\ TypeOK' /\ m_mapClient \subseteq Client
  BY DEF SyncInv, TypeOK
<1>2. \A d \in Client : /\ WillAsk(d)' = WillAsk(d) /\ Granted(d)' = Granted(d) /\ Asking(d)' = Asking(d)
                         /\ Answers(d)' = Answers(d) /\ Flying(d)' = Flying(d)
  BY <1>1 DEF WillAsk, Granted, Asking, Answers, Flying, InFlight, Brought
<1>3. \A d \in Client : Numbers(d) /\ Numbers(d)' /\ AsksOnce(d)
  BY <1>t, AreNumbers, AreNumbersNext DEF FlowInv
<1>4. ASSUME ui'.pc = "compress" => ui.pc = "compress",
             \A d \in Client : Compressing(d)' = Compressing(d),
             \A d \in Client : Ready(d)' + Makes(d)' = Ready(d) + Makes(d),
             First' = First
      PROVE  FlowInv'
  <2>1. \A d \in Client : AsksOnce(d)'
    BY <1>2, <1>3, <1>4 DEF AsksOnce
  <2>2. ASSUME NEW d \in m_mapClient PROVE Flow(d)'
    <3>1. d \in Client /\ Flow(d) /\ Numbers(d) /\ Numbers(d)'
      BY <1>t, <1>3 DEF FlowInv
    <3>2. /\ Flying(d)' = Flying(d) /\ Answers(d)' = Answers(d) /\ First' = First
          /\ Ready(d)' + Makes(d)' = Ready(d) + Makes(d)
      BY <1>2, <1>4, <3>1
    <3> QED
      BY <3>1, <3>2 DEF Numbers, Flow
  <2> QED
    BY <1>1, <1>4, <2>1, <2>2 DEF FlowInv
<1>5. CASE CaptureThread
  <2>1. ui'.pc = ui.pc /\ ui'.conn = ui.conn
    BY <1>5, <1>t, CaptureUi
  <2>2. UNCHANGED m_bSendBitmapReady
    BY <1>5, Zenon DEF CaptureThread, CaptureFirst, CaptureSwap, connVars
  <2>3. First' = First
    <3>1. CASE CaptureFirst
      BY <3>1 DEF CaptureFirst, First, One
    <3>2. CASE CaptureSwap
      <4>1. m_pBuffer # Null /\ m_pBuffer' \in Bitmap /\ UNCHANGED capture
        BY <3>2 DEF CaptureSwap
      <4>2. m_pBuffer' # Null
        BY <4>1, PictureIsImage
      <4> QED
        BY <4>1, <4>2 DEF First
    <3> QED
      BY <1>5, <3>1, <3>2 DEF CaptureThread
  <2> QED
    BY <1>4, <2>1, <2>2, <2>3 DEF Compressing, Ready, Makes
<1>6. CASE OnModified
  <2>1. /\ ui.pc = "free" /\ ui'.pc \in {"free", "notify"} /\ UNCHANGED <<m_pBuffer, capture>>
    BY <1>6 DEF OnModified, UiFree
  <2>2. UNCHANGED m_bSendBitmapReady
    BY <1>6, Zenon DEF OnModified, connVars
  <2>3. \A d \in Client : /\ Compressing(d)' = Compressing(d) /\ Makes(d)' = Makes(d) /\ Ready(d)' = Ready(d)
    BY <2>1, <2>2 DEF Compressing, Makes, Ready, One
  <2>4. First' = First /\ ui'.pc # "compress"
    BY <2>1 DEF First
  <2> QED
    BY <1>4, <2>3, <2>4
<1>7. CASE ClipBitmapRect
  <2>1. ui'.pc = ui.pc /\ ui'.conn = ui.conn
    BY <1>7, <1>t DEF ClipBitmapRect, TypeOK
  <2>2. UNCHANGED <<m_bSendBitmapReady, m_pBuffer, capture>>
    BY <1>7, Zenon DEF ClipBitmapRect, connVars, capVars
  <2> QED
    BY <1>4, <2>1, <2>2 DEF Compressing, Ready, Makes, First
<1>8. ASSUME NEW c \in Client, OnScreenModified(c) PROVE FlowInv'
  <2>1. ui.pc = "notify" /\ UNCHANGED <<m_pBuffer, capture>>
    BY <1>8 DEF OnScreenModified, capVars
  <2>2. First' = First
    BY <2>1 DEF First
  <2>3. CASE /\ m_bSendBitmapReady[c] /\ m_bSendBitmapReady' = [m_bSendBitmapReady EXCEPT ![c] = FALSE]
             /\ ui' = [ui EXCEPT !.pc = "clip", !.conn = c]
    <3>1. ui'.pc = "clip" /\ ui'.conn = c
      BY <1>t, <2>3 DEF TypeOK
    <3>2. m_bSendBitmapReady'[c] = FALSE /\ \A d \in Client \ {c} : m_bSendBitmapReady'[d] = m_bSendBitmapReady[d]
      BY <1>t, <2>3 DEF TypeOK
    <3>3. Ready(c) = 1 /\ Ready(c)' = 0 /\ Makes(c) = 0 /\ Makes(c)' = 1
      BY <2>1, <2>3, <3>1, <3>2 DEF Ready, Makes, One
    <3>4. \A d \in Client \ {c} : Ready(d)' = Ready(d) /\ Makes(d)' = Makes(d)
      BY <2>1, <3>1, <3>2 DEF Ready, Makes, One
    <3>5. \A d \in Client : Compressing(d)' = Compressing(d)
      BY <2>1, <3>1 DEF Compressing, One
    <3>6. \A d \in Client : Ready(d)' + Makes(d)' = Ready(d) + Makes(d)
      BY <3>3, <3>4
    <3> QED
      BY <1>4, <2>2, <3>1, <3>5, <3>6
  <2>4. CASE ui' = LoopAfter(c) /\ UNCHANGED m_bSendBitmapReady
    <3>1. ui'.pc \in {"free", "notify"}
      BY <1>t, <2>4, LoopAfterUi
    <3>2. \A d \in Client : /\ Compressing(d)' = Compressing(d) /\ Makes(d)' = Makes(d) /\ Ready(d)' = Ready(d)
      BY <2>1, <2>4, <3>1 DEF Compressing, Makes, Ready, One
    <3>3. ui'.pc # "compress"
      BY <3>1
    <3> QED
      BY <1>4, <2>2, <3>2, <3>3
  <2> QED
    BY <1>8, <2>3, <2>4 DEF OnScreenModified
<1> QED
  BY <1>5, <1>6, <1>7, <1>8

LEMMA FlowModifyBitmap ==
    ASSUME SyncInv, SyncInv', FlowInv, NEW c \in Client, AsynSendTransterModifyBitmap(c)
    PROVE  FlowInv'
<1>t. TypeOK /\ TypeOK' /\ m_mapClient \subseteq Client
  BY DEF SyncInv, TypeOK
<1>1. /\ UNCHANGED <<m_mapClient, lev, m_state, m_bSendBitmapReady, s2c, c2s, cliState, m_pBuffer, capture>>
      /\ ui.pc = "clip" /\ ui.conn = c /\ ui' = LoopAfter(c)
      /\ m_queueAsynCommand' =
           [m_queueAsynCommand EXCEPT ![c] = Append(@, Image(RDCC_TRANSFER_MODIFY_BITMAP, ui.img))]
  BY DEF AsynSendTransterModifyBitmap, capVars, cliVars
<1>2. ui'.pc \in {"free", "notify"}
  BY <1>1, <1>t, LoopAfterUi
<1>3. \A d \in Client : /\ WillAsk(d)' = WillAsk(d) /\ Granted(d)' = Granted(d) /\ Asking(d)' = Asking(d)
                         /\ Answers(d)' = Answers(d) /\ Ready(d)' = Ready(d) /\ First' = First
  BY <1>1 DEF WillAsk, Granted, Asking, Answers, Brought, Ready, First
<1>4. /\ \A d \in Client : Compressing(d) = 0 /\ Compressing(d)' = 0 /\ Makes(d)' = 0
      /\ Makes(c) = 1
  BY <1>1, <1>2 DEF Makes, Compressing, One
<1>5. \A d \in Client : Numbers(d) /\ Numbers(d)' /\ AsksOnce(d)
  BY <1>t, AreNumbers, AreNumbersNext DEF FlowInv
<1>6. \A d \in Client : AsksOnce(d)'
  BY <1>3, <1>4, <1>5 DEF AsksOnce
<1>7. Flying(c)' = Flying(c) + 1
  <2> DEFINE m == Image(RDCC_TRANSFER_MODIFY_BITMAP, ui.img)
  <2>1. ui.img \in PartialImage
    BY <1>t DEF TypeOK
  <2>2. m \in ServerCommand /\ m.code = RDCC_TRANSFER_MODIFY_BITMAP
    BY <2>1, ServerCommands DEF Image
  <2>3. m_queueAsynCommand'[c] = Append(m_queueAsynCommand[c], m)
    BY <1>1, <1>t DEF TypeOK
  <2> HIDE DEF m
  <2>4. InFlight(c) \in Seq(ServerCommand) /\ InFlight(c)' = Append(InFlight(c), m)
    BY <1>1, <1>t, <2>2, <2>3, QueuedInFlight
  <2>5. CountOf(Append(InFlight(c), m), ImageCodes) = CountOf(InFlight(c), ImageCodes) + One(m.code \in ImageCodes)
    BY <2>2, <2>4, CountOfAppend
  <2>6. One(m.code \in ImageCodes) = 1
    BY <2>2 DEF One, ImageCodes
  <2> QED
    BY <2>4, <2>5, <2>6 DEF Flying
<1>8. ASSUME NEW d \in m_mapClient PROVE Flow(d)'
  <2>1. d \in Client /\ Flow(d) /\ Numbers(d) /\ Numbers(d)'
    BY <1>t, <1>5 DEF FlowInv
  <2>2. CASE d = c
    BY <1>3, <1>4, <1>7, <2>1, <2>2 DEF Numbers, Flow
  <2>3. CASE d # c
    <3>1. m_queueAsynCommand'[d] = m_queueAsynCommand[d]
      BY <1>1, <1>t, <2>1, <2>3 DEF TypeOK
    <3>2. Flying(d)' = Flying(d)
      BY <1>1, <3>1 DEF Flying, InFlight
    <3> QED
      BY <1>3, <1>4, <2>1, <3>2 DEF Numbers, Flow
  <2> QED
    BY <2>2, <2>3
<1> QED
  BY <1>1, <1>2, <1>6, <1>8 DEF FlowInv

\* What the words of a client add to the counts.
LEMMA WordCounts ==
    /\ Hello \in Seq(ClientCommand) /\ Asks \in Seq(ClientCommand) /\ Ack \in Seq(ClientCommand)
    /\ CountOf(Hello, {RDCC_TRANSFER_BITMAP}) = 0 /\ CountOf(Hello, AnswerCodes) = 0
    /\ CountOf(Asks, {RDCC_TRANSFER_BITMAP}) = 1 /\ CountOf(Asks, AnswerCodes) = 0
    /\ CountOf(Ack, {RDCC_TRANSFER_BITMAP}) = 0 /\ CountOf(Ack, AnswerCodes) = 1
<1> DEFINE v == Command(RDCC_PROTOCOL_VERSION)
           l == Command(RDCC_LOGON)
           k == Command(RDCC_COMPRESS_MODE)
           b == Command(RDCC_TRANSFER_BITMAP)
           r == Command(RDCC_TRANSFER_BITMAP_RESPONSE)
<1>1. /\ v \in ClientCommand /\ l \in ClientCommand /\ k \in ClientCommand
      /\ b \in ClientCommand /\ r \in ClientCommand
  BY DEF Command, ClientCommand, Commands
<1>2. /\ v.code = RDCC_PROTOCOL_VERSION /\ l.code = RDCC_LOGON /\ k.code = RDCC_COMPRESS_MODE
      /\ b.code = RDCC_TRANSFER_BITMAP /\ r.code = RDCC_TRANSFER_BITMAP_RESPONSE
  BY DEF Command
<1>3. Hello = Append(<<v>>, l) /\ Asks = Append(<<k>>, b) /\ Ack = <<r>>
  BY DEF Hello, Asks, Ack
<1> HIDE DEF v, l, k, b, r
<1>4. /\ Hello \in Seq(ClientCommand) /\ Asks \in Seq(ClientCommand) /\ Ack \in Seq(ClientCommand)
      /\ <<v>> \in Seq(ClientCommand) /\ <<k>> \in Seq(ClientCommand)
  BY <1>1, <1>3
<1>5. ASSUME NEW codes
      PROVE  /\ CountOf(Hello, codes) = One(v.code \in codes) + One(l.code \in codes)
             /\ CountOf(Asks, codes) = One(k.code \in codes) + One(b.code \in codes)
             /\ CountOf(Ack, codes) = One(r.code \in codes)
  <2>1. /\ CountOf(<<v>>, codes) = One(v.code \in codes) /\ CountOf(<<k>>, codes) = One(k.code \in codes)
        /\ CountOf(<<r>>, codes) = One(r.code \in codes)
    BY <1>1, CountOfOne
  <2>2. CountOf(Append(<<v>>, l), codes) = CountOf(<<v>>, codes) + One(l.code \in codes)
    BY <1>1, <1>4, CountOfAppend
  <2>3. CountOf(Append(<<k>>, b), codes) = CountOf(<<k>>, codes) + One(b.code \in codes)
    BY <1>1, <1>4, CountOfAppend
  <2> QED
    BY <1>3, <2>1, <2>2, <2>3
<1>6. /\ One(v.code \in {RDCC_TRANSFER_BITMAP}) = 0 /\ One(v.code \in AnswerCodes) = 0
      /\ One(l.code \in {RDCC_TRANSFER_BITMAP}) = 0 /\ One(l.code \in AnswerCodes) = 0
      /\ One(k.code \in {RDCC_TRANSFER_BITMAP}) = 0 /\ One(k.code \in AnswerCodes) = 0
      /\ One(b.code \in {RDCC_TRANSFER_BITMAP}) = 1 /\ One(b.code \in AnswerCodes) = 0
      /\ One(r.code \in {RDCC_TRANSFER_BITMAP}) = 0 /\ One(r.code \in AnswerCodes) = 1
  BY <1>2 DEF One, AnswerCodes, RDCC_PROTOCOL_VERSION, RDCC_LOGON, RDCC_COMPRESS_MODE, RDCC_TRANSFER_BITMAP,
              RDCC_TRANSFER_BITMAP_RESPONSE
<1> QED
  BY <1>4, <1>5, <1>6

LEMMA FlowClients ==
    ASSUME SyncInv, SyncInv', FlowInv, NEW c \in Client, ClientOnConnected(c) \/ ClientOnReciveCommand(c)
    PROVE  FlowInv'
<1>1. UNCHANGED <<m_mapClient, lev, ui, m_state, m_bSendBitmapReady, m_queueAsynCommand, m_pBuffer, capture>>
  BY Zenon DEF ClientOnConnected, ClientOnReciveCommand, connVars, capVars
<1>t. /\ TypeOK /\ TypeOK' /\ m_mapClient \subseteq Client /\ c2s[c] \in Seq(ClientCommand)
      /\ s2c[c] \in Seq(ServerCommand)
  BY DEF SyncInv, TypeOK
<1>2. \A d \in Client : /\ Granted(d)' = Granted(d) /\ Compressing(d)' = Compressing(d) /\ Ready(d)' = Ready(d)
                         /\ Makes(d)' = Makes(d) /\ First' = First /\ Brought(d)' = Brought(d)
  BY <1>1 DEF Granted, Compressing, Ready, Makes, First, Brought
<1>3. \A d \in Client \ {c} : c2s'[d] = c2s[d] /\ s2c'[d] = s2c[d] /\ cliState'[d] = cliState[d]
  <2>1. TypeOK
    BY <1>t
  <2> QED
    BY <2>1 DEF ClientOnConnected, ClientOnReciveCommand, cliVars, TypeOK
<1>4. \A d \in Client : Numbers(d) /\ Numbers(d)' /\ AsksOnce(d)
  BY <1>t, AreNumbers, AreNumbersNext DEF FlowInv
<1>5. ASSUME NEW d \in Client, d # c PROVE AsksOnce(d)' /\ (Flow(d) => Flow(d)')
  <2>1. /\ Asking(d)' = Asking(d) /\ Answers(d)' = Answers(d) /\ Flying(d)' = Flying(d)
        /\ WillAsk(d)' = WillAsk(d)
    BY <1>1, <1>2, <1>3, <1>5 DEF Asking, Answers, Flying, InFlight, WillAsk
  <2> QED
    BY <1>2, <1>4, <2>1 DEF AsksOnce, Flow
\* What the client's words add.
<1>6. ASSUME NEW w \in Seq(ClientCommand), c2s'[c] = c2s[c] \o w
      PROVE  /\ Asking(c)' = Asking(c) + CountOf(w, {RDCC_TRANSFER_BITMAP})
             /\ Answers(c)' = Answers(c) + CountOf(w, AnswerCodes)
  <2>1. ASSUME NEW codes PROVE /\ CountOf(c2s'[c], codes) = CountOf(c2s[c], codes) + CountOf(w, codes)
                               /\ CountOf(c2s[c], codes) \in Nat /\ CountOf(w, codes) \in Nat
                               /\ CountOf(Brought(c), codes) \in Nat
    <3>1. Brought(c) \in Seq(ClientCommand)
      BY <1>t, BroughtType
    <3>2. CountOf(c2s[c] \o w, codes) = CountOf(c2s[c], codes) + CountOf(w, codes)
      BY <1>t, CountOfConcat
    <3> QED
      BY <1>6, <1>t, <3>1, <3>2, CountIsNat
  <2>2. \A codes : CountOf(Brought(c)', codes) = CountOf(Brought(c), codes)
    BY <1>2
  <2> QED
    BY <2>1, <2>2 DEF Asking, Answers
<1>7. CASE ClientOnConnected(c)
  <2>1. /\ cliState[c] = RDCS_INVALID /\ cliState'[c] = RDCS_LOGON /\ c2s'[c] = Hello /\ UNCHANGED s2c
    BY <1>7, <1>t DEF ClientOnConnected, Hello, TypeOK
  <2>2. WillAsk(c) = 1 /\ WillAsk(c)' = 1
    BY <2>1 DEF WillAsk, One
  <2>3. Flying(c)' = Flying(c)
    BY <1>1, <2>1 DEF Flying, InFlight
  <2>4. Asking(c)' <= Asking(c) /\ Answers(c)' <= Answers(c)
    <3>1. \A codes : CountOf(c2s[c], codes) \in Nat /\ CountOf(Brought(c), codes) \in Nat
      <4>1. Brought(c) \in Seq(ClientCommand)
        BY <1>t, BroughtType
      <4> QED
        BY <1>t, <4>1, CountIsNat
    <3>2. CountOf(c2s'[c], {RDCC_TRANSFER_BITMAP}) = 0 /\ CountOf(c2s'[c], AnswerCodes) = 0
      BY <2>1, WordCounts
    <3>3. \A codes : CountOf(Brought(c)', codes) = CountOf(Brought(c), codes)
      BY <1>2
    <3> QED
      BY <3>1, <3>2, <3>3 DEF Asking, Answers
  <2>5. AsksOnce(c)'
    BY <1>2, <1>4, <2>2, <2>4 DEF AsksOnce, Numbers
  <2>6. Flow(c) => Flow(c)'
    BY <1>2, <1>4, <2>3, <2>4 DEF Flow, Numbers
  <2> QED
    BY <1>1, <1>5, <1>t, <2>5, <2>6 DEF FlowInv
<1>8. CASE ClientOnReciveCommand(c)
  <2> DEFINE m == Head(s2c[c])
  <2>1. /\ InFlight(c) \in Seq(ServerCommand) /\ InFlight(c) # <<>>
        /\ Head(InFlight(c)) = m /\ InFlight(c)' = Tail(InFlight(c)) /\ m \in ServerCommand
    BY <1>8, <1>t, ReceivedInFlight
  <2>2. \/ UNCHANGED <<cliState, c2s>>
        \/ /\ m.code = RDCC_LOGON_RESULT /\ cliState[c] = RDCS_LOGON
           /\ cliState'[c] = RDCS_COMPRESS_MODE /\ c2s'[c] = c2s[c] \o Asks
        \/ /\ m.code \in ImageCodes /\ cliState'[c] = RDCS_TRANSFER /\ c2s'[c] = c2s[c] \o Ack
    BY <1>8, <1>t, ClientReceives DEF ImageCodes
  <2> HIDE DEF m
  <2>3. Flying(c) = One(m.code \in ImageCodes) + Flying(c)'
    BY <2>1, CountOfTail DEF Flying
  <2>4. One(m.code \in ImageCodes) \in {0, 1}
    BY DEF One
  <2>5. CASE UNCHANGED <<cliState, c2s>>
    <3>1. WillAsk(c)' = WillAsk(c) /\ Asking(c)' = Asking(c) /\ Answers(c)' = Answers(c)
      BY <1>2, <2>5 DEF WillAsk, Asking, Answers
    <3>2. AsksOnce(c)'
      BY <1>2, <1>4, <3>1 DEF AsksOnce
    <3>3. Flow(c) => Flow(c)'
      BY <1>2, <1>4, <2>3, <2>4, <3>1 DEF Flow, Numbers
    <3> QED
      BY <1>1, <1>5, <1>t, <3>2, <3>3 DEF FlowInv
  <2>6. CASE /\ m.code = RDCC_LOGON_RESULT /\ cliState[c] = RDCS_LOGON
             /\ cliState'[c] = RDCS_COMPRESS_MODE /\ c2s'[c] = c2s[c] \o Asks
    <3>1. Asking(c)' = Asking(c) + 1 /\ Answers(c)' = Answers(c) + 0
      BY <1>6, <2>6, WordCounts
    <3>2. WillAsk(c) = 1 /\ WillAsk(c)' = 0
      BY <2>6 DEF WillAsk, One, RDCS_LOGON, RDCS_COMPRESS_MODE, RDCS_INVALID
    <3>3. AsksOnce(c)'
      BY <1>2, <1>4, <3>1, <3>2 DEF AsksOnce, Numbers
    <3>4. Flow(c) => Flow(c)'
      BY <1>2, <1>4, <2>3, <2>4, <3>1 DEF Flow, Numbers
    <3> QED
      BY <1>1, <1>5, <1>t, <3>3, <3>4 DEF FlowInv
  <2>7. CASE m.code \in ImageCodes /\ cliState'[c] = RDCS_TRANSFER /\ c2s'[c] = c2s[c] \o Ack
    <3>1. Asking(c)' = Asking(c) + 0 /\ Answers(c)' = Answers(c) + 1
      BY <1>6, <2>7, WordCounts
    <3>2. WillAsk(c)' = 0
      BY <2>7 DEF WillAsk, One, RDCS_LOGON, RDCS_TRANSFER, RDCS_INVALID
    <3>3. Flying(c) = 1 + Flying(c)'
      BY <2>3, <2>7 DEF One
    <3>4. AsksOnce(c)'
      BY <1>2, <1>4, <3>1, <3>2 DEF AsksOnce, Numbers
    <3>5. Flow(c) => Flow(c)'
      BY <1>2, <1>4, <3>1, <3>3 DEF Flow, Numbers
    <3> QED
      BY <1>1, <1>5, <1>t, <3>4, <3>5 DEF FlowInv
  <2> QED
    BY <2>2, <2>5, <2>6, <2>7
<1> QED
  BY <1>7, <1>8

LEMMA FlowNext == DeliveryInv /\ SyncInv' /\ FlowInv /\ [Next]_vars => FlowInv'
<1> SUFFICES ASSUME SyncInv, HandshakeInv, DeliverInv, SyncInv', FlowInv, [Next]_vars PROVE FlowInv'
  BY DEF DeliveryInv
<1>1. CASE JPEG_CompressFaults \/ (\E c \in Client : OnScreenModifiedNull(c)) \/ UNCHANGED vars
  <2>1. UNCHANGED <<m_mapClient, lev, ui, m_state, m_bSendBitmapReady, m_queueAsynCommand, s2c, c2s, cliState,
                    m_pBuffer, capture>>
    BY <1>1, Zenon DEF JPEG_CompressFaults, OnScreenModifiedNull, vars, connVars, cliVars, capVars
  <2>2. \A d \in Client : /\ WillAsk(d)' = WillAsk(d) /\ Granted(d)' = Granted(d) /\ Compressing(d)' = Compressing(d)
                           /\ Ready(d)' = Ready(d) /\ Makes(d)' = Makes(d) /\ First' = First
                           /\ Asking(d)' = Asking(d) /\ Answers(d)' = Answers(d) /\ Flying(d)' = Flying(d)
    BY <2>1 DEF WillAsk, Granted, Compressing, Ready, Makes, First, Asking, Answers, Flying, InFlight, Brought
  <2>3. \A d \in Client : (AsksOnce(d) => AsksOnce(d)') /\ (Flow(d) => Flow(d)')
    BY <2>2 DEF AsksOnce, Flow
  <2>4. m_mapClient \subseteq Client
    BY DEF SyncInv, TypeOK
  <2> QED
    BY <2>1, <2>3, <2>4 DEF FlowInv
<1> QED
  BY <1>1, FlowLibevent, FlowConnections, FlowCommand, FlowPictures, FlowLoop, FlowModifyBitmap,
     FlowClients DEF Next, Busy

\* Acknowledgements are flow control, for any clients, screen and interleaving: images
\* made for a connection and not acknowledged, and the leave to make one, are two at most.
THEOREM ImagesDoNotPileUp == Spec => []AtMostTwoImages
<1>1. Init => DeliveryInv /\ FlowInv
  BY InitSync, HandshakeInit, DeliverInit, FlowInit DEF DeliveryInv
<1>2. (DeliveryInv /\ FlowInv) /\ [Next]_vars => (DeliveryInv /\ FlowInv)'
  <2>1. DeliveryInv /\ [Next]_vars => SyncInv' /\ DeliveryInv'
    BY SyncInvNext, HandshakeNext, DeliverNext DEF DeliveryInv
  <2> QED
    BY <2>1, FlowNext
<1>3. DeliveryInv /\ FlowInv => AtMostTwoImages
  <2> SUFFICES ASSUME DeliveryInv, FlowInv, NEW c \in m_mapClient PROVE Unacknowledged(c) <= 2
    BY DEF AtMostTwoImages
  <2>1. c \in Client /\ TypeOK /\ Flow(c)
    BY DEF DeliveryInv, SyncInv, TypeOK, FlowInv
  <2>2. Numbers(c)
    BY <2>1, AreNumbers
  <2>3. Unacknowledged(c) = Flying(c) + Answers(c) + Ready(c) + Makes(c)
    <3>1. CountOf(c2s[c], AnswerCodes) \in Nat /\ CountOf(Brought(c), AnswerCodes) \in Nat
      <4>1. c2s[c] \in Seq(ClientCommand)
        BY <2>1 DEF TypeOK
      <4>2. Brought(c) \in Seq(ClientCommand)
        BY <2>1, BroughtType
      <4> QED
        BY <4>1, <4>2, CountIsNat
    <3>2. Unacknowledged(c) = Flying(c) + CountOf(c2s[c], AnswerCodes) + CountOf(Brought(c), AnswerCodes)
                                + Ready(c) + Makes(c)
      BY DEF Unacknowledged, Flying, Ready, Makes
    <3> QED
      BY <2>2, <3>1, <3>2 DEF Numbers, Answers
  <2> QED
    BY <2>1, <2>2, <2>3 DEF Numbers, Flow
<1> QED
  BY <1>1, <1>2, <1>3, PTL DEF Spec
=============================================================================
