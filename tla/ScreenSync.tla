----------------------------- MODULE ScreenSync -----------------------------
(***************************************************************************)
(* How the picture of the desktop reaches the viewers.                     *)
(*                                                                         *)
(* RemoteDesktopServer has three threads that meet here:                   *)
(*   - the capture thread compares each capture of the desktop with the    *)
(*     last one and posts the numbers of the changed blocks to the UI;     *)
(*   - the UI thread owns the connections' state: it answers commands,     *)
(*     collects changed blocks per connection and queues image commands;   *)
(*   - the libevent thread accepts, reads, writes and reports errors.  It  *)
(*     crosses to the UI thread with SendMessage and stays blocked there   *)
(*     until the handler returns.                                          *)
(* RemoteDesktopClient negotiates, draws what it receives and acknowledges *)
(* each image; the acknowledgement lets the server send the next one.      *)
(*                                                                         *)
(* A block's pixels are a value of Val, or Torn when they are no block of  *)
(* any capture: rows of two captures, or memory that was freed.  The image *)
(* codec (libjpeg) is external and lossy, so view records which pixels the *)
(* drawn block was encoded from, not the drawn pixels.  Framing of commands *)
(* in the TCP stream is the subject of CommandStream; here the streams     *)
(* carry whole commands.                                                   *)
(***************************************************************************)
EXTENDS RDProtocol, BlockList, FiniteSets

CONSTANTS
    Client,      \* the clients, each of which opens one connection
    Compatible,  \* those sure to have the server's main version; others have any
    Failing,     \* those whose connection may break at any moment
    BlockCount,  \* m_nScanPointRowCount * m_nScanPointColumnCount
    Val,         \* the contents a block can have
    Torn,        \* contents that no captured block has
    MaxNotices,  \* bound: WM_SCREENBITMAP_MODIFIED messages the UI has yet to handle
    Null

ASSUME ScreenSyncAssumption ==
    /\ BlockCount \in Nat \ {0}
    /\ MaxNotices \in Nat \ {0}
    /\ Compatible \subseteq Client /\ Failing \subseteq Client
    /\ Torn \notin Val
    /\ Null \notin [0..BlockCount - 1 -> Val \cup {Torn}] \cup Client \cup Seq(Nat)

Block  == 0..BlockCount - 1
Bitmap == [Block -> Val]
Pixels == Val \cup {Torn}

VARIABLES
    \* CScreenBitmap
    m_uThreadId,              \* a capture thread has been started (IsCapturing)
    stopped,                  \* StopCapture ran
    m_pBuffer,                \* the last capture
    capture,                  \* CaptureDesktop waits in SendMessage(FIRSTBITMAP), or not
    notices,                  \* posted WM_SCREENBITMAP_MODIFIED messages
    \* CRemoteServer
    m_mapClient,              \* connections in the map
    lev,                      \* what the libevent thread waits for the UI to do
    ui,                       \* what the UI thread is in the middle of
    \* CClientConnection
    m_state,
    m_pAsynSendCommandEvent,  \* is not NULL (m_bufferev goes with it)
    m_bSendBitmapReady,
    m_pnModifiedBlocks,       \* Null, or the first m_nModifiedBlockCount entries
    m_queueAsynCommand,
    \* the TCP streams
    s2c, c2s,
    \* CRemoteClient and the viewer's window
    cliState, view,
    \* history
    sent,                     \* contents of each block in the last image queued with it
    lost,                     \* blocks reported to the connection and dropped by the merge
    garbled,                  \* the last whole picture was read from freed memory
    crashed                   \* the server was killed by an invalid memory access

capVars  == <<m_uThreadId, stopped, m_pBuffer, capture, notices>>
connVars == <<m_pAsynSendCommandEvent, m_bSendBitmapReady, m_pnModifiedBlocks,
              m_queueAsynCommand, sent, lost, garbled>>
cliVars  == <<cliState, view>>
vars == <<capVars, m_mapClient, lev, ui, m_state, connVars, s2c, c2s,
          cliVars, crashed>>

Idle     == [pc |-> "idle"]
UiFree   == [pc |-> "free", todo |-> {}, blocks |-> {}, conn |-> Null,
             next |-> 1, img |-> <<>>, torn |-> FALSE]
Image(code, img) == [code |-> code, img |-> img]
Command(code)    == [code |-> code]

IsImage(m) == m.code \in {RDCC_TRANSFER_BITMAP, RDCC_TRANSFER_MODIFY_BITMAP}

\* A picture after the blocks of img have been drawn over it.
Drawn(img, picture) == [b \in Block |-> IF b \in DOMAIN img THEN img[b] ELSE picture[b]]

Init ==
    /\ m_uThreadId = FALSE /\ stopped = FALSE /\ m_pBuffer = Null
    /\ capture = Idle /\ notices = <<>>
    /\ m_mapClient = {} /\ lev = Idle /\ ui = UiFree
    /\ m_state = [c \in Client |-> RDCS_INVALID]
    /\ m_pAsynSendCommandEvent = [c \in Client |-> FALSE]
    /\ m_bSendBitmapReady = [c \in Client |-> FALSE]
    /\ m_pnModifiedBlocks = [c \in Client |-> Null]
    /\ m_queueAsynCommand = [c \in Client |-> <<>>]
    /\ s2c = [c \in Client |-> <<>>] /\ c2s = [c \in Client |-> <<>>]
    /\ cliState = [c \in Client |-> RDCS_INVALID]
    /\ view = [c \in Client |-> Null]
    /\ sent = [c \in Client |-> Null] /\ lost = [c \in Client |-> {}]
    /\ garbled = [c \in Client |-> FALSE]
    /\ crashed = FALSE

-----------------------------------------------------------------------------
(* The capture thread.  OnTimer posts WM_TIMER to it every 150 ms.         *)

\* CaptureDesktop with no last buffer: the screen is copied, the copy stored under
\* m_lock, and FIRSTBITMAP sent.  Other programs paint on the screen as they like,
\* so the copy can be any Bitmap.
CaptureFirst ==
    /\ ~crashed /\ m_uThreadId /\ capture = Idle /\ m_pBuffer = Null
    /\ m_pBuffer' \in Bitmap
    /\ capture' = [pc |-> "first"]
    /\ UNCHANGED <<m_uThreadId, stopped, notices, m_mapClient, lev, ui,
                   m_state, connVars, s2c, c2s, cliVars, crashed>>

\* What replacing the buffer does to a read of it that is under way on the UI
\* thread.  ClipBitmapRect locks and looks the buffer up again for every row, so
\* a block that changes gets rows of both captures, unless no row has been copied
\* yet; the whole picture is compressed without the lock through the pointer to
\* the buffer now freed.
Overtaken(new) ==
    \/ ui.pc = "compress"
    \/ /\ ui.pc = "clip" /\ ui.next <= Len(m_pnModifiedBlocks[ui.conn])
       /\ LET block == m_pnModifiedBlocks[ui.conn][ui.next] IN new[block] # m_pBuffer[block]

Overtake(new) ==
    {ui} \cup (IF Overtaken(new) THEN {[ui EXCEPT !.torn = TRUE]} ELSE {})

\* A faulty CaptureSwap: nothing is posted to a busy UI thread.
CaptureSwapUnlessBusy ==
    /\ ~crashed /\ m_uThreadId /\ capture = Idle /\ m_pBuffer # Null
    /\ \E new \in Bitmap :
        LET modified == ModifiedBlocks(new, m_pBuffer)
        IN  /\ modified = {} \/ Len(notices) < MaxNotices
            /\ m_pBuffer' = new
            /\ ui' \in Overtake(new)
            /\ notices' = IF modified = {} \/ ui # UiFree THEN notices
                          ELSE Append(notices, modified)
    /\ UNCHANGED <<m_uThreadId, stopped, capture, m_mapClient, lev,
                   m_state, connVars, s2c, c2s, cliVars, crashed>>

\* CaptureDesktop with a last buffer: the copy is compared with it (no one else
\* replaces it meanwhile), takes its place under m_lock, and the changed blocks
\* are posted.  A message not posted yet and one not retrieved yet are alike to
\* the UI thread, so the two are one step.
CaptureSwap ==
    /\ ~crashed /\ m_uThreadId /\ capture = Idle /\ m_pBuffer # Null
    /\ \E new \in Bitmap :
        LET modified == ModifiedBlocks(new, m_pBuffer)
        IN  /\ modified = {} \/ Len(notices) < MaxNotices
            /\ m_pBuffer' = new
            /\ ui' \in Overtake(new)
            /\ notices' = IF modified = {} THEN notices ELSE Append(notices, modified)
    /\ UNCHANGED <<m_uThreadId, stopped, capture, m_mapClient, lev,
                   m_state, connVars, s2c, c2s, cliVars, crashed>>

-----------------------------------------------------------------------------
(* The libevent thread.  It is stuck in SendMessage unless lev = Idle; if  *)
(* it is not, the UI thread holds m_lockClient whenever ui # UiFree.       *)

\* listener_cb: a new connection enters the map, then the UI is told.
\* Bound: connections are accepted until the first StopCapture.
listener_cb(c) ==
    /\ ~crashed /\ lev = Idle /\ ui = UiFree /\ ~stopped
    /\ cliState[c] # RDCS_INVALID /\ c \notin m_mapClient /\ m_state[c] = RDCS_INVALID
    /\ m_mapClient' = m_mapClient \cup {c}
    /\ m_pAsynSendCommandEvent' = [m_pAsynSendCommandEvent EXCEPT ![c] = TRUE]
    /\ lev' = [pc |-> "connected", conn |-> c]
    /\ UNCHANGED <<capVars, ui, m_state, m_bSendBitmapReady,
                   m_pnModifiedBlocks, m_queueAsynCommand, sent, lost, garbled, s2c,
                   c2s, cliVars, crashed>>

\* conn_readcb: everything that has arrived is decoded; each command goes to
\* the UI in turn, on the connection found in the map before the first one.
conn_readcb(c) ==
    /\ ~crashed /\ lev = Idle /\ ui = UiFree /\ c \in m_mapClient
    /\ \E n \in 1..Len(c2s[c]) :
        /\ lev' = [pc |-> "command", conn |-> c, cmds |-> SubSeq(c2s[c], 1, n)]
        /\ c2s' = [c2s EXCEPT ![c] = SubSeq(@, n + 1, Len(@))]
    /\ UNCHANGED <<capVars, m_mapClient, ui, m_state, connVars, s2c,
                   cliVars, crashed>>

\* A faulty conn_eventcb: the map is changed without m_lockClient.
conn_eventcb_unlocked(c) ==
    /\ ~crashed /\ lev = Idle /\ c \in m_mapClient /\ c \in Failing
    /\ m_mapClient' = m_mapClient \ {c}
    /\ lev' = [pc |-> "disconnected", conn |-> c]
    /\ s2c' = [s2c EXCEPT ![c] = <<>>]
    /\ c2s' = [c2s EXCEPT ![c] = <<>>]
    /\ UNCHANGED <<capVars, ui, m_state, connVars, cliVars, crashed>>

\* conn_eventcb: the connection broke; it leaves the map, then the UI is told.
conn_eventcb(c) ==
    /\ ~crashed /\ lev = Idle /\ ui = UiFree /\ c \in m_mapClient /\ c \in Failing
    /\ m_mapClient' = m_mapClient \ {c}
    /\ lev' = [pc |-> "disconnected", conn |-> c]
    /\ s2c' = [s2c EXCEPT ![c] = <<>>]
    /\ c2s' = [c2s EXCEPT ![c] = <<>>]
    /\ UNCHANGED <<capVars, ui, m_state, connVars, cliVars, crashed>>

\* OnAsynSendCommand: the whole queue is written to the connection.
OnAsynSendCommand(c) ==
    /\ ~crashed /\ lev = Idle
    /\ m_pAsynSendCommandEvent[c] /\ m_queueAsynCommand[c] # <<>>
    /\ s2c' = [s2c EXCEPT ![c] = @ \o m_queueAsynCommand[c]]
    /\ m_queueAsynCommand' = [m_queueAsynCommand EXCEPT ![c] = <<>>]
    /\ UNCHANGED <<capVars, m_mapClient, lev, ui, m_state,
                   m_pAsynSendCommandEvent, m_bSendBitmapReady, m_pnModifiedBlocks,
                   sent, lost, garbled, c2s, cliVars, crashed>>

-----------------------------------------------------------------------------
(* The UI thread: connections come and go.                                 *)

\* OnClientConnected, CMainWindow::OnConnect and StartCapture.
OnClientConnected(c) ==
    /\ ~crashed /\ ui = UiFree /\ lev = [pc |-> "connected", conn |-> c]
    /\ m_state' = [m_state EXCEPT ![c] = RDCS_CONNECTED]
    /\ m_uThreadId' = TRUE
    /\ lev' = Idle
    /\ UNCHANGED <<stopped, m_pBuffer, capture, notices, m_mapClient, ui,
                   connVars, s2c, c2s, cliVars, crashed>>

\* CScreenBitmap::StopCapture.  DestroyWindow discards the posted messages.
\* A CaptureDesktop that is comparing pLastBuffer frees it a second time.  One that
\* has yet to look finds m_hWnd NULL and has no effect; what may become of m_pBuffer
\* after a stop is the subject of ScreenCapture.
StopCapture ==
    /\ m_uThreadId' = FALSE /\ stopped' = TRUE /\ m_pBuffer' = Null
    /\ capture' = Idle /\ notices' = <<>>
    /\ \/ crashed' = FALSE
       \/ capture = Idle /\ m_pBuffer # Null /\ crashed' = TRUE

\* A faulty OnClientDisconnected: CMainWindow is told only of established sessions.
OnClientDisconnectedInTransfer(c) ==
    /\ ~crashed /\ ui = UiFree /\ lev = [pc |-> "disconnected", conn |-> c]
    /\ m_state' = [m_state EXCEPT ![c] = RDCS_DISCONNECTED]
    /\ m_pAsynSendCommandEvent' = [m_pAsynSendCommandEvent EXCEPT ![c] = FALSE]
    /\ m_queueAsynCommand' = [m_queueAsynCommand EXCEPT ![c] = <<>>]
    /\ m_pnModifiedBlocks' = [m_pnModifiedBlocks EXCEPT ![c] = Null]
    /\ sent' = [sent EXCEPT ![c] = Null] /\ lost' = [lost EXCEPT ![c] = {}]
    /\ IF m_mapClient = {} /\ m_uThreadId /\ m_state[c] = RDCS_TRANSFER
       THEN StopCapture ELSE UNCHANGED <<capVars, crashed>>
    /\ lev' = Idle
    /\ UNCHANGED <<m_mapClient, ui, m_bSendBitmapReady, garbled, s2c, c2s, cliVars>>

\* OnClientDisconnected, CClientConnection::OnError, CMainWindow::OnDisconnect.
\* No one refers to the connection any more; ~CClientConnection empties it.
OnClientDisconnected(c) ==
    /\ ~crashed /\ ui = UiFree /\ lev = [pc |-> "disconnected", conn |-> c]
    /\ m_state' = [m_state EXCEPT ![c] = RDCS_DISCONNECTED]
    /\ m_pAsynSendCommandEvent' = [m_pAsynSendCommandEvent EXCEPT ![c] = FALSE]
    /\ m_queueAsynCommand' = [m_queueAsynCommand EXCEPT ![c] = <<>>]
    /\ m_pnModifiedBlocks' = [m_pnModifiedBlocks EXCEPT ![c] = Null]
    /\ sent' = [sent EXCEPT ![c] = Null] /\ lost' = [lost EXCEPT ![c] = {}]
    /\ IF m_mapClient = {} /\ m_uThreadId THEN StopCapture ELSE UNCHANGED <<capVars, crashed>>
    /\ lev' = Idle
    /\ UNCHANGED <<m_mapClient, ui, m_bSendBitmapReady, garbled, s2c, c2s, cliVars>>

\* CRemoteServer::StopClient with CClientConnection::Stop: out of the map, the
\* event and the bufferevent freed, the socket closed.  m_state is left alone
\* and CMainWindow is not told.  (The DISCONNECT command that Stop sends in
\* states above CONNECTED is not sent from the state this is called in.)
StopClient(c) ==
    /\ m_mapClient' = m_mapClient \ {c}
    /\ m_pAsynSendCommandEvent' = [m_pAsynSendCommandEvent EXCEPT ![c] = FALSE]
    /\ s2c' = [s2c EXCEPT ![c] = <<>>]
    /\ c2s' = [c2s EXCEPT ![c] = <<>>]

-----------------------------------------------------------------------------
(* The UI thread: OnReciveCommand.                                         *)

\* The libevent thread waits with this command for c in SendMessage.
Waiting(c, code) ==
    /\ ~crashed /\ ui = UiFree /\ lev.pc = "command" /\ lev.conn = c
    /\ Head(lev.cmds).code = code

\* The handler returns: that thread goes on with the next command of the chunk.
Return == lev' = IF Len(lev.cmds) = 1 THEN Idle ELSE [lev EXCEPT !.cmds = Tail(@)]

\* A command that is accepted and handled in one step.
Receives(c, code) ==
    /\ Waiting(c, code) /\ ServerAccepts(m_state[c], code)
    /\ Return
    /\ UNCHANGED <<capVars, ui, cliVars, crashed>>

\* CheckCmdCodeValid said no.
IgnoreCommand(c) ==
    /\ \E code \in {RDCC_PROTOCOL_VERSION, RDCC_LOGON, RDCC_COMPRESS_MODE,
                    RDCC_TRANSFER_BITMAP, RDCC_TRANSFER_BITMAP_RESPONSE} :
          Waiting(c, code) /\ ~ServerAccepts(m_state[c], code)
    /\ Return
    /\ UNCHANGED <<capVars, m_mapClient, ui, m_state, connVars, s2c, c2s,
                   cliVars, crashed>>

\* A client of another main version is disconnected.
OnGetProtocalVersion(c) ==
    /\ Receives(c, RDCC_PROTOCOL_VERSION)
    /\ \/ /\ m_state' = [m_state EXCEPT ![c] = RDCS_PROTOCOL_VERSION]
          /\ UNCHANGED <<m_mapClient, m_pAsynSendCommandEvent, s2c, c2s>>
       \/ /\ c \notin Compatible
          /\ StopClient(c)
          /\ UNCHANGED m_state
    /\ UNCHANGED <<m_bSendBitmapReady, m_pnModifiedBlocks, m_queueAsynCommand, sent,
                   lost, garbled>>

\* Any user name and password will do.
OnGetLogon(c) ==
    /\ Receives(c, RDCC_LOGON)
    /\ m_state' = [m_state EXCEPT ![c] = RDCS_LOGON]
    /\ m_queueAsynCommand' =
         [m_queueAsynCommand EXCEPT ![c] = Append(@, Command(RDCC_LOGON_RESULT))]
    /\ UNCHANGED <<m_mapClient, m_pAsynSendCommandEvent, m_bSendBitmapReady,
                   m_pnModifiedBlocks, sent, lost, garbled, s2c, c2s>>

\* The client asks for RDCM_RAW, which CCompressFactory supports.
OnGetCompressMode(c) ==
    /\ Receives(c, RDCC_COMPRESS_MODE)
    /\ m_state' = [m_state EXCEPT ![c] = RDCS_COMPRESS_MODE]
    /\ UNCHANGED <<m_mapClient, connVars, s2c, c2s>>

\* The end of AsynSendTransferBitmap and AsynSend: img, a whole picture, is
\* queued for the connections of S.
QueuePicture(S, img) ==
    /\ m_queueAsynCommand' =
         [c \in Client |->
            IF c \in S /\ m_pAsynSendCommandEvent[c]
            THEN Append(m_queueAsynCommand[c], Image(RDCC_TRANSFER_BITMAP, img))
            ELSE m_queueAsynCommand[c]]
    /\ sent' = [c \in Client |-> IF c \in S THEN img ELSE sent[c]]
    /\ lost' = [c \in Client |-> IF c \in S THEN {} ELSE lost[c]]

\* The beginning of AsynSendTransferBitmap: the modified blocks are forgotten.
ForgetModifiedBlocks(S) ==
    m_pnModifiedBlocks' = [c \in Client |-> IF c \in S THEN <<>> ELSE m_pnModifiedBlocks[c]]

\* OnGetTransferBitmap.  Without a screen buffer there is nothing to send yet;
\* with one, JPEG::Compress starts to read it.
OnGetTransferBitmap(c) ==
    /\ Waiting(c, RDCC_TRANSFER_BITMAP) /\ ServerAccepts(m_state[c], RDCC_TRANSFER_BITMAP)
    /\ m_state' = [m_state EXCEPT ![c] = RDCS_TRANSFER]
    /\ IF m_pBuffer = Null
       THEN Return /\ UNCHANGED <<ui, m_pnModifiedBlocks>>
       ELSE /\ ForgetModifiedBlocks({c})
            /\ ui' = [UiFree EXCEPT !.pc = "compress", !.conn = c, !.img = m_pBuffer]
            /\ UNCHANGED lev
    /\ UNCHANGED <<capVars, m_mapClient, m_pAsynSendCommandEvent,
                   m_bSendBitmapReady, m_queueAsynCommand, sent, lost, garbled, s2c, c2s,
                   cliVars, crashed>>

\* JPEG::Compress ends.  If the buffer was freed under it, the read may have
\* found the old pixels still there, or garbage, or an unmapped page.
JPEG_Compress(c) ==
    /\ ~crashed /\ ui.pc = "compress" /\ ui.conn = c
    /\ \E img \in {ui.img} \cup (IF ui.torn THEN {[b \in Block |-> Torn]} ELSE {}) :
          /\ QueuePicture({c}, img)
          /\ garbled' = [garbled EXCEPT ![c] = img # ui.img]
    /\ ui' = UiFree
    /\ Return
    /\ UNCHANGED <<capVars, m_mapClient, m_state, m_pAsynSendCommandEvent,
                   m_bSendBitmapReady, m_pnModifiedBlocks, s2c, c2s, cliVars, crashed>>

JPEG_CompressFaults ==
    /\ ~crashed /\ ui.pc = "compress" /\ ui.torn
    /\ crashed' = TRUE
    /\ UNCHANGED <<capVars, m_mapClient, lev, ui, m_state, connVars, s2c, c2s,
                   cliVars>>

\* The client acknowledges every image with result 0.
OnGetTransferBitmapResult(c) ==
    /\ Receives(c, RDCC_TRANSFER_BITMAP_RESPONSE)
    /\ m_bSendBitmapReady' = [m_bSendBitmapReady EXCEPT ![c] = TRUE]
    /\ UNCHANGED <<m_mapClient, m_state, m_pAsynSendCommandEvent, m_pnModifiedBlocks,
                   m_queueAsynCommand, sent, lost, garbled, s2c, c2s>>

-----------------------------------------------------------------------------
(* The UI thread: news from the capture thread.                            *)

\* Faulty: a connection has to be ready for its first picture already.
FirstBitmapReadyReceivers ==
    {c \in m_mapClient : m_state[c] = RDCS_TRANSFER /\ m_bSendBitmapReady[c]}

\* The connections CRemoteServer::OnScreenFirstBitmap queues a picture for.
FirstBitmapReceivers == {c \in m_mapClient : m_state[c] = RDCS_TRANSFER}

\* OnFirstBitmap down to AsynSendTransferBitmap of every connection in the
\* TRANSFER state.  The capture thread waits in SendMessage, so nothing frees
\* the buffer meanwhile.
OnFirstBitmap ==
    /\ ~crashed /\ ui = UiFree /\ capture.pc = "first"
    /\ LET S == FirstBitmapReceivers
       IN  /\ ForgetModifiedBlocks(S)
           /\ QueuePicture(S, m_pBuffer)
           /\ garbled' = [c \in Client |-> c \notin S /\ garbled[c]]
    /\ capture' = Idle
    /\ UNCHANGED <<m_uThreadId, stopped, m_pBuffer, notices, m_mapClient, lev,
                   ui, m_state, m_pAsynSendCommandEvent, m_bSendBitmapReady, s2c, c2s,
                   cliVars, crashed>>

\* CScreenBitmap::OnModified and CRemoteServer::OnScreenModified: the loop over
\* the connections starts, under m_lockClient.
OnModified ==
    /\ ~crashed /\ ui = UiFree /\ notices # <<>>
    /\ notices' = Tail(notices)
    /\ ui' = IF m_mapClient = {} THEN UiFree
             ELSE [UiFree EXCEPT !.pc = "notify", !.todo = m_mapClient,
                                 !.blocks = Head(notices)]
    /\ UNCHANGED <<m_uThreadId, stopped, m_pBuffer, capture, m_mapClient, lev,
                   m_state, connVars, s2c, c2s, cliVars, crashed>>

\* The loop goes on after c.
LoopAfter(c) ==
    IF ui.todo = {c} THEN UiFree
    ELSE [UiFree EXCEPT !.pc = "notify", !.todo = ui.todo \ {c}, !.blocks = ui.blocks]

\* CClientConnection::OnScreenModified: the blocks join the list, and if the
\* client is ready AsynSendTransterModifyBitmap starts.
OnScreenModified(c) ==
    /\ ~crashed /\ ui.pc = "notify" /\ c \in ui.todo /\ m_pnModifiedBlocks[c] # Null
    /\ LET old == m_pnModifiedBlocks[c]
           new == AddModifiedBlocks(old, Ascending(ui.blocks), BlockCount)
       IN  /\ m_pnModifiedBlocks' = [m_pnModifiedBlocks EXCEPT ![c] = new]
           /\ lost' = [lost EXCEPT ![c] = (@ \cup ToSet(old) \cup ui.blocks) \ ToSet(new)]
    /\ IF m_bSendBitmapReady[c] /\ m_state[c] = RDCS_TRANSFER /\ m_pAsynSendCommandEvent[c]
       THEN /\ m_bSendBitmapReady' = [m_bSendBitmapReady EXCEPT ![c] = FALSE]
            /\ ui' = [ui EXCEPT !.pc = "clip", !.conn = c]
       ELSE /\ ui' = LoopAfter(c)
            /\ UNCHANGED m_bSendBitmapReady
    /\ UNCHANGED <<capVars, m_mapClient, lev, m_state, m_pAsynSendCommandEvent,
                   m_queueAsynCommand, sent, garbled, s2c, c2s, cliVars, crashed>>

\* The same with no list yet: memcpy to NULL.
OnScreenModifiedNull(c) ==
    /\ ~crashed /\ ui.pc = "notify" /\ c \in ui.todo /\ m_pnModifiedBlocks[c] = Null
    /\ crashed' = TRUE
    /\ UNCHANGED <<capVars, m_mapClient, lev, ui, m_state, connVars, s2c, c2s,
                   cliVars>>

\* ClipBitmapRect has copied the last row of the next block.
ClipBitmapRect ==
    /\ ~crashed /\ ui.pc = "clip" /\ ui.next <= Len(m_pnModifiedBlocks[ui.conn])
    /\ LET block == m_pnModifiedBlocks[ui.conn][ui.next]
           pixels == IF ui.torn THEN Torn ELSE m_pBuffer[block]
       IN  ui' = [ui EXCEPT !.next = @ + 1, !.torn = FALSE,
                            !.img = [b \in DOMAIN @ \cup {block} |->
                                        IF b = block THEN pixels ELSE @[b]]]
    /\ UNCHANGED <<capVars, m_mapClient, lev, m_state, connVars, s2c, c2s,
                   cliVars, crashed>>

\* AsynSendTransterModifyBitmap has every block: it queues the image, and
\* OnScreenModified empties the list and returns to the loop.
AsynSendTransterModifyBitmap(c) ==
    /\ ~crashed /\ ui.pc = "clip" /\ ui.conn = c /\ ui.next > Len(m_pnModifiedBlocks[c])
    /\ m_queueAsynCommand' =
         [m_queueAsynCommand EXCEPT ![c] = Append(@, Image(RDCC_TRANSFER_MODIFY_BITMAP, ui.img))]
    /\ m_pnModifiedBlocks' = [m_pnModifiedBlocks EXCEPT ![c] = <<>>]
    /\ sent' = [sent EXCEPT ![c] = Drawn(ui.img, @)]
    /\ ui' = LoopAfter(c)
    /\ UNCHANGED <<capVars, m_mapClient, lev, m_state, m_pAsynSendCommandEvent,
                   m_bSendBitmapReady, lost, garbled, s2c, c2s, cliVars, crashed>>

-----------------------------------------------------------------------------
(* The client.  c2s holds what its libevent thread has yet to write, too.  *)

\* CRemoteClient::OnConnected: version and logon are sent without waiting.
ClientOnConnected(c) ==
    /\ ~crashed /\ cliState[c] = RDCS_INVALID
    /\ cliState' = [cliState EXCEPT ![c] = RDCS_LOGON]
    /\ c2s' = [c2s EXCEPT ![c] = <<Command(RDCC_PROTOCOL_VERSION), Command(RDCC_LOGON)>>]
    /\ UNCHANGED <<capVars, m_mapClient, lev, ui, m_state, connVars, s2c, view,
                   crashed>>

\* The state after OnGetLogonResult, OnGetTransferBitmap and
\* OnGetTransferModifyBitmap, ...
ClientStateAfter(state, m) ==
    CASE m.code = RDCC_LOGON_RESULT    -> RDCS_COMPRESS_MODE
      [] m.code = RDCC_TRANSFER_BITMAP -> RDCS_TRANSFER
      [] OTHER                         -> state

\* Faulty replies: an image is acknowledged on receipt and again when drawn;
\* or only whole pictures are.
ClientRepliesTwice(m) ==
    IF IsImage(m)
    THEN <<Command(RDCC_TRANSFER_BITMAP_RESPONSE), Command(RDCC_TRANSFER_BITMAP_RESPONSE)>>
    ELSE <<Command(RDCC_COMPRESS_MODE), Command(RDCC_TRANSFER_BITMAP)>>

ClientRepliesToWholePictures(m) ==
    CASE m.code = RDCC_TRANSFER_BITMAP        -> <<Command(RDCC_TRANSFER_BITMAP_RESPONSE)>>
      [] m.code = RDCC_TRANSFER_MODIFY_BITMAP -> <<>>
      [] OTHER -> <<Command(RDCC_COMPRESS_MODE), Command(RDCC_TRANSFER_BITMAP)>>

\* ... the commands they send ...
ClientReplies(m) ==
    IF IsImage(m) THEN <<Command(RDCC_TRANSFER_BITMAP_RESPONSE)>>
    ELSE <<Command(RDCC_COMPRESS_MODE), Command(RDCC_TRANSFER_BITMAP)>>

\* ... and what the window shows after CMainWindow has drawn the image.
ClientViewAfter(picture, m) ==
    CASE m.code = RDCC_TRANSFER_BITMAP                           -> m.img
      [] m.code = RDCC_TRANSFER_MODIFY_BITMAP /\ picture # Null -> Drawn(m.img, picture)
      [] OTHER                                                   -> picture

\* CRemoteClient::OnReciveCommand: what CheckCmdCodeValid rejects is dropped.
ClientOnReciveCommand(c) ==
    /\ ~crashed /\ s2c[c] # <<>>
    /\ LET m == Head(s2c[c])
       IN  IF ClientAccepts(cliState[c], m.code)
           THEN /\ cliState' = [cliState EXCEPT ![c] = ClientStateAfter(@, m)]
                /\ view' = [view EXCEPT ![c] = ClientViewAfter(@, m)]
                /\ c2s' = [c2s EXCEPT ![c] = @ \o ClientReplies(m)]
           ELSE UNCHANGED <<cliVars, c2s>>
    /\ s2c' = [s2c EXCEPT ![c] = Tail(@)]
    /\ UNCHANGED <<capVars, m_mapClient, lev, ui, m_state, connVars, crashed>>

-----------------------------------------------------------------------------
CaptureThread == CaptureFirst \/ CaptureSwap

LibeventThread(c) ==
    listener_cb(c) \/ conn_readcb(c) \/ OnAsynSendCommand(c)

OnReciveCommand(c) ==
    \/ IgnoreCommand(c) \/ OnGetProtocalVersion(c) \/ OnGetLogon(c)
    \/ OnGetCompressMode(c) \/ OnGetTransferBitmap(c) \/ OnGetTransferBitmapResult(c)

\* What the UI thread does inside a handler it has started.
Busy(c) ==
    \/ OnScreenModified(c) \/ OnScreenModifiedNull(c)
    \/ AsynSendTransterModifyBitmap(c) \/ JPEG_Compress(c)

Next ==
    \/ CaptureThread \/ JPEG_CompressFaults
    \/ OnFirstBitmap \/ OnModified \/ ClipBitmapRect
    \/ \E c \in Client :
         \/ LibeventThread(c) \/ conn_eventcb(c)
         \/ OnClientConnected(c) \/ OnClientDisconnected(c) \/ OnReciveCommand(c)
         \/ Busy(c)
         \/ ClientOnConnected(c) \/ ClientOnReciveCommand(c)

Spec == Init /\ [][Next]_vars

\* Every thread and every client runs.  libevent serves all active events of a
\* loop before it polls again, and Windows hands a thread the messages sent to
\* it before the posted ones, so no handler is passed over for ever: SF where
\* another handler can take the thread in between.  Nothing is assumed of the
\* desktop, of the network's failures, or of clients that never connect.
Fairness ==
    /\ WF_vars(CaptureFirst)
    /\ SF_vars(OnFirstBitmap) /\ SF_vars(OnModified)
    /\ WF_vars(ClipBitmapRect)
    /\ \A c \in Client :
         /\ SF_vars(listener_cb(c)) /\ SF_vars(conn_readcb(c)) /\ SF_vars(OnAsynSendCommand(c))
         /\ SF_vars(OnClientConnected(c) \/ OnClientDisconnected(c) \/ OnReciveCommand(c))
         /\ WF_vars(Busy(c))
         /\ WF_vars(ClientOnReciveCommand(c))

FairSpec == Spec /\ Fairness

-----------------------------------------------------------------------------
(* Correctness.                                                            *)

PartialImage == UNION {[B -> Pixels] : B \in SUBSET Block}
Images == [code : {RDCC_TRANSFER_BITMAP}, img : [Block -> Pixels]]
          \cup [code : {RDCC_TRANSFER_MODIFY_BITMAP}, img : PartialImage]
Commands(codes) == [code : codes]

ServerCommand == Commands({RDCC_LOGON_RESULT}) \cup Images
ClientCommand ==
    Commands({RDCC_PROTOCOL_VERSION, RDCC_LOGON, RDCC_COMPRESS_MODE,
              RDCC_TRANSFER_BITMAP, RDCC_TRANSFER_BITMAP_RESPONSE})

\* Every variable keeps its type: among others the block list never outgrows
\* its allocation, and a thread's program counter fits what it holds.
TypeOK ==
    /\ m_uThreadId \in BOOLEAN /\ stopped \in BOOLEAN /\ crashed \in BOOLEAN
    /\ m_pBuffer \in Bitmap \cup {Null}
    /\ capture \in {Idle} \cup [pc : {"first"}]
    /\ notices \in Seq((SUBSET Block) \ {{}}) /\ Len(notices) <= MaxNotices
    /\ m_mapClient \subseteq Client
    /\ lev \in {Idle} \cup [pc : {"connected", "disconnected"}, conn : Client]
               \cup [pc : {"command"}, conn : Client, cmds : Seq(ClientCommand) \ {<<>>}]
    /\ ui \in [pc : {"free", "notify", "clip", "compress"}, todo : SUBSET Client,
               blocks : SUBSET Block, conn : Client \cup {Null}, next : Nat,
               img : PartialImage, torn : BOOLEAN]
    /\ m_state \in [Client -> ConnectionState]
    /\ m_pAsynSendCommandEvent \in [Client -> BOOLEAN]
    /\ m_bSendBitmapReady \in [Client -> BOOLEAN]
    /\ m_pnModifiedBlocks \in [Client -> Seq(Block) \cup {Null}]
    /\ \A c \in Client :
         m_pnModifiedBlocks[c] # Null => Len(m_pnModifiedBlocks[c]) <= BlockCount
    /\ m_queueAsynCommand \in [Client -> Seq(ServerCommand)]
    /\ s2c \in [Client -> Seq(ServerCommand)] /\ c2s \in [Client -> Seq(ClientCommand)]
    /\ cliState \in [Client -> {RDCS_INVALID, RDCS_LOGON, RDCS_COMPRESS_MODE, RDCS_TRANSFER}]
    /\ view \in [Client -> [Block -> Pixels] \cup {Null}]
    /\ sent \in [Client -> [Block -> Pixels] \cup {Null}]
    /\ lost \in [Client -> SUBSET Block] /\ garbled \in [Client -> BOOLEAN]

\* An image is being made for c: a whole picture, or one of the blocks in its list.
Compresses(c) == ui.pc = "compress" /\ ui.conn = c
Clips(c)      == ui.pc = "clip" /\ ui.conn = c

\* The picture the connection counts on having sent: the one being compressed
\* at this moment, or the last one queued.
Pictured(c) == IF Compresses(c) THEN ui.img ELSE sent[c]

\* Somewhere the change of b is still on its way to c's next image: posted,
\* in the hands of OnScreenModified, or in the list.
Pending(c, b) ==
    \/ \E i \in 1..Len(notices) : b \in notices[i]
    \/ c \in ui.todo /\ b \in ui.blocks
    \/ m_pnModifiedBlocks[c] # Null /\ b \in ToSet(m_pnModifiedBlocks[c])

\* No change of the screen is forgotten.  A block whose last sent contents are
\* not those of the last capture is on its way to the next image, unless the
\* merge dropped it or the whole picture was read from freed memory.  The
\* capture thread swaps buffers at any moment of this: between the message and
\* its handling, between two blocks of an image, between two rows of a block.
Coverage ==
    \A c \in m_mapClient : \A b \in Block :
        /\ ~crashed /\ Pictured(c) # Null /\ ~garbled[c]
        /\ Pictured(c)[b] # m_pBuffer[b]
        => Pending(c, b) \/ b \in lost[c]

InFlight(c) == s2c[c] \o m_queueAsynCommand[c]

\* What c's window will show when it has drawn all that is on its way is what
\* the server believes to have sent: nothing in flight is drawn out of order,
\* dropped by CheckCmdCodeValid, or drawn into a window with no picture yet.
DrawnIsSent ==
    \A c \in m_mapClient :
        ~crashed => sent[c] = FoldLeft(ClientViewAfter, view[c], InFlight(c))

\* When nothing is on its way in either direction and nothing is pending, the
\* window shows the last capture, whatever the threads did before.
QuiescentMeansSynced ==
    \A c \in m_mapClient :
        /\ ~crashed /\ view[c] # Null /\ ~garbled[c] /\ lost[c] = {} /\ ui = UiFree
        /\ InFlight(c) = <<>>
        /\ \A b \in Block : ~Pending(c, b)
        => view[c] = m_pBuffer

Answered(cmds) == \E i \in 1..Len(cmds) : cmds[i].code = RDCC_TRANSFER_BITMAP_RESPONSE

\* Once a picture has been queued, something always leads to the next image:
\* the connection is ready, an image is being made or is on its way, or its
\* acknowledgement is.  No order of events loses the only one.
TransferNeverStalls ==
    \A c \in m_mapClient :
        ~crashed /\ sent[c] # Null =>
            \/ m_bSendBitmapReady[c]
            \/ Clips(c)
            \/ \E i \in 1..Len(m_queueAsynCommand[c]) : IsImage(m_queueAsynCommand[c][i])
            \/ \E i \in 1..Len(s2c[c]) : IsImage(s2c[c][i])
            \/ Answered(c2s[c])
            \/ lev.pc = "command" /\ lev.conn = c /\ Answered(lev.cmds)

CountOf(cmds, codes) == Cardinality({i \in 1..Len(cmds) : cmds[i].code \in codes})
ImageCodes  == {RDCC_TRANSFER_BITMAP, RDCC_TRANSFER_MODIFY_BITMAP}
AnswerCodes == {RDCC_TRANSFER_BITMAP_RESPONSE}
One(p) == IF p THEN 1 ELSE 0

\* The commands of c that the libevent thread has read and not yet handed over.
Brought(c) == IF lev.pc = "command" /\ lev.conn = c THEN lev.cmds ELSE <<>>

\* Images made for c and not acknowledged, and the leave to make one.
Unacknowledged(c) ==
    CountOf(InFlight(c), ImageCodes) + CountOf(c2s[c], AnswerCodes) + CountOf(Brought(c), AnswerCodes)
      + One(m_bSendBitmapReady[c]) + One(ui.pc \in {"clip", "compress"} /\ ui.conn = c)

\* The acknowledgements are flow control: however slow the client, there are
\* never more than two images made and not acknowledged.  (Two, because the
\* first picture is sent twice when the client's request arrives between the
\* first capture and the message that announces it.)
AtMostTwoImages == \A c \in m_mapClient : ~crashed => Unacknowledged(c) <= 2

\* The merge drops a block only when the list is as long as there are blocks.
LossOnlyWhenFull ==
    [][\A c \in Client : ~(lost'[c] \subseteq lost[c])
                          => Len(m_pnModifiedBlocks'[c]) = BlockCount]_vars

\* m_lockClient works: a connection that OnScreenModified has yet to visit, or
\* is making an image for, is still in the map, whatever the libevent thread
\* does meanwhile; and so is the one whose picture is being compressed.
LoopStaysInMap ==
    ui.todo \subseteq m_mapClient /\ (ui.conn # Null => ui.conn \in m_mapClient)

\* A connection that stays up gets its first picture: the handshake comes to an
\* end in every order of the client's request and the first capture.
FirstPictureArrives ==
    \A c \in Client :
        c \in m_mapClient ~> view[c] # Null \/ c \notin m_mapClient \/ crashed

\* A change is put off while the client is behind, but not for ever: as long as
\* the screen keeps changing, a list that is not empty goes out.
ListIsFlushed ==
    \A c \in Client :
        []<><<OnModified>>_vars
        => ((c \in m_mapClient /\ m_pnModifiedBlocks[c] \notin {Null, <<>>})
            ~> (m_pnModifiedBlocks[c] \in {Null, <<>>} \/ c \notin m_mapClient))

\* What def.h says of the states: images are transferred after verification, so
\* a connection that OnScreenModified reaches is in the TRANSFER state.
ImagesOnlyInTransfer == \A c \in ui.todo : m_state[c] = RDCS_TRANSFER

\* What OnScreenModified says of its list: new changes are merged into it, so
\* none is dropped.
MergeLosesNothing == \A c \in Client : lost[c] = {}

\* The server closed the connection itself, because of the client's version.
TurnedAway(c) == lev = Idle /\ c \notin m_mapClient /\ m_state[c] = RDCS_CONNECTED

\* When the last connection has broken, in whatever state it was and wherever the
\* capture thread is, capturing stops: CMainWindow::OnDisconnect sees to it.  It is
\* not told of connections that StopClient closes, after which capturing goes on.
CaptureStops ==
    m_uThreadId ~> \/ ~m_uThreadId \/ m_mapClient # {} \/ crashed
                   \/ \E c \in Client : TurnedAway(c)
=============================================================================
